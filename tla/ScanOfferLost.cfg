SPECIFICATION Spec
CONSTANTS
  FirstDelay = 1
  PromptRetry = 2
  PromptAttempts = 1
  Cadence = 3
  MaxSnapshots = 1
  MaxMoves = 3
  MaxFaults = 1
PROPERTY OfferKept
CHECK_DEADLOCK FALSE
