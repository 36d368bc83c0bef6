SPECIFICATION Spec
CONSTANTS
  Daily = 2
  MaxTrades = 2
  MaxScans = 1
  MaxUpsets = 2
  None = None
INVARIANTS EveryGapStops
CHECK_DEADLOCK FALSE
