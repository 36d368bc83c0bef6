SPECIFICATION BothSpec
CONSTANTS
  open = open  paused = paused
  MaxRevision = 3
  Bodies = {open, paused}
  MaxKey = 2
  None = None
  MaxServes = 3
  MaxFailures = 2
  MaxCrashes = 1
  Daily = 2
  MaxTrades = 2
  MaxScans = 1
  MaxUpsets = 2
INVARIANTS NewestInForce CertifiedFigure
PROPERTIES CatchesUp TradesAreRecorded
CHECK_DEADLOCK FALSE
