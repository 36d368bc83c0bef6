SPECIFICATION AllSpec
CONSTANTS
  p1 = p1  p2 = p2  e1 = e1  k1 = k1  k2 = k2  s1 = s1  s2 = s2  ta = ta  tb = tb
  PlanCallers = {p1}
  Editors = {e1}
  Nobody = Nobody
  BatchSize = 1
  Keys = {k1}
  Slots = {s1}
  Terms = {ta, tb}
  NoOrder = NoOrder
  InitialOrders <- NoneOrAll
  Batches <- EachMode
  Absent = Absent
  Unreadable = Unreadable
  MaxPlans = 2
  MaxCrashes = 1
  MaxUserEdits = 1
  MaxSends = 2
  MaxTrades = 2
  MaxClicks = 4
  MaxUpsets = 2
  TRADES_PER_PASS = 2
  MAX_SALES_PER_BATCH = 1
  None = None
  FirstDelay = 1
  PromptRetry = 1
  PromptAttempts = 1
  Cadence = 2
  MaxSnapshots = 2
  MaxMoves = 2
  MaxFaults = 1
INVARIANTS AtMostOnce LatestIsAtHand
PROPERTIES OnlyDiscardEnds RemovedNotSentAgain AgreedArrives SnapshotArrives
CHECK_DEADLOCK FALSE
