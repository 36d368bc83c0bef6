SPECIFICATION AllSpec
CONSTANTS
  p1 = p1  e1 = e1  k1 = k1  k2 = k2  s1 = s1  ta = ta  tb = tb
  Nobody = Nobody
  NoOrder = NoOrder
  Absent = Absent
  Unreadable = Unreadable
  BatchSize = 2
  MaxPlans = 1
  MaxUserEdits = 1
  MaxSends = 2
  t1 = t1  t2 = t2  t3 = t3
  Forever = Forever
  Threads = {t1, t2, t3}
  Classes <- Reads
  Policies <- NoPolicies
  Default <- TwoOpen
  MaxQueue = 3
  MaxConcurrent = 2
  Streak = 1
  ShortWait = 1
  MaxCooldown = 1
  Expiries = {Forever}
  MaxThrottles = 0
  MaxFailures = 0
  MaxPolicies = 0
  MaxCrashes = 0
  MaxCancels = 0
  MAX_WATCHES = 2
  Rearm = 2
  MaxAdds = 1
  MaxEvents = 3
  None = None
INVARIANT JournalTellsTheTruth
PROPERTIES EveryCallLeaves OffersOnce SatisfiedIsAlerted
