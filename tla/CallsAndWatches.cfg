SPECIFICATION BothSpec
CONSTANTS
  t1 = t1  t2 = t2  t3 = t3
  Forever = Forever
  Threads = {t1, t2}
  Classes <- Mixed
  Policies <- Tightened
  Default <- TwoOpen
  MaxQueue = 2
  MaxConcurrent = 2
  Streak = 2
  ShortWait = 1
  MaxCooldown = 2
  Expiries = {Forever}
  MaxThrottles = 1
  MaxFailures = 1
  MaxPolicies = 1
  MaxCrashes = 1
  MaxCancels = 1
  MAX_WATCHES = 2
  Rearm = 2
  MaxAdds = 2
  MaxEvents = 1
  None = None
INVARIANTS BackgroundTurn MutationNotRepeated AlertsSpaced
PROPERTY CooldownHonoured
SYMMETRY ThreadSymmetry
