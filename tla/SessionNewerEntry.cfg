SPECIFICATION Spec
CONSTANTS
  Tasks = {t1, t2}
  Nobody = Nobody
  NoLogin = NoLogin
  Torn = Torn
  UseKeyring = TRUE
  MaxLogins = 2
  MaxLogouts = 1
  MaxUnlocks = 1
  MaxBatches = 0
  MaxCrashes = 0
PROPERTY NewerEntryKept
CHECK_DEADLOCK FALSE
