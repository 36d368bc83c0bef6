SPECIFICATION BothSpec
CONSTANTS
  Tasks = {t1, t2}
  Nobody = Nobody
  NoLogin = NoLogin
  Torn = Torn
  UseKeyring = TRUE
  MaxLogins = 2
  MaxLogouts = 1
  MaxUnlocks = 2
  MaxBatches = 1
  MaxCrashes = 1
  NoCard = NoCard
  MaxCards = 1
  MaxScreens = 1
  MaxSlots = 1
  MaxEvents = 2
INVARIANTS LogoutWins BatchAccountStands
PROPERTIES Returns NoticeComesDown
CHECK_DEADLOCK FALSE
