SPECIFICATION AllSpec
CONSTANTS
  r1 = r1  r2 = r2  m1 = m1  k1 = k1  k2 = k2
  Readers = {r1, r2}
  Mutators = {m1}
  Keys = {k1, k2}
  None = None
  Failure = Failure
  MaxEntries = 1
  MaxLoads = 3
  MaxReads = 3
  MaxChanges = 1
  MaxMutations = 1
  MaxClears = 1
  a = a  b = b  c = c  o1 = o1  o2 = o2
  Workers = {w1, w2}
  Catalogs <- SmallCatalogs
  Retries = 2
  MaxWaits = 1
  CheckpointEvery = 1
  Budget = 0
  Interval = 2
  MinRows = 1
  MaxSweeps = 2
  SweepCrashes = 1
  MaxClicks = 3
  Cooldown = 2
  JobTime = 3
  JobUpsets = 2
  Installs = {i1}
  MaxAttempts = 2
  DayLength = 2
  Gap = 1
  CheckInTime = 4
  CheckInUpsets = 2
  SigningKeys = {k1, k2}
  Refresh = 2
  Backoff = 1
  Expiry = 3
  Timeout = 1
  SignInTime = 6
  MaxRotations = 2
  MaxRequests = 3
  MaxMessages = 2
  Arrival = 2
  Departure = 5
  Hour = 1
  OneDay = 2
  ReminderTime = 8
  ReminderEvents = 2
  SoldOrders = {o1, o2}
  SoldItems = {a, b, c}
  Unnamed = {c}
  SoldGiven <- Sales
  Odd = {}
  Seeded <- Listed
  MaxQuantity = 3
  MaxSales = 2
  MaxEdits = 1
  SaleFaults = 1
  SurfaceKeys = {k1, k2}
  StaleDays = 2
  LastDay = 4
  HistoryItems = {i1}
  Lengths = {3, 2}
  Bootstrap = 2
  LastHistoryDay = 5
INVARIANTS
  FreshAfterMutation PublishedIsOneSweep StartsAreSpaced CompleteIsExact RevokedKeysStop
  RemindedOnce ToldTheTruth StampIsHonest GapsAreNamed
PROPERTY NothingIsLost
CHECK_DEADLOCK FALSE
