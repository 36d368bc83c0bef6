SPECIFICATION AllSpec
CONSTANTS
  a1 = a1  m1 = m1  short = short
  Actors = {a1}
  Ids = {m1}
  Contents = {short}
  Ends <- EndsAt
  Malformed = {}
  MaxRids = 3
  Clock = {1, 4}
  Retention = 1
  MaxListed = 1
  None = None
  Missing = Missing
  Blank = Blank
  MaxChanges = 3
  MaxUpsets = 3
  r1 = r1  r2 = r2
  Refreshers = {r1, r2}
  Readers = {n1}
  n1 = n1
  Nobody = Nobody
  MaxVersions = 2
  MaxWrites = 3
  MaxDefinitions = 3
  MaxFaults = 1
  MaxEvents = 3
  UserSettings <- Chosen
  NoStatus = NoStatus
INVARIANTS ExportedIsPublic TagsNameWhatIsHeld ParsedIsTheFile OwnChangeKept
PROPERTIES ReviewedIsApplied PublicCatchesUp SnapshotsMoveForward KeptUpIsShown
CHECK_DEADLOCK FALSE
