SPECIFICATION PartsSpec
CONSTANTS
  Readers = {t1, t2}
  Appenders = {a1, a2}
  Items <- PushItems
  PageSize = 1
  Rows = {x1}
  Times = {0}
  PushLimit = 1
  MaxWrites = 2
  MaxFaults = 1
  Nobody = Nobody
  MintedKeys = {1, 2}
  NoneKey = NoneKey
  Machines = {"m1"}
  Launches = {1, 2}
  MachineOf <- OneEach
  Callers = {c1}
  MaxCalls = 3
  Bearers = {1, 2}
  Posts = {1, 2}
  MaxWipes = 1
  MaxUpsets = 1
  Emails = {e1, e2}
  Importable = {e1}
  Tags = {"a", "ab"}
  PartOf <- Tagged
  BookCampaigns = {c1}
  BookCalls = {r1}
  MaxIds = 2
  Templates = {t1}
  Companies = {k1}
  Campaigns = {d1}
  Contents = {h1, h2}
  Presses = {p1, p2}
  Absent = Absent
  None = None
  DayLength = 6
  WindowStart = 4
  WindowLength = 3
  RushTail = 1
  Gaps = {1, 2}
  RushGaps = {1}
  Cursors = {1, 2, 3}
  FirstCursor = 1
  Stagger <- Lag
  Slack = 0
  Counts = {0, 3, 5}
  Caps = {0, 1, 2}
  Starts = {0, 5, 6, 7}
  MaxEvents = 2
  Nothing = Nothing
SYMMETRY PartsSymmetry
INVARIANTS
  PartsInv
  CursorCovers
  PushedIsStored
  InboxesAgree
  LatestKeyActive
  NoRetiredKey
  NoBearerWithoutKey
  BearerWorks
  EnvelopesOpen
  LaunchedWasTested
  ScheduleHonoured
  CompleteIsWhole
CHECK_DEADLOCK FALSE
