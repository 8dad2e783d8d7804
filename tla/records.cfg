SPECIFICATION MCSpec
CONSTANTS
  Parts = {"approvals", "log", "interface", "both", "classic", "backup", "digest"}
  Process = {p1, p2}
  PlanId = {i1}
  trashBody = trashBody
  purgeBody = purgeBody
  Body <- MCBody
  RiskOf <- MCRiskOf
  ApprovalId = {a1, a2}
  Ttl <- MCTtl
  MaxClock = 1
  NoBody = NoBody
  NoRow = NoRow
  NoPlan = NoPlan
  NoToken = NoToken
  Writer = {w1, w2}
  First = w1
  NoEvent = NoEvent
  MaxEvents = 4
  MaxSignals = 2
  a1 = a1
  a2 = a2
  t1 = t1
  t2 = t2
  r1 = r1
  r2 = r2
  AppRun = {r1, r2}
  TermRun = {t1, t2}
  Naming = {r1}
  NoRun = NoRun
  AppLimit = 3
  TermLimit = 4
  MaxMessages = 2
  TailMessages = 1
  MaxFacts = 1
  MaxSessions = 2
  MaxClears = 1
  Chat = {h1, h2}
  Text <- MCText
  Torn = Torn
  NoInode = NoInode
  Kept = 2
  MaxExchanges = 3
  MaxDeaths = 1
  f1 = f1
  f2 = f2
  n1 = n1
  n2 = n2
  d1 = d1
  d2 = d2
  d3 = d3
  File = {f1, f2}
  Base = {n1, n2}
  BaseOf <- MCBaseOf
  Spare <- MCSpare
  PartOf <- MCPartOf
  Content = {d1, d2}
  Nothing = Nothing
  TornCopy = TornCopy
  Selections <- MCSelections
  Applier = {p1, p2}
  Retries = 1
  MaxCopy = 2
  MaxEdits = 1
  MaxApprovals = 2
  u = u
  v = v
  Path = {u, v}
  Walk <- MCWalk
  NameOf <- MCNameOf
  Bytes = {d1, d2, d3}
  Gone = Gone
  SizeOf <- MCSizeOf
  EndsOf <- MCEndsOf
  None = None
  Searcher = {p1, p2}
  MaxWrites = 1
INVARIANTS
  TypeOK
  GrantedAsApproved
  WorkIsOnRecord
  ReuseBound
  RecordHolds
  ConversationKept
  CancelStopsShownRun
  HistoryWhole
  BackupKeeps
  DuplicatesAreSame
SYMMETRY MCSymmetry
CHECK_DEADLOCK FALSE
