SPECIFICATION MCSpec
CONSTANTS
  Process = {p1}
  PlanId = {n1}
  ApprovalId = {a1}
  Ttl <- MCTtl
  MaxClock = 0
  x = x
  y = y
  locked = locked
  Path <- MCPath
  Protected <- MCProtected
  File = {f1}
  Item = {i1}
  UserWaits = TRUE
  MaxFaults = 0
  MaxPaths = 1
  Parts = {"batch"}
  ConfigMode = "analysis"
  NoBody = NoBody
  NoRow = NoRow
  NoPlan = NoPlan
  NoToken = NoToken
  NoFile = NoFile
  NoItem = NoItem
  NoPath = NoPath
  NoProcess = NoProcess
SYMMETRY MCSymmetry
INVARIANTS
  AnalysisChangesNothing
