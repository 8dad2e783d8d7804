SPECIFICATION MCSpec
CONSTANTS
  Process = {p1, p2}
  PlanId = {n1, n2}
  ApprovalId = {a1, a2}
  Ttl <- MCTtl
  MaxClock = 0
  x = x
  y = y
  locked = locked
  Path <- MCPath
  Protected <- MCProtected
  File = {f1, f2}
  Item = {i1, i2}
  UserWaits = TRUE
  MaxFaults = 1
  MaxPaths = 2
  Parts = {"pair", "batch"}
  ConfigMode = "controlled"
  NoBody = NoBody
  NoRow = NoRow
  NoPlan = NoPlan
  NoToken = NoToken
  NoFile = NoFile
  NoItem = NoItem
  NoPath = NoPath
  NoProcess = NoProcess
SYMMETRY MCSymmetry
INVARIANTS
  TypeOK
  ActsWithinPlan
  RowsCiteTheirApproval
  AppliedMeansMoved
PROPERTIES
  DeletionConfirmed
CHECK_DEADLOCK FALSE
