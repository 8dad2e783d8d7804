SPECIFICATION Spec
CONSTANTS
  c1 = c1
  c2 = c2
  c3 = c3
  j1 = j1
  m1 = m1
  m2 = m2
  Call = {c1, c2, c3}
  Job = {j1}
  Main = Main
  Model = {m1, m2}
  Imported = {m1, m2}
  NoModel = NoModel
  NoEngine = NoEngine
  MaxQueued = 1
  Asks <- MCAsks
  Caller = {c1, c2, c3}
  MaxRequests = 2
  Window = 2
  MaxTime = 3
  MaxTokens = 2
  MaxSetBack = 1
  Importer = {i1, i2}
  Name = {m1, m2}
  Content = {x1, x2, tiny}
  Plausible = {x1, x2}
  NoContent = NoContent
  NoDocument = NoDocument
  MaxImports = 3
  MaxKills = 1
  Catalog = {scan_storage, cleanup_plan}
  Plans = {cleanup_plan}
  OtherAction = {other}
  NoAction = NoAction
  Malformed = Malformed
  MinConfidence = 2
INVARIANTS
  UsesOpenEngine
  AdmissionExact
  OnlyLateJobsLeak
  TokenDecides
  WindowHolds
  
  OnlyAskedRuns
  BrokerUnderstood
PROPERTY
  Answered
CHECK_DEADLOCK FALSE
