SPECIFICATION RouteSpec
CONSTANTS
  Catalog = {scan_storage, cleanup_plan}
  Plans = {cleanup_plan}
  OtherAction = {other}
  NoAction = NoAction
  Malformed = Malformed
  MinConfidence = 2
INVARIANT
  AmbiguousNeverRuns
CHECK_DEADLOCK FALSE
