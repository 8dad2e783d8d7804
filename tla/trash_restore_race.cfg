SPECIFICATION MCSpec
CONSTANTS
  Process = {p1, p2}
  x = x
  y = y
  locked = locked
  Path <- MCPath
  Protected <- MCProtected
  File = {f1, f2, f3}
  Item = {i1, i2}
  UserWaits = TRUE
  MaxFaults = 0
  NoFile = NoFile
  NoRow = NoRow
  NoItem = NoItem
  NoPath = NoPath
  NoProcess = NoProcess
SYMMETRY MCSymmetry
INVARIANTS
  FilesKept
