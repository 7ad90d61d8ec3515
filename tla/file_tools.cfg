SPECIFICATION MCSpec
CONSTANTS
  o1 = o1
  o2 = o2
  o3 = o3
  Op = {o1, o2, o3}
  a = a
  b = b
  l = l
  new = new
  File = {a, b}
  Link = {l}
  PointsTo <- MCPointsTo
  Present = {a}
  Removable = {b}
  NoOp = NoOp
  PatchPath = {a, b, l, new}
  Patches <- MCPatches
  Directories <- MCDirectories
  Outside <- MCOutside
  MaxEdits = 2
  MaxFailures = 2
INVARIANTS
  FilesExclusive
  PatchIsWhole
  HunksFitOneWay
PROPERTIES
  EveryCallSettles
  GrantsInOrder
CHECK_DEADLOCK FALSE
