\* A process may be idle for ever once the bounds are reached: no deadlock check.
CONSTANTS
  Files = {f1, f2}
  NoFile = NoFile
  Cut = Cut
  Bad = Bad
  None = None
  Scenarios <- FaultsAndCompactions
SPECIFICATION MCSpec
SYMMETRY FileSymmetry
INVARIANTS
  FileIsSound
  ContextIsWhole
PROPERTIES
  ForkKeepsBranch
CHECK_DEADLOCK FALSE
