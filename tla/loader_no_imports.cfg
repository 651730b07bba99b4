SPECIFICATION Spec
CONSTANTS
  Dlls <- MCDlls
  Drivers <- MCNoImports
  Base = 100
  StrayBound = 2
INVARIANTS
  LookupInImage
CHECK_DEADLOCK FALSE
