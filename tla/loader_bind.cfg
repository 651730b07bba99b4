SPECIFICATION Spec
CONSTANTS
  Dlls <- MCDlls
  Drivers <- MCDrivers
  Base = 100
  StrayBound = 2
INVARIANTS
  BoundRight
  LookupInImage
PROPERTIES
  FillsTable
  Terminates
CHECK_DEADLOCK FALSE
