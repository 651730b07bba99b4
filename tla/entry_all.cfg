SPECIFICATION Spec
CONSTANTS
  Cpus <- MCCpus
  Firmwares <- MCFirmwares
  Tries = 6
  OneMB = 1
  MapRoom = 4
  RamRoom = 2
INVARIANTS
  QuietInterrupts
  MappedWhilePaging
  MapIsComplete
  AstrayOnly
  HeapAtOneMB
PROPERTIES
  BootEnds
  EndOfEntry
CHECK_DEADLOCK FALSE
