SPECIFICATION FsSpec
CONSTANTS
  Reach = 9
  Words = 4
  MaxCount = 4
  MayFail = TRUE
  Values <- MCValues
  FsStart = 1
  FsHdr = 2
  FileHdr = 3
  Files <- MCFiles
  Guesses <- MCGuesses
INVARIANTS
  ReadIsExact
  WriteLands
  FileExact
  ImageOnly
PROPERTIES
  FsEnds
CHECK_DEADLOCK FALSE
