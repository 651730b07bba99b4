SPECIFICATION Spec
CONSTANTS
  Word <- MCWord
  Base <- MCBase
  Length <- MCLength
  BlockHdr <- MCBlockHdr
  EntryHdr <- MCEntryHdr
  Image <- LongImage
  NameLen <- LongNameLen
  Literals <- LongLiterals
  Dll <- LongDll
  Imports = 4
INVARIANTS
  RightFile
CHECK_DEADLOCK FALSE
