SPECIFICATION Spec
CONSTANTS
  Word <- MCWord
  Base <- MCBase
  Length <- MCLength
  BlockHdr <- MCBlockHdr
  EntryHdr <- MCEntryHdr
  Image <- PairImage
  NameLen <- PairNameLen
  Literals <- PairLiterals
  Dll <- PairDll
  Imports = 2
INVARIANTS
  NoLeak
PROPERTIES
  OnlyHeapNamesMislead
CHECK_DEADLOCK FALSE
