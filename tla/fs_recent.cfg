SPECIFICATION RecentSpec
CONSTANTS
  Word <- MCWord
  Base <- MCBase
  Length <- MCLength
  BlockHdr <- MCBlockHdr
  EntryHdr <- MCEntryHdr
  Image <- SevenImage
  NameLen <- SevenNameLen
  Literals <- SevenLiterals
  Dll <- NoDll
  Imports = 0
INVARIANTS
  FiveMostRecent
