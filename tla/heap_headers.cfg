SPECIFICATION Spec
CONSTANTS
  Word <- MCWord
  Base <- MCBase
  BlockHdr <- MCBlockHdr
  EntryHdr <- MCEntryHdr
  Strays <- MCStrays
  Length = 150
  Sizes = {8, 10, 15, 20}
INVARIANTS
  HeadersApart
CHECK_DEADLOCK FALSE
