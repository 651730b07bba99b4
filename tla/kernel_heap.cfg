SPECIFICATION KernelSpec
CONSTANTS
  Word <- MCWord
  Base = 16
  BlockHdr = 12
  EntryHdr = 12
  Strays = {0, 28}
  Length = 118
  Sizes = {12, 13, 24}
  Page = 48
  Aligned <- MCAligned
INVARIANTS
  TypeOK
  Linked
  OwnedIsLive
  ClientsDisjoint
  Accounting
  RefusedOnlyWhenFull
  HeldIsMapped
  FaultsAtPageEdge
  AlignedFits
PROPERTIES
  PoolSpec
CHECK_DEADLOCK FALSE
