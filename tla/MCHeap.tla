------------------------------- MODULE MCHeap -------------------------------
(* Small instances of Heap for TLC, with the code's own header sizes and base. *)
EXTENDS Heap

MCBase == 1048576                  \* 0x100000, alloc.c:18
MCWord == 1073741824               \* 2^30: TLC's integers stop short of 2^32
MCBlockHdr == 12
MCEntryHdr == 12
MCStrays == {Null, MCBase, MCBase + MCEntryHdr, 75}

=============================================================================
