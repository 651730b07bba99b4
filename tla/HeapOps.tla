------------------------------ MODULE HeapOps ------------------------------
(***************************************************************************)
(* The kernel heap of src/x86/memory/alloc/alloc.c as pure operators.      *)
(*                                                                         *)
(* One usable RAM region starts with an EntryHeader; every block in it is  *)
(* a MemoryBlock header followed by its data; the headers form a singly    *)
(* linked list.  A heap is a record                                        *)
(*   first   header address of the first block, Null for none              *)
(*   used, free   the EntryHeader's two counters                           *)
(*   block   header address -> [size, next]                                *)
(*   intact  FALSE once a header has been overwritten: the C code would    *)
(*           then walk garbage, so the machines built on this module stop  *)
(* `data` is not a field: it is always the address just past the header.   *)
(*                                                                         *)
(* The region list has one entry, as alloc_init leaves it: it writes an    *)
(* EntryHeader at the first entry only, and the makefile's machine has     *)
(* one usable entry after the first one is trimmed.                        *)
(***************************************************************************)
EXTENDS Integers, FiniteSets, FiniteSetsExt

CONSTANTS
    Word,       \* 2^32 in the code: every uint32_t sum is taken modulo Word
    Base,       \* ram_memmap[0].base
    Length,     \* ram_memmap[0].length
    BlockHdr,   \* sizeof(MemoryBlock)
    EntryHdr    \* sizeof(EntryHeader)

ASSUME HeapAssumption ==
    /\ Word \in Nat /\ Length \in Nat /\ EntryHdr \in Nat
    /\ Base \in Nat \ {0} /\ BlockHdr \in Nat \ {0}
    /\ Base + Length < Word

Null == 0
W(x) == x % Word

FirstBlock == Base + EntryHdr
RegionEnd  == Base + Length
Data(a)    == a + BlockHdr

\* The byte ranges of lengths m at a and n at b do not meet.
Apart(a, m, b, n) == a + m <= b \/ b + n <= a

-----------------------------------------------------------------------------
(* Reading a heap                                                          *)

Live(h)    == DOMAIN h.block
Size(h, a) == h.block[a].size
NextOf(h, a) == h.block[a].next
End(h, a)  == W(Data(a) + Size(h, a))

\* alloc_init: an EntryHeader with no block, the whole length free.
EmptyHeap == [first |-> Null, used |-> 0, free |-> Length,
              block |-> [a \in {} |-> [size |-> 0, next |-> Null]],
              intact |-> TRUE]

\* is_pointing_to_allocated_memory
IsPointing(h, p) == \E a \in Live(h) : p = Data(a)

-----------------------------------------------------------------------------
(* alloc                                                                   *)

FitsGapNoHeader(h, cur, s) ==                                          \* mutant
    W(Data(cur) + Size(h, cur) + s) <= Data(NextOf(h, cur))

FitsGapStrict(h, cur, s) ==                                            \* mutant
    W(Data(cur) + Size(h, cur) + BlockHdr + s) < NextOf(h, cur)

\* The gap test as written: the new block's end is compared with the next
\* block's data, not with the next block's header.
FitsGap(h, cur, s) ==
    W(Data(cur) + Size(h, cur) + BlockHdr + s) <= Data(NextOf(h, cur))

FitsTailNoHeader(h, cur, s) == W(End(h, cur) + s) <= W(RegionEnd)      \* mutant
FitsTail(h, cur, s) == W(End(h, cur) + BlockHdr + s) <= W(RegionEnd)
FitsFresh(h, s) == h.free >= W(s + BlockHdr)

\* The blocks the list walk may stop at.  The walk takes the first one in
\* list order, which is address order (invariant Linked of Heap.tla).
Spots(h, s) ==
    {cur \in Live(h) : IF NextOf(h, cur) # Null THEN FitsGap(h, cur, s)
                                                ELSE FitsTail(h, cur, s)}

CanAlloc(h, s) == IF h.first = Null THEN FitsFresh(h, s) ELSE Spots(h, s) # {}
Pred(h, s)     == IF h.first = Null THEN Null ELSE Min(Spots(h, s))
Place(h, s)    == IF h.first = Null THEN FirstBlock ELSE End(h, Pred(h, s))

\* Header bytes at a touch neither the EntryHeader nor another header.
HeaderFree(h, a) == /\ FirstBlock <= a
                    /\ \A b \in Live(h) : Apart(a, BlockHdr, b, BlockHdr)

\* The header written for a block of size s behind cur (Null: the first block).
NewNodeGross(h, cur, s) == [size |-> s + BlockHdr, next |-> Null]      \* mutant
NewNodeLast(h, cur, s) == [size |-> s, next |-> Null]                  \* mutant
NewNode(h, cur, s) ==
    [size |-> s, next |-> IF cur = Null THEN Null ELSE NextOf(h, cur)]

\* Write a header at a, link it behind cur and charge it to the region.
Insert(h, cur, a, s) ==
    [first  |-> IF cur = Null THEN a ELSE h.first,
     used   |-> W(h.used + s + BlockHdr),
     free   |-> W(h.free - (s + BlockHdr)),
     block  |-> [b \in Live(h) \cup {a} |->
                   IF b = a THEN NewNode(h, cur, s)
                   ELSE IF b = cur THEN [size |-> Size(h, b), next |-> a]
                   ELSE h.block[b]],
     intact |-> h.intact /\ HeaderFree(h, a)]

AfterAlloc(h, s) == IF CanAlloc(h, s) THEN Insert(h, Pred(h, s), Place(h, s), s) ELSE h
AllocPtr(h, s)   == IF CanAlloc(h, s) THEN W(Data(Place(h, s))) ELSE Null

-----------------------------------------------------------------------------
(* free                                                                    *)

\* The region's free_size with block a returned.
FreeWith(h, a) == W(h.free + Size(h, a) + BlockHdr)

\* The region's used_size without block a.
UsedWithoutGross(h, a) == W(h.used - Size(h, a))                       \* mutant
UsedWithout(h, a) == W(h.used - (Size(h, a) + BlockHdr))

\* Node b after block a is unlinked: a's predecessor takes over a's next.
Relink(h, a, b) ==
    [size |-> Size(h, b),
     next |-> IF NextOf(h, b) = a THEN NextOf(h, a) ELSE NextOf(h, b)]

Unlink(h, a) ==
    [first  |-> IF h.first = a THEN NextOf(h, a) ELSE h.first,
     used   |-> UsedWithout(h, a),
     free   |-> FreeWith(h, a),
     block  |-> [b \in Live(h) \ {a} |-> Relink(h, a, b)],
     intact |-> h.intact]

\* A pointer that is no block's data is ignored.
AfterFreeByHeader(h, p) == IF p \in Live(h) THEN Unlink(h, p) ELSE h    \* mutant
AfterFree(h, p) == IF IsPointing(h, p) THEN Unlink(h, p - BlockHdr) ELSE h

-----------------------------------------------------------------------------
(* The owner of the block with data pointer p writes all n bytes of it.    *)

AfterFill(h, p, n) ==
    [h EXCEPT !.intact = h.intact /\ (n > 0 => \A b \in Live(h) : Apart(p, n, b, BlockHdr))]

=============================================================================
