-------------------------------- MODULE Heap --------------------------------
(***************************************************************************)
(* The heap of alloc.c under every sequence of calls its callers can make: *)
(* alloc, free, and callers writing the memory they own.  The kernel is    *)
(* single threaded and masks every IRQ (protected_mode.c:31-32), so one    *)
(* call is one step.                                                       *)
(*                                                                         *)
(* `held` is the callers' side: the pointers they were given and have not  *)
(* freed, with the sizes they asked for.  Nothing in the code stores it.   *)
(***************************************************************************)
EXTENDS HeapOps

CONSTANTS Sizes,    \* sizes the callers ask for
          Strays    \* pointers that alloc never returned and callers free:
                    \* NULL, stack addresses, file offsets (mono_fs.c:60-62)

VARIABLES heap, held

vars == <<heap, held>>

ASSUME SizesAssumption == Sizes \subseteq Nat /\ Strays \subseteq Nat

-----------------------------------------------------------------------------
NoHeld == [p \in {} |-> 0]
Hold(H, p, s) == [q \in DOMAIN H \cup {p} |-> IF q = p THEN s ELSE H[q]]
Drop(H, p)    == [q \in DOMAIN H \ {p} |-> H[q]]

Init == heap = EmptyHeap /\ held = NoHeld

Alloc(s) ==
    /\ heap.intact
    /\ heap' = AfterAlloc(heap, s)
    /\ held' = IF CanAlloc(heap, s) THEN Hold(held, AllocPtr(heap, s), s) ELSE held

Free(p) ==
    /\ heap.intact
    /\ heap' = AfterFree(heap, p)
    /\ held' = Drop(held, p)

\* n bytes from p on are written.
Write(p, n) ==
    /\ heap.intact
    /\ heap' = AfterFill(heap, p, n)
    /\ UNCHANGED held

\* The owner of p writes every byte it asked for.
Fill(p) == Write(p, held[p])

Next ==
    \/ \E s \in Sizes : Alloc(s)
    \/ \E p \in DOMAIN held \cup Strays : Free(p)
    \/ \E p \in DOMAIN held : Fill(p)

Spec == Init /\ [][Next]_vars

-----------------------------------------------------------------------------
(* Type and structure                                                      *)

\* Every counter, address and size has its type; a heap's nodes lie in the
\* region and point to nodes or to nothing (MemoryBlock and EntryHeader of
\* alloc.h:9-19).
HeapType(h) ==
    /\ h \in [first: Nat, used: Nat, free: Nat,
              block: [Live(h) -> [size: Sizes, next: Nat]], intact: BOOLEAN]
    /\ Live(h) \subseteq Nat

TypeOK ==
    /\ HeapType(heap)
    /\ held \in [DOMAIN held -> Sizes]
    /\ DOMAIN held \subseteq Nat

\* The list is the live blocks in address order: it starts at the lowest, each
\* next is the closest higher block, and the highest one ends it.
Ordered(h) ==
    /\ h.first = Null <=> Live(h) = {}
    /\ h.first # Null => h.first \in Live(h)
    /\ \A a \in Live(h) :
         /\ h.first <= a
         /\ NextOf(h, a) = Null => \A b \in Live(h) : b <= a
         /\ NextOf(h, a) # Null =>
              /\ NextOf(h, a) \in Live(h)
              /\ a < NextOf(h, a)
              /\ \A b \in Live(h) : b <= a \/ NextOf(h, a) <= b

\* As long as no header is overwritten the list is in address order.  The walks
\* of alloc, free and is_pointing_to_allocated_memory rely on it, and it is what
\* lets Pred take the minimum for "the first one in the list".
Linked == heap.intact => Ordered(heap)

-----------------------------------------------------------------------------
(* Safety                                                                  *)

\* The heap's live blocks are exactly what the callers hold, with the sizes
\* they asked for: nothing leaks inside the allocator, nothing is handed out
\* twice, is_pointing_to_allocated_memory answers exactly, and a stray pointer
\* given to free changes nothing.
OwnedIsLive ==
    heap.intact =>
      /\ DOMAIN held = {Data(a) : a \in Live(heap)}
      /\ \A a \in Live(heap) : held[Data(a)] = Size(heap, a)

\* No byte belongs to two callers, although the gap test of alloc.c:47-48 lets
\* a block run into the header of the next one.
ClientsDisjoint ==
    \A p, q \in DOMAIN held : p # q => Apart(p, held[p], q, held[q])

\* A node set that holds the first block and every next of its members holds
\* every live block: the pointer walk of free reaches each of them.
ReachesAll ==
    heap.intact =>
      \A S \in SUBSET Live(heap) :
        /\ heap.first # Null => heap.first \in S
        /\ \A a \in S : NextOf(heap, a) # Null => NextOf(heap, a) \in S
        => S = Live(heap)

\* A header is at the start of its own block and nothing else is there
\* (alloc.h:13): headers and data of different blocks share no byte, and none
\* lies on the EntryHeader (alloc.h:19).
HeadersApart ==
    /\ \A p \in DOMAIN held : FirstBlock <= p - BlockHdr
    /\ \A p, q \in DOMAIN held :
         p # q => Apart(p - BlockHdr, BlockHdr + held[p], q - BlockHdr, BlockHdr + held[q])

\* The EntryHeader's counters tell what its list holds: used is the sum over
\* the blocks, headers included, and free the rest of the region, modulo 2^32: a
\* block in a gap that is too small for its header can make used exceed Length.
Accounting ==
    heap.intact =>
      /\ heap.used = MapThenSumSet(LAMBDA a : Size(heap, a) + BlockHdr, Live(heap))
      /\ heap.free = W(Length - heap.used)

\* No byte from x to x + n - 1 is a live block's header or data.
Vacant(x, n) == \A b \in Live(heap) : Apart(x, n, b, BlockHdr + Size(heap, b))

\* A request is refused only when nothing behind the lowest live block has room for
\* it, although the walk looks at no place but the end of each live block: the space
\* in front of that block is all that alloc gives away (alloc.c:45-74).
RefusedOnlyWhenFull ==
    heap.intact /\ heap.first # Null =>
      \A s \in Sizes : ~CanAlloc(heap, s) =>
         \A x \in heap.first .. RegionEnd - (BlockHdr + s) : ~Vacant(x, BlockHdr + s)

\* Refinement: the heap is a memory pool.
Pool == INSTANCE MemoryPool WITH Lo <- FirstBlock, Hi <- RegionEnd, Requests <- Sizes
PoolSpec == Pool!Spec

-----------------------------------------------------------------------------
(* Conditions on the sizes under which the theorems of HeapProofs hold      *)

\* No sum the code forms reaches 2^32.
NoWrap == \A s, t \in Sizes : RegionEnd + EntryHdr + 3 * BlockHdr + s + t < Word

\* Each size fits in an empty region, EntryHeader included.
Fitting == \A s \in Sizes : EntryHdr + BlockHdr + s <= Length

\* The region is smaller than 2^31 bytes: headers and data, which may overlap, cost
\* less than 2^32 together.
HalfWord == 2 * Length < Word

\* Header plus size is a multiple of a quantum larger than the header.
Granular(Q) == /\ Q \in Nat /\ BlockHdr < Q
               /\ \A s \in Sizes : \E k \in 0 .. (BlockHdr + s) : BlockHdr + s = k * Q
=============================================================================
