----------------------------- MODULE KernelHeap -----------------------------
(***************************************************************************)
(* malloc and what is built on it, over the heap of module Heap and the     *)
(* kernel's page directory: alloc first writes its header, then malloc maps *)
(* the block's pages, and a header on a page that is not mapped faults for  *)
(* ever, since the fault's handler returns to the instruction.              *)
(*                                                                         *)
(* The machine starts where init_paging_4mb_identity has mapped the first   *)
(* page and the three test blocks of entry() are free again.                *)
(***************************************************************************)
EXTENDS Heap

CONSTANTS Page,      \* 4 MB
          Aligned    \* <<alignment, size>> as aligned_alloc is asked for

ASSUME PageAssumption ==
    /\ Page \in Nat \ {0}
    /\ FirstBlock <= Page
    /\ Aligned \subseteq (Nat \ {0}) \X Nat

VARIABLES
    mapped,     \* pages that are present in the directory at 0x2000
    fault,      \* the address of the header alloc faulted on, Null before
    call,       \* the realloc, save_realloc or aligned_alloc under way
    lent        \* blocks of aligned_alloc: raw pointer -> [ptr, alignment, size]

kernelVars == <<vars, mapped, fault, call, lent>>

Call(op, old, new, size, alignment) ==
    [op |-> op, old |-> old, new |-> new, size |-> size, alignment |-> alignment]
NoCall == Call("none", Null, Null, 0, 0)

KernelInit ==
    /\ Init
    /\ mapped = {0} /\ fault = Null
    /\ call = NoCall /\ lent = [p \in {} |-> NoCall]

-----------------------------------------------------------------------------
(* Pages                                                                   *)

PageOf(x) == x \div Page
Down(x) == PageOf(x) * Page
Up(x) == Down(W(x + (Page - 1)))
PagesOf(p, n) == IF n = 0 THEN {} ELSE PageOf(p) .. PageOf(p + n - 1)

\* map_identity_4mb: pages from start, while below start + length.
MapIdentity(start, length) ==
    {PageOf(x) : x \in {start + k * Page : k \in 0 .. PageOf(length)}
                         \cap (start .. W(start + length) - 1)}

\* The calls of malloc: each page with its own address for length, so that page k
\* brings k pages with it.
FirstPageOnly(ptr, n) == MapIdentity(Down(ptr), Down(ptr))             \* mutant
MapBlock(ptr, n) ==
    UNION {MapIdentity(k * Page, k * Page) : k \in PageOf(Down(ptr)) .. PageOf(Up(W(ptr + n))) - 1}

\* The directory keeps what it has.
OnlyNew(pages) == pages                                                \* mutant
WithPages(pages) == mapped \cup pages

Ready == fault = Null /\ heap.intact

\* alloc's header for a block of n bytes is written through the directory as it is.
HeaderMapped(n) == CanAlloc(heap, n) => PagesOf(Place(heap, n), BlockHdr) \subseteq mapped

MallocReturns(n) ==
    /\ HeaderMapped(n)
    /\ Alloc(n)
    /\ mapped' = WithPages(MapBlock(AllocPtr(heap, n), n))
    /\ UNCHANGED fault

HeaderFaults(n) ==
    /\ ~HeaderMapped(n)
    /\ fault' = Place(heap, n)
    /\ UNCHANGED <<vars, mapped>>

MallocOf(n) == MallocReturns(n) \/ HeaderFaults(n)

-----------------------------------------------------------------------------
(* Operations                                                              *)

Malloc(n) ==
    /\ Ready /\ call = NoCall
    /\ MallocOf(n)
    /\ UNCHANGED <<call, lent>>

\* A caller frees what malloc gave it, or what it never did.
KernelFree(p) ==
    /\ Ready /\ call = NoCall /\ p \notin DOMAIN lent
    /\ Free(p)
    /\ UNCHANGED <<mapped, fault, call, lent>>

KernelFill(p) ==
    /\ Ready /\ call = NoCall /\ p \notin DOMAIN lent
    /\ Fill(p)
    /\ UNCHANGED <<mapped, fault, call, lent>>

\* realloc: free, then malloc; nothing is copied.
ReallocFree(p, n) ==
    /\ Ready /\ call = NoCall /\ p \notin DOMAIN lent
    /\ Free(p)
    /\ call' = Call("realloc", p, Null, n, 0)
    /\ UNCHANGED <<mapped, fault, lent>>

ReallocMalloc ==
    /\ Ready /\ call.op = "realloc"
    /\ MallocOf(call.size)
    /\ call' = NoCall
    /\ UNCHANGED lent

\* save_realloc: malloc, the old bytes copied, free of the old block; that also
\* when there is no new one.
SaveMalloc(p, n) ==
    /\ Ready /\ call = NoCall /\ p \notin DOMAIN lent
    /\ MallocOf(n)
    /\ call' = Call("save", p, AllocPtr(heap, n), held[p], 0)
    /\ UNCHANGED lent

\* All of the old bytes are copied, also into a new block that is shorter: what
\* follows it is overwritten then, and on a page that is not mapped the copy faults
\* for ever.
CopyMapped == PagesOf(call.new, call.size) \subseteq mapped
SaveCopy ==
    /\ Ready /\ call.op = "save"
    /\ IF call.new = Null THEN UNCHANGED vars ELSE Write(call.new, call.size)
    /\ call' = [call EXCEPT !.op = IF call.new = Null \/ CopyMapped THEN "copied" ELSE "stuck"]
    /\ UNCHANGED <<mapped, fault, lent>>

SaveFree ==
    /\ Ready /\ call.op = "copied"
    /\ Free(call.old)
    /\ call' = NoCall
    /\ UNCHANGED <<mapped, fault, lent>>

\* aligned_alloc: room for the alignment and for the raw pointer, which is kept
\* in the four bytes before the pointer that is returned.  An alignment that is no
\* power of two gets NULL, and nothing happens.
Pointer == 4
PowerOfTwo(x) == \E k \in 0 .. x : x = 2 ^ k
TotalOf(alignment, n) == W(n + alignment - 1 + Pointer)
NoRoomForRaw(raw) == raw                                               \* mutant
RawAddr(raw) == raw + Pointer
RoundedUp(x, alignment) == ((x + alignment - 1) \div alignment) * alignment

AlignedMalloc(alignment, n) ==
    LET total == TotalOf(alignment, n)
    IN  /\ Ready /\ call = NoCall /\ PowerOfTwo(alignment)
        /\ MallocOf(total)
        /\ call' = Call("aligned", Null, AllocPtr(heap, total), n, alignment)
        /\ UNCHANGED lent

\* The raw pointer is stored before the pointer returned, be there a header or not.
AlignedStore ==
    LET raw == call.new
        ptr == RoundedUp(RawAddr(raw), call.alignment)
        got == [ptr |-> ptr, alignment |-> call.alignment, size |-> call.size]
    IN  /\ Ready /\ call.op = "aligned" /\ raw # Null
        /\ Write(ptr - Pointer, Pointer)
        /\ lent' = [p \in DOMAIN lent \cup {raw} |-> IF p = raw THEN got ELSE lent[p]]
        /\ call' = NoCall
        /\ UNCHANGED <<mapped, fault>>

AlignedRefused ==
    /\ Ready /\ call.op = "aligned" /\ call.new = Null
    /\ call' = NoCall
    /\ UNCHANGED <<vars, mapped, fault, lent>>

\* free of what aligned_alloc returned, the only pointer its caller has.
AlignedFree(raw) ==
    /\ Ready /\ call = NoCall
    /\ heap' = AfterFree(heap, lent[raw].ptr)
    /\ UNCHANGED <<held, mapped, fault, call, lent>>

KernelNext ==
    \/ \E n \in Sizes : Malloc(n)
    \/ \E p \in DOMAIN held \cup Strays : KernelFree(p)
    \/ \E p \in DOMAIN held : KernelFill(p)
    \/ \E p \in DOMAIN held, n \in Sizes : ReallocFree(p, n) \/ SaveMalloc(p, n)
    \/ ReallocMalloc \/ SaveCopy \/ SaveFree
    \/ \E request \in Aligned : AlignedMalloc(request[1], request[2])
    \/ AlignedStore \/ AlignedRefused
    \/ \E raw \in DOMAIN lent : AlignedFree(raw)

KernelSpec == KernelInit /\ [][KernelNext]_kernelVars

-----------------------------------------------------------------------------
(* Properties                                                              *)

\* Every byte of every block is mapped, whatever was freed in between and however
\* malloc's rounding falls (alloc.c:79-83, paging.c:63-74).
HeldIsMapped == \A p \in DOMAIN held : PagesOf(p, held[p]) \subseteq mapped

\* The only header that can fault is one that touches the first bytes of a page:
\* elsewhere the block before it, live or freed, has had the page mapped
\* (alloc.c:33-70, 78-83).
FaultsAtPageEdge ==
    fault # Null => \E x \in fault .. fault + BlockHdr - 1 : x % Page = 0

\* Only a power of two is served; what aligned_alloc returns is a multiple of it and
\* lies in its block, and so do the four bytes before it with the raw pointer, which
\* no header is laid over, whatever is allocated and freed next to the block, that
\* may itself reach over the next header.  It is no block's own data, so that freeing
\* it does nothing (alloc.c:127-143, with the gap test of alloc.c:47-48).
AlignedFits ==
    \A raw \in DOMAIN lent :
      LET a == lent[raw]
      IN  /\ PowerOfTwo(a.alignment) /\ a.ptr % a.alignment = 0
          /\ raw \in DOMAIN held
          /\ raw <= a.ptr - Pointer /\ a.ptr + a.size <= raw + held[raw]
          /\ heap.intact =>
               /\ \A b \in Live(heap) : Apart(a.ptr - Pointer, Pointer, b, BlockHdr)
               /\ ~IsPointing(heap, a.ptr)

\* malloc and what is built on it take the heap's own steps, but for what
\* save_realloc writes past a block it has made shorter.
HeapNext == Next \/ \E p \in DOMAIN held, n \in Sizes : Write(p, n)
HeapSpec == Init /\ [][HeapNext]_vars

-----------------------------------------------------------------------------
(* Conditions under which the theorems of KernelHeapProofs hold             *)

\* The region ends, with a page to spare, in the lower half of the address
\* space: malloc gives map_identity_4mb the address for the length.
LowMemory == 2 * (RegionEnd + Page) <= Word

\* aligned_alloc is asked for at least a byte, its sum does not reach 2^32, and
\* Sizes has what it asks alloc.
AlignedSized ==
    \A r \in Aligned :
      r[2] > 0 /\ r[1] + r[2] + Pointer < Word /\ TotalOf(r[1], r[2]) \in Sizes
=============================================================================
