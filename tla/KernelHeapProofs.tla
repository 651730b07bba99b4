------------------------- MODULE KernelHeapProofs -------------------------
(***************************************************************************)
(* Proofs about KernelHeap, for every page size, region and set of request *)
(* sizes under the conditions of Heap and KernelHeap.                      *)
(***************************************************************************)
EXTENDS KernelHeap, HeapProofs

-----------------------------------------------------------------------------
(* Division                                                                *)

\* A quotient times the divisor is the last multiple not above the dividend.
LEMMA DivBound ==
  ASSUME NEW x \in Nat, NEW m \in Nat \ {0}
  PROVE  /\ (x \div m) \in Nat
         /\ (x \div m) * m <= x
         /\ x < (x \div m) * m + m
<1>1. x \div m \in Int /\ x \div m >= 0
  OBVIOUS
<1>2. x = m * (x \div m) + (x % m) /\ (x % m) \in 0 .. m - 1
  OBVIOUS
<1>3. m * (x \div m) = (x \div m) * m
  BY <1>1
<1>4. QED
  BY <1>1, <1>2, <1>3

\* A quotient is the only number that keeps its bounds.
LEMMA DivUnique ==
  ASSUME NEW x \in Nat, NEW m \in Nat \ {0}, NEW q \in Nat,
         q * m <= x, x < q * m + m
  PROVE  x \div m = q
<1> DEFINE d == x \div m
<1>1. d \in Nat /\ d * m <= x /\ x < d * m + m
  BY DivBound
<1> HIDE DEF d
<1>2. ASSUME d + 1 <= q PROVE FALSE
  <2>1. (d + 1) * m <= q * m
    BY <1>1, <1>2
  <2>2. (d + 1) * m = d * m + m /\ d * m \in Nat /\ q * m \in Nat
    BY <1>1
  <2>3. QED
    BY <1>1, <2>1, <2>2
<1>3. ASSUME q + 1 <= d PROVE FALSE
  <2>1. (q + 1) * m <= d * m
    BY <1>1, <1>3
  <2>2. (q + 1) * m = q * m + m /\ d * m \in Nat /\ q * m \in Nat
    BY <1>1
  <2>3. QED
    BY <1>1, <2>1, <2>2
<1>4. d = q
  BY <1>1, <1>2, <1>3
<1>5. QED
  BY <1>4 DEF d

\* Division keeps the order.
LEMMA DivMono ==
  ASSUME NEW x \in Nat, NEW y \in Nat, NEW m \in Nat \ {0}, x <= y
  PROVE  x \div m <= y \div m
<1>1. x \div m \in Nat /\ y \div m \in Nat
  BY DivBound
<1>2. SUFFICES ASSUME (y \div m) + 1 <= x \div m PROVE FALSE
  BY <1>1
<1>3. ((y \div m) + 1) * m <= (x \div m) * m
  BY <1>1, <1>2
<1>4. ((y \div m) + 1) * m = (y \div m) * m + m
  BY <1>1
<1>5. QED
  BY <1>1, <1>3, <1>4, DivBound

\* A multiple divides exactly.
LEMMA Multiple ==
  ASSUME NEW q \in Nat, NEW m \in Nat \ {0}
  PROVE  q * m \in Nat /\ (q * m) \div m = q /\ (q * m) % m = 0
<1>1. q * m \in Nat /\ (q * m) \div m = q
  BY DivUnique
<1>2. q * m = m * ((q * m) \div m) + ((q * m) % m) /\ (q * m) % m \in 0 .. m - 1
  BY <1>1
<1>3. m * q = q * m
  OBVIOUS
<1>4. QED
  BY <1>1, <1>2, <1>3

\* Rounding up gives a multiple at most an alignment further.
LEMMA Rounded ==
  ASSUME NEW x \in Nat, NEW m \in Nat \ {0}
  PROVE  /\ RoundedUp(x, m) \in Nat /\ RoundedUp(x, m) % m = 0
         /\ x <= RoundedUp(x, m) /\ RoundedUp(x, m) <= x + m - 1
<1> DEFINE y == x + m - 1
           q == y \div m
<1>1. y \in Nat
  OBVIOUS
<1>2. q \in Nat /\ q * m <= y /\ y < q * m + m
  BY <1>1, DivBound
<1> HIDE DEF q
<1>3. q * m \in Nat /\ (q * m) % m = 0
  BY <1>2, Multiple
<1>4. RoundedUp(x, m) = q * m
  BY DEF RoundedUp, q
<1>5. QED
  BY <1>2, <1>3, <1>4

-----------------------------------------------------------------------------
(* The inductive invariant                                                 *)

CallType ==
  call \in [op: {"none", "realloc", "save", "copied", "stuck", "aligned"},
            old: Nat, new: Nat, size: Nat, alignment: Nat]

\* What a call under way still refers to is there, and of the size it was asked for.
CallOK ==
  /\ call.op \in {"realloc", "save"} => call.size \in Sizes
  /\ call.op \in {"save", "copied"} => call.old \in DOMAIN held /\ call.old \notin DOMAIN lent
  /\ call.op = "save" /\ call.new # Null => call.new \in DOMAIN held
  /\ call.op = "aligned" /\ call.new # Null =>
       /\ <<call.alignment, call.size>> \in Aligned /\ PowerOfTwo(call.alignment)
       /\ call.new \in DOMAIN held /\ call.new \notin DOMAIN lent
       /\ held[call.new] = TotalOf(call.alignment, call.size)

\* An aligned pointer lies inside its block, past the raw pointer.
LentOK ==
  \A raw \in DOMAIN lent :
    LET a == lent[raw]
    IN  /\ raw \in DOMAIN held
        /\ a.ptr \in Nat /\ a.alignment \in Nat \ {0} /\ a.size \in Nat \ {0}
        /\ PowerOfTwo(a.alignment) /\ a.ptr % a.alignment = 0
        /\ raw + Pointer <= a.ptr /\ a.ptr + a.size <= raw + held[raw]

KernelInv == HeapInv /\ CallType /\ (fault = Null => CallOK) /\ LentOK

-----------------------------------------------------------------------------
(* Parts of a step                                                         *)

\* alloc leaves what is held alone and adds at most the block it returns.
LEMMA Grown ==
  ASSUME NoWrap, Fitting, 0 \notin Sizes, HeapInv, NEW n \in Sizes, Alloc(n)
  PROVE  /\ \A p \in DOMAIN held : p \in DOMAIN held' /\ held'[p] = held[p]
         /\ ~CanAlloc(heap, n) => AllocPtr(heap, n) = Null /\ held' = held
         /\ CanAlloc(heap, n) =>
              /\ AllocPtr(heap, n) \in Nat /\ AllocPtr(heap, n) # Null
              /\ AllocPtr(heap, n) \notin DOMAIN held
              /\ DOMAIN held' = DOMAIN held \cup {AllocPtr(heap, n)}
              /\ held'[AllocPtr(heap, n)] = n
              /\ FirstBlock <= AllocPtr(heap, n) /\ AllocPtr(heap, n) + n <= RegionEnd
<1>1. heap.intact
  BY DEF Alloc
<1>2. CASE ~CanAlloc(heap, n)
  BY <1>2 DEF Alloc, AllocPtr
<1>3. CASE CanAlloc(heap, n)
  <2>1. PICK a \in Nat, cur \in Nat :
          Room(heap, n, a, cur) /\ held' = Hold(held, Data(a), n)
    BY <1>1, <1>3, Accepted, Zenon
  <2>2. held' = Hold(held, AllocPtr(heap, n), n)
    BY <1>3 DEF Alloc
  <2>3. /\ HeapType(heap) /\ Ordered(heap) /\ Placed(heap)
    BY <1>1 DEF HeapInv, TypeOK, Sound
  <2>4. Room(heap, n, Place(heap, n), Pred(heap, n))
    BY <1>3, <2>3, AllocRoom
  <2> DEFINE b == Place(heap, n)
  <2>5. /\ n \in Nat /\ n > 0 /\ b \in Nat /\ FirstBlock <= b /\ Data(b) + n <= RegionEnd
        /\ Data(b) \in Nat
    BY <2>4, SizesAssumption, HeapAssumption DEF Room, Data
  <2>6. AllocPtr(heap, n) = Data(b)
    <3>1. Data(b) < Word
      BY <2>5, HeapAssumption DEF RegionEnd
    <3>2. QED
      BY <1>3, <2>5, <3>1, WExact DEF AllocPtr
  <2>7. ASSUME NEW q \in DOMAIN held
        PROVE  q # Data(b)
    <3>1. PICK c \in Live(heap) : /\ c \in Nat /\ q = Data(c) /\ held[q] = Size(heap, c)
                                  /\ Size(heap, c) \in Nat
      BY <1>1, HeldBlock
    <3>2. Data(c) + Size(heap, c) <= b \/ Data(b) + n <= Data(c)
      BY <2>4 DEF Room
    <3>3. QED
      BY <2>5, <3>1, <3>2, HeapAssumption DEF Data
  <2>8. FirstBlock <= Data(b) /\ Data(b) # Null
    BY <2>5, HeapAssumption DEF Data, FirstBlock, Null
  <2>9. /\ DOMAIN held' = DOMAIN held \cup {Data(b)} /\ held'[Data(b)] = n
        /\ \A q \in DOMAIN held : held'[q] = held[q]
    BY <2>2, <2>6, <2>7 DEF Hold
  <2>10. QED
    BY <1>3, <2>5, <2>6, <2>7, <2>8, <2>9
<1>4. QED
  BY <1>2, <1>3

\* free forgets nothing but the block it is given.
LEMMA Shrunk ==
  ASSUME NEW p, Free(p)
  PROVE  \A q \in DOMAIN held : q # p => q \in DOMAIN held' /\ held'[q] = held[q]
BY DEF Free, Drop

\* What malloc does to the heap is a step of the heap, or nothing.
LEMMA MallocSteps ==
  ASSUME NEW n \in Sizes, MallocOf(n)
  PROVE  [Next]_vars
BY DEF MallocOf, MallocReturns, HeaderFaults, Next, vars

\* malloc loses nothing, and when it returns, the new block has its size.
LEMMA MallocGrown ==
  ASSUME NoWrap, Fitting, 0 \notin Sizes, HeapInv, Ready, NEW n \in Sizes, MallocOf(n)
  PROVE  /\ \A p \in DOMAIN held : p \in DOMAIN held' /\ held'[p] = held[p]
         /\ AllocPtr(heap, n) \in Nat
         /\ fault' = Null /\ AllocPtr(heap, n) # Null =>
              /\ AllocPtr(heap, n) \in DOMAIN held' /\ held'[AllocPtr(heap, n)] = n
              /\ AllocPtr(heap, n) \notin DOMAIN held
<1>1. CASE MallocReturns(n)
  <2>1. Alloc(n)
    BY <1>1 DEF MallocReturns
  <2>2. CASE CanAlloc(heap, n)
    BY <2>1, <2>2, Grown
  <2>3. CASE ~CanAlloc(heap, n)
    <3>1. AllocPtr(heap, n) = Null /\ held' = held
      BY <2>1, <2>3, Grown
    <3>2. Null \in Nat
      BY DEF Null
    <3>3. QED
      BY <3>1, <3>2
  <2>4. QED
    BY <2>2, <2>3
<1>2. CASE HeaderFaults(n)
  <2>1. CanAlloc(heap, n) /\ held' = held /\ fault' = Place(heap, n)
    BY <1>2 DEF HeaderFaults, HeaderMapped, vars
  <2>2. Room(heap, n, Place(heap, n), Pred(heap, n))
    BY <2>1, AllocRoom DEF HeapInv, TypeOK, Sound, Ready
  <2>3. fault' # Null /\ Data(Place(heap, n)) \in Nat
    BY <2>1, <2>2, HeapAssumption DEF Room, FirstBlock, Null, Data
  <2>4. AllocPtr(heap, n) \in Nat
    BY <2>1, <2>3, WNat DEF AllocPtr
  <2>5. QED
    BY <2>1, <2>3, <2>4
<1>3. QED
  BY <1>1, <1>2 DEF MallocOf

\* The copy of save_realloc is a write of as many bytes as some block has, or changes
\* nothing.
LEMMA CopySteps ==
  ASSUME CallOK, SaveCopy
  PROVE  [HeapNext]_vars
<1>1. CASE call.new = Null
  BY <1>1 DEF SaveCopy
<1>2. CASE call.new # Null
  BY <1>2 DEF SaveCopy, CallOK, HeapNext
<1>3. QED
  BY <1>1, <1>2

\* A write inside a block meets a header only if a write of the whole block does.
LEMMA InnerWrite ==
  ASSUME HeapInv, NEW p \in DOMAIN held, NEW x \in Nat, NEW n \in Nat \ {0},
         p <= x, x + n <= p + held[p], Write(x, n)
  PROVE  [HeapNext]_vars
<1>1. p \in Nat /\ held[p] \in Nat /\ held[p] \in Sizes
  BY SizesAssumption DEF HeapInv, TypeOK
<1>2. heap.intact /\ heap' = AfterFill(heap, x, n) /\ held' = held
  BY DEF Write
<1>3. heap = [first |-> heap.first, used |-> heap.used, free |-> heap.free,
              block |-> heap.block, intact |-> TRUE]
  BY <1>2 DEF HeapInv, TypeOK, HeapType
<1>4. CASE \A b \in Live(heap) : Apart(x, n, b, BlockHdr)
  <2>1. heap' = [heap EXCEPT !.intact = TRUE]
    BY <1>2, <1>4, Zenon DEF AfterFill
  <2>2. heap' = heap
    BY <1>3, <2>1
  <2>3. QED
    BY <1>2, <2>2 DEF vars
<1>5. CASE \E b \in Live(heap) : ~Apart(x, n, b, BlockHdr)
  <2>1. PICK b \in Live(heap) : ~Apart(x, n, b, BlockHdr)
    BY <1>5
  <2>2. b \in Nat /\ ~Apart(p, held[p], b, BlockHdr) /\ held[p] > 0 /\ n > 0
    BY <1>1, <2>1, NodeType, HeapAssumption DEF Apart, HeapInv, TypeOK
  <2>3. heap' = AfterFill(heap, p, held[p])
    BY <1>2, <2>1, <2>2, Zenon DEF AfterFill
  <2>4. Write(p, held[p])
    BY <1>2, <2>3 DEF Write
  <2>5. QED
    BY <1>1, <2>4 DEF HeapNext
<1>6. QED
  BY <1>4, <1>5

\* Where aligned_alloc rounds up to, with the raw pointer before it.
LEMMA RawPlace ==
  ASSUME AlignedSized, HeapInv, CallOK, call.op = "aligned", call.new # Null
  PROVE  LET raw == call.new
             ptr == RoundedUp(RawAddr(raw), call.alignment)
         IN  /\ raw \in DOMAIN held /\ raw \in Nat /\ ptr \in Nat
             /\ call.alignment \in Nat \ {0} /\ call.size \in Nat \ {0}
             /\ ptr % call.alignment = 0
             /\ raw + Pointer <= ptr /\ ptr + call.size <= raw + held[raw]
<1> DEFINE raw == call.new
           ptr == RoundedUp(RawAddr(raw), call.alignment)
           m   == call.alignment
           n   == call.size
<1>1. <<m, n>> \in Aligned /\ raw \in DOMAIN held /\ held[raw] = TotalOf(m, n)
  BY DEF CallOK
<1>2. m \in Nat \ {0} /\ n \in Nat
  BY <1>1, PageAssumption
<1>3. n > 0 /\ m + n + Pointer < Word
  <2>1. <<m, n>>[1] = m /\ <<m, n>>[2] = n
    OBVIOUS
  <2>2. QED
    BY <1>1, <2>1 DEF AlignedSized
<1>4. held[raw] = n + m - 1 + 4
  <2>1. n + m - 1 + 4 \in Nat /\ n + m - 1 + 4 < Word
    BY <1>2, <1>3, HeapAssumption DEF Pointer
  <2>2. QED
    BY <1>1, <2>1, WExact DEF TotalOf, Pointer
<1>5. raw \in Nat
  BY <1>1 DEF HeapInv, TypeOK
<1> HIDE DEF raw, m, n
<1>6. /\ ptr \in Nat /\ ptr % m = 0 /\ raw + 4 <= ptr /\ ptr <= raw + 4 + m - 1
  <2>1. ptr = RoundedUp(raw + 4, m) /\ raw + 4 \in Nat
    BY <1>5 DEF RawAddr, Pointer, m
  <2> HIDE DEF ptr
  <2>2. QED
    BY <1>2, <1>5, <2>1, Rounded
<1> HIDE DEF ptr
<1>7. raw + Pointer <= ptr /\ ptr + n <= raw + held[raw] /\ n \in Nat \ {0}
  BY <1>2, <1>3, <1>4, <1>5, <1>6 DEF Pointer
<1>8. QED
  BY <1>1, <1>2, <1>5, <1>6, <1>7 DEF raw, m, n, ptr

\* The raw pointer is stored inside its block.
LEMMA StoreSteps ==
  ASSUME AlignedSized, HeapInv, CallOK, AlignedStore
  PROVE  [HeapNext]_vars
<1> DEFINE raw == call.new
           ptr == RoundedUp(RawAddr(raw), call.alignment)
<1>1. call.op = "aligned" /\ raw # Null /\ Write(ptr - Pointer, Pointer)
  BY DEF AlignedStore
<1>2. /\ raw \in DOMAIN held /\ raw \in Nat /\ ptr \in Nat /\ call.size \in Nat \ {0}
      /\ raw + Pointer <= ptr /\ ptr + call.size <= raw + held[raw]
  BY <1>1, RawPlace
<1>3. held[raw] \in Nat
  BY <1>2, SizesAssumption DEF HeapInv, TypeOK
<1> HIDE DEF raw, ptr
<1> DEFINE x == ptr - Pointer
<1>4. x \in Nat /\ Pointer \in Nat \ {0} /\ raw <= x /\ x + Pointer <= raw + held[raw]
  BY <1>2, <1>3 DEF Pointer
<1>5. Write(x, Pointer)
  BY <1>1
<1> HIDE DEF x
<1>6. QED
  BY <1>2, <1>4, <1>5, InnerWrite

\* No aligned pointer is a block's own data.
LEMMA LentMisses ==
  ASSUME HeapInv, heap.intact, LentOK, NEW raw \in DOMAIN lent
  PROVE  ~IsPointing(heap, lent[raw].ptr)
<1> DEFINE p == lent[raw].ptr
<1>1. /\ raw \in DOMAIN held /\ raw \in Nat /\ p \in Nat /\ held[raw] \in Nat
      /\ raw < p /\ p < raw + held[raw]
  <2>1. /\ raw \in DOMAIN held /\ p \in Nat /\ lent[raw].size \in Nat \ {0}
        /\ raw + 4 <= p /\ p + lent[raw].size <= raw + held[raw]
    BY DEF LentOK, Pointer
  <2>2. raw \in Nat /\ held[raw] \in Nat
    BY <2>1, SizesAssumption DEF HeapInv, TypeOK
  <2>3. QED
    BY <2>1, <2>2
<1>2. SUFFICES ASSUME IsPointing(heap, p) PROVE FALSE
  OBVIOUS
<1>3. p \in DOMAIN held
  BY <1>2 DEF IsPointing, HeapInv, Sound, Owned
<1>4. Apart(raw, held[raw], p, held[p]) /\ held[p] \in Nat
  BY <1>1, <1>3, SizesAssumption DEF HeapInv, ClientsDisjoint, TypeOK
<1>5. QED
  BY <1>1, <1>4 DEF Apart

\* Every step of the kernel is a step of the heap, or leaves the heap alone.
LEMMA KernelSteps ==
  ASSUME AlignedSized, KernelInv, [KernelNext]_kernelVars
  PROVE  [HeapNext]_vars
<1>1. CASE \E n \in Sizes : Malloc(n)
  BY <1>1, MallocSteps DEF Malloc, HeapNext
<1>2. CASE \E p \in DOMAIN held \cup Strays : KernelFree(p)
  BY <1>2 DEF KernelFree, Next, HeapNext
<1>3. CASE \E p \in DOMAIN held : KernelFill(p)
  BY <1>3 DEF KernelFill, Next, HeapNext
<1>4. CASE \E p \in DOMAIN held, n \in Sizes : ReallocFree(p, n)
  BY <1>4 DEF ReallocFree, Next, HeapNext
<1>5. CASE \E p \in DOMAIN held, n \in Sizes : SaveMalloc(p, n)
  BY <1>5, MallocSteps DEF SaveMalloc, HeapNext
<1>6. CASE ReallocMalloc
  BY <1>6, MallocSteps DEF ReallocMalloc, KernelInv, CallOK, Ready, HeapNext
<1>7. CASE SaveCopy
  BY <1>7, CopySteps DEF KernelInv, SaveCopy, Ready
<1>8. CASE SaveFree
  BY <1>8 DEF SaveFree, KernelInv, CallOK, Ready, Next, HeapNext
<1>9. CASE \E request \in Aligned : AlignedMalloc(request[1], request[2])
  BY <1>9, MallocSteps DEF AlignedMalloc, AlignedSized, HeapNext
<1>10. CASE \E raw \in DOMAIN lent : AlignedFree(raw)
  BY <1>10, LentMisses DEF AlignedFree, KernelInv, Ready, AfterFree, vars
<1>11. CASE AlignedStore
  BY <1>11, StoreSteps DEF KernelInv, AlignedStore, Ready
<1>12. CASE AlignedRefused
  BY <1>12 DEF AlignedRefused
<1>13. CASE UNCHANGED kernelVars
  BY <1>13 DEF kernelVars
<1>14. QED
  BY <1>1, <1>2, <1>3, <1>4, <1>5, <1>6, <1>7, <1>8, <1>9, <1>10, <1>11, <1>12, <1>13
     DEF KernelNext

\* A step of the heap or a longer write keeps the heap's invariant and its counters,
\* and is a step of the pool.
LEMMA WideStep ==
  ASSUME NoWrap, Fitting, HeapInv, [HeapNext]_vars
  PROVE  HeapInv'
<1>1. CASE \E p \in DOMAIN held, n \in Sizes : Write(p, n)
  BY <1>1, WriteStep
<1>2. CASE [Next]_vars
  BY <1>2, HeapStep
<1>3. QED
  BY <1>1, <1>2 DEF HeapNext

LEMMA WideCounts ==
  ASSUME NoWrap, Fitting, HalfWord, HeapInv, CountInv, [HeapNext]_vars
  PROVE  CountInv'
<1>1. CASE \E p \in DOMAIN held, n \in Sizes : Write(p, n)
  BY <1>1, WriteCounts
<1>2. CASE [Next]_vars
  BY <1>2, CountStep
<1>3. QED
  BY <1>1, <1>2 DEF HeapNext

LEMMA WidePool ==
  ASSUME NoWrap, Fitting, 0 \notin Sizes, HeapInv, [HeapNext]_vars
  PROVE  [Pool!Next]_held
<1>1. CASE \E p \in DOMAIN held, n \in Sizes : Write(p, n)
  BY <1>1 DEF Write
<1>2. CASE [Next]_vars
  BY <1>2, PoolStep
<1>3. QED
  BY <1>1, <1>2 DEF HeapNext

-----------------------------------------------------------------------------
(* Every step keeps the invariant                                          *)

\* The invariant holds where the machine starts.
LEMMA KernelStart ==
  ASSUME KernelInit
  PROVE  KernelInv
<1>1. HeapInv
  BY HeapStart DEF KernelInit
<1>2. CallType /\ CallOK
  BY DEF KernelInit, NoCall, Call, Null, CallType, CallOK
<1>3. LentOK
  BY DEF KernelInit, LentOK
<1>4. QED
  BY <1>1, <1>2, <1>3 DEF KernelInv

\* What is lent stays where it is when the blocks it lies in do.
LEMMA LentStays ==
  ASSUME LentOK, lent' = lent,
         \A p \in DOMAIN lent : p \in DOMAIN held' /\ held'[p] = held[p]
  PROVE  LentOK'
BY DEF LentOK

\* aligned_alloc notes the block it was given, and what it asked for.
LEMMA AlignedCall ==
  ASSUME NoWrap, Fitting, 0 \notin Sizes, AlignedSized, KernelInv,
         NEW alignment, NEW n, <<alignment, n>> \in Aligned, AlignedMalloc(alignment, n)
  PROVE  CallType' /\ (fault' = Null => CallOK') /\ LentOK'
<1> DEFINE total == TotalOf(alignment, n)
           raw == AllocPtr(heap, total)
<1>1. alignment \in Nat \ {0} /\ n \in Nat /\ total \in Sizes
  <2>1. alignment \in Nat \ {0} /\ n \in Nat
    BY PageAssumption
  <2>2. <<alignment, n>>[1] = alignment /\ <<alignment, n>>[2] = n
    OBVIOUS
  <2>3. QED
    BY <2>1, <2>2 DEF AlignedSized
<1>2. /\ MallocOf(total) /\ Ready /\ PowerOfTwo(alignment) /\ lent' = lent
      /\ call' = Call("aligned", Null, raw, n, alignment)
  BY DEF AlignedMalloc
<1>3. HeapInv /\ LentOK
  BY DEF KernelInv
<1>4. /\ \A p \in DOMAIN held : p \in DOMAIN held' /\ held'[p] = held[p]
      /\ raw \in Nat
      /\ fault' = Null /\ raw # Null => raw \in DOMAIN held' /\ held'[raw] = total
                                        /\ raw \notin DOMAIN held
  BY <1>1, <1>2, <1>3, MallocGrown
<1>5. /\ call'.op = "aligned" /\ call'.old = Null /\ call'.new = raw /\ call'.size = n
      /\ call'.alignment = alignment
  BY <1>2 DEF Call
<1>6. CallType'
  <2>1. Null \in Nat
    BY DEF Null
  <2> HIDE DEF raw
  <2>2. QED
    BY <1>1, <1>2, <1>4, <2>1 DEF CallType, Call
<1>7. ASSUME fault' = Null
      PROVE  CallOK'
  <2>1. raw # Null => raw \notin DOMAIN lent'
    BY <1>2, <1>3, <1>4, <1>7 DEF LentOK
  <2> HIDE DEF raw
  <2>2. QED
    BY <1>2, <1>4, <1>5, <1>7, <2>1 DEF CallOK
<1>8. LentOK'
  BY <1>2, <1>3, <1>4, LentStays DEF LentOK
<1>9. QED
  BY <1>6, <1>7, <1>8

\* What it lends is where it rounded up to.
LEMMA StoreKeeps ==
  ASSUME AlignedSized, HeapInv, CallOK, LentOK, AlignedStore
  PROVE  LentOK'
<1> DEFINE raw == call.new
           ptr == RoundedUp(RawAddr(raw), call.alignment)
           got == [ptr |-> ptr, alignment |-> call.alignment, size |-> call.size]
<1>1. /\ call.op = "aligned" /\ raw # Null /\ held' = held
      /\ lent' = [p \in DOMAIN lent \cup {raw} |-> IF p = raw THEN got ELSE lent[p]]
  BY DEF AlignedStore, Write
<1>2. PowerOfTwo(call.alignment)
  BY <1>1 DEF CallOK
<1>3. /\ raw \in DOMAIN held /\ ptr \in Nat
      /\ call.alignment \in Nat \ {0} /\ call.size \in Nat \ {0}
      /\ ptr % call.alignment = 0
      /\ raw + Pointer <= ptr /\ ptr + call.size <= raw + held[raw]
  BY <1>1, RawPlace
<1>4. got.ptr = ptr /\ got.alignment = call.alignment /\ got.size = call.size
  OBVIOUS
<1> HIDE DEF raw, ptr, got
<1>5. SUFFICES ASSUME NEW q \in DOMAIN lent'
               PROVE  LET a == lent'[q]
                      IN  /\ q \in DOMAIN held'
                          /\ a.ptr \in Nat /\ a.alignment \in Nat \ {0} /\ a.size \in Nat \ {0}
                          /\ PowerOfTwo(a.alignment) /\ a.ptr % a.alignment = 0
                          /\ q + Pointer <= a.ptr /\ a.ptr + a.size <= q + held'[q]
  BY DEF LentOK
<1>6. CASE q = raw
  <2>1. lent'[q] = got
    BY <1>1, <1>6
  <2>2. QED
    BY <1>1, <1>2, <1>3, <1>4, <1>6, <2>1
<1>7. CASE q # raw
  <2>1. q \in DOMAIN lent /\ lent'[q] = lent[q]
    BY <1>1, <1>7
  <2>2. QED
    BY <1>1, <2>1 DEF LentOK
<1>8. QED
  BY <1>6, <1>7

\* A call that has returned refers to nothing.
LEMMA CallKeeps ==
  ASSUME call' = NoCall
  PROVE  CallType' /\ CallOK'
BY DEF NoCall, Call, Null, CallType, CallOK

\* Each operation keeps the invariant.
LEMMA KernelStep ==
  ASSUME NoWrap, Fitting, 0 \notin Sizes, AlignedSized, KernelInv, [KernelNext]_kernelVars
  PROVE  KernelInv'
<1>1. HeapInv'
  BY KernelSteps, WideStep DEF KernelInv
<1>2. HeapInv /\ CallType /\ LentOK /\ (fault = Null => CallOK)
  BY DEF KernelInv
<1>3. CallType' /\ (fault' = Null => CallOK') /\ LentOK'
  <2>1. ASSUME NEW n \in Sizes, Malloc(n)
        PROVE  CallType' /\ CallOK' /\ LentOK'
    <3>1. \A p \in DOMAIN held : p \in DOMAIN held' /\ held'[p] = held[p]
      BY <1>2, <2>1, MallocGrown DEF Malloc
    <3>2. call' = NoCall /\ lent' = lent
      BY <2>1 DEF Malloc
    <3>3. QED
      BY <1>2, <3>1, <3>2, CallKeeps, LentStays DEF LentOK
  <2>2. ASSUME NEW p \in DOMAIN held \cup Strays, KernelFree(p)
        PROVE  CallType' /\ CallOK' /\ LentOK'
    <3>1. Free(p) /\ p \notin DOMAIN lent /\ call' = NoCall /\ lent' = lent
      BY <2>2 DEF KernelFree
    <3>2. \A q \in DOMAIN lent : q \in DOMAIN held' /\ held'[q] = held[q]
      BY <1>2, <3>1, Shrunk DEF LentOK
    <3>3. QED
      BY <1>2, <3>1, <3>2, CallKeeps, LentStays
  <2>3. ASSUME NEW p \in DOMAIN held, KernelFill(p)
        PROVE  CallType' /\ CallOK' /\ LentOK'
    <3>1. held' = held /\ call' = NoCall /\ lent' = lent
      BY <2>3 DEF KernelFill, Fill, Write
    <3>2. QED
      BY <1>2, <3>1, CallKeeps, LentStays DEF LentOK
  <2>4. ASSUME NEW p \in DOMAIN held, NEW n \in Sizes, ReallocFree(p, n)
        PROVE  CallType' /\ CallOK' /\ LentOK'
    <3>1. /\ Free(p) /\ p \notin DOMAIN lent /\ lent' = lent
          /\ call' = Call("realloc", p, Null, n, 0)
      BY <2>4 DEF ReallocFree
    <3>2. p \in Nat /\ n \in Nat /\ Null \in Nat
      BY <1>2, SizesAssumption DEF HeapInv, TypeOK, Null
    <3>3. CallType' /\ CallOK'
      BY <3>1, <3>2 DEF CallType, CallOK, Call
    <3>4. \A q \in DOMAIN lent : q \in DOMAIN held' /\ held'[q] = held[q]
      BY <1>2, <3>1, Shrunk DEF LentOK
    <3>5. QED
      BY <1>2, <3>1, <3>3, <3>4, LentStays
  <2>5. ASSUME NEW p \in DOMAIN held, NEW n \in Sizes, SaveMalloc(p, n)
        PROVE  CallType' /\ (fault' = Null => CallOK') /\ LentOK'
    <3> DEFINE new == AllocPtr(heap, n)
    <3>1. /\ MallocOf(n) /\ Ready /\ p \notin DOMAIN lent /\ lent' = lent
          /\ call' = Call("save", p, new, held[p], 0)
      BY <2>5 DEF SaveMalloc
    <3>2. /\ \A q \in DOMAIN held : q \in DOMAIN held' /\ held'[q] = held[q]
          /\ new \in Nat
          /\ fault' = Null /\ new # Null => new \in DOMAIN held' /\ held'[new] = n
      BY <1>2, <3>1, MallocGrown
    <3>3. p \in Nat /\ held[p] \in Nat /\ held[p] \in Sizes
      BY <1>2, SizesAssumption DEF HeapInv, TypeOK
    <3> HIDE DEF new
    <3>4. CallType'
      BY <3>1, <3>2, <3>3 DEF CallType, Call
    <3>5. fault' = Null => CallOK'
      BY <3>1, <3>2, <3>3 DEF CallOK, Call
    <3>6. QED
      BY <1>2, <3>1, <3>2, <3>4, <3>5, LentStays DEF LentOK
  <2>6. CASE ReallocMalloc
    <3>1. call.size \in Sizes /\ MallocOf(call.size) /\ Ready /\ call' = NoCall /\ lent' = lent
      BY <1>2, <2>6 DEF ReallocMalloc, CallOK, Ready
    <3>2. \A q \in DOMAIN held : q \in DOMAIN held' /\ held'[q] = held[q]
      BY <1>2, <3>1, MallocGrown
    <3>3. QED
      BY <1>2, <3>1, <3>2, CallKeeps, LentStays DEF LentOK
  <2>7. CASE SaveCopy
    <3>1. /\ held' = held /\ lent' = lent /\ CallOK /\ call.op = "save"
          /\ call'.op \in {"copied", "stuck"} /\ call'.old = call.old
          /\ call' \in [op: {"none", "realloc", "save", "copied", "stuck", "aligned"},
                        old: Nat, new: Nat, size: Nat, alignment: Nat]
      BY <1>2, <2>7 DEF SaveCopy, Write, Ready, CallType, vars
    <3>2. CallType' /\ CallOK'
      BY <3>1 DEF CallType, CallOK
    <3>3. QED
      BY <1>2, <3>1, <3>2, LentStays DEF LentOK
  <2>8. CASE SaveFree
    <3>1. Free(call.old) /\ call.old \notin DOMAIN lent /\ call' = NoCall /\ lent' = lent
      BY <1>2, <2>8 DEF SaveFree, CallOK, Ready
    <3>2. \A q \in DOMAIN lent : q \in DOMAIN held' /\ held'[q] = held[q]
      BY <1>2, <3>1, Shrunk DEF LentOK
    <3>3. QED
      BY <1>2, <3>1, <3>2, CallKeeps, LentStays
  <2>9. ASSUME NEW request \in Aligned, AlignedMalloc(request[1], request[2])
        PROVE  CallType' /\ (fault' = Null => CallOK') /\ LentOK'
    <3>1. request = <<request[1], request[2]>>
      BY PageAssumption
    <3>2. QED
      BY <2>9, <3>1, AlignedCall
  <2>10. ASSUME NEW raw \in DOMAIN lent, AlignedFree(raw)
         PROVE  CallType' /\ CallOK' /\ LentOK'
    <3>1. held' = held /\ call' = NoCall /\ lent' = lent
      BY <2>10 DEF AlignedFree
    <3>2. QED
      BY <1>2, <3>1, CallKeeps, LentStays DEF LentOK
  <2>11. CASE AlignedStore
    <3>1. call' = NoCall /\ CallOK
      BY <1>2, <2>11 DEF AlignedStore, Ready
    <3>2. QED
      BY <1>2, <2>11, <3>1, CallKeeps, StoreKeeps
  <2>12. CASE AlignedRefused
    <3>1. call' = NoCall /\ held' = held /\ lent' = lent
      BY <2>12 DEF AlignedRefused, vars
    <3>2. QED
      BY <1>2, <3>1, CallKeeps, LentStays DEF LentOK
  <2>13. CASE UNCHANGED kernelVars
    BY <1>2, <2>13 DEF kernelVars, vars, CallType, CallOK, LentOK
  <2>14. QED
    BY <2>1, <2>2, <2>3, <2>4, <2>5, <2>6, <2>7, <2>8, <2>9, <2>10, <2>11, <2>12, <2>13
       DEF KernelNext
<1>4. QED
  BY <1>1, <1>3 DEF KernelInv

-----------------------------------------------------------------------------
(* Theorems                                                                *)

\* The inductive invariant of malloc, free, realloc, save_realloc and aligned_alloc
\* (alloc.c:77-143).
THEOREM KernelInvariant ==
  ASSUME NoWrap, Fitting, 0 \notin Sizes, AlignedSized
  PROVE  KernelSpec => []KernelInv
<1>1. KernelInit => KernelInv
  BY KernelStart
<1>2. KernelInv /\ [KernelNext]_kernelVars => KernelInv'
  BY KernelStep
<1>3. QED
  BY <1>1, <1>2, PTL DEF KernelSpec

\* malloc, realloc, save_realloc and aligned_alloc only ever take the heap's own
\* steps, page faults or not, and the one more of save_realloc, that writes past a
\* block it has made shorter (alloc.c:77-143).
THEOREM ImplementsHeap ==
  ASSUME NoWrap, Fitting, 0 \notin Sizes, AlignedSized
  PROVE  KernelSpec => HeapSpec
<1>1. KernelInit => Init
  BY DEF KernelInit
<1>2. KernelInv /\ [KernelNext]_kernelVars => [HeapNext]_vars
  BY KernelSteps
<1>3. QED
  BY <1>1, <1>2, KernelInvariant, PTL DEF KernelSpec, HeapSpec

\* With realloc, save_realloc and aligned_alloc in use, too, the types hold, the list
\* stays in order, the live blocks are what the callers hold, and no two of them
\* share a byte, and only a request that fits nowhere behind the lowest block is
\* refused (alloc.c:77-143).
THEOREM KernelKeepsHeap ==
  ASSUME NoWrap, Fitting, 0 \notin Sizes, AlignedSized
  PROVE  KernelSpec => [](TypeOK /\ Linked /\ OwnedIsLive /\ ClientsDisjoint /\ RefusedOnlyWhenFull)
<1>1. HeapInv => TypeOK /\ Linked /\ OwnedIsLive /\ ClientsDisjoint
  BY DEF HeapInv, Sound, Linked, OwnedIsLive, Owned
<1>2. HeapInv => RefusedOnlyWhenFull
  BY RefusalsFull
<1>3. KernelInv => HeapInv
  BY DEF KernelInv
<1>4. QED
  BY <1>1, <1>2, <1>3, KernelInvariant, PTL

\* With them in use, too, the counters account for every block (alloc.c:77-143).
THEOREM KernelCountersAccount ==
  ASSUME NoWrap, Fitting, HalfWord, 0 \notin Sizes, AlignedSized
  PROVE  KernelSpec => []Accounting
<1>1. Init => HeapInv /\ CountInv
  BY HeapStart, CountStart
<1>2. HeapInv /\ CountInv /\ [HeapNext]_vars => HeapInv' /\ CountInv'
  BY WideStep, WideCounts
<1>3. CountInv => Accounting
  BY CountsAccount
<1>4. QED
  BY <1>1, <1>2, <1>3, ImplementsHeap, PTL DEF HeapSpec

\* Their callers see a memory pool (alloc.c:77-143).
THEOREM KernelIsPool ==
  ASSUME NoWrap, Fitting, 0 \notin Sizes, AlignedSized
  PROVE  KernelSpec => PoolSpec
<1>1. Init => HeapInv /\ Pool!Init
  BY HeapStart DEF Init, NoHeld, Pool!Init
<1>2. HeapInv /\ [HeapNext]_vars => HeapInv' /\ [Pool!Next]_held
  BY WideStep, WidePool
<1>3. QED
  BY <1>1, <1>2, ImplementsHeap, PTL DEF HeapSpec, PoolSpec, Pool!Spec

\* As long as no header is overwritten, none lies on a stored raw pointer.
RawKept ==
  heap.intact =>
    \A raw \in DOMAIN lent, b \in Live(heap) :
      Apart(lent[raw].ptr - Pointer, Pointer, b, BlockHdr)

\* No step of the heap lays a header on one.
LEMMA RawStays ==
  ASSUME NoWrap, Fitting, HeapInv, LentOK, RawKept, [HeapNext]_vars, lent' = lent
  PROVE  RawKept'
<1>1. SUFFICES ASSUME heap'.intact, NEW raw \in DOMAIN lent, NEW b \in Live(heap')
               PROVE  Apart(lent[raw].ptr - Pointer, Pointer, b, BlockHdr)
  BY DEF RawKept
<1>2. ASSUME heap.intact, b \in Live(heap)
      PROVE  Apart(lent[raw].ptr - Pointer, Pointer, b, BlockHdr)
  BY <1>2 DEF RawKept
<1>3. ASSUME NEW s \in Sizes, Alloc(s)
      PROVE  Apart(lent[raw].ptr - Pointer, Pointer, b, BlockHdr)
  <2>1. heap.intact
    BY <1>3 DEF Alloc
  <2>2. CASE ~CanAlloc(heap, s)
    BY <1>1, <1>2, <1>3, <2>1, <2>2 DEF Alloc, AfterAlloc
  <2>3. CASE CanAlloc(heap, s)
    <3>1. PICK a \in Nat, cur \in Nat : Room(heap, s, a, cur) /\ heap' = Insert(heap, cur, a, s)
      BY <1>3, <2>1, <2>3, Accepted, Zenon
    <3>2. b \in Live(heap) \/ b = a
      BY <1>1, <3>1 DEF Insert, Live
    <3>3. ASSUME b = a
          PROVE  Apart(lent[raw].ptr - Pointer, Pointer, b, BlockHdr)
      <4>1. /\ raw \in DOMAIN held /\ lent[raw].ptr \in Nat /\ lent[raw].size \in Nat
            /\ raw + Pointer <= lent[raw].ptr
            /\ lent[raw].ptr + lent[raw].size <= raw + held[raw]
        BY DEF LentOK
      <4>2. PICK c \in Live(heap) : /\ c \in Nat /\ raw = Data(c) /\ held[raw] = Size(heap, c)
                                    /\ Size(heap, c) \in Nat
        BY <2>1, <4>1, HeldBlock
      <4>3. Data(c) + Size(heap, c) <= a \/ Data(a) + s <= Data(c)
        BY <3>1 DEF Room
      <4>4. s \in Nat
        BY SizesAssumption
      <4>5. QED
        BY <3>3, <4>1, <4>2, <4>3, <4>4, HeapAssumption DEF Apart, Data, Pointer
    <3>4. QED
      BY <1>2, <2>1, <3>2, <3>3
  <2>4. QED
    BY <2>2, <2>3
<1>4. ASSUME NEW p, Free(p)
      PROVE  heap.intact /\ b \in Live(heap)
  BY <1>1, <1>4 DEF Free, AfterFree, Unlink, Live
<1>5. ASSUME NEW p, NEW n, Write(p, n)
      PROVE  heap.intact /\ b \in Live(heap)
  BY <1>1, <1>5 DEF Write, AfterFill, Live
<1>6. CASE UNCHANGED vars
  BY <1>1, <1>2, <1>6 DEF vars
<1>7. QED
  BY <1>2, <1>3, <1>4, <1>5, <1>6 DEF HeapNext, Next, Fill

\* Nor does any step of the kernel; storing one on a header breaks the heap.
LEMMA RawStep ==
  ASSUME NoWrap, Fitting, 0 \notin Sizes, AlignedSized, KernelInv, RawKept,
         [KernelNext]_kernelVars
  PROVE  RawKept'
<1>1. HeapInv /\ LentOK
  BY DEF KernelInv
<1>2. CASE lent' = lent
  BY <1>1, <1>2, KernelSteps, RawStays
<1>3. CASE AlignedStore
  <2> DEFINE raw == call.new
             ptr == RoundedUp(RawAddr(raw), call.alignment)
             got == [ptr |-> ptr, alignment |-> call.alignment, size |-> call.size]
  <2>1. /\ heap.intact /\ heap' = AfterFill(heap, ptr - Pointer, Pointer)
        /\ lent' = [p \in DOMAIN lent \cup {raw} |-> IF p = raw THEN got ELSE lent[p]]
    BY <1>3 DEF AlignedStore, Write
  <2>2. Live(heap') = Live(heap)
    BY <2>1 DEF AfterFill, Live
  <2>3. SUFFICES ASSUME heap'.intact, NEW q \in DOMAIN lent', NEW b \in Live(heap)
                 PROVE  Apart(lent'[q].ptr - Pointer, Pointer, b, BlockHdr)
    BY <2>2 DEF RawKept
  <2>4. got.ptr = ptr
    OBVIOUS
  <2> HIDE DEF raw, ptr, got
  <2>5. Pointer > 0
    BY DEF Pointer
  <2>6. Apart(ptr - Pointer, Pointer, b, BlockHdr)
    <3> DEFINE clear == \A c \in Live(heap) : Apart(ptr - Pointer, Pointer, c, BlockHdr)
    <3>1. heap' = [heap EXCEPT !.intact = heap.intact /\ (Pointer > 0 => clear)]
      BY <2>1, Zenon DEF AfterFill
    <3>2. heap = [first |-> heap.first, used |-> heap.used, free |-> heap.free,
                  block |-> heap.block, intact |-> heap.intact]
      BY <1>1 DEF HeapInv, TypeOK, HeapType
    <3> HIDE DEF clear
    <3>3. heap'.intact => (Pointer > 0 => clear)
      BY <3>1, <3>2
    <3>4. QED
      BY <2>3, <2>5, <3>3 DEF clear
  <2>7. CASE q = raw
    BY <2>1, <2>4, <2>6, <2>7
  <2>8. CASE q # raw
    <3>1. q \in DOMAIN lent /\ lent'[q] = lent[q]
      BY <2>1, <2>8
    <3>2. QED
      BY <2>1, <3>1 DEF RawKept
  <2>9. QED
    BY <2>7, <2>8
<1>4. lent' = lent \/ AlignedStore
  BY DEF KernelNext, Malloc, KernelFree, KernelFill, ReallocFree, ReallocMalloc, SaveMalloc,
         SaveCopy, SaveFree, AlignedMalloc, AlignedRefused, AlignedFree, kernelVars
<1>5. QED
  BY <1>2, <1>3, <1>4

\* aligned_alloc serves powers of two only; what it returns is aligned and inside its
\* block, and so is the raw pointer it stores before it, on which no header is ever
\* laid; free does not take it for a block (alloc.c:127-143).
THEOREM AlignedInBlock ==
  ASSUME NoWrap, Fitting, 0 \notin Sizes, AlignedSized
  PROVE  KernelSpec => []AlignedFits
<1>1. KernelInit => RawKept
  BY DEF KernelInit, RawKept
<1>2. KernelInv /\ RawKept /\ [KernelNext]_kernelVars => RawKept'
  BY RawStep
<1>3. KernelInv /\ RawKept => AlignedFits
  <2> SUFFICES ASSUME KernelInv, RawKept, NEW raw \in DOMAIN lent
               PROVE  LET a == lent[raw]
                      IN  /\ PowerOfTwo(a.alignment) /\ a.ptr % a.alignment = 0
                          /\ raw \in DOMAIN held
                          /\ raw <= a.ptr - Pointer /\ a.ptr + a.size <= raw + held[raw]
                          /\ heap.intact =>
                               /\ \A b \in Live(heap) : Apart(a.ptr - Pointer, Pointer, b, BlockHdr)
                               /\ ~IsPointing(heap, a.ptr)
    BY DEF AlignedFits
  <2>1. heap.intact => ~IsPointing(heap, lent[raw].ptr)
    BY LentMisses DEF KernelInv
  <2>2. heap.intact => \A b \in Live(heap) : Apart(lent[raw].ptr - Pointer, Pointer, b, BlockHdr)
    BY DEF RawKept
  <2>3. /\ PowerOfTwo(lent[raw].alignment) /\ lent[raw].ptr % lent[raw].alignment = 0
        /\ raw \in DOMAIN held /\ raw + Pointer <= lent[raw].ptr
        /\ lent[raw].ptr + lent[raw].size <= raw + held[raw] /\ lent[raw].ptr \in Nat
    BY DEF KernelInv, LentOK
  <2>4. raw <= lent[raw].ptr - Pointer
    BY <2>3 DEF KernelInv, HeapInv, TypeOK, Pointer
  <2>5. QED
    BY <2>1, <2>2, <2>3, <2>4, Zenon
<1>4. QED
  BY <1>1, <1>2, <1>3, KernelInvariant, PTL DEF KernelSpec

-----------------------------------------------------------------------------
(* Pages                                                                   *)

\* Each page from the first of a block to its last is mapped by malloc, but for
\* page 0, whose own call asks for no bytes.
LEMMA PageMapped ==
  ASSUME LowMemory, NEW k \in Nat, k # 0, k * Page < RegionEnd
  PROVE  k \in MapIdentity(k * Page, k * Page)
<1> DEFINE x == k * Page
<1>1. Page \in Nat \ {0} /\ RegionEnd \in Nat /\ Word \in Nat
  BY PageAssumption, HeapAssumption DEF RegionEnd
<1>2. x \in Nat /\ PageOf(x) = k
  BY <1>1, Multiple DEF PageOf
<1>3. x >= Page
  <2>1. PICK j \in Nat : k = j + 1
    <3>1. k - 1 \in Nat /\ k = (k - 1) + 1
      OBVIOUS
    <3>2. QED
      BY <3>1
  <2>2. (j + 1) * Page = j * Page + Page /\ j * Page \in Nat
    BY <1>1
  <2>3. QED
    BY <1>1, <2>1, <2>2
<1> HIDE DEF x
<1>4. W(x + x) = x + x
  <2>1. x + x \in Nat /\ x + x < Word
    BY <1>1, <1>2 DEF LowMemory, x
  <2>2. QED
    BY <2>1, WExact
<1>5. x \in x .. W(x + x) - 1
  BY <1>1, <1>2, <1>3, <1>4
<1>6. x = x + 0 * Page /\ 0 \in 0 .. PageOf(x)
  BY <1>1, <1>2
<1>7. x \in {x + j * Page : j \in 0 .. PageOf(x)} \cap (x .. W(x + x) - 1)
  BY <1>5, <1>6
<1>8. PageOf(x) \in MapIdentity(x, x)
  BY <1>7, Zenon DEF MapIdentity
<1>9. QED
  BY <1>2, <1>8 DEF x

\* malloc maps what it hands out.
LEMMA BlockMapped ==
  ASSUME LowMemory, NEW p \in Nat, NEW n \in Nat \ {0}, p + n <= RegionEnd
  PROVE  PagesOf(p, n) \subseteq {0} \cup MapBlock(p, n)
<1> SUFFICES ASSUME NEW k \in PagesOf(p, n), k # 0
             PROVE  k \in MapBlock(p, n)
  OBVIOUS
<1> DEFINE f == PageOf(p)
           l == PageOf(p + n - 1)
           top == p + n + (Page - 1)
           t == PageOf(top)
<1>1. Page \in Nat \ {0} /\ RegionEnd \in Nat /\ Word \in Nat
  BY PageAssumption, HeapAssumption DEF RegionEnd
<1>2. p + n - 1 \in Nat /\ top \in Nat /\ top < Word
  BY <1>1 DEF LowMemory
<1>3. /\ f \in Nat /\ f * Page <= p
      /\ l \in Nat /\ l * Page <= p + n - 1
      /\ t \in Nat /\ top < t * Page + Page
  BY <1>1, <1>2, DivBound DEF PageOf
<1>4. k \in Nat /\ f <= k /\ k <= l
  BY <1>3 DEF PagesOf
<1>5. PageOf(Down(p)) = f
  BY <1>1, <1>3, Multiple DEF Down, PageOf
<1>6. PageOf(Up(W(p + n))) = t
  <2>1. W(p + n) = p + n
    BY <1>1, <1>2, WExact
  <2>2. W(top) = top
    BY <1>2, WExact
  <2>3. Up(W(p + n)) = t * Page
    BY <2>1, <2>2 DEF Up, Down
  <2>4. QED
    BY <1>1, <1>3, <2>3, Multiple DEF PageOf
<1> HIDE DEF f, l, t
<1>7. l + 1 <= t
  <2>1. SUFFICES ASSUME t <= l PROVE FALSE
    BY <1>3
  <2>2. t * Page <= l * Page /\ t * Page \in Nat /\ l * Page \in Nat
    BY <1>1, <1>3, <2>1
  <2>3. QED
    BY <1>1, <1>2, <1>3, <2>2
<1>8. k \in PageOf(Down(p)) .. PageOf(Up(W(p + n))) - 1
  BY <1>3, <1>4, <1>5, <1>6, <1>7
<1>9. k * Page < RegionEnd
  <2>1. k * Page <= l * Page /\ k * Page \in Nat /\ l * Page \in Nat
    BY <1>1, <1>3, <1>4
  <2>2. QED
    BY <1>1, <1>2, <1>3, <2>1
<1>10. k \in MapIdentity(k * Page, k * Page)
  BY <1>4, <1>9, PageMapped
<1>11. QED
  BY <1>8, <1>10 DEF MapBlock

PagesInv == 0 \in mapped /\ HeldIsMapped

\* Only malloc adds a block, and it maps the block's pages.
LEMMA PagesStep ==
  ASSUME NoWrap, Fitting, 0 \notin Sizes, AlignedSized, LowMemory,
         KernelInv, PagesInv, [KernelNext]_kernelVars
  PROVE  PagesInv'
<1>1. HeapInv /\ LentOK /\ (fault = Null => CallOK)
  BY DEF KernelInv
<1>2. ASSUME NEW n \in Sizes, MallocOf(n)
      PROVE  PagesInv'
  <2>1. CASE HeaderFaults(n)
    BY <2>1 DEF HeaderFaults, vars, PagesInv, HeldIsMapped
  <2>2. CASE MallocReturns(n)
    <3> DEFINE new == AllocPtr(heap, n)
    <3>1. Alloc(n) /\ mapped' = mapped \cup MapBlock(new, n)
      BY <2>2 DEF MallocReturns, WithPages
    <3>2. n \in Nat \ {0}
      BY SizesAssumption
    <3>3. CASE ~CanAlloc(heap, n)
      <4>1. held' = held
        BY <1>1, <3>1, <3>3, Grown
      <4>2. QED
        BY <3>1, <4>1 DEF PagesInv, HeldIsMapped
    <3>4. CASE CanAlloc(heap, n)
      <4>1. /\ \A p \in DOMAIN held : held'[p] = held[p]
            /\ DOMAIN held' = DOMAIN held \cup {new}
            /\ held'[new] = n /\ new \in Nat /\ new + n <= RegionEnd
        BY <1>1, <3>1, <3>4, Grown
      <4>2. PagesOf(new, n) \subseteq mapped'
        BY <3>1, <3>2, <4>1, BlockMapped DEF PagesInv
      <4>3. QED
        BY <3>1, <4>1, <4>2 DEF PagesInv, HeldIsMapped
    <3>5. QED
      BY <3>3, <3>4
  <2>3. QED
    BY <1>2, <2>1, <2>2 DEF MallocOf
<1>3. ASSUME NEW p, Free(p), mapped' = mapped
      PROVE  PagesInv'
  BY <1>3 DEF Free, Drop, PagesInv, HeldIsMapped
<1>4. ASSUME held' = held, mapped' = mapped
      PROVE  PagesInv'
  BY <1>4 DEF PagesInv, HeldIsMapped
<1>5. CASE \E n \in Sizes : Malloc(n)
  BY <1>2, <1>5 DEF Malloc
<1>6. CASE \E p \in DOMAIN held \cup Strays : KernelFree(p)
  BY <1>3, <1>6 DEF KernelFree
<1>7. CASE \E p \in DOMAIN held : KernelFill(p)
  BY <1>4, <1>7 DEF KernelFill, Fill, Write
<1>8. CASE \E p \in DOMAIN held, n \in Sizes : ReallocFree(p, n)
  BY <1>3, <1>8 DEF ReallocFree
<1>9. CASE \E p \in DOMAIN held, n \in Sizes : SaveMalloc(p, n)
  BY <1>2, <1>9 DEF SaveMalloc
<1>10. CASE ReallocMalloc
  BY <1>1, <1>2, <1>10 DEF ReallocMalloc, CallOK, Ready
<1>11. CASE SaveCopy
  BY <1>4, <1>11 DEF SaveCopy, Write, vars
<1>12. CASE SaveFree
  BY <1>3, <1>12 DEF SaveFree
<1>13. CASE \E request \in Aligned : AlignedMalloc(request[1], request[2])
  BY <1>2, <1>13 DEF AlignedMalloc, AlignedSized
<1>14. CASE \E raw \in DOMAIN lent : AlignedFree(raw)
  BY <1>4, <1>14 DEF AlignedFree
<1>15. CASE AlignedStore \/ AlignedRefused
  BY <1>4, <1>15 DEF AlignedStore, AlignedRefused, Write, vars
<1>16. CASE UNCHANGED kernelVars
  BY <1>4, <1>16 DEF kernelVars, vars
<1>17. QED
  BY <1>5, <1>6, <1>7, <1>8, <1>9, <1>10, <1>11, <1>12, <1>13, <1>14, <1>15, <1>16
     DEF KernelNext

\* Page 0, mapped before the kernel allocates, stays mapped, and so does every block
\* (paging.c:63-74).
THEOREM PagesInvariant ==
  ASSUME NoWrap, Fitting, 0 \notin Sizes, AlignedSized, LowMemory
  PROVE  KernelSpec => []PagesInv
<1>1. KernelInit => PagesInv
  BY DEF KernelInit, Init, NoHeld, PagesInv, HeldIsMapped
<1>2. KernelInv /\ PagesInv /\ [KernelNext]_kernelVars => PagesInv'
  BY PagesStep
<1>3. QED
  BY <1>1, <1>2, KernelInvariant, PTL DEF KernelSpec

\* Every byte of every block is mapped while its owner may touch it, for every page
\* size and every region in the lower half of the address space (alloc.c:77-86,
\* paging.c:63-74).
THEOREM BlocksMapped ==
  ASSUME NoWrap, Fitting, 0 \notin Sizes, AlignedSized, LowMemory
  PROVE  KernelSpec => []HeldIsMapped
<1>1. PagesInv => HeldIsMapped
  BY DEF PagesInv
<1>2. QED
  BY <1>1, PagesInvariant, PTL

-----------------------------------------------------------------------------
(* Faults                                                                  *)

\* A range whose pages are not all mapped, right after a mapped byte, has a page's
\* first byte.
LEMMA EdgeBetween ==
  ASSUME NEW a \in Nat \ {0}, NEW n \in Nat \ {0}, NEW S,
         PageOf(a - 1) \in S, ~(PagesOf(a, n) \subseteq S)
  PROVE  \E x \in a .. a + n - 1 : x % Page = 0
<1>1. PICK k \in PagesOf(a, n) : k \notin S
  OBVIOUS
<1> DEFINE before == PageOf(a - 1)
           f == PageOf(a)
           l == PageOf(a + n - 1)
<1>2. Page \in Nat \ {0} /\ a - 1 \in Nat /\ a + n - 1 \in Nat
  BY PageAssumption
<1>3. /\ before \in Nat /\ a - 1 < before * Page + Page
      /\ l \in Nat /\ l * Page <= a + n - 1 /\ f \in Nat
  BY <1>2, DivBound DEF PageOf
<1>4. before <= f
  BY <1>2, DivMono DEF PageOf
<1>5. k \in Nat /\ f <= k /\ k <= l /\ k # before
  BY <1>1, <1>3 DEF PagesOf
<1> HIDE DEF before, f, l
<1>6. before + 1 <= k
  BY <1>3, <1>4, <1>5
<1>7. (before + 1) * Page <= k * Page /\ k * Page <= l * Page
  BY <1>2, <1>3, <1>5, <1>6
<1>8. (before + 1) * Page = before * Page + Page /\ before * Page \in Nat
  BY <1>2, <1>3
<1>9. k * Page \in Nat /\ (k * Page) % Page = 0
  BY <1>2, <1>5, Multiple
<1>10. k * Page \in a .. a + n - 1
  BY <1>2, <1>3, <1>7, <1>8, <1>9
<1>11. QED
  BY <1>9, <1>10

\* The byte before the place of a new header is mapped.
LEMMA BeforePlace ==
  ASSUME NoWrap, Fitting, 0 \notin Sizes, HeapInv, heap.intact, PagesInv,
         NEW s \in Sizes, CanAlloc(heap, s)
  PROVE  Place(heap, s) \in Nat \ {0} /\ PageOf(Place(heap, s) - 1) \in mapped
<1> DEFINE a   == Place(heap, s)
           cur == Pred(heap, s)
<1>1. HeapType(heap) /\ Ordered(heap) /\ Placed(heap) /\ Owned(heap, held)
  BY DEF HeapInv, TypeOK, Sound
<1>2. Room(heap, s, a, cur)
  BY <1>1, AllocRoom
<1>3. a \in Nat \ {0}
  BY <1>2, HeapAssumption DEF Room, FirstBlock
<1>4. CASE heap.first = Null
  <2>1. a = FirstBlock /\ FirstBlock <= Page /\ Page \in Nat \ {0}
    BY <1>4, PageAssumption DEF Place
  <2>2. (a - 1) \div Page = 0
    <3>1. 0 * Page = 0
      BY <2>1
    <3>2. QED
      BY <1>3, <2>1, <3>1, DivUnique
  <2>3. QED
    BY <1>3, <2>2 DEF PageOf, PagesInv
<1>5. CASE heap.first # Null
  <2>1. cur \in Live(heap) /\ a = Data(cur) + Size(heap, cur)
    BY <1>1, <1>2, <1>5 DEF Room, Ordered
  <2> DEFINE q == Data(cur)
             n == Size(heap, cur)
  <2>2. q \in DOMAIN held /\ held[q] = n
    BY <1>1, <2>1 DEF Owned
  <2>3. q \in Nat /\ n \in Nat \ {0}
    BY <1>1, <2>1, NodeType
  <2>4. PagesOf(q, n) \subseteq mapped
    BY <2>2 DEF PagesInv, HeldIsMapped
  <2> HIDE DEF q, n
  <2>5. Page \in Nat \ {0} /\ q + n - 1 \in Nat /\ q <= q + n - 1
    BY <2>3, PageAssumption
  <2>6. PageOf(q) \in Nat /\ PageOf(q + n - 1) \in Nat /\ PageOf(q) <= PageOf(q + n - 1)
    BY <2>3, <2>5, DivBound, DivMono DEF PageOf
  <2>7. PageOf(q + n - 1) \in PagesOf(q, n)
    BY <2>3, <2>6 DEF PagesOf
  <2>8. a - 1 = q + n - 1
    <3>1. a = q + n
      BY <2>1 DEF q, n
    <3>2. QED
      BY <2>3, <3>1
  <2>9. QED
    BY <1>3, <2>4, <2>7, <2>8
<1>6. QED
  BY <1>4, <1>5

\* A fault is noted by malloc only.
LEMMA FaultStep ==
  ASSUME NoWrap, Fitting, 0 \notin Sizes, AlignedSized,
         KernelInv, PagesInv, FaultsAtPageEdge, [KernelNext]_kernelVars
  PROVE  FaultsAtPageEdge'
<1>1. ASSUME NEW n \in Sizes, MallocOf(n), Ready
      PROVE  FaultsAtPageEdge'
  <2>1. CASE MallocReturns(n)
    BY <2>1 DEF MallocReturns, FaultsAtPageEdge
  <2>2. CASE HeaderFaults(n)
    <3> DEFINE a == Place(heap, n)
    <3>1. /\ CanAlloc(heap, n) /\ ~(PagesOf(a, BlockHdr) \subseteq mapped)
          /\ fault' = a /\ heap.intact
      BY <1>1, <2>2 DEF HeaderFaults, HeaderMapped, Ready
    <3>2. a \in Nat \ {0} /\ PageOf(a - 1) \in mapped
      BY <3>1, BeforePlace DEF KernelInv
    <3> HIDE DEF a
    <3>3. \E x \in a .. a + BlockHdr - 1 : x % Page = 0
      BY <3>1, <3>2, EdgeBetween, HeapAssumption
    <3>4. QED
      BY <3>1, <3>3 DEF FaultsAtPageEdge
  <2>3. QED
    BY <1>1, <2>1, <2>2 DEF MallocOf
<1>2. ASSUME fault' = fault
      PROVE  FaultsAtPageEdge'
  BY <1>2 DEF FaultsAtPageEdge
<1>3. CASE \E n \in Sizes : Malloc(n)
  BY <1>1, <1>3 DEF Malloc
<1>4. CASE \E p \in DOMAIN held, n \in Sizes : SaveMalloc(p, n)
  BY <1>1, <1>4 DEF SaveMalloc
<1>5. CASE ReallocMalloc
  BY <1>1, <1>5 DEF ReallocMalloc, KernelInv, CallOK, Ready
<1>6. CASE \E request \in Aligned : AlignedMalloc(request[1], request[2])
  BY <1>1, <1>6 DEF AlignedMalloc, AlignedSized
<1>7. CASE \/ \E p \in DOMAIN held \cup Strays : KernelFree(p)
           \/ \E p \in DOMAIN held : KernelFill(p)
           \/ \E p \in DOMAIN held, n \in Sizes : ReallocFree(p, n)
           \/ SaveCopy \/ SaveFree \/ AlignedStore \/ AlignedRefused
           \/ \E raw \in DOMAIN lent : AlignedFree(raw)
           \/ UNCHANGED kernelVars
  BY <1>2, <1>7
     DEF KernelFree, KernelFill, ReallocFree, SaveCopy, SaveFree, AlignedStore, AlignedRefused,
         AlignedFree, kernelVars
<1>8. QED
  BY <1>3, <1>4, <1>5, <1>6, <1>7 DEF KernelNext

\* alloc can fault on nothing but a header that touches the first byte of a page
\* (alloc.c:33-70, 78-83).
THEOREM FaultPlace ==
  ASSUME NoWrap, Fitting, 0 \notin Sizes, AlignedSized, LowMemory
  PROVE  KernelSpec => []FaultsAtPageEdge
<1>1. KernelInit => FaultsAtPageEdge
  BY DEF KernelInit, FaultsAtPageEdge
<1>2. /\ KernelInv /\ PagesInv /\ FaultsAtPageEdge /\ [KernelNext]_kernelVars
      => FaultsAtPageEdge'
  BY FaultStep
<1>3. QED
  BY <1>1, <1>2, KernelInvariant, PagesInvariant, PTL DEF KernelSpec

=============================================================================
