----------------------------- MODULE HeapProofs -----------------------------
(***************************************************************************)
(* Proofs about Heap, for every region, every header size and every set of *)
(* request sizes that satisfies NoWrap and Fitting.                        *)
(***************************************************************************)
EXTENDS Heap, TLAPS, WellFoundedInduction, FiniteSetTheorems

-----------------------------------------------------------------------------
(* Arithmetic                                                              *)

\* uint32_t arithmetic is exact below 2^32 and never leaves Nat.
LEMMA WExact ==
  ASSUME NEW x \in Nat, x < Word
  PROVE  W(x) = x
  BY HeapAssumption DEF W

LEMMA WNat ==
  ASSUME NEW x \in Int
  PROVE  W(x) \in Nat
  BY HeapAssumption DEF W

\* Min of FiniteSetsExt is the least element of a non-empty set of naturals.
LEMMA MinLeast ==
  ASSUME NEW S \in SUBSET Nat, S # {}
  PROVE  Min(S) \in S /\ \A x \in S : Min(S) <= x
<1>1. PICK m \in S : \A y \in S : ~(<<y, m>> \in OpToRel(<, Nat))
  BY NatLessThanWellFounded, WFMin, Zenon
<1>2. ASSUME NEW y \in S
      PROVE  ~(y < m)
  <2>1. <<y, m>> \in Nat \X Nat /\ <<y, m>>[1] = y /\ <<y, m>>[2] = m
    OBVIOUS
  <2>2. y < m => <<y, m>> \in OpToRel(<, Nat)
    BY <2>1, Zenon DEF OpToRel
  <2>3. QED
    BY <1>1, <2>2, Zenon
<1>3. \A y \in S : m <= y
  BY <1>2
<1>4. QED
  BY <1>3 DEF Min

-----------------------------------------------------------------------------
(* The inductive invariant                                                 *)

\* Every block lies in the region, and its data ends before the next data
\* begins: what the gap test gives (it does not give "before the next header").
Placed(h) ==
  \A a \in Live(h) :
    /\ FirstBlock <= a
    /\ Data(a) + Size(h, a) <= RegionEnd
    /\ NextOf(h, a) # Null => Data(a) + Size(h, a) <= Data(NextOf(h, a))

\* The callers' areas are the live blocks' data.
Owned(h, H) == /\ DOMAIN H = {Data(a) : a \in Live(h)}
               /\ \A a \in Live(h) : H[Data(a)] = Size(h, a)

Sound == heap.intact => Ordered(heap) /\ Placed(heap) /\ Owned(heap, held)

HeapInv == TypeOK /\ ClientsDisjoint /\ Sound

-----------------------------------------------------------------------------
(* Reading a heap                                                          *)

LEMMA NodeType ==
  ASSUME NEW h, HeapType(h), NEW a \in Live(h)
  PROVE  /\ a \in Nat /\ Size(h, a) \in Sizes /\ Size(h, a) \in Nat
         /\ NextOf(h, a) \in Nat /\ Data(a) \in Nat
  BY HeapAssumption, SizesAssumption DEF HeapType, Size, NextOf, Data, Live

\* Data areas are in list order, and so do not meet.
LEMMA DataOrder ==
  ASSUME NEW h, HeapType(h), Ordered(h), Placed(h),
         NEW a \in Live(h), NEW b \in Live(h), a < b
  PROVE  Data(a) + Size(h, a) <= Data(b)
<1> DEFINE n == NextOf(h, a)
<1>1. a \in Nat /\ b \in Nat /\ Size(h, a) \in Nat /\ n \in Nat
  BY NodeType
<1>2. n # Null /\ n <= b
  BY <1>1 DEF Ordered
<1>3. Data(a) + Size(h, a) <= Data(n)
  BY <1>2 DEF Placed
<1>4. QED
  BY <1>1, <1>2, <1>3, HeapAssumption DEF Data

\* The end of a live block is computed without overflow.
LEMMA EndExact ==
  ASSUME NEW h, HeapType(h), Placed(h), NEW a \in Live(h)
  PROVE  End(h, a) = Data(a) + Size(h, a)
<1>1. Data(a) + Size(h, a) \in Nat /\ Data(a) + Size(h, a) < Word
  BY NodeType, HeapAssumption DEF Placed, RegionEnd
<1>2. QED
  BY <1>1, WExact DEF End

-----------------------------------------------------------------------------
(* alloc                                                                   *)

\* Where a new block lies: in the region, its data past the data of the blocks
\* up to its predecessor and before the data of the blocks after it.
Room(h, s, a, cur) ==
  /\ a \in Nat /\ FirstBlock <= a /\ Data(a) + s <= RegionEnd
  /\ Live(h) # {} => cur \in Live(h) /\ a = Data(cur) + Size(h, cur)
  /\ \A b \in Live(h) :
       \/ b <= cur /\ Data(b) + Size(h, b) <= a
       \/ /\ cur < b /\ NextOf(h, cur) # Null /\ NextOf(h, cur) <= b
          /\ Data(a) + s <= Data(b)

LEMMA AllocRoom ==
  ASSUME NEW h, HeapType(h), Ordered(h), Placed(h), NoWrap, Fitting,
         NEW s \in Sizes, CanAlloc(h, s)
  PROVE  Room(h, s, Place(h, s), Pred(h, s))
<1> DEFINE cur == Pred(h, s)
           a   == Place(h, s)
<1>1. s \in Nat
  BY SizesAssumption
<1>2. CASE h.first = Null
  <2>1. Live(h) = {} /\ a = FirstBlock
    BY <1>2 DEF Ordered, Place
  <2>2. a \in Nat /\ FirstBlock <= a /\ Data(a) + s <= RegionEnd
    BY <1>1, <2>1, HeapAssumption DEF Fitting, FirstBlock, RegionEnd, Data
  <2>3. QED
    BY <2>1, <2>2 DEF Room
<1>3. CASE h.first # Null
  <2>1. Spots(h, s) # {} /\ Spots(h, s) \in SUBSET Nat /\ Spots(h, s) \subseteq Live(h)
    BY <1>3 DEF CanAlloc, Spots, HeapType
  <2>2. cur \in Spots(h, s)
    BY <1>3, <2>1, MinLeast DEF Pred
  <2>3. cur \in Live(h)
    BY <2>1, <2>2
  <2>4. /\ cur \in Nat /\ Size(h, cur) \in Nat /\ Size(h, cur) \in Sizes
        /\ NextOf(h, cur) \in Nat
    BY <2>3, NodeType
  <2>5. a = Data(cur) + Size(h, cur)
    BY <1>3, <2>3, EndExact DEF Place
  <2>6. a \in Nat /\ FirstBlock <= a /\ a <= RegionEnd
    BY <2>3, <2>4, <2>5, HeapAssumption DEF Placed, Data, FirstBlock
  <2>7. Data(a) + s \in Nat /\ Data(a) + s < Word /\ W(Data(a) + s) = Data(a) + s
    <3>1. Data(a) + s \in Nat /\ Data(a) + s < Word
      BY <1>1, <2>6, HeapAssumption DEF NoWrap, Data, RegionEnd
    <3>2. QED
      BY <3>1, WExact
  <2>8. NextOf(h, cur) = Null => Data(a) + s <= RegionEnd
    <3>1. W(RegionEnd) = RegionEnd
      BY WExact, HeapAssumption DEF RegionEnd
    <3>2. W(End(h, cur) + BlockHdr + s) = Data(a) + s
      BY <1>1, <2>3, <2>4, <2>5, <2>7, EndExact, HeapAssumption DEF Data
    <3>3. QED
      BY <2>2, <3>1, <3>2 DEF Spots, FitsTail
  <2>9. NextOf(h, cur) # Null => Data(a) + s <= Data(NextOf(h, cur))
    <3>1. W(Data(cur) + Size(h, cur) + BlockHdr + s) = Data(a) + s
      BY <1>1, <2>4, <2>5, <2>7, HeapAssumption DEF Data
    <3>2. QED
      BY <2>2, <3>1 DEF Spots, FitsGap
  <2>10. Data(a) + s <= RegionEnd
    <3>1. CASE NextOf(h, cur) = Null
      BY <2>8, <3>1
    <3>2. CASE NextOf(h, cur) # Null
      <4>1. NextOf(h, cur) \in Live(h)
        BY <2>3, <3>2 DEF Ordered
      <4>2. Data(NextOf(h, cur)) <= RegionEnd /\ Data(NextOf(h, cur)) \in Nat
        BY <4>1, NodeType, HeapAssumption DEF Placed, RegionEnd
      <4>3. QED
        BY <1>1, <2>7, <2>9, <3>2, <4>2, HeapAssumption DEF RegionEnd
    <3>3. QED
      BY <3>1, <3>2
  <2>11. ASSUME NEW b \in Live(h), b <= cur
         PROVE  Data(b) + Size(h, b) <= a
    <3>1. CASE b = cur
      BY <2>5, <2>6, <3>1, HeapAssumption
    <3>2. CASE b < cur
      <4>1. Data(b) + Size(h, b) <= Data(cur)
        BY <2>3, <3>2, DataOrder
      <4>2. QED
        BY <2>4, <2>5, <4>1, NodeType, HeapAssumption DEF Data
    <3>3. QED
      BY <2>4, <2>11, <3>1, <3>2, NodeType
  <2>12. ASSUME NEW b \in Live(h), cur < b
         PROVE  /\ NextOf(h, cur) # Null /\ NextOf(h, cur) <= b
                /\ Data(a) + s <= Data(b)
    <3>1. NextOf(h, cur) # Null /\ NextOf(h, cur) <= b
      BY <2>3, <2>4, <2>12, NodeType DEF Ordered
    <3>2. QED
      BY <1>1, <2>4, <2>7, <2>9, <3>1, NodeType, HeapAssumption DEF Data
  <2>13. \A b \in Live(h) : b <= cur \/ cur < b
    BY <2>4, NodeType
  <2>14. QED
    BY <2>3, <2>5, <2>6, <2>10, <2>11, <2>12, <2>13 DEF Room
<1>4. QED
  BY <1>2, <1>3

LEMMA InsertType ==
  ASSUME NEW h, HeapType(h), NEW s \in Sizes, NEW a \in Nat, NEW cur \in Nat,
         Live(h) # {} => cur \in Live(h), h.first = Null <=> Live(h) = {},
         cur = Null <=> h.first = Null
  PROVE  HeapType(Insert(h, cur, a, s))
<1> DEFINE g == Insert(h, cur, a, s)
<1>1. Live(g) = Live(h) \cup {a} /\ Live(g) \subseteq Nat
  BY DEF Insert, Live, HeapType
<1>2. W(h.used + s + BlockHdr) \in Nat /\ W(h.free - (s + BlockHdr)) \in Nat
  BY SizesAssumption, HeapAssumption, WNat DEF HeapType
<1>3. ASSUME NEW b \in Live(g)
      PROVE  g.block[b] \in [size: Sizes, next: Nat]
  <2>1. g.block[b] = IF b = a THEN NewNode(h, cur, s)
                     ELSE IF b = cur THEN [size |-> Size(h, b), next |-> a]
                     ELSE h.block[b]
    BY <1>1 DEF Insert
  <2>2. CASE b = a
    BY <2>1, <2>2, NodeType DEF NewNode, Null
  <2>3. CASE b # a
    BY <1>1, <2>1, <2>3, NodeType DEF HeapType, Live
  <2>4. QED
    BY <2>2, <2>3
<1>4. g.block \in [Live(g) -> [size: Sizes, next: Nat]]
  BY <1>1, <1>3 DEF Insert, Live
<1>5. g.intact \in BOOLEAN /\ g.first \in Nat
  BY DEF Insert, HeapType
<1>6. QED
  BY <1>1, <1>2, <1>4, <1>5 DEF HeapType, Insert

\* A block inserted in such a room, whose header meets no other header or which has
\* data, keeps the list in order and every block in its place.
LEMMA InsertKeeps ==
  ASSUME NEW h, HeapType(h), Ordered(h), Placed(h),
         NEW s \in Sizes, NEW a \in Nat, NEW cur \in Nat,
         Room(h, s, a, cur), HeaderFree(h, a) \/ s # 0, cur = Null <=> h.first = Null
  PROVE  Ordered(Insert(h, cur, a, s)) /\ Placed(Insert(h, cur, a, s))
<1> DEFINE g   == Insert(h, cur, a, s)
           nxt == NextOf(h, cur)
<1>1. Live(g) = Live(h) \cup {a} /\ s \in Nat /\ a # Null
  BY SizesAssumption, HeapAssumption
     DEF Insert, Live, Room, FirstBlock, Null
<1>2. ASSUME NEW b \in Live(h)
      PROVE  /\ b \in Nat /\ b # a
             /\ b <= cur => b < a
             /\ cur < b => a < b
  <2>1. b \in Nat /\ Size(h, b) \in Nat
    BY NodeType
  <2>2. Apart(a, BlockHdr, b, BlockHdr) \/ s # 0
    BY DEF HeaderFree
  <2>3. CASE b <= cur /\ Data(b) + Size(h, b) <= a
    BY <2>1, <2>3, HeapAssumption DEF Data
  <2>4. CASE cur < b /\ Data(a) + s <= Data(b)
    BY <1>1, <2>1, <2>2, <2>4, HeapAssumption DEF Data, Apart
  <2>5. QED
    BY <2>3, <2>4 DEF Room
<1>3. CASE h.first = Null
  <2>1. Live(h) = {} /\ cur = Null
    BY <1>3 DEF Ordered
  <2>2. g.first = a /\ Live(g) = {a} /\ g.block[a] = [size |-> s, next |-> Null]
    BY <1>1, <2>1 DEF Insert, NewNode
  <2>3. QED
    BY <1>1, <2>2 DEF Ordered, Placed, Room, Size, NextOf, Null
<1>4. CASE h.first # Null
  <2>1. cur \in Live(h) /\ cur # Null /\ g.first = h.first /\ h.first \in Live(h)
    BY <1>4 DEF Ordered, Room, Insert
  <2>2. NextOf(g, a) = nxt /\ Size(g, a) = s
    BY <1>1, <2>1 DEF Insert, NewNode, NextOf, Size
  <2>3. NextOf(g, cur) = a /\ Size(g, cur) = Size(h, cur)
    BY <1>1, <1>2, <2>1 DEF Insert, NextOf, Size
  <2>4. ASSUME NEW b \in Live(h), b # cur
        PROVE  NextOf(g, b) = NextOf(h, b) /\ Size(g, b) = Size(h, b)
    BY <1>1, <1>2, <2>1, <2>4 DEF Insert, NextOf, Size
  <2>5. cur < a
    BY <1>2, <2>1
  <2>6. \A b \in Live(h) : b <= cur \/ cur < b
    BY <1>2
  <2>7. nxt # Null => nxt \in Live(h) /\ cur < nxt /\ a < nxt
    <3>1. nxt # Null => nxt \in Live(h) /\ cur < nxt
      BY <2>1 DEF Ordered
    <3>2. QED
      BY <1>2, <3>1
  <2>8. \A b \in Live(g) : g.first <= b
    <3>1. \A b \in Live(h) : h.first <= b
      BY DEF Ordered
    <3>2. h.first <= a
      <4>1. h.first \in Nat /\ h.first <= cur
        BY <2>1, <3>1 DEF HeapType
      <4>2. QED
        BY <2>5, <4>1
    <3>3. QED
      BY <1>1, <2>1, <3>1, <3>2
  <2>9. ASSUME NEW b \in Live(g), NextOf(g, b) = Null, NEW c \in Live(g)
        PROVE  c <= b
    <3>1. b # cur
      BY <1>1, <2>3, <2>9
    <3>2. CASE b = a
      <4>1. \A d \in Live(h) : d <= cur
        BY <2>1, <2>2, <2>9, <3>2 DEF Ordered
      <4>2. QED
        BY <1>1, <1>2, <3>2, <4>1
    <3>3. CASE b # a
      <4>1. b \in Live(h) /\ \A d \in Live(h) : d <= b
        BY <1>1, <2>4, <2>9, <3>1, <3>3 DEF Ordered
      <4>2. cur < b
        BY <1>2, <2>1, <3>1, <4>1
      <4>3. QED
        BY <1>1, <1>2, <4>1, <4>2
    <3>4. QED
      BY <3>2, <3>3
  <2>10. ASSUME NEW b \in Live(g), NextOf(g, b) # Null
         PROVE  /\ NextOf(g, b) \in Live(g)
                /\ b < NextOf(g, b)
                /\ \A c \in Live(g) : c <= b \/ NextOf(g, b) <= c
    <3>1. CASE b = cur
      BY <1>1, <1>2, <2>3, <2>5, <2>6, <3>1
    <3>2. CASE b = a
      <4>1. \A c \in Live(h) : c <= cur \/ nxt <= c
        BY <2>1, <2>2, <2>10, <3>2 DEF Ordered
      <4>2. QED
        BY <1>1, <1>2, <2>2, <2>7, <2>10, <3>2, <4>1
    <3>3. CASE b # cur /\ b # a
      <4>1. b \in Live(h) /\ NextOf(g, b) = NextOf(h, b)
        BY <1>1, <2>4, <3>3
      <4>2. /\ NextOf(h, b) \in Live(h) /\ b < NextOf(h, b)
            /\ \A c \in Live(h) : c <= b \/ NextOf(h, b) <= c
        BY <2>10, <4>1 DEF Ordered
      <4>3. a <= b \/ NextOf(h, b) <= a
        <5>1. CASE b < cur
          <6>1. NextOf(h, b) <= cur
            BY <2>1, <4>1, <4>2, <5>1, NodeType
          <6>2. QED
            BY <2>1, <2>5, <4>1, <4>2, <6>1, NodeType
        <5>2. CASE cur < b
          BY <1>2, <4>1, <5>2, NodeType
        <5>3. QED
          BY <2>1, <3>3, <4>1, <5>1, <5>2, NodeType
      <4>4. QED
        BY <1>1, <4>1, <4>2, <4>3
    <3>4. QED
      BY <3>1, <3>2, <3>3
  <2>11. Ordered(g)
    BY <1>1, <1>4, <2>1, <2>8, <2>9, <2>10 DEF Ordered, Null
  <2>12. ASSUME NEW b \in Live(g)
         PROVE  /\ FirstBlock <= b
                /\ Data(b) + Size(g, b) <= RegionEnd
                /\ NextOf(g, b) # Null => Data(b) + Size(g, b) <= Data(NextOf(g, b))
    <3>1. CASE b = a
      <4>1. nxt # Null => Data(a) + s <= Data(nxt)
        <5>1. nxt # Null => nxt \in Live(h) /\ ~(nxt <= cur)
          BY <2>7, NodeType
        <5>2. QED
          BY <5>1 DEF Room
      <4>2. QED
        BY <2>2, <3>1, <4>1 DEF Room
    <3>2. CASE b = cur
      <4>1. Data(cur) + Size(h, cur) = a
        BY <2>1 DEF Room
      <4>2. QED
        BY <2>1, <2>3, <3>2, <4>1, HeapAssumption DEF Placed, Data
    <3>3. CASE b # a /\ b # cur
      BY <1>1, <2>4, <3>3 DEF Placed
    <3>4. QED
      BY <3>1, <3>2, <3>3
  <2>13. QED
    BY <2>11, <2>12 DEF Placed
<1>5. QED
  BY <1>3, <1>4

-----------------------------------------------------------------------------
(* free                                                                    *)

LEMMA UnlinkType ==
  ASSUME NEW h, HeapType(h), NEW a \in Live(h)
  PROVE  HeapType(Unlink(h, a))
<1> DEFINE g == Unlink(h, a)
<1>1. Live(g) = Live(h) \ {a} /\ Live(g) \subseteq Nat
  BY DEF Unlink, Live, HeapType
<1>2. UsedWithout(h, a) \in Nat /\ FreeWith(h, a) \in Nat
  BY NodeType, HeapAssumption, WNat DEF HeapType, UsedWithout, FreeWith
<1>3. \A b \in Live(h) : Relink(h, a, b) \in [size: Sizes, next: Nat]
  BY NodeType DEF Relink
<1>4. g.block \in [Live(g) -> [size: Sizes, next: Nat]]
  BY <1>1, <1>3 DEF Unlink, Live
<1>5. g.first \in Nat /\ g.intact \in BOOLEAN
  BY NodeType DEF Unlink, HeapType
<1>6. QED
  BY <1>1, <1>2, <1>4, <1>5 DEF HeapType, Unlink

\* Unlinking any live block keeps the others in order and in place.
LEMMA UnlinkKeeps ==
  ASSUME NEW h, HeapType(h), Ordered(h), Placed(h), NEW a \in Live(h)
  PROVE  Ordered(Unlink(h, a)) /\ Placed(Unlink(h, a))
<1> DEFINE g   == Unlink(h, a)
           nxt == NextOf(h, a)
<1>1. Live(g) = Live(h) \ {a} /\ g.first = IF h.first = a THEN nxt ELSE h.first
  BY DEF Unlink, Live
<1>2. ASSUME NEW b \in Live(g)
      PROVE  /\ b \in Live(h) /\ Size(g, b) = Size(h, b)
             /\ NextOf(g, b) = IF NextOf(h, b) = a THEN nxt ELSE NextOf(h, b)
  BY <1>1 DEF Unlink, Relink, Size, NextOf
<1>3. \A b \in Live(h) : b \in Nat /\ NextOf(h, b) \in Nat /\ (b < a \/ b = a \/ a < b)
  BY NodeType
<1>4. nxt # Null => /\ nxt \in Live(h) /\ a < nxt
                    /\ \A b \in Live(h) : b <= a \/ nxt <= b
  BY DEF Ordered
<1>5. nxt = Null => \A b \in Live(h) : b <= a
  BY DEF Ordered
<1>6. h.first \in Live(h) /\ a # Null /\ \A b \in Live(h) : h.first <= b
  BY HeapAssumption DEF Ordered, Placed, FirstBlock, Null
<1>7. nxt # Null => nxt \in Live(g)
  BY <1>1, <1>3, <1>4
<1>8. g.first = Null <=> Live(g) = {}
  <2>1. CASE h.first = a
    <3>1. nxt = Null => Live(g) = {}
      BY <1>1, <1>3, <1>5, <1>6, <2>1
    <3>2. QED
      BY <1>1, <1>7, <2>1, <3>1
  <2>2. CASE h.first # a
    BY <1>1, <1>6, <2>2 DEF Ordered
  <2>3. QED
    BY <2>1, <2>2
<1>9. g.first # Null => g.first \in Live(g)
  BY <1>1, <1>6, <1>7
<1>10. ASSUME NEW b \in Live(g)
       PROVE  g.first <= b
  <2>1. CASE h.first = a
    <3>1. a < b
      BY <1>1, <1>3, <1>6, <2>1
    <3>2. nxt # Null
      BY <1>1, <1>3, <1>5, <3>1
    <3>3. QED
      BY <1>1, <1>3, <1>4, <2>1, <3>1, <3>2
  <2>2. CASE h.first # a
    BY <1>1, <1>6, <2>2
  <2>3. QED
    BY <2>1, <2>2
<1>11. ASSUME NEW b \in Live(g), NextOf(g, b) = Null, NEW c \in Live(g)
       PROVE  c <= b
  <2>1. CASE NextOf(h, b) = a
    <3>1. nxt = Null
      BY <1>2, <1>11, <2>1
    <3>2. c <= a /\ (c <= b \/ a <= c)
      BY <1>1, <1>5, <1>6, <2>1, <3>1 DEF Ordered
    <3>3. QED
      BY <1>1, <1>3, <3>2
  <2>2. CASE NextOf(h, b) # a
    BY <1>1, <1>2, <1>11, <2>2 DEF Ordered
  <2>3. QED
    BY <2>1, <2>2
<1>12. ASSUME NEW b \in Live(g), NextOf(g, b) # Null
       PROVE  /\ NextOf(g, b) \in Live(g)
              /\ b < NextOf(g, b)
              /\ \A c \in Live(g) : c <= b \/ NextOf(g, b) <= c
  <2>1. CASE NextOf(h, b) = a
    <3>1. NextOf(g, b) = nxt /\ nxt # Null /\ b \in Live(h)
      BY <1>2, <1>12, <2>1
    <3>2. b < a /\ \A c \in Live(h) : c <= b \/ a <= c
      BY <1>6, <2>1, <3>1 DEF Ordered
    <3>3. b < nxt
      BY <1>3, <1>4, <3>1, <3>2
    <3>4. ASSUME NEW c \in Live(g)
          PROVE  c <= b \/ nxt <= c
      BY <1>1, <1>3, <1>4, <3>1, <3>2
    <3>5. QED
      BY <1>7, <3>1, <3>3, <3>4
  <2>2. CASE NextOf(h, b) # a
    <3>1. NextOf(g, b) = NextOf(h, b) /\ b \in Live(h)
      BY <1>2, <2>2
    <3>2. QED
      BY <1>1, <1>12, <2>2, <3>1 DEF Ordered
  <2>3. QED
    BY <2>1, <2>2
<1>13. Ordered(g)
  BY <1>8, <1>9, <1>10, <1>11, <1>12 DEF Ordered
<1>14. ASSUME NEW b \in Live(g)
       PROVE  /\ FirstBlock <= b
              /\ Data(b) + Size(g, b) <= RegionEnd
              /\ NextOf(g, b) # Null => Data(b) + Size(g, b) <= Data(NextOf(g, b))
  <2>1. b \in Live(h) /\ Size(g, b) = Size(h, b)
    BY <1>2
  <2>2. NextOf(g, b) # Null => NextOf(g, b) \in Live(h) /\ b < NextOf(g, b)
    BY <1>1, <1>12
  <2>3. QED
    BY <2>1, <2>2, DataOrder DEF Placed
<1>15. QED
  BY <1>13, <1>14 DEF Placed

-----------------------------------------------------------------------------
(* Every step keeps the invariant                                          *)

\* What an accepted request does: the block goes where there is room for it and
\* the address past its header is returned.
LEMMA AllocInserts ==
  ASSUME NoWrap, Fitting, NEW h, HeapType(h), Ordered(h), Placed(h),
         NEW s \in Sizes, CanAlloc(h, s)
  PROVE  \E a, cur \in Nat :
           /\ Room(h, s, a, cur)
           /\ cur = Null <=> h.first = Null
           /\ AfterAlloc(h, s) = Insert(h, cur, a, s)
           /\ AllocPtr(h, s) = Data(a)
<1> DEFINE a   == Place(h, s)
           cur == Pred(h, s)
<1>1. Room(h, s, a, cur)
  BY AllocRoom
<1>2. a \in Nat /\ W(Data(a)) = Data(a)
  <2>1. a \in Nat /\ Data(a) \in Nat /\ Data(a) < Word
    BY <1>1, SizesAssumption, HeapAssumption DEF Room, Data, RegionEnd
  <2>2. QED
    BY <2>1, WExact
<1>3. cur \in Nat /\ (cur = Null <=> h.first = Null)
  <2>1. CASE h.first = Null
    BY <2>1 DEF Pred, Null
  <2>2. CASE h.first # Null
    <3>1. cur \in Live(h)
      BY <1>1, <2>2 DEF Room, Ordered
    <3>2. cur \in Nat /\ FirstBlock <= cur
      BY <3>1, NodeType DEF Placed
    <3>3. QED
      BY <2>2, <3>2, HeapAssumption DEF FirstBlock, Null
  <2>3. QED
    BY <2>1, <2>2
<1>4. AfterAlloc(h, s) = Insert(h, cur, a, s) /\ AllocPtr(h, s) = Data(a)
  BY <1>2 DEF AfterAlloc, AllocPtr
<1>5. QED
  BY <1>1, <1>2, <1>3, <1>4

\* The same for a call of alloc.
LEMMA Accepted ==
  ASSUME NoWrap, Fitting, HeapInv, heap.intact,
         NEW s \in Sizes, Alloc(s), CanAlloc(heap, s)
  PROVE  \E a, cur \in Nat :
           /\ Room(heap, s, a, cur)
           /\ cur = Null <=> heap.first = Null
           /\ heap' = Insert(heap, cur, a, s)
           /\ held' = Hold(held, Data(a), s)
<1>1. HeapType(heap) /\ Ordered(heap) /\ Placed(heap)
  BY DEF HeapInv, TypeOK, Sound
<1>2. PICK a \in Nat, cur \in Nat :
        /\ Room(heap, s, a, cur)
        /\ cur = Null <=> heap.first = Null
        /\ AfterAlloc(heap, s) = Insert(heap, cur, a, s)
        /\ AllocPtr(heap, s) = Data(a)
  BY <1>1, AllocInserts
<1>3. heap' = Insert(heap, cur, a, s) /\ held' = Hold(held, Data(a), s)
  BY <1>2 DEF Alloc
<1>4. QED
  BY <1>2, <1>3

\* In a sound heap a caller's area is the data of one live block.
LEMMA HeldBlock ==
  ASSUME HeapInv, heap.intact, NEW p \in DOMAIN held
  PROVE  \E b \in Live(heap) : /\ b \in Nat /\ p = Data(b) /\ held[p] = Size(heap, b)
                               /\ Size(heap, b) \in Nat
<1>1. PICK b \in Live(heap) : p = Data(b)
  BY DEF HeapInv, Sound, Owned
<1>2. held[p] = Size(heap, b)
  BY <1>1 DEF HeapInv, Sound, Owned
<1>3. QED
  BY <1>1, <1>2, NodeType DEF HeapInv, TypeOK

LEMMA AllocStep ==
  ASSUME NoWrap, Fitting, HeapInv, NEW s \in Sizes, Alloc(s)
  PROVE  HeapInv'
<1>1. heap.intact
  BY DEF Alloc
<1>2. CASE ~CanAlloc(heap, s)
  <2>1. heap' = heap /\ held' = held
    BY <1>2 DEF Alloc, AfterAlloc
  <2>2. QED
    BY <2>1 DEF HeapInv, TypeOK, ClientsDisjoint, Sound
<1>3. CASE CanAlloc(heap, s)
  <2>1. PICK a \in Nat, cur \in Nat :
          /\ Room(heap, s, a, cur)
          /\ cur = Null <=> heap.first = Null
          /\ heap' = Insert(heap, cur, a, s)
          /\ held' = Hold(held, Data(a), s)
    BY <1>1, <1>3, Accepted, Zenon
  <2>2. HeapType(heap) /\ Ordered(heap) /\ Placed(heap) /\ Owned(heap, held)
    BY <1>1 DEF HeapInv, TypeOK, Sound
  <2>3. s \in Nat /\ Data(a) \in Nat
    BY SizesAssumption, HeapAssumption DEF Data
  <2>4. /\ DOMAIN held' = DOMAIN held \cup {Data(a)} /\ held'[Data(a)] = s
        /\ \A q \in DOMAIN held : q # Data(a) => held'[q] = held[q]
    BY <2>1 DEF Hold
  <2>5. TypeOK'
    <3>1. HeapType(heap')
      BY <2>1, <2>2, InsertType DEF Ordered, Room
    <3>2. held' \in [DOMAIN held' -> Sizes] /\ DOMAIN held' \subseteq Nat
      BY <2>1, <2>3, <2>4 DEF Hold, HeapInv, TypeOK
    <3>3. QED
      BY <3>1, <3>2 DEF TypeOK
  <2>6. ASSUME NEW q \in DOMAIN held, q # Data(a)
        PROVE  Apart(Data(a), s, q, held[q]) /\ Apart(q, held[q], Data(a), s)
    <3>1. PICK b \in Live(heap) : /\ b \in Nat /\ q = Data(b) /\ held[q] = Size(heap, b)
                                  /\ Size(heap, b) \in Nat
      BY <1>1, HeldBlock
    <3>2. CASE Data(b) + Size(heap, b) <= a
      BY <2>3, <3>1, <3>2, HeapAssumption DEF Apart, Data
    <3>3. CASE Data(a) + s <= Data(b)
      BY <3>1, <3>3 DEF Apart
    <3>4. QED
      BY <2>1, <3>2, <3>3 DEF Room
  <2>7. ClientsDisjoint'
    <3> SUFFICES ASSUME NEW p \in DOMAIN held', NEW q \in DOMAIN held', p # q
                 PROVE  Apart(p, held'[p], q, held'[q])
      BY DEF ClientsDisjoint
    <3>1. CASE p = Data(a)
      BY <2>4, <2>6, <3>1
    <3>2. CASE q = Data(a)
      BY <2>4, <2>6, <3>2
    <3>3. CASE p # Data(a) /\ q # Data(a)
      BY <2>4, <3>3 DEF HeapInv, ClientsDisjoint
    <3>4. QED
      BY <3>1, <3>2, <3>3
  <2>8. ASSUME heap'.intact
        PROVE  Ordered(heap') /\ Placed(heap') /\ Owned(heap', held')
    <3>1. HeaderFree(heap, a)
      BY <2>1, <2>8 DEF Insert
    <3>2. Ordered(heap') /\ Placed(heap')
      BY <2>1, <2>2, <3>1, InsertKeeps
    <3>3. Live(heap') = Live(heap) \cup {a} /\ a \notin Live(heap)
      BY <2>1, <3>1, HeapAssumption DEF Insert, Live, HeaderFree, Apart
    <3>4. Size(heap', a) = s /\ \A b \in Live(heap) : Size(heap', b) = Size(heap, b)
      BY <2>1, <3>3 DEF Insert, NewNode, Size, Live
    <3>5. \A b \in Live(heap) : Data(b) # Data(a) /\ Data(b) \in DOMAIN held
      BY <2>2, <3>3, NodeType, HeapAssumption DEF Owned, Data
    <3>6. Owned(heap', held')
      BY <2>2, <2>4, <3>3, <3>4, <3>5 DEF Owned
    <3>7. QED
      BY <3>2, <3>6
  <2>9. QED
    BY <2>5, <2>7, <2>8 DEF HeapInv, Sound
<1>4. QED
  BY <1>2, <1>3

LEMMA FreeStep ==
  ASSUME HeapInv, NEW p \in DOMAIN held \cup Strays, Free(p)
  PROVE  HeapInv'
<1>1. heap.intact /\ heap' = AfterFree(heap, p) /\ held' = Drop(held, p)
  BY DEF Free
<1>2. HeapType(heap) /\ Ordered(heap) /\ Placed(heap) /\ Owned(heap, held)
  BY <1>1 DEF HeapInv, TypeOK, Sound
<1>3. /\ DOMAIN held' = DOMAIN held \ {p}
      /\ \A q \in DOMAIN held' : held'[q] = held[q]
      /\ held' \in [DOMAIN held' -> Sizes] /\ DOMAIN held' \subseteq Nat
  BY <1>1 DEF Drop, HeapInv, TypeOK
<1>4. ClientsDisjoint'
  BY <1>3 DEF HeapInv, ClientsDisjoint
<1>5. CASE ~IsPointing(heap, p)
  <2>1. heap' = heap /\ p \notin DOMAIN held
    BY <1>1, <1>2, <1>5 DEF AfterFree, Owned, IsPointing
  <2>2. DOMAIN held' = DOMAIN held /\ \A q \in DOMAIN held : held'[q] = held[q]
    BY <1>3, <2>1
  <2>3. Owned(heap', held')
    BY <1>2, <2>1, <2>2 DEF Owned
  <2>4. QED
    BY <1>2, <1>3, <1>4, <2>1, <2>3 DEF HeapInv, TypeOK, Sound
<1>6. CASE IsPointing(heap, p)
  <2>1. PICK a \in Live(heap) : p = Data(a)
    BY <1>6 DEF IsPointing
  <2>2. heap' = Unlink(heap, a)
    BY <1>1, <1>2, <1>6, <2>1, NodeType, HeapAssumption DEF AfterFree, Data
  <2>3. HeapType(heap') /\ Ordered(heap') /\ Placed(heap')
    BY <1>2, <2>2, UnlinkType, UnlinkKeeps
  <2>4. /\ Live(heap') = Live(heap) \ {a}
        /\ \A b \in Live(heap') : Size(heap', b) = Size(heap, b)
    BY <2>2 DEF Unlink, Live, Relink, Size
  <2>5. \A b \in Live(heap) : Data(b) = Data(a) => b = a
    BY <1>2, NodeType, HeapAssumption DEF Data
  <2>6. Owned(heap', held')
    BY <1>2, <1>3, <2>1, <2>4, <2>5 DEF Owned
  <2>7. QED
    BY <1>3, <1>4, <2>3, <2>6 DEF HeapInv, TypeOK, Sound
<1>7. QED
  BY <1>5, <1>6

\* What is written where changes no list, be it a block's own bytes or not.
LEMMA WriteStep ==
  ASSUME HeapInv, NEW p, NEW n, Write(p, n)
  PROVE  HeapInv'
<1>1. heap.intact /\ heap' = AfterFill(heap, p, n) /\ held' = held
  BY DEF Write
<1>2. /\ heap'.first = heap.first /\ heap'.used = heap.used /\ heap'.free = heap.free
      /\ heap'.block = heap.block
      /\ heap' \in [first: Nat, used: Nat, free: Nat,
                    block: [Live(heap) -> [size: Sizes, next: Nat]], intact: BOOLEAN]
  BY <1>1 DEF AfterFill, HeapInv, TypeOK, HeapType
<1>3. HeapType(heap')
  BY <1>2 DEF HeapInv, TypeOK, HeapType, Live
<1>4. Ordered(heap') /\ Placed(heap') /\ Owned(heap', held')
  <2>1. Ordered(heap) /\ Placed(heap) /\ Owned(heap, held)
    BY <1>1 DEF HeapInv, Sound
  <2>2. QED
    BY <1>1, <1>2, <2>1 DEF Ordered, Placed, Owned, Live, Size, NextOf
<1>5. QED
  BY <1>1, <1>3, <1>4 DEF HeapInv, TypeOK, ClientsDisjoint, Sound

\* The heap as alloc_init leaves it.
LEMMA HeapStart ==
  ASSUME Init
  PROVE  HeapInv
<1>1. Live(heap) = {} /\ heap.first = Null /\ DOMAIN held = {}
  BY DEF Init, EmptyHeap, NoHeld, Live
<1>2. HeapType(heap)
  BY HeapAssumption DEF Init, EmptyHeap, HeapType, Live, Null
<1>3. TypeOK
  BY <1>1, <1>2 DEF TypeOK, Init, NoHeld
<1>4. QED
  BY <1>1, <1>3 DEF HeapInv, ClientsDisjoint, Sound, Ordered, Placed, Owned

\* One step of the heap, or none.
LEMMA HeapStep ==
  ASSUME NoWrap, Fitting, HeapInv, [Next]_vars
  PROVE  HeapInv'
<1>1. CASE \E s \in Sizes : Alloc(s)
  BY <1>1, AllocStep
<1>2. CASE \E p \in DOMAIN held \cup Strays : Free(p)
  BY <1>2, FreeStep
<1>3. CASE \E p \in DOMAIN held : Fill(p)
  BY <1>3, WriteStep DEF Fill
<1>4. CASE UNCHANGED vars
  BY <1>4 DEF vars, HeapInv, TypeOK, ClientsDisjoint, Sound
<1>5. QED
  BY <1>1, <1>2, <1>3, <1>4 DEF Next

-----------------------------------------------------------------------------
(* One call, whoever makes it                                              *)

Areas(h) == {Data(a) : a \in Live(h)}

\* An accepted request adds one area.  It keeps the list sound if it is for at least a
\* byte, be its header on another one or not, and if its header is on no other one.
LEMMA AllocAdds ==
  ASSUME NoWrap, Fitting, NEW h, HeapType(h), Ordered(h), Placed(h),
         NEW s \in Sizes, CanAlloc(h, s), s # 0 \/ AfterAlloc(h, s).intact
  PROVE  LET g == AfterAlloc(h, s)
             p == AllocPtr(h, s)
         IN  /\ HeapType(g) /\ Ordered(g) /\ Placed(g) /\ (g.intact => h.intact)
             /\ p \in Nat /\ Base <= p - BlockHdr
             /\ p \notin Areas(h) /\ Areas(g) = Areas(h) \cup {p}
<1> DEFINE g == AfterAlloc(h, s)
<1>1. PICK a \in Nat, cur \in Nat :
        /\ Room(h, s, a, cur)
        /\ cur = Null <=> h.first = Null
        /\ g = Insert(h, cur, a, s)
        /\ AllocPtr(h, s) = Data(a)
  BY AllocInserts
<1> HIDE DEF g
<1>2. HeapType(g)
  BY <1>1, InsertType DEF Ordered, Room
<1>3. HeaderFree(h, a) \/ s # 0
  <2>1. g.intact => HeaderFree(h, a)
    BY <1>1 DEF Insert
  <2>2. QED
    BY <2>1 DEF g
<1>4. Ordered(g) /\ Placed(g)
  BY <1>1, <1>3, InsertKeeps
<1>5. Live(g) = Live(h) \cup {a} /\ (g.intact => h.intact)
  BY <1>1 DEF Insert, Live
<1>6. ASSUME NEW b \in Live(h)
      PROVE  Data(b) # Data(a)
  <2>1. b \in Nat /\ Size(h, b) \in Nat /\ s \in Nat
    BY NodeType, SizesAssumption
  <2>2. Data(b) + Size(h, b) <= a \/ Data(a) + s <= Data(b)
    BY <1>1 DEF Room
  <2>3. s = 0 => Apart(a, BlockHdr, b, BlockHdr)
    BY <1>3 DEF HeaderFree
  <2>4. QED
    BY <1>1, <2>1, <2>2, <2>3, HeapAssumption DEF Data, Apart
<1>7. Data(a) \in Nat /\ Base <= Data(a) - BlockHdr
  BY <1>1, HeapAssumption DEF Room, Data, FirstBlock
<1>8. Data(a) \notin Areas(h) /\ Areas(g) = Areas(h) \cup {Data(a)}
  BY <1>5, <1>6 DEF Areas
<1>9. QED
  BY <1>1, <1>2, <1>4, <1>5, <1>7, <1>8 DEF g

\* free takes away the area it is given, if it is one.
LEMMA FreeRemoves ==
  ASSUME NEW h, HeapType(h), Ordered(h), Placed(h), NEW p
  PROVE  LET g == AfterFree(h, p)
         IN  /\ HeapType(g) /\ Ordered(g) /\ Placed(g) /\ g.intact = h.intact
             /\ Areas(g) = Areas(h) \ {p}
<1> DEFINE g == AfterFree(h, p)
<1>1. CASE ~IsPointing(h, p)
  <2>1. g = h /\ p \notin Areas(h)
    BY <1>1 DEF AfterFree, IsPointing, Areas
  <2>2. QED
    BY <2>1
<1>2. CASE IsPointing(h, p)
  <2>1. PICK a \in Live(h) : p = Data(a)
    BY <1>2 DEF IsPointing
  <2>2. g = Unlink(h, a)
    BY <1>2, <2>1, NodeType, HeapAssumption DEF AfterFree, Data
  <2> HIDE DEF g
  <2>3. HeapType(g) /\ Ordered(g) /\ Placed(g)
    BY <2>2, UnlinkType, UnlinkKeeps
  <2>4. Live(g) = Live(h) \ {a} /\ g.intact = h.intact
    BY <2>2 DEF Unlink, Live
  <2>5. \A b \in Live(h) : Data(b) = Data(a) => b = a
    BY NodeType, HeapAssumption DEF Data
  <2>6. Areas(g) = Areas(h) \ {p}
    BY <2>1, <2>4, <2>5 DEF Areas
  <2>7. QED
    BY <2>3, <2>4, <2>6 DEF g
<1>3. QED
  BY <1>1, <1>2

\* Breaking the heap changes no block.
LEMMA BreakKeeps ==
  ASSUME NEW h, HeapType(h), Ordered(h), Placed(h), NEW i \in BOOLEAN
  PROVE  LET g == [h EXCEPT !.intact = i]
         IN  HeapType(g) /\ Ordered(g) /\ Placed(g) /\ Areas(g) = Areas(h) /\ g.intact = i
<1> DEFINE g == [h EXCEPT !.intact = i]
<1>1. /\ g.first = h.first /\ g.used = h.used /\ g.free = h.free /\ g.intact = i
      /\ g.block = h.block
      /\ g \in [first: Nat, used: Nat, free: Nat,
                 block: [Live(h) -> [size: Sizes, next: Nat]], intact: BOOLEAN]
  BY DEF HeapType
<1> HIDE DEF g
<1>2. HeapType(g)
  BY <1>1 DEF HeapType, Live
<1>3. Ordered(g) /\ Placed(g) /\ Areas(g) = Areas(h)
  BY <1>1 DEF Ordered, Placed, Areas, Live, Size, NextOf
<1>4. QED
  BY <1>1, <1>2, <1>3 DEF g

-----------------------------------------------------------------------------
(* Theorems                                                                *)

\* The inductive invariant holds in every reachable state.
THEOREM HeapInvariant ==
  ASSUME NoWrap, Fitting
  PROVE  Spec => []HeapInv
<1>1. Init => HeapInv
  BY HeapStart
<1>2. HeapInv /\ [Next]_vars => HeapInv'
  BY HeapStep
<1>3. QED
  BY <1>1, <1>2, PTL DEF Spec

\* The heap record and the callers' view keep their types.
THEOREM TypeCorrect ==
  ASSUME NoWrap, Fitting
  PROVE  Spec => []TypeOK
<1>1. HeapInv => TypeOK
  BY DEF HeapInv
<1>2. QED
  BY <1>1, HeapInvariant, PTL

\* No byte ever belongs to two callers of alloc, whatever the sizes, although
\* the gap test of alloc.c:47-48 forgets the next block's header.
THEOREM NoSharedBytes ==
  ASSUME NoWrap, Fitting
  PROVE  Spec => []ClientsDisjoint
<1>1. HeapInv => ClientsDisjoint
  BY DEF HeapInv
<1>2. QED
  BY <1>1, HeapInvariant, PTL

\* The list stays in address order for as long as no header is overwritten.
THEOREM ListOrdered ==
  ASSUME NoWrap, Fitting
  PROVE  Spec => []Linked
<1>1. HeapInv => Linked
  BY DEF HeapInv, Sound, Linked
<1>2. QED
  BY <1>1, HeapInvariant, PTL

\* The callers hold exactly the live blocks.
THEOREM ExactOwnership ==
  ASSUME NoWrap, Fitting
  PROVE  Spec => []OwnedIsLive
<1>1. HeapInv => OwnedIsLive
  BY DEF HeapInv, Sound, OwnedIsLive, Owned
<1>2. QED
  BY <1>1, HeapInvariant, PTL

-----------------------------------------------------------------------------
(* The pointer walk                                                        *)

\* In a list in address order, whatever holds the first node and the next of
\* each of its members holds every node.
LEMMA OrderedReaches ==
  ASSUME NEW h, HeapType(h), Ordered(h), NEW S \in SUBSET Live(h),
         h.first # Null => h.first \in S,
         \A a \in S : NextOf(h, a) # Null => NextOf(h, a) \in S
  PROVE  S = Live(h)
<1> SUFFICES ASSUME Live(h) \ S # {} PROVE FALSE
  OBVIOUS
<1> DEFINE T == Live(h) \ S
           m == Min(T)
           Below == {b \in Live(h) : b < m}
           Gaps == {m - b : b \in Below}
<1>1. m \in T /\ \A x \in T : m <= x
  <2>1. T \in SUBSET Nat /\ T # {}
    BY DEF HeapType
  <2>2. QED
    BY <2>1, MinLeast
<1>2. m \in Live(h) /\ m \notin S /\ m \in Nat
  BY <1>1, NodeType
<1>3. h.first \in Below
  <2>1. h.first \in Live(h) /\ h.first \in S /\ h.first <= m
    BY <1>2 DEF Ordered
  <2>2. h.first # m /\ h.first \in Nat
    BY <1>2, <2>1 DEF HeapType
  <2>3. QED
    BY <1>2, <2>1, <2>2
<1>4. Gaps \in SUBSET Nat /\ Gaps # {}
  BY <1>2, <1>3, NodeType
<1>5. PICK b \in Below : \A c \in Below : m - b <= m - c
  <2> HIDE DEF Gaps
  <2>1. Min(Gaps) \in Gaps /\ \A x \in Gaps : Min(Gaps) <= x
    BY <1>4, MinLeast
  <2>2. QED
    BY <2>1 DEF Gaps
<1>6. b \in Live(h) /\ b < m /\ b \in Nat /\ b \in S
  BY <1>1, <1>2, <1>5, NodeType
<1>7. NextOf(h, b) # Null
  BY <1>2, <1>6 DEF Ordered
<1>8. /\ NextOf(h, b) \in S /\ NextOf(h, b) \in Live(h) /\ b < NextOf(h, b)
      /\ NextOf(h, b) <= m /\ NextOf(h, b) \in Nat
  <2>1. NextOf(h, b) \in Live(h) /\ b < NextOf(h, b) /\ (m <= b \/ NextOf(h, b) <= m)
    BY <1>2, <1>6, <1>7 DEF Ordered
  <2>2. QED
    BY <1>2, <1>6, <1>7, <2>1, NodeType
<1>9. NextOf(h, b) \notin Below
  BY <1>2, <1>5, <1>6, <1>8
<1>10. QED
  BY <1>2, <1>8, <1>9

\* Every live block is reached by following next from the first block: free and
\* is_pointing_to_allocated_memory find each of them.
THEOREM WalkIsComplete ==
  ASSUME NoWrap, Fitting
  PROVE  Spec => []ReachesAll
<1>1. HeapInv => ReachesAll
  <2> SUFFICES ASSUME HeapInv, heap.intact, NEW S \in SUBSET Live(heap),
                      heap.first # Null => heap.first \in S,
                      \A a \in S : NextOf(heap, a) # Null => NextOf(heap, a) \in S
               PROVE  S = Live(heap)
    BY DEF ReachesAll
  <2>1. HeapType(heap) /\ Ordered(heap)
    BY DEF HeapInv, TypeOK, Sound
  <2>2. QED
    BY <2>1, OrderedReaches
<1>2. QED
  BY <1>1, HeapInvariant, PTL

-----------------------------------------------------------------------------
(* Refusals                                                                *)

\* If a hole behind the first block has room for a request, the block closest
\* before the hole is one the walk may stop at.
LEMMA HoleIsFound ==
  ASSUME NEW h, HeapType(h), Ordered(h), Placed(h), h.first # Null, NEW s \in Sizes,
         NEW x \in h.first .. RegionEnd - (BlockHdr + s),
         \A b \in Live(h) : Apart(x, BlockHdr + s, b, BlockHdr + Size(h, b))
  PROVE  CanAlloc(h, s)
<1> DEFINE Below == {b \in Live(h) : b <= x}
           Gaps == {x - b : b \in Below}
<1>1. s \in Nat /\ h.first \in Nat /\ h.first \in Live(h)
  BY SizesAssumption DEF HeapType, Ordered
<1>2. x \in Nat /\ h.first <= x /\ x + BlockHdr + s <= RegionEnd /\ RegionEnd \in Nat
  BY <1>1, HeapAssumption DEF RegionEnd
<1>3. Gaps \in SUBSET Nat /\ Gaps # {}
  BY <1>1, <1>2, NodeType
<1>4. PICK cur \in Below : \A c \in Below : x - cur <= x - c
  <2> HIDE DEF Gaps
  <2>1. Min(Gaps) \in Gaps /\ \A y \in Gaps : Min(Gaps) <= y
    BY <1>3, MinLeast
  <2>2. QED
    BY <2>1 DEF Gaps
<1>5. /\ cur \in Live(h) /\ cur \in Nat /\ cur <= x /\ Size(h, cur) \in Nat
      /\ NextOf(h, cur) \in Nat
  BY <1>4, NodeType
<1>6. Data(cur) + Size(h, cur) <= x
  <2>1. Apart(x, BlockHdr + s, cur, BlockHdr + Size(h, cur))
    BY <1>5
  <2>2. QED
    BY <1>1, <1>2, <1>5, <2>1, HeapAssumption DEF Apart, Data
<1>7. W(Data(cur) + Size(h, cur) + BlockHdr + s) = Data(cur) + Size(h, cur) + BlockHdr + s
  <2>1. /\ Data(cur) + Size(h, cur) + BlockHdr + s \in Nat
        /\ Data(cur) + Size(h, cur) + BlockHdr + s < Word
    BY <1>1, <1>2, <1>5, <1>6, HeapAssumption DEF Data, RegionEnd
  <2>2. QED
    BY <2>1, WExact
<1>8. CASE NextOf(h, cur) = Null
  <2>1. FitsTail(h, cur, s)
    <3>1. W(RegionEnd) = RegionEnd
      BY WExact, HeapAssumption DEF RegionEnd
    <3>2. Data(cur) + Size(h, cur) + BlockHdr + s <= RegionEnd
      BY <1>1, <1>2, <1>5, <1>6, HeapAssumption DEF Data
    <3>3. End(h, cur) = Data(cur) + Size(h, cur)
      BY <1>5, EndExact
    <3>4. QED
      BY <1>7, <3>1, <3>2, <3>3 DEF FitsTail
  <2>2. QED
    BY <1>5, <1>8, <2>1 DEF CanAlloc, Spots
<1>9. CASE NextOf(h, cur) # Null
  <2> DEFINE n == NextOf(h, cur)
  <2>1. n \in Live(h) /\ cur < n /\ n \in Nat /\ Size(h, n) \in Nat
    BY <1>5, <1>9, NodeType DEF Ordered
  <2>2. x < n
    BY <1>2, <1>4, <1>5, <2>1
  <2>3. x + BlockHdr + s <= n
    <3>1. Apart(x, BlockHdr + s, n, BlockHdr + Size(h, n))
      BY <2>1
    <3>2. QED
      BY <1>1, <1>2, <2>1, <2>2, <3>1, HeapAssumption DEF Apart
  <2>4. FitsGap(h, cur, s)
    <3>1. Data(cur) + Size(h, cur) + BlockHdr + s <= Data(n)
      BY <1>1, <1>2, <1>5, <1>6, <2>1, <2>3, HeapAssumption DEF Data
    <3>2. QED
      BY <1>7, <3>1 DEF FitsGap
  <2>5. QED
    BY <1>5, <1>9, <2>4 DEF CanAlloc, Spots
<1>10. QED
  BY <1>8, <1>9

LEMMA RefusalsFull == HeapInv => RefusedOnlyWhenFull
<1>1. SUFFICES ASSUME HeapInv, heap.intact, heap.first # Null, NEW s \in Sizes,
                      NEW x \in heap.first .. RegionEnd - (BlockHdr + s),
                      Vacant(x, BlockHdr + s)
               PROVE  CanAlloc(heap, s)
  BY DEF RefusedOnlyWhenFull
<1>2. HeapType(heap) /\ Ordered(heap) /\ Placed(heap)
  BY <1>1 DEF HeapInv, TypeOK, Sound
<1>3. QED
  BY <1>1, <1>2, HoleIsFound DEF Vacant

\* alloc gives away no room but what lies in front of the lowest live block: a
\* refused request fits nowhere behind it (alloc.c:45-74).
THEOREM RefusalsJustified ==
  ASSUME NoWrap, Fitting
  PROVE  Spec => []RefusedOnlyWhenFull
BY RefusalsFull, HeapInvariant, PTL

-----------------------------------------------------------------------------
(* The heap implements the memory pool                                     *)

LEMMA AllocGrants ==
  ASSUME NoWrap, Fitting, 0 \notin Sizes, HeapInv, NEW s \in Sizes, Alloc(s)
  PROVE  [Pool!Next]_held
<1>1. heap.intact
  BY DEF Alloc
<1>2. CASE ~CanAlloc(heap, s)
  BY <1>2 DEF Alloc
<1>3. CASE CanAlloc(heap, s)
  <2>1. PICK a \in Nat, cur \in Nat :
          /\ Room(heap, s, a, cur)
          /\ held' = Hold(held, Data(a), s)
    BY <1>1, <1>3, Accepted, Zenon
  <2>2. s \in Nat /\ s > 0 /\ Data(a) \in Nat
    BY SizesAssumption, HeapAssumption DEF Data
  <2>3. FirstBlock <= Data(a) /\ Data(a) + s <= RegionEnd /\ Data(a) \in FirstBlock .. RegionEnd
    BY <2>1, <2>2, HeapAssumption DEF Room, Data, FirstBlock, RegionEnd
  <2>4. ASSUME NEW q \in DOMAIN held
        PROVE  Pool!Separate(Data(a), s, q, held[q])
    <3>1. PICK b \in Live(heap) : /\ b \in Nat /\ q = Data(b) /\ held[q] = Size(heap, b)
                                  /\ Size(heap, b) \in Nat
      BY <1>1, HeldBlock
    <3>2. CASE Data(b) + Size(heap, b) <= a
      BY <2>2, <3>1, <3>2, HeapAssumption DEF Pool!Separate, Data
    <3>3. CASE Data(a) + s <= Data(b)
      BY <2>2, <3>1, <3>3, HeapAssumption DEF Pool!Separate, Data
    <3>4. QED
      BY <2>1, <3>2, <3>3 DEF Room
  <2>5. Pool!Grant(Data(a), s)
    BY <2>1, <2>3, <2>4 DEF Pool!Grant, Hold
  <2>6. QED
    BY <2>3, <2>5 DEF Pool!Next
<1>4. QED
  BY <1>2, <1>3

\* A step of the heap grants an area, releases one, or changes nothing that is held.
LEMMA PoolStep ==
  ASSUME NoWrap, Fitting, 0 \notin Sizes, HeapInv, [Next]_vars
  PROVE  [Pool!Next]_held
<1>1. CASE \E s \in Sizes : Alloc(s)
  BY <1>1, AllocGrants
<1>2. ASSUME NEW p \in DOMAIN held \cup Strays, Free(p)
      PROVE  [Pool!Next]_held
  <2>1. held' = Drop(held, p)
    BY <1>2 DEF Free
  <2>2. CASE p \in DOMAIN held
    BY <2>1, <2>2 DEF Pool!Next, Pool!Release, Drop
  <2>3. CASE p \notin DOMAIN held
    <3>1. held' = held
      BY <2>1, <2>3 DEF Drop, HeapInv, TypeOK
    <3>2. QED
      BY <3>1
  <2>4. QED
    BY <2>2, <2>3
<1>3. CASE \E p \in DOMAIN held : Fill(p)
  BY <1>3 DEF Fill, Write
<1>4. CASE UNCHANGED vars
  BY <1>4 DEF vars
<1>5. QED
  BY <1>1, <1>2, <1>3, <1>4 DEF Next

\* Seen through what its callers hold, alloc and free do nothing but grant and
\* release separate areas of the region.
THEOREM ImplementsPool ==
  ASSUME NoWrap, Fitting, 0 \notin Sizes
  PROVE  Spec => PoolSpec
<1>1. Init => Pool!Init
  BY DEF Init, NoHeld, Pool!Init
<1>2. HeapInv /\ [Next]_vars => [Pool!Next]_held
  BY PoolStep
<1>3. QED
  BY <1>1, <1>2, HeapInvariant, PTL DEF Spec, PoolSpec, Pool!Spec

-----------------------------------------------------------------------------
(* Granular sizes: the gap test is then enough                             *)

\* x is a whole number of quanta past the first block.
OnGrid(x, Q) == \E k \in Nat : x = FirstBlock + k * Q

\* Two grid points less than a quantum apart are in order.
LEMMA GridOrder ==
  ASSUME NEW Q \in Nat, NEW H \in Nat, H < Q, NEW x, NEW y,
         OnGrid(x, Q), OnGrid(y, Q), x <= y + H
  PROVE  x <= y
<1>1. PICK i \in Nat : x = FirstBlock + i * Q
  BY DEF OnGrid
<1>2. PICK j \in Nat : y = FirstBlock + j * Q
  BY DEF OnGrid
<1>3. FirstBlock \in Nat /\ i * Q \in Nat /\ j * Q \in Nat
  BY HeapAssumption DEF FirstBlock
<1>4. i * Q <= j * Q + H
  BY <1>1, <1>2, <1>3
<1>5. i <= j
  <2>1. ASSUME j + 1 <= i PROVE FALSE
    <3>1. PICK d \in Nat : i = j + 1 + d
      <4>1. i - (j + 1) \in Nat /\ i = j + 1 + (i - (j + 1))
        BY <2>1
      <4>2. QED
        BY <4>1
    <3>2. i * Q = j * Q + Q + d * Q /\ d * Q \in Nat
      BY <3>1
    <3>3. QED
      BY <1>3, <1>4, <3>2
  <2>2. QED
    BY <2>1
<1>6. i * Q <= j * Q
  <2>1. PICK d \in Nat : j = i + d
    <3>1. j - i \in Nat /\ j = i + (j - i)
      BY <1>5
    <3>2. QED
      BY <3>1
  <2>2. j * Q = i * Q + d * Q /\ d * Q \in Nat
    BY <2>1
  <2>3. QED
    BY <1>3, <2>2
<1>7. QED
  BY <1>1, <1>2, <1>3, <1>6

\* Blocks, headers included, lie on the grid one behind the other.
Tight(h, Q) ==
  \A a \in Live(h) :
    /\ OnGrid(a, Q)
    /\ NextOf(h, a) # Null => Data(a) + Size(h, a) <= NextOf(h, a)

GranularInv(Q) == heap.intact /\ Tight(heap, Q)

LEMMA TightOrder ==
  ASSUME NEW h, NEW Q, HeapType(h), Ordered(h), Tight(h, Q),
         NEW a \in Live(h), NEW b \in Live(h), a < b
  PROVE  Data(a) + Size(h, a) <= b
<1> DEFINE n == NextOf(h, a)
<1>1. a \in Nat /\ b \in Nat /\ Size(h, a) \in Nat /\ n \in Nat /\ Data(a) \in Nat
  BY NodeType
<1>2. n # Null /\ n <= b
  BY <1>1 DEF Ordered
<1>3. Data(a) + Size(h, a) <= n
  BY <1>2 DEF Tight
<1>4. QED
  BY <1>1, <1>2, <1>3

\* A block of granular size stays on the grid with its end.
LEMMA GridEnd ==
  ASSUME NEW Q, Granular(Q), NEW a, OnGrid(a, Q), NEW s \in Sizes
  PROVE  OnGrid(Data(a) + s, Q)
<1>1. PICK i \in Nat : a = FirstBlock + i * Q
  BY DEF OnGrid
<1>2. PICK k \in 0 .. (BlockHdr + s) : BlockHdr + s = k * Q
  BY DEF Granular
<1>3. /\ Q \in Nat /\ k \in Nat /\ s \in Nat /\ FirstBlock \in Nat
      /\ i * Q \in Nat /\ k * Q \in Nat
  BY HeapAssumption, SizesAssumption DEF Granular, FirstBlock
<1>4. i * Q + k * Q = (i + k) * Q
  BY <1>3
<1>5. Data(a) + s = FirstBlock + (i + k) * Q
  BY <1>1, <1>2, <1>3, <1>4, HeapAssumption DEF Data
<1>6. i + k \in Nat
  BY <1>3
<1>7. QED
  BY <1>5, <1>6, Zenon DEF OnGrid

LEMMA GranularAlloc ==
  ASSUME NEW Q, Granular(Q), NoWrap, Fitting, HeapInv, GranularInv(Q),
         NEW s \in Sizes, Alloc(s)
  PROVE  GranularInv(Q)'
<1>1. heap.intact /\ HeapType(heap) /\ Ordered(heap) /\ Placed(heap) /\ Tight(heap, Q)
  BY DEF HeapInv, TypeOK, Sound, GranularInv
<1>2. CASE ~CanAlloc(heap, s)
  BY <1>2 DEF Alloc, AfterAlloc, GranularInv, Tight
<1>3. CASE CanAlloc(heap, s)
  <2>1. PICK a \in Nat, cur \in Nat :
          /\ Room(heap, s, a, cur)
          /\ cur = Null <=> heap.first = Null
          /\ heap' = Insert(heap, cur, a, s)
    BY <1>1, <1>3, Accepted, Zenon
  <2>2. s \in Nat /\ Q \in Nat /\ BlockHdr < Q /\ Data(a) \in Nat
    BY SizesAssumption, HeapAssumption DEF Granular, Data
  <2>3. OnGrid(a, Q)
    <3>1. CASE Live(heap) = {}
      <4>1. Place(heap, s) = FirstBlock
        BY <1>1, <3>1 DEF Ordered, Place
      <4>2. heap.first = Null /\ AfterAlloc(heap, s).first = FirstBlock
        BY <1>1, <1>3, <3>1, <4>1 DEF Ordered, AfterAlloc, Insert, Pred
      <4>3. a = FirstBlock
        BY <2>1, <4>2 DEF Alloc, Insert
      <4>4. FirstBlock \in Nat /\ 0 * Q = 0
        BY <2>2, HeapAssumption DEF FirstBlock
      <4>5. QED
        BY <4>3, <4>4 DEF OnGrid
    <3>2. CASE Live(heap) # {}
      <4>1. cur \in Live(heap) /\ a = Data(cur) + Size(heap, cur)
        BY <2>1, <3>2 DEF Room
      <4>2. OnGrid(cur, Q) /\ Size(heap, cur) \in Sizes
        BY <1>1, <4>1, NodeType DEF Tight
      <4>3. QED
        BY <4>1, <4>2, GridEnd
    <3>3. QED
      BY <3>1, <3>2
  <2>4. OnGrid(Data(a) + s, Q)
    BY <2>3, GridEnd
  <2>5. ASSUME NEW b \in Live(heap)
        PROVE  \/ b <= cur /\ b + BlockHdr <= a
               \/ cur < b /\ Data(a) + s <= b /\ a + BlockHdr <= b
    <3>1. b \in Nat /\ Size(heap, b) \in Nat /\ OnGrid(b, Q)
      BY <1>1, NodeType DEF Tight
    <3>2. CASE b <= cur /\ Data(b) + Size(heap, b) <= a
      BY <3>1, <3>2, HeapAssumption DEF Data
    <3>3. CASE cur < b /\ Data(a) + s <= Data(b)
      <4>1. Data(a) + s <= b
        BY <2>2, <2>4, <3>1, <3>3, GridOrder, HeapAssumption DEF Data
      <4>2. QED
        BY <2>2, <3>1, <3>3, <4>1, HeapAssumption DEF Data
    <3>4. QED
      BY <2>1, <3>2, <3>3 DEF Room
  <2>6. HeaderFree(heap, a)
    BY <2>1, <2>5 DEF HeaderFree, Room, Apart
  <2>7. heap'.intact
    BY <1>1, <2>1, <2>6 DEF Insert
  <2>8. Live(heap') = Live(heap) \cup {a}
    BY <2>1 DEF Insert, Live
  <2>9. ASSUME NEW b \in Live(heap')
        PROVE  /\ OnGrid(b, Q)
               /\ NextOf(heap', b) # Null => Data(b) + Size(heap', b) <= NextOf(heap', b)
    <3>1. CASE b = a
      <4>1. Size(heap', a) = s /\ NextOf(heap', a) = IF cur = Null THEN Null ELSE NextOf(heap, cur)
        BY <2>1, <2>8 DEF Insert, NewNode, Size, NextOf
      <4>2. NextOf(heap', a) # Null => /\ cur \in Live(heap)
                                       /\ NextOf(heap, cur) \in Live(heap)
                                       /\ cur < NextOf(heap, cur)
        BY <1>1, <2>1, <4>1 DEF Ordered, Room
      <4>3. NextOf(heap', a) # Null => Data(a) + s <= NextOf(heap', a)
        BY <1>1, <2>1, <2>5, <4>1, <4>2, NodeType
      <4>4. QED
        BY <2>3, <3>1, <4>1, <4>3
    <3>2. CASE b # a /\ b = cur
      <4>1. b \in Live(heap) /\ NextOf(heap', b) = a /\ Size(heap', b) = Size(heap, b)
        BY <2>1, <2>8, <3>2 DEF Insert, Size, NextOf
      <4>2. a = Data(b) + Size(heap, b)
        BY <2>1, <3>2, <4>1 DEF Room
      <4>3. QED
        BY <1>1, <4>1, <4>2 DEF Tight
    <3>3. CASE b # a /\ b # cur
      <4>1. /\ b \in Live(heap) /\ NextOf(heap', b) = NextOf(heap, b)
            /\ Size(heap', b) = Size(heap, b)
        BY <2>1, <2>8, <3>3 DEF Insert, Size, NextOf
      <4>2. QED
        BY <1>1, <4>1 DEF Tight
    <3>4. QED
      BY <3>1, <3>2, <3>3
  <2>10. QED
    BY <2>7, <2>9 DEF GranularInv, Tight
<1>4. QED
  BY <1>2, <1>3

LEMMA GranularFree ==
  ASSUME NEW Q, HeapInv, GranularInv(Q), NEW p \in DOMAIN held \cup Strays, Free(p)
  PROVE  GranularInv(Q)'
<1>1. HeapType(heap) /\ Ordered(heap) /\ Tight(heap, Q) /\ heap.intact
  BY DEF HeapInv, TypeOK, Sound, GranularInv
<1>2. CASE ~IsPointing(heap, p)
  BY <1>2 DEF Free, AfterFree, GranularInv, Tight
<1>3. CASE IsPointing(heap, p)
  <2>1. PICK a \in Live(heap) : p = Data(a)
    BY <1>3 DEF IsPointing
  <2>2. heap' = Unlink(heap, a)
    BY <1>1, <1>3, <2>1, NodeType, HeapAssumption DEF Free, AfterFree, Data
  <2>3. heap'.intact /\ Live(heap') = Live(heap) \ {a}
    BY <1>1, <2>2 DEF Unlink, Live
  <2>4. ASSUME NEW b \in Live(heap')
        PROVE  /\ OnGrid(b, Q)
               /\ NextOf(heap', b) # Null => Data(b) + Size(heap', b) <= NextOf(heap', b)
    <3>1. /\ b \in Live(heap) /\ Size(heap', b) = Size(heap, b)
          /\ NextOf(heap', b) = IF NextOf(heap, b) = a THEN NextOf(heap, a) ELSE NextOf(heap, b)
      BY <2>2, <2>3 DEF Unlink, Relink, Size, NextOf
    <3>2. OnGrid(b, Q)
      BY <1>1, <3>1 DEF Tight
    <3>3. NextOf(heap', b) # Null => NextOf(heap', b) \in Live(heap) /\ b < NextOf(heap', b)
      <4>1. Ordered(heap')
        BY <1>1, <2>2, UnlinkKeeps DEF HeapInv, Sound
      <4>2. QED
        BY <2>3, <4>1 DEF Ordered
    <3>4. QED
      BY <1>1, <3>1, <3>2, <3>3, TightOrder
  <2>5. QED
    BY <2>3, <2>4 DEF GranularInv, Tight
<1>4. QED
  BY <1>2, <1>3

LEMMA GranularFill ==
  ASSUME NEW Q, HeapInv, GranularInv(Q), NEW p \in DOMAIN held, Fill(p)
  PROVE  GranularInv(Q)'
<1>1. HeapType(heap) /\ Ordered(heap) /\ Tight(heap, Q) /\ heap.intact
  BY DEF HeapInv, TypeOK, Sound, GranularInv
<1>2. PICK a \in Live(heap) : /\ a \in Nat /\ p = Data(a) /\ held[p] = Size(heap, a)
                              /\ Size(heap, a) \in Nat
  BY <1>1, HeldBlock
<1>3. ASSUME NEW b \in Live(heap)
      PROVE  Apart(p, held[p], b, BlockHdr)
  <2>1. b \in Nat /\ Size(heap, b) \in Nat
    BY <1>1, NodeType
  <2>2. CASE a < b
    BY <1>1, <1>2, <2>2, TightOrder DEF Apart
  <2>3. CASE b < a
    <3>1. Data(b) + Size(heap, b) <= a
      BY <1>1, <2>3, TightOrder
    <3>2. QED
      BY <1>2, <2>1, <3>1, HeapAssumption DEF Apart, Data
  <2>4. CASE a = b
    BY <1>2, <2>1, <2>4, HeapAssumption DEF Apart, Data
  <2>5. QED
    BY <1>2, <2>1, <2>2, <2>3, <2>4
<1>4. heap' = heap
  <2>1. heap.intact = (heap.intact /\ (held[p] > 0 => \A b \in Live(heap) : Apart(p, held[p], b, BlockHdr)))
    BY <1>1, <1>3
  <2>2. heap' = [heap EXCEPT !.intact = TRUE]
    BY <1>1, <1>3, Zenon DEF Fill, Write, AfterFill
  <2>3. QED
    BY <1>1, <2>2 DEF HeapType
<1>5. QED
  BY <1>4 DEF GranularInv, Tight

\* With sizes that keep blocks on a grid coarser than the header, the gap test
\* of alloc.c:47-48 never lets a block reach a header: no header is overwritten.
THEOREM GranularNeverBreaks ==
  ASSUME NEW Q, Granular(Q), NoWrap, Fitting
  PROVE  Spec => []HeadersApart
<1>1. Init => GranularInv(Q)
  BY DEF Init, EmptyHeap, GranularInv, Tight, Live
<1>2. HeapInv /\ GranularInv(Q) /\ [Next]_vars => GranularInv(Q)'
  <2> SUFFICES ASSUME HeapInv, GranularInv(Q), [Next]_vars PROVE GranularInv(Q)'
    OBVIOUS
  <2>1. CASE \E s \in Sizes : Alloc(s)
    BY <2>1, GranularAlloc
  <2>2. CASE \E p \in DOMAIN held \cup Strays : Free(p)
    BY <2>2, GranularFree
  <2>3. CASE \E p \in DOMAIN held : Fill(p)
    BY <2>3, GranularFill
  <2>4. CASE UNCHANGED vars
    BY <2>4 DEF vars, GranularInv, Tight
  <2>5. QED
    BY <2>1, <2>2, <2>3, <2>4 DEF Next
<1>3. HeapInv /\ GranularInv(Q) => HeadersApart
  <2> SUFFICES ASSUME HeapInv, GranularInv(Q) PROVE HeadersApart
    OBVIOUS
  <2>1. /\ heap.intact /\ HeapType(heap) /\ Ordered(heap) /\ Placed(heap)
        /\ Tight(heap, Q)
    BY DEF HeapInv, TypeOK, Sound, GranularInv
  <2>2. ASSUME NEW p \in DOMAIN held PROVE FirstBlock <= p - BlockHdr
    <3>1. PICK a \in Live(heap) : a \in Nat /\ p = Data(a)
      BY <2>1, HeldBlock
    <3>2. p - BlockHdr = a /\ FirstBlock <= a
      BY <2>1, <3>1, HeapAssumption DEF Data, Placed
    <3>3. QED
      BY <3>2
  <2>3. ASSUME NEW p \in DOMAIN held, NEW q \in DOMAIN held, p # q
        PROVE  Apart(p - BlockHdr, BlockHdr + held[p], q - BlockHdr, BlockHdr + held[q])
    <3>1. PICK a \in Live(heap) : /\ a \in Nat /\ p = Data(a) /\ held[p] = Size(heap, a)
                                  /\ Size(heap, a) \in Nat
      BY <2>1, HeldBlock
    <3>2. PICK b \in Live(heap) : /\ b \in Nat /\ q = Data(b) /\ held[q] = Size(heap, b)
                                  /\ Size(heap, b) \in Nat
      BY <2>1, HeldBlock
    <3>3. p - BlockHdr = a /\ q - BlockHdr = b
      BY <3>1, <3>2, HeapAssumption DEF Data
    <3>4. CASE a < b
      <4>1. a + (BlockHdr + held[p]) <= b
        BY <2>1, <3>1, <3>4, TightOrder, HeapAssumption DEF Data
      <4>2. QED
        BY <3>3, <4>1 DEF Apart
    <3>5. CASE b < a
      <4>1. b + (BlockHdr + held[q]) <= a
        BY <2>1, <3>2, <3>5, TightOrder, HeapAssumption DEF Data
      <4>2. QED
        BY <3>3, <4>1 DEF Apart
    <3>6. a # b
      BY <2>3, <3>1, <3>2
    <3>7. QED
      BY <3>1, <3>2, <3>4, <3>5, <3>6
  <2>4. QED
    BY <2>2, <2>3 DEF HeadersApart
<1>4. QED
  BY <1>1, <1>2, <1>3, HeapInvariant, PTL DEF Spec

-----------------------------------------------------------------------------
(* Sums over the blocks                                                    *)
(*                                                                         *)
(* MapThenSumSet takes the blocks in an order CHOOSE gives.  The lemmas    *)
(* below say that the order does not matter, for a finite set of blocks.   *)

Cost(h, a) == Size(h, a) + BlockHdr

\* One level of the recursion inside MapThenSumSet.
Rest(h, g, s) == IF s = {} THEN 0
                 ELSE LET x == CHOOSE y \in s : TRUE IN Cost(h, x) + g[s \ {x}]

Folds(h, g) == g = [s \in SUBSET Live(h) |-> Rest(h, g, s)]

SumUp(h) == CHOOSE g : Folds(h, g)

\* What the counter used_size should be.
Total(h) == MapThenSumSet(LAMBDA a : Size(h, a) + BlockHdr, Live(h))

LEMMA TotalFolds ==
  ASSUME NEW h
  PROVE  Total(h) = SumUp(h)[Live(h)]
  BY DEF Total, SumUp, Folds, Rest, MapThenSumSet, MapThenFoldSet, Cost

\* A non-empty set of subsets of a finite set has a smallest one.
LEMMA MinimalSubset ==
  ASSUME NEW D, IsFiniteSet(D), NEW B \in SUBSET (SUBSET D), B # {}
  PROVE  \E s \in B : \A t \in B : t \subseteq s => t = s
<1> DEFINE C == {Cardinality(s) : s \in B}
<1>1. \A s \in B : IsFiniteSet(s) /\ Cardinality(s) \in Nat
  BY FS_Subset, FS_CardinalityType
<1>2. C \in SUBSET Nat /\ C # {}
  BY <1>1
<1>3. Min(C) \in C /\ \A n \in C : Min(C) <= n
  BY <1>2, MinLeast
<1>4. PICK s \in B : Cardinality(s) = Min(C)
  BY <1>3
<1>5. ASSUME NEW t \in B, t \subseteq s
      PROVE  t = s
  <2>1. Cardinality(s) <= Cardinality(t)
    BY <1>3, <1>4
  <2>2. Cardinality(t) <= Cardinality(s) /\ (Cardinality(s) = Cardinality(t) => s = t)
    BY <1>1, <1>5, FS_Subset
  <2>3. QED
    BY <1>1, <2>1, <2>2
<1>6. QED
  BY <1>5

\* The recursion has a solution: there is one up to every cardinality.
LEMMA FoldExists ==
  ASSUME NEW h, IsFiniteSet(Live(h))
  PROVE  \E g : Folds(h, g)
<1> DEFINE Upto(n) == {s \in SUBSET Live(h) : Cardinality(s) <= n}
           Solves(n, g) == g = [s \in Upto(n) |-> Rest(h, g, s)]
           Bad == {n \in Nat : ~ \E g : Solves(n, g)}
<1>1. \A s \in SUBSET Live(h) : IsFiniteSet(s) /\ Cardinality(s) \in Nat
  BY FS_Subset, FS_CardinalityType
<1>2. 0 \notin Bad
  <2> DEFINE g == [s \in Upto(0) |-> 0]
  <2>1. \A s \in Upto(0) : Cardinality(s) = 0
    BY <1>1
  <2>2. \A s \in Upto(0) : s = {}
    BY <1>1, <2>1, FS_EmptySet
  <2>3. \A s \in Upto(0) : Rest(h, g, s) = 0
    BY <2>2 DEF Rest
  <2>4. Solves(0, g)
    BY <2>3
  <2>5. QED
    BY <2>4
<1>3. ASSUME NEW n \in Nat, NEW f, Solves(n, f)
      PROVE  \E g : Solves(n + 1, g)
  <2> DEFINE g == [s \in Upto(n + 1) |-> Rest(h, f, s)]
  <2>1. ASSUME NEW s \in Upto(n + 1)
        PROVE  Rest(h, g, s) = Rest(h, f, s)
    <3>1. CASE s = {}
      BY <3>1 DEF Rest
    <3>2. CASE s # {}
      <4> DEFINE x == CHOOSE y \in s : TRUE
                 t == s \ {x}
      <4>1. x \in s
        BY <3>2
      <4>2. t \in SUBSET Live(h) /\ Cardinality(t) = Cardinality(s) - 1
        BY <1>1, <4>1, FS_RemoveElement
      <4>3. t \in Upto(n) /\ t \in Upto(n + 1)
        BY <1>1, <4>2
      <4>4. f[t] = Rest(h, f, t) /\ g[t] = Rest(h, f, t)
        <5> HIDE DEF t
        <5>1. f = [u \in Upto(n) |-> Rest(h, f, u)]
          BY <1>3
        <5> HIDE DEF Upto
        <5>2. f[t] = [u \in Upto(n) |-> Rest(h, f, u)][t]
          BY <5>1, Zenon
        <5>3. QED
          BY <4>3, <5>2, Zenon
      <4>5. QED
        BY <3>2, <4>4 DEF Rest
    <3>3. QED
      BY <3>1, <3>2
  <2>2. Solves(n + 1, g)
    BY <2>1
  <2>3. QED
    BY <2>2
<1>4. Bad = {}
  <2> HIDE DEF Solves
  <2> SUFFICES ASSUME Bad # {} PROVE FALSE
    OBVIOUS
  <2> DEFINE m == Min(Bad)
  <2>1. m \in Bad /\ \A n \in Bad : m <= n
    BY MinLeast
  <2>2. m \in Nat /\ m # 0
    BY <1>2, <2>1
  <2> HIDE DEF m, Bad
  <2>3. m - 1 \in Nat /\ m - 1 \notin Bad
    BY <2>1, <2>2
  <2> USE DEF Bad
  <2>4. PICK f : Solves(m - 1, f)
    BY <2>3
  <2>5. \E g : Solves(m - 1 + 1, g)
    BY <1>3, <2>3, <2>4
  <2>6. m - 1 + 1 = m
    BY <2>2
  <2>7. QED
    BY <2>1, <2>5, <2>6
<1>5. Cardinality(Live(h)) \in Nat
  BY FS_CardinalityType
<1>6. PICK g : Solves(Cardinality(Live(h)), g)
  BY <1>4, <1>5
<1>7. Upto(Cardinality(Live(h))) = SUBSET Live(h)
  BY FS_Subset
<1>8. QED
  BY <1>6, <1>7 DEF Folds

LEMMA FoldRule ==
  ASSUME NEW h, IsFiniteSet(Live(h)), NEW s \in SUBSET Live(h)
  PROVE  /\ s = {} => SumUp(h)[s] = 0
         /\ s # {} => \E x \in s : /\ x = CHOOSE y \in s : TRUE
                                   /\ SumUp(h)[s] = Cost(h, x) + SumUp(h)[s \ {x}]
<1> DEFINE g == SumUp(h)
<1>1. Folds(h, g)
  BY FoldExists DEF SumUp
<1> HIDE DEF g
<1>2. g[s] = Rest(h, g, s)
  <2>1. g = [t \in SUBSET Live(h) |-> Rest(h, g, t)]
    BY <1>1 DEF Folds
  <2>2. g[s] = [t \in SUBSET Live(h) |-> Rest(h, g, t)][s]
    BY <2>1, Zenon
  <2>3. QED
    BY <2>2, Zenon
<1>3. s = {} => g[s] = 0
  BY <1>2 DEF Rest
<1>4. ASSUME s # {}
      PROVE  \E x \in s : x = (CHOOSE y \in s : TRUE) /\ g[s] = Cost(h, x) + g[s \ {x}]
  <2> DEFINE x == CHOOSE y \in s : TRUE
  <2>1. x \in s
    BY <1>4
  <2>2. g[s] = Cost(h, x) + g[s \ {x}]
    BY <1>2, <1>4, Zenon DEF Rest
  <2>3. QED
    BY <2>1, <2>2
<1>5. QED
  BY <1>3, <1>4 DEF g

LEMMA CostNat ==
  ASSUME NEW h, HeapType(h), NEW a \in Live(h)
  PROVE  Cost(h, a) \in Nat
  BY NodeType, HeapAssumption DEF Cost

LEMMA SumNat ==
  ASSUME NEW h, HeapType(h), IsFiniteSet(Live(h))
  PROVE  \A s \in SUBSET Live(h) : SumUp(h)[s] \in Nat
<1> DEFINE B == {s \in SUBSET Live(h) : SumUp(h)[s] \notin Nat}
<1> SUFFICES ASSUME B # {} PROVE FALSE
  OBVIOUS
<1>1. PICK s \in B : \A t \in B : t \subseteq s => t = s
  <2>1. B \in SUBSET (SUBSET Live(h))
    OBVIOUS
  <2> HIDE DEF B
  <2>2. QED
    BY <2>1, MinimalSubset
<1>2. s # {}
  BY <1>1, FoldRule
<1>3. PICK x \in s : SumUp(h)[s] = Cost(h, x) + SumUp(h)[s \ {x}]
  BY <1>1, <1>2, FoldRule
<1>4. s \ {x} \in SUBSET Live(h) /\ s \ {x} \subseteq s /\ s \ {x} # s /\ x \in Live(h)
  BY <1>1, <1>3
<1>5. SumUp(h)[s \ {x}] \in Nat
  BY <1>1, <1>4
<1>6. Cost(h, x) \in Nat
  BY <1>4, CostNat
<1>7. SumUp(h)[s] \in Nat
  BY <1>3, <1>5, <1>6
<1>8. QED
  BY <1>1, <1>7

\* Whichever block is taken first, the sum is the same.
LEMMA SumAny ==
  ASSUME NEW h, HeapType(h), IsFiniteSet(Live(h))
  PROVE  \A s \in SUBSET Live(h) : \A y \in s :
           SumUp(h)[s] = Cost(h, y) + SumUp(h)[s \ {y}]
<1> DEFINE Splits(s) == \A y \in s : SumUp(h)[s] = Cost(h, y) + SumUp(h)[s \ {y}]
           B == {s \in SUBSET Live(h) : ~Splits(s)}
<1> SUFFICES ASSUME B # {} PROVE FALSE
  OBVIOUS
<1>1. PICK s \in B : \A t \in B : t \subseteq s => t = s
  <2>1. B \in SUBSET (SUBSET Live(h))
    OBVIOUS
  <2> HIDE DEF B
  <2>2. QED
    BY <2>1, MinimalSubset
<1>2. PICK y \in s : SumUp(h)[s] # Cost(h, y) + SumUp(h)[s \ {y}]
  BY <1>1
<1>3. PICK x \in s : SumUp(h)[s] = Cost(h, x) + SumUp(h)[s \ {x}]
  BY <1>1, <1>2, FoldRule
<1>4. x # y /\ x \in Live(h) /\ y \in Live(h)
  BY <1>1, <1>2, <1>3
<1>5. /\ s \ {x} \in SUBSET Live(h) /\ s \ {x} \subseteq s /\ s \ {x} # s /\ y \in s \ {x}
      /\ s \ {y} \in SUBSET Live(h) /\ s \ {y} \subseteq s /\ s \ {y} # s /\ x \in s \ {y}
  BY <1>1, <1>2, <1>3, <1>4
<1>6. Splits(s \ {x}) /\ Splits(s \ {y})
  BY <1>1, <1>5
<1> DEFINE r == SumUp(h)[s \ {x, y}]
<1>7. (s \ {x}) \ {y} = s \ {x, y} /\ (s \ {y}) \ {x} = s \ {x, y}
  OBVIOUS
<1>8. SumUp(h)[s \ {x}] = Cost(h, y) + r
  BY <1>5, <1>6, <1>7, Zenon
<1>9. SumUp(h)[s \ {y}] = Cost(h, x) + r
  BY <1>5, <1>6, <1>7, Zenon
<1>10. r \in Nat /\ Cost(h, x) \in Nat /\ Cost(h, y) \in Nat
  <2>1. s \ {x, y} \in SUBSET Live(h)
    BY <1>1
  <2>2. QED
    BY <1>4, <2>1, SumNat, CostNat
<1>11. QED
  BY <1>2, <1>3, <1>8, <1>9, <1>10

\* Two heaps whose common blocks have the same sizes have the same sums over them.
LEMMA SumSame ==
  ASSUME NEW h, NEW g, IsFiniteSet(Live(h)), IsFiniteSet(Live(g)),
         Live(h) \subseteq Live(g), \A a \in Live(h) : Size(g, a) = Size(h, a)
  PROVE  \A s \in SUBSET Live(h) : SumUp(g)[s] = SumUp(h)[s]
<1> DEFINE B == {s \in SUBSET Live(h) : SumUp(g)[s] # SumUp(h)[s]}
<1> SUFFICES ASSUME B # {} PROVE FALSE
  OBVIOUS
<1>1. PICK s \in B : \A t \in B : t \subseteq s => t = s
  <2>1. B \in SUBSET (SUBSET Live(h))
    OBVIOUS
  <2> HIDE DEF B
  <2>2. QED
    BY <2>1, MinimalSubset
<1>2. s \in SUBSET Live(h) /\ s \in SUBSET Live(g)
  BY <1>1
<1>3. s # {}
  <2>1. s = {} => SumUp(h)[s] = 0 /\ SumUp(g)[s] = 0
    BY <1>2, FoldRule
  <2>2. QED
    BY <1>1, <2>1
<1> DEFINE x == CHOOSE y \in s : TRUE
<1>4. x \in s
  BY <1>3
<1>5. SumUp(h)[s] = Cost(h, x) + SumUp(h)[s \ {x}]
  BY <1>2, <1>3, FoldRule
<1>6. SumUp(g)[s] = Cost(g, x) + SumUp(g)[s \ {x}]
  BY <1>2, <1>3, FoldRule
<1>7. Cost(g, x) = Cost(h, x)
  BY <1>2, <1>4 DEF Cost
<1>8. s \ {x} \in SUBSET Live(h) /\ s \ {x} \subseteq s /\ s \ {x} # s
  BY <1>2, <1>4
<1>9. SumUp(g)[s \ {x}] = SumUp(h)[s \ {x}]
  BY <1>1, <1>8
<1>10. QED
  BY <1>1, <1>5, <1>6, <1>7, <1>9, Zenon

\* One block more is its size and its header more.
LEMMA TotalWith ==
  ASSUME NEW h, NEW g, HeapType(g), IsFiniteSet(Live(g)), NEW a \in Live(g),
         Live(h) = Live(g) \ {a}, \A b \in Live(h) : Size(g, b) = Size(h, b)
  PROVE  Total(g) = Total(h) + Size(g, a) + BlockHdr
<1>1. IsFiniteSet(Live(h)) /\ Live(h) \subseteq Live(g)
  BY FS_Subset
<1>2. SumUp(g)[Live(g)] = Cost(g, a) + SumUp(g)[Live(h)]
  BY SumAny
<1>3. SumUp(g)[Live(h)] = SumUp(h)[Live(h)]
  BY <1>1, SumSame
<1>4. SumUp(g)[Live(h)] \in Nat
  BY <1>1, SumNat
<1>5. Total(g) = SumUp(g)[Live(g)] /\ Total(h) = SumUp(h)[Live(h)]
  BY TotalFolds
<1>6. Total(g) = Cost(g, a) + Total(h) /\ Total(h) \in Nat
  BY <1>2, <1>3, <1>4, <1>5, Zenon
<1>7. Size(g, a) \in Nat
  BY NodeType
<1> HIDE DEF Total
<1>8. QED
  BY <1>6, <1>7, HeapAssumption DEF Cost

\* No byte is in two headers.
HeadersDisjoint(h) ==
  \A a, b \in Live(h) : a # b => Apart(a, BlockHdr, b, BlockHdr)

\* Blocks whose headers do not meet and whose data do not meet, all of them behind
\* x and all data behind y, cost no more than the region has behind x and y.
LEMMA SumBound ==
  ASSUME NEW h, HeapType(h), IsFiniteSet(Live(h)), Ordered(h), Placed(h),
         HeadersDisjoint(h)
  PROVE  \A s \in SUBSET Live(h) : \A x, y \in 0 .. RegionEnd :
           (\A a \in s : x <= a /\ y <= Data(a))
             => SumUp(h)[s] <= (RegionEnd - x) + (RegionEnd - y)
<1> DEFINE Bounded(s) == \A x, y \in 0 .. RegionEnd :
             (\A a \in s : x <= a /\ y <= Data(a))
               => SumUp(h)[s] <= (RegionEnd - x) + (RegionEnd - y)
           B == {s \in SUBSET Live(h) : ~Bounded(s)}
<1> SUFFICES ASSUME B # {} PROVE FALSE
  OBVIOUS
<1>1. PICK s \in B : \A t \in B : t \subseteq s => t = s
  <2>1. B \in SUBSET (SUBSET Live(h))
    OBVIOUS
  <2> HIDE DEF B
  <2>2. QED
    BY <2>1, MinimalSubset
<1>2. RegionEnd \in Nat
  BY HeapAssumption DEF RegionEnd
<1>3. PICK x \in 0 .. RegionEnd, y \in 0 .. RegionEnd :
        /\ \A a \in s : x <= a /\ y <= Data(a)
        /\ ~(SumUp(h)[s] <= (RegionEnd - x) + (RegionEnd - y))
  BY <1>1
<1>4. s # {}
  <2>1. s = {} => SumUp(h)[s] = 0
    BY FoldRule
  <2>2. QED
    BY <1>2, <1>3, <2>1
<1>5. s \in SUBSET Live(h) /\ s \in SUBSET Nat
  BY <1>1 DEF HeapType
<1> DEFINE m == Min(s)
           e == Data(m) + Size(h, m)
           k == m + BlockHdr
<1>6. m \in s /\ \A a \in s : m <= a
  BY <1>4, <1>5, MinLeast
<1>7. m \in Live(h) /\ m \in Nat /\ Size(h, m) \in Nat /\ Data(m) \in Nat
  BY <1>5, <1>6, NodeType
<1>8. e <= RegionEnd /\ FirstBlock <= m
  BY <1>7 DEF Placed
<1> HIDE DEF m
<1>9. e \in 0 .. RegionEnd /\ k \in 0 .. RegionEnd
  BY <1>2, <1>7, <1>8, HeapAssumption DEF Data
<1>10. ASSUME NEW a \in s \ {m}
       PROVE  k <= a /\ e <= Data(a)
  <2>1. a \in Live(h) /\ a \in Nat /\ m < a
    BY <1>5, <1>6, <1>7
  <2>2. e <= Data(a)
    BY <1>7, <2>1, DataOrder
  <2>3. Apart(m, BlockHdr, a, BlockHdr)
    BY <1>7, <2>1 DEF HeadersDisjoint
  <2>4. k <= a
    BY <1>7, <2>1, <2>3, HeapAssumption DEF Apart
  <2>5. QED
    BY <2>2, <2>4
<1>11. s \ {m} \in SUBSET Live(h) /\ s \ {m} \subseteq s /\ s \ {m} # s
  BY <1>5, <1>6
<1>12. Bounded(s \ {m})
  BY <1>1, <1>11
<1>13. SumUp(h)[s \ {m}] <= (RegionEnd - k) + (RegionEnd - e)
  <2> HIDE DEF e, k
  <2>1. QED
    BY <1>9, <1>10, <1>12
<1>14. SumUp(h)[s] = Cost(h, m) + SumUp(h)[s \ {m}]
  BY <1>5, <1>6, SumAny
<1>15. SumUp(h)[s \ {m}] \in Nat
  BY <1>11, SumNat
<1>16. x \in Nat /\ y \in Nat /\ x <= m /\ y <= Data(m)
  BY <1>2, <1>3, <1>6
<1>17. SumUp(h)[s] <= (RegionEnd - x) + (RegionEnd - y)
  <2> DEFINE z == SumUp(h)[s \ {m}]
             u == SumUp(h)[s]
  <2>1. z \in Nat /\ z <= (RegionEnd - k) + (RegionEnd - e) /\ u = Cost(h, m) + z
    BY <1>13, <1>14, <1>15
  <2> HIDE DEF z, u
  <2>2. u <= (RegionEnd - x) + (RegionEnd - y)
    BY <1>2, <1>7, <1>16, <2>1, HeapAssumption DEF Cost, Data
  <2>3. QED
    BY <2>2 DEF u
<1>18. QED
  BY <1>3, <1>17

\* The blocks lie in a bounded range of addresses.
LEMMA FiniteBlocks ==
  ASSUME NEW h, HeapType(h), Placed(h)
  PROVE  IsFiniteSet(Live(h))
<1>1. Live(h) \in SUBSET Nat /\ RegionEnd \in Nat
  BY HeapAssumption DEF HeapType, RegionEnd
<1>2. \A a \in Live(h) : a <= RegionEnd
  BY NodeType, HeapAssumption DEF Placed, Data, RegionEnd
<1>3. QED
  BY <1>1, <1>2, FS_BoundedSetOfNaturals

\* All headers and all data together are less than two regions.
LEMMA TotalBound ==
  ASSUME NEW h, HeapType(h), Ordered(h), Placed(h), HeadersDisjoint(h)
  PROVE  Total(h) \in Nat /\ Total(h) <= 2 * Length
<1>1. IsFiniteSet(Live(h))
  BY FiniteBlocks
<1>2. Total(h) = SumUp(h)[Live(h)] /\ Total(h) \in Nat
  BY <1>1, TotalFolds, SumNat
<1>3. CASE Live(h) = {}
  <2>1. Total(h) = 0
    BY <1>1, <1>2, <1>3, FoldRule
  <2>2. QED
    BY <2>1, HeapAssumption
<1>4. CASE Live(h) # {}
  <2>1. Base \in 0 .. RegionEnd
    BY HeapAssumption DEF RegionEnd
  <2>2. \A a \in Live(h) : Base <= a /\ Base <= Data(a)
    BY NodeType, HeapAssumption DEF Placed, FirstBlock, Data
  <2>3. SumUp(h)[Live(h)] <= (RegionEnd - Base) + (RegionEnd - Base)
    BY <1>1, <2>1, <2>2, SumBound
  <2>4. QED
    BY <1>2, <2>3, HeapAssumption DEF RegionEnd
<1>5. QED
  BY <1>3, <1>4

-----------------------------------------------------------------------------
(* The counters                                                            *)

\* A counter that has gone below zero wraps once.
LEMMA WBelow ==
  ASSUME NEW x \in Int, x < 0, 0 - Word <= x
  PROVE  W(x) = x + Word
  BY HeapAssumption DEF W

LEMMA WTakes ==
  ASSUME NEW l \in Nat, NEW u \in Nat, NEW d \in Nat, l < Word, u + d < Word
  PROVE  W(W(l - u) - d) = W(l - (u + d))
<1>1. Word \in Nat
  BY HeapAssumption
<1>2. CASE u + d <= l
  BY <1>1, <1>2, WExact
<1>3. CASE u <= l /\ l < u + d
  BY <1>1, <1>3, WExact
<1>4. CASE l < u
  <2>1. W(l - u) = l - u + Word
    BY <1>1, <1>4, WBelow
  <2>2. W(l - (u + d)) = l - (u + d) + Word
    BY <1>1, <1>4, WBelow
  <2>3. W(l - u + Word - d) = l - u + Word - d
    BY <1>1, <1>4, WExact
  <2>4. QED
    BY <1>1, <2>1, <2>2, <2>3
<1>5. QED
  BY <1>2, <1>3, <1>4

LEMMA WGives ==
  ASSUME NEW l \in Nat, NEW u \in Nat, NEW d \in Nat, l < Word, u < Word, d <= u
  PROVE  W(W(l - u) + d) = W(l - (u - d))
<1>1. Word \in Nat
  BY HeapAssumption
<1>2. CASE u <= l
  BY <1>1, <1>2, WExact
<1>3. CASE l < u
  <2>1. W(l - u) = l - u + Word
    BY <1>1, <1>3, WBelow
  <2>2. CASE l < u - d
    <3>1. W(l - (u - d)) = l - (u - d) + Word
      BY <1>1, <2>2, WBelow
    <3>2. W(l - u + Word + d) = l - u + Word + d
      BY <1>1, <1>3, <2>2, WExact
    <3>3. QED
      BY <1>1, <2>1, <3>1, <3>2
  <2>3. CASE u - d <= l
    <3>1. W(l - u + Word + d) = l - (u - d)
      BY <1>1, <2>3, HeapAssumption DEF W
    <3>2. W(l - (u - d)) = l - (u - d)
      BY <1>1, <2>3, WExact
    <3>3. QED
      BY <1>1, <2>1, <3>1, <3>2
  <2>4. QED
    BY <2>2, <2>3
<1>4. QED
  BY <1>2, <1>3

Counted(h) == h.used = Total(h) /\ h.free = W(Length - h.used)

\* What Accounting needs beside HeapInv: that the headers do not meet bounds the
\* sum, and without the bound used_size would wrap.
CountInv == heap.intact => HeadersDisjoint(heap) /\ Counted(heap)

LEMMA Emptied ==
  ASSUME NEW h, Live(h) = {}
  PROVE  Total(h) = 0
<1>1. IsFiniteSet(Live(h)) /\ Live(h) \in SUBSET Live(h)
  BY FS_EmptySet
<1>2. SumUp(h)[Live(h)] = 0
  BY <1>1, FoldRule
<1>3. QED
  BY <1>2, TotalFolds

LEMMA AllocCounts ==
  ASSUME NoWrap, Fitting, HalfWord, HeapInv, CountInv, NEW s \in Sizes, Alloc(s)
  PROVE  CountInv'
<1>1. heap.intact
  BY DEF Alloc
<1>2. CASE ~CanAlloc(heap, s)
  <2>1. heap' = heap
    BY <1>2 DEF Alloc, AfterAlloc
  <2>2. QED
    BY <2>1 DEF CountInv
<1>3. CASE CanAlloc(heap, s)
  <2> SUFFICES ASSUME heap'.intact
               PROVE  HeadersDisjoint(heap') /\ Counted(heap')
    BY DEF CountInv
  <2>1. PICK a \in Nat, cur \in Nat :
          /\ Room(heap, s, a, cur)
          /\ cur = Null <=> heap.first = Null
          /\ heap' = Insert(heap, cur, a, s)
          /\ held' = Hold(held, Data(a), s)
    BY <1>1, <1>3, Accepted, Zenon
  <2>2. HeapType(heap) /\ HeadersDisjoint(heap) /\ Counted(heap)
    BY <1>1 DEF HeapInv, TypeOK, CountInv
  <2>3. HeapInv'
    BY AllocStep
  <2>4. HeapType(heap') /\ Ordered(heap') /\ Placed(heap')
    BY <2>3 DEF HeapInv, TypeOK, Sound
  <2>5. HeaderFree(heap, a)
    BY <2>1 DEF Insert
  <2>6. Live(heap') = Live(heap) \cup {a} /\ a \notin Live(heap)
    BY <2>1, <2>5, HeapAssumption DEF Insert, Live, HeaderFree, Apart
  <2>7. Size(heap', a) = s /\ \A b \in Live(heap) : Size(heap', b) = Size(heap, b)
    BY <2>1, <2>6 DEF Insert, NewNode, Size, Live
  <2>8. HeadersDisjoint(heap')
    BY <2>2, <2>5, <2>6 DEF HeadersDisjoint, HeaderFree, Apart
  <2>9. Total(heap') \in Nat /\ Total(heap') <= 2 * Length
    BY <2>4, <2>8, TotalBound
  <2>10. Total(heap') = Total(heap) + s + BlockHdr
    <3>1. a \in Live(heap') /\ Live(heap) = Live(heap') \ {a}
      BY <2>6
    <3>2. IsFiniteSet(Live(heap'))
      BY <2>4, FiniteBlocks
    <3>3. QED
      BY <2>4, <2>7, <3>1, <3>2, TotalWith
  <2>11. Total(heap) \in Nat
    BY <1>1, <2>2, TotalBound DEF HeapInv, Sound
  <2>12. /\ heap'.used = W(heap.used + s + BlockHdr)
         /\ heap'.free = W(heap.free - (s + BlockHdr))
    BY <2>1 DEF Insert
  <2> HIDE DEF Total
  <2> DEFINE u == Total(heap)
             d == s + BlockHdr
  <2>13. u \in Nat /\ d \in Nat /\ Length \in Nat /\ Length < Word /\ u + d < Word
    BY <2>9, <2>10, <2>11, SizesAssumption, HeapAssumption DEF HalfWord
  <2>14. heap'.used = u + d /\ Total(heap') = u + d
    <3>1. heap.used + s + BlockHdr = u + d /\ Total(heap') = u + d
      BY <2>2, <2>10, <2>11, SizesAssumption, HeapAssumption DEF Counted
    <3>2. QED
      BY <2>12, <2>13, <3>1, WExact
  <2>15. heap'.free = W(Length - (u + d))
    <3> HIDE DEF u, d
    <3>1. W(W(Length - u) - d) = W(Length - (u + d))
      BY <2>13, WTakes
    <3>2. QED
      BY <2>2, <2>12, <3>1, Zenon DEF Counted, u, d
  <2>16. QED
    BY <2>8, <2>14, <2>15, Zenon DEF Counted
<1>4. QED
  BY <1>2, <1>3

LEMMA FreeCounts ==
  ASSUME HalfWord, HeapInv, CountInv, NEW p \in DOMAIN held \cup Strays, Free(p)
  PROVE  CountInv'
<1>1. heap.intact /\ heap' = AfterFree(heap, p)
  BY DEF Free
<1>2. CASE ~IsPointing(heap, p)
  BY <1>1, <1>2 DEF AfterFree, CountInv
<1>3. CASE IsPointing(heap, p)
  <2>1. PICK a \in Live(heap) : p = Data(a)
    BY <1>3 DEF IsPointing
  <2>2. HeapType(heap) /\ HeadersDisjoint(heap) /\ Counted(heap)
    BY <1>1 DEF HeapInv, TypeOK, CountInv
  <2>3. heap' = Unlink(heap, a)
    BY <1>1, <1>3, <2>1, <2>2, NodeType, HeapAssumption DEF AfterFree, Data
  <2>4. /\ Live(heap') = Live(heap) \ {a}
        /\ \A b \in Live(heap') : Size(heap, b) = Size(heap', b)
    BY <2>3 DEF Unlink, Live, Relink, Size
  <2>5. HeadersDisjoint(heap')
    BY <2>2, <2>4 DEF HeadersDisjoint
  <2>6. IsFiniteSet(Live(heap)) /\ Total(heap) \in Nat /\ Total(heap) <= 2 * Length
    BY <1>1, <2>2, FiniteBlocks, TotalBound DEF HeapInv, Sound
  <2>7. Total(heap) = Total(heap') + Size(heap, a) + BlockHdr
    BY <2>2, <2>4, <2>6, TotalWith
  <2>8. Total(heap') \in Nat
    <3>1. IsFiniteSet(Live(heap'))
      BY <2>4, <2>6, FS_RemoveElement
    <3>2. HeapType(heap')
      BY <2>2, <2>3, UnlinkType
    <3>3. QED
      BY <3>1, <3>2, SumNat, TotalFolds
  <2>9. /\ heap'.used = W(heap.used - (Size(heap, a) + BlockHdr))
        /\ heap'.free = W(heap.free + Size(heap, a) + BlockHdr)
    BY <2>3 DEF Unlink, UsedWithout, FreeWith
  <2>10. heap.free \in Nat /\ Size(heap, a) \in Nat
    BY <2>2, NodeType DEF HeapType
  <2> HIDE DEF Total
  <2> DEFINE u == Total(heap)
             d == Size(heap, a) + BlockHdr
  <2>11. /\ u \in Nat /\ d \in Nat /\ Length \in Nat /\ Length < Word /\ u < Word
         /\ d <= u /\ Total(heap') = u - d
    BY <2>6, <2>7, <2>8, <2>10, HeapAssumption DEF HalfWord
  <2>12. heap'.used = u - d
    <3> HIDE DEF u, d
    <3>1. u - d \in Nat /\ u - d < Word
      BY <2>11, HeapAssumption
    <3>2. W(u - d) = u - d
      BY <3>1, WExact
    <3>3. QED
      BY <2>2, <2>9, <3>2, Zenon DEF Counted, u, d
  <2>13. heap'.free = W(Length - (u - d))
    <3>1. heap.free + Size(heap, a) + BlockHdr = heap.free + d
      BY <2>10, HeapAssumption
    <3> HIDE DEF u, d
    <3>2. W(W(Length - u) + d) = W(Length - (u - d))
      BY <2>11, WGives
    <3>3. QED
      BY <2>2, <2>9, <3>1, <3>2, Zenon DEF Counted, u
  <2>14. QED
    BY <2>5, <2>11, <2>12, <2>13, Zenon DEF Counted, CountInv
<1>4. QED
  BY <1>2, <1>3

LEMMA WriteCounts ==
  ASSUME HeapInv, CountInv, NEW p, NEW n, Write(p, n)
  PROVE  CountInv'
<1>1. heap.intact /\ heap' = AfterFill(heap, p, n)
  BY DEF Write
<1>2. /\ heap'.used = heap.used /\ heap'.free = heap.free /\ heap'.block = heap.block
  BY <1>1 DEF AfterFill
<1>3. Live(heap') = Live(heap) /\ \A a \in Live(heap) : Size(heap', a) = Size(heap, a)
  BY <1>2 DEF Live, Size
<1>4. Total(heap') = Total(heap)
  <2>1. IsFiniteSet(Live(heap))
    BY <1>1, FiniteBlocks DEF HeapInv, TypeOK, Sound
  <2>2. SumUp(heap')[Live(heap)] = SumUp(heap)[Live(heap)]
    BY <1>3, <2>1, SumSame
  <2>3. QED
    BY <1>3, <2>2, TotalFolds
<1>5. QED
  BY <1>1, <1>2, <1>3, <1>4 DEF CountInv, Counted, HeadersDisjoint

LEMMA CountStart ==
  ASSUME Init
  PROVE  CountInv
<1>1. Live(heap) = {} /\ heap.used = 0 /\ heap.free = Length
  BY DEF Init, EmptyHeap, Live
<1>2. Total(heap) = 0
  BY <1>1, Emptied
<1>3. W(Length - 0) = Length
  BY WExact, HeapAssumption
<1>4. QED
  BY <1>1, <1>2, <1>3 DEF CountInv, Counted, HeadersDisjoint

LEMMA CountStep ==
  ASSUME NoWrap, Fitting, HalfWord, HeapInv, CountInv, [Next]_vars
  PROVE  CountInv'
<1>1. CASE \E s \in Sizes : Alloc(s)
  BY <1>1, AllocCounts
<1>2. CASE \E p \in DOMAIN held \cup Strays : Free(p)
  BY <1>2, FreeCounts
<1>3. CASE \E p \in DOMAIN held : Fill(p)
  BY <1>3, WriteCounts DEF Fill
<1>4. CASE UNCHANGED vars
  <2>1. heap' = heap
    BY <1>4 DEF vars
  <2>2. QED
    BY <2>1 DEF CountInv
<1>5. QED
  BY <1>1, <1>2, <1>3, <1>4 DEF Next

LEMMA CountsAccount == CountInv => Accounting
  BY DEF CountInv, Counted, Accounting, Total, HeadersDisjoint

\* used_size is the sum over the blocks, headers included, and free_size the rest of
\* the region modulo 2^32, after any sequence of alloc, free and writes to the blocks
\* (alloc.c:40-41, :54-55, :68-69 and :100-101), for every region smaller than 2^31 bytes.
THEOREM CountersAccount ==
  ASSUME NoWrap, Fitting, HalfWord
  PROVE  Spec => []Accounting
<1>1. Init => HeapInv /\ CountInv
  BY HeapStart, CountStart
<1>2. HeapInv /\ CountInv /\ [Next]_vars => HeapInv' /\ CountInv'
  BY HeapStep, CountStep
<1>3. CountInv => Accounting
  BY CountsAccount
<1>4. QED
  BY <1>1, <1>2, <1>3, PTL DEF Spec
=============================================================================
