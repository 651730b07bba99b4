---------------------------- MODULE FormatProofs ----------------------------
(***************************************************************************)
(* Proofs about Format and DebugLog: what the digit loops compute, that     *)
(* snprintf never writes behind its buffer, that it writes the right text,   *)
(* and what debug_printf and the memory table send to the port.              *)
(***************************************************************************)
EXTENDS DebugLog, SequenceTheorems, NaturalsInduction, WellFoundedInduction, TLAPS

-----------------------------------------------------------------------------
(* snprintf stays in its buffer                                            *)

\* The inductive invariant: the index of the next store is inside the buffer, so
\* that it can always be the NUL's, and what is behind the buffer is untouched.
Bounded ==
    /\ size \in Sizes
    /\ written \in Nat /\ written <= size - 1
    /\ DOMAIN buffer = 0 .. Memory - 1
    /\ NoOverrun

\* A store at the next index leaves the memory behind the buffer alone.
LEMMA StoreInside ==
    ASSUME Bounded, NEW c, buffer' = [buffer EXCEPT ![written] = c], size' = size
    PROVE  DOMAIN buffer' = 0 .. Memory - 1 /\ NoOverrun'
<1> USE FormatAssumption
<1>1. size \in Nat /\ written \in Nat /\ written < size
  BY DEF Bounded
<1>2. DOMAIN buffer' = DOMAIN buffer
  OBVIOUS
<1>3. \A i \in DOMAIN buffer : i >= size => i # written
  BY <1>1 DEF Bounded
<1>4. \A i \in DOMAIN buffer : i >= size => buffer'[i] = buffer[i]
  BY <1>3
<1> QED
  BY <1>2, <1>4 DEF Bounded, NoOverrun

\* A character that passes the bound of the loops leaves room for the NUL.
LEMMA PutInside ==
    ASSUME Bounded, Room, NEW c, Put(c), size' = size
    PROVE  Bounded'
<1>1. size \in Nat \ {0} /\ written \in Nat
  BY FormatAssumption DEF Bounded
<1>2. written' \in Nat /\ written' <= size - 1
  BY <1>1 DEF Room, Put
<1>3. DOMAIN buffer' = 0 .. Memory - 1 /\ NoOverrun'
  BY StoreInside DEF Put
<1> QED
  BY <1>2, <1>3 DEF Bounded

LEMMA BoundedInit == Init => Bounded
<1> SUFFICES ASSUME Init PROVE Bounded
  OBVIOUS
<1>1. size \in Nat \ {0} /\ written = 0
  BY FormatAssumption DEF Init
<1>2. NoOverrun /\ DOMAIN buffer = 0 .. Memory - 1
  BY DEF Init, NoOverrun
<1> QED
  BY <1>1, <1>2 DEF Bounded, Init

LEMMA BoundedNext == Bounded /\ [Next]_vars => Bounded'
<1> SUFFICES ASSUME Bounded, [Next]_vars PROVE Bounded'
  OBVIOUS
<1>1. CASE Literal
  BY <1>1, PutInside DEF Literal, More
<1>2. CASE Directive
  BY <1>2 DEF Directive, Bounded, NoOverrun
<1>3. CASE Emit
  BY <1>3, PutInside DEF Emit
<1>4. CASE EmitDone
  BY <1>4 DEF EmitDone, Bounded, NoOverrun
<1>5. CASE Close
  <2>1. size' = size /\ written' = written
    BY <1>5 DEF Close
  <2>2. DOMAIN buffer' = 0 .. Memory - 1 /\ NoOverrun'
    BY <1>5, StoreInside DEF Close
  <2> QED
    BY <2>1, <2>2 DEF Bounded
<1>6. CASE UNCHANGED vars
  BY <1>6 DEF vars, Bounded, NoOverrun
<1> QED
  BY <1>1, <1>2, <1>3, <1>4, <1>5, <1>6 DEF Next

\* No call of snprintf with a size of at least 1 writes behind its buffer
\* (stdio.c:21-126).
THEOREM NothingBehindTheBuffer == Spec => []NoOverrun
<1>1. Bounded => NoOverrun
  BY DEF Bounded
<1> QED
  BY BoundedInit, BoundedNext, <1>1, PTL DEF Spec

\* The NUL and everything before it lie inside the buffer at all times
\* (stdio.c:26, 124).
THEOREM NulFits == Spec => [](written <= size - 1)
<1>1. Bounded => written <= size - 1
  BY DEF Bounded
<1> QED
  BY BoundedInit, BoundedNext, <1>1, PTL DEF Spec

-----------------------------------------------------------------------------
(* So does the memory table: the invariant is carried over the steps around  *)
(* snprintf                                                                *)

\* What carries Bounded over the padding: a table's rows have their own size.
LogBounded ==
    /\ Bounded
    /\ row # NoRow => size = RowSize

LEMMA LogBoundedInit == LogInit => LogBounded
<1> SUFFICES ASSUME LogInit PROVE LogBounded
  OBVIOUS
<1>1. CASE Init /\ report = <<>> /\ row = NoRow
  BY <1>1, BoundedInit DEF LogBounded
<1>2. CASE /\ size = RowSize /\ written = 0
           /\ buffer = [i \in 0 .. Memory - 1 |-> Old]
  <2>1. NoOverrun /\ DOMAIN buffer = 0 .. Memory - 1
    BY <1>2 DEF NoOverrun
  <2>2. size \in Sizes /\ written \in Nat /\ written <= size - 1
    BY <1>2, DebugLogAssumption DEF RowSize
  <2> QED
    BY <1>2, <2>1, <2>2 DEF LogBounded, Bounded
<1> QED
  BY <1>1, <1>2 DEF LogInit

\* A step that leaves snprintf's variables alone leaves the invariant alone.
LEMMA BoundedStays ==
    ASSUME Bounded, UNCHANGED <<size, written, buffer>>
    PROVE  Bounded'
BY DEF Bounded, NoOverrun

\* A row starts in a fresh buffer, blank up to its size.
LEMMA NextRowInside == NextRow => Bounded'
<1> SUFFICES ASSUME NextRow PROVE Bounded'
  OBVIOUS
<1>1. size' = RowSize /\ written' = 0
  BY DEF NextRow
<1>2. buffer' = [i \in 0 .. Memory - 1 |-> IF i < RowSize THEN " " ELSE Old]
  BY DEF NextRow, Filled
<1>3. size' \in Sizes /\ written' \in Nat /\ written' <= size' - 1
  BY <1>1, DebugLogAssumption DEF RowSize
<1>4. DOMAIN buffer' = 0 .. Memory - 1
  BY <1>2
<1>5. \A i \in 0 .. Memory - 1 : i >= RowSize => ~(i < RowSize)
  BY FormatAssumption DEF RowSize
<1>6. \A i \in 0 .. Memory - 1 : i >= RowSize => buffer'[i] = Old
  BY <1>2, <1>5
<1>7. NoOverrun'
  BY <1>1, <1>4, <1>6 DEF NoOverrun
<1> QED
  BY <1>3, <1>4, <1>7 DEF Bounded

\* Blanks and frame stay below the row's size, which is the buffer's.
LEMMA PadRowInside == LogBounded /\ PadRow => Bounded'
<1> SUFFICES ASSUME LogBounded, PadRow PROVE Bounded'
  OBVIOUS
<1>1. Bounded /\ size = RowSize /\ UNCHANGED <<size, written>>
  BY DEF LogBounded, PadRow
<1>2. DOMAIN buffer' = DOMAIN buffer
  BY DEF PadRow
<1>3. \A i \in DOMAIN buffer : i >= RowSize => buffer'[i] = buffer[i]
  BY DEF PadRow
<1>4. NoOverrun'
  BY <1>1, <1>2, <1>3 DEF Bounded, NoOverrun
<1> QED
  BY <1>1, <1>2, <1>4 DEF Bounded

LEMMA LogBoundedNext == LogBounded /\ [LogNext]_logvars => LogBounded'
<1> SUFFICES ASSUME LogBounded, [LogNext]_logvars PROVE LogBounded'
  OBVIOUS
<1>1. Bounded
  BY DEF LogBounded
<1>2. CASE Snprintf
  <2>1. Bounded'
    BY <1>1, <1>2, BoundedNext DEF Snprintf
  <2>2. size' = size /\ row' = row
    BY <1>2 DEF Snprintf, Next, Literal, Directive, Emit, EmitDone, Close
  <2> QED
    BY <2>1, <2>2 DEF LogBounded
<1>3. CASE UNCHANGED <<size, written, buffer, row>>
  BY <1>1, <1>3, BoundedStays DEF LogBounded
<1>4. CASE NextRow
  BY <1>4, NextRowInside DEF LogBounded, NextRow
<1>5. CASE PadRow
  BY <1>5, PadRowInside DEF LogBounded, PadRow
<1>6. Say \/ SayDirective \/ SayEnd \/ SendBorder \/ LastRow \/ SendRow
        => UNCHANGED <<size, written, buffer, row>>
  BY DEF Say, SayDirective, SayEnd, SendBorder, LastRow, SendRow
<1>7. UNCHANGED logvars => UNCHANGED <<size, written, buffer, row>>
  BY DEF logvars, vars
<1> QED
  BY <1>2, <1>3, <1>4, <1>5, <1>6, <1>7 DEF LogNext

\* Neither snprintf nor the padding of a row writes behind the buffer, whatever the
\* heap holds (stdio.c:21-126, alloc.c:192-213).
THEOREM RowsStayInside == LogSpec => []NoOverrun
<1>1. LogBounded => NoOverrun
  BY DEF LogBounded, Bounded
<1> QED
  BY LogBoundedInit, LogBoundedNext, <1>1, PTL DEF LogSpec

-----------------------------------------------------------------------------
(* The recursive functions exist                                           *)

\* A set of naturals that is not empty has a least element.
LEMMA LeastOf ==
  ASSUME NEW S \in SUBSET Nat, S # {}
  PROVE  \E m \in S : \A x \in S : m <= x
<1>1. PICK m \in S : \A y \in S : ~(<<y, m>> \in OpToRel(<, Nat))
  BY NatLessThanWellFounded, WFMin, Zenon
<1>2. ASSUME NEW y \in S
      PROVE  ~(y < m)
  <2>1. <<y, m>> \in Nat \X Nat /\ <<y, m>>[1] = y /\ <<y, m>>[2] = m
    OBVIOUS
  <2>2. y < m => <<y, m>> \in OpToRel(<, Nat)
    BY <2>1, Zenon DEF OpToRel
  <2> QED
    BY <1>1, <2>2, Zenon
<1> QED
  BY <1>2

\* What a recursive function of the model does with the value of its next place.
Combined(mode, x, v) ==
    CASE mode = "front" -> x \o v
      [] mode = "back"  -> Append(v, x)
      [] mode = "last"  -> v \o x
      [] mode = "both"  -> x /\ v

\* F is defined by recursion on P: it is base on the places of stop, and elsewhere
\* what is made of x and its value at the next place.
Recursive(F, P, stop, base, mode, x, next) ==
    F = [p \in P |-> IF p \in stop THEN base ELSE Combined(mode, x[p], F[next[p]])]

\* A function that goes on to a place of lower rank until it may stop exists: the
\* least rank up to which there is none would have one.
LEMMA RecursionExists ==
  ASSUME NEW P, NEW B \in Nat, NEW rank \in [P -> 0 .. B], NEW stop \in SUBSET P,
         NEW next, NEW x, NEW base, NEW mode,
         \A p \in P \ stop : next[p] \in P /\ rank[next[p]] < rank[p]
  PROVE  \E F : Recursive(F, P, stop, base, mode, x, next)
<1> DEFINE Upto(n) == {p \in P : rank[p] < n}
           Step(F, n) == [p \in Upto(n) |->
                            IF p \in stop THEN base ELSE Combined(mode, x[p], F[next[p]])]
           Bad == {n \in 0 .. B + 1 : ~ \E F : F = Step(F, n)}
<1>1. ASSUME Bad # {} PROVE FALSE
  <2>1. Bad \in SUBSET Nat
    OBVIOUS
  <2>2. PICK n \in Bad : \A y \in Bad : n <= y
    BY <1>1, <2>1, LeastOf
  <2>3. n \in 0 .. B + 1 /\ ~ \E F : F = Step(F, n)
    BY <2>2
  <2>4. CASE n = 0
    <3>1. \A p \in P : rank[p] \in Nat
      OBVIOUS
    <3>2. Upto(n) = {}
      BY <2>4, <3>1
    <3>3. [p \in {} |-> base] = Step([p \in {} |-> base], n)
      BY <3>2
    <3> QED
      BY <2>3, <3>3
  <2>5. CASE n # 0
    <3>1. n - 1 \in 0 .. B + 1 /\ ~(n <= n - 1)
      BY <2>3, <2>5
    <3>6. n - 1 \notin Bad
      <4> HIDE DEF Bad
      <4> QED
        BY <2>2, <3>1
    <3>2. PICK G : G = Step(G, n - 1)
      BY <3>1, <3>6
    <3> DEFINE H == Step(G, n)
    <3>3. ASSUME NEW p \in Upto(n), p \notin stop
          PROVE  H[next[p]] = G[next[p]]
      <4>1. next[p] \in P /\ rank[next[p]] < rank[p] /\ rank[p] < n
        BY <3>3
      <4>2. rank[p] \in Nat /\ rank[next[p]] \in Nat /\ n \in Nat
        BY <4>1, <2>3
      <4>3. next[p] \in Upto(n - 1) /\ next[p] \in Upto(n)
        BY <4>1, <4>2
      <4>4. H[next[p]] = IF next[p] \in stop THEN base ELSE Combined(mode, x[next[p]], G[next[next[p]]])
        BY <4>3
      <4>5. G[next[p]] = Step(G, n - 1)[next[p]]
        BY <3>2, Zenon
      <4>6. Step(G, n - 1)[next[p]] = IF next[p] \in stop THEN base ELSE Combined(mode, x[next[p]], G[next[next[p]]])
        BY <4>3
      <4> QED
        BY <4>4, <4>5, <4>6
    <3>4. H = Step(H, n)
      <4>1. \A p \in Upto(n) : H[p] = IF p \in stop THEN base ELSE Combined(mode, x[p], H[next[p]])
        BY <3>3
      <4> HIDE DEF Upto
      <4> QED
        BY <4>1
    <3> HIDE DEF H, Step
    <3> QED
      BY <2>3, <3>4
  <2> QED
    BY <2>4, <2>5
<1>2. PICK F : F = Step(F, B + 1)
  <2>1. B + 1 \in 0 .. B + 1
    OBVIOUS
  <2> HIDE DEF Step
  <2> QED
    BY <1>1, <2>1
<1>3. Upto(B + 1) = P
  <2>1. \A p \in P : rank[p] \in 0 .. B
    OBVIOUS
  <2> QED
    BY <2>1
<1>4. F = [p \in P |-> IF p \in stop THEN base ELSE Combined(mode, x[p], F[next[p]])]
  <2> HIDE DEF Upto
  <2> QED
    BY <1>2, <1>3
<1> QED
  BY <1>4 DEF Recursive

-----------------------------------------------------------------------------
(* The digit loops                                                         *)

\* A number's bounds.
LEMMA NumberBounds ==
  /\ MaxInt = 2147483647 /\ MinInt = -2147483648 /\ 0 \in Numbers /\ MaxInt + 1 \in Nat
  /\ \A n \in Int : n \in Numbers <=> n >= -2147483648 /\ n <= 2147483647
  /\ Numbers \subseteq Int
<1>1. Numbers \subseteq Int /\ \A n \in Int : n \in Numbers <=> n >= MinInt /\ n <= MaxInt
  BY SMT DEF Numbers, MinInt
<1>2. MaxInt = 2147483647 /\ MinInt = -2147483648
  BY SMT DEF MaxInt, MinInt
<1>3. \A n \in Int : n >= MinInt /\ n <= MaxInt <=> n >= -2147483648 /\ n <= 2147483647
  BY <1>2, SMT
<1>4. 0 \in Numbers /\ MaxInt + 1 \in Nat
  BY <1>1, <1>2, SMT
<1> QED
  BY <1>1, <1>2, <1>3, <1>4, SMT

LEMMA NumbersAreIntegers ==
  /\ Numbers \subseteq Int /\ 0 \in Numbers /\ MaxInt \in Nat
  /\ \A n \in Numbers : n <= MaxInt
<1>1. MaxInt \in Nat
  BY NumberBounds, SMT
<1>2. \A n \in Numbers : n \in Int /\ n <= MaxInt
  BY SMT DEF Numbers, MinInt
<1>3. 0 \in Numbers
  BY NumberBounds, SMT
<1> QED
  BY <1>1, <1>2, <1>3

\* A number without its last digit, and that digit.
LEMMA TenParts ==
  ASSUME NEW n \in Numbers
  PROVE  /\ n >= 0 => /\ DivTen(n) = n \div 10 /\ ModTen(n) = n % 10
                      /\ n \div 10 \in Nat /\ n % 10 \in 0 .. 9
                      /\ n = 10 * (n \div 10) + (n % 10)
         /\ n < 0 => /\ DivTen(n) >= 214748364 /\ DivTen(n) <= 429496729 /\ ModTen(n) \in 0 .. 9
                     /\ 10 * DivTen(n) + ModTen(n) = n + 4294967296
         /\ DivTen(n) \in Numbers /\ DivTen(n) >= 0
<1>1. n \in Int /\ n >= -2147483648 /\ n <= 2147483647
  BY NumberBounds, SMT
<1>2. CASE n >= 0
  <2>1. n \div 10 \in Nat /\ n % 10 \in 0 .. 9 /\ n = 10 * (n \div 10) + (n % 10)
    BY <1>1, <1>2, SMT
  <2>2. DivTen(n) = n \div 10 /\ ModTen(n) = n % 10
    BY <1>1, <1>2, SMT DEF DivTen, ModTen
  <2>3. n \div 10 <= 2147483647
    BY <1>1, <1>2, <2>1, SMT
  <2> QED
    BY <1>2, <2>1, <2>2, <2>3, NumberBounds, SMT
<1>3. CASE n < 0
  <2> DEFINE q == n \div 10
             r == n % 10
  <2>1. q \in Int /\ q >= -214748365 /\ q <= -1 /\ r \in 0 .. 9 /\ n = 10 * q + r
    BY <1>1, <1>3, SMT
  <2>2. DivTen(n) = 429496729 + q + ((r + 6) \div 10) /\ ModTen(n) = (r + 6) % 10
    BY <1>1, <1>3, SMT DEF DivTen, ModTen
  <2> HIDE DEF q, r
  <2>3. (r + 6) \div 10 \in 0 .. 1 /\ (r + 6) % 10 \in 0 .. 9
        /\ r + 6 = 10 * ((r + 6) \div 10) + ((r + 6) % 10)
    BY <2>1, SMT
  <2>4. DivTen(n) \in Int /\ ModTen(n) \in 0 .. 9 /\ 10 * DivTen(n) + ModTen(n) = n + 4294967296
    BY <1>1, <2>1, <2>2, <2>3, SMT
  <2>5. DivTen(n) >= 214748364 /\ DivTen(n) <= 429496729
    BY <1>1, <1>3, <2>4, SMT
  <2>6. DivTen(n) \in Numbers /\ DivTen(n) >= 0
    BY <2>4, <2>5, NumberBounds, SMT
  <2> QED
    BY <1>1, <1>3, <2>4, <2>5, <2>6, SMT
<1> QED
  BY <1>1, <1>2, <1>3, SMT

LEMMA TenFalls ==
  ASSUME NEW n \in Numbers
  PROVE  /\ n \in Int /\ n <= MaxInt /\ MaxInt + 1 \in Nat
         /\ n # 0 => /\ DivTen(n) \in Numbers /\ DivTen(n) \in Nat /\ DivTen(n) < MaxInt + 1
                     /\ n >= 0 => DivTen(n) < n
<1>1. n \in Int /\ n <= MaxInt /\ MaxInt + 1 \in Nat
  BY NumberBounds, SMT
<1>2. DivTen(n) \in Numbers /\ DivTen(n) \in Nat
  <2>1. DivTen(n) \in Numbers /\ DivTen(n) >= 0
    BY TenParts, SMT
  <2>2. DivTen(n) \in Int
    BY <2>1, NumbersAreIntegers
  <2> QED
    BY <2>1, <2>2
<1>3. DivTen(n) < MaxInt + 1
  BY <1>2, NumberBounds, SMT
<1>4. n > 0 => DivTen(n) < n
  BY <1>1, TenParts, SMT
<1> QED
  BY <1>1, <1>2, <1>3, <1>4, SMT

LEMMA DigitsRecursion ==
  \A n \in Numbers : Digits[n] = IF n = 0 THEN <<>> ELSE Append(Digits[DivTen(n)], Digit(ModTen(n)))
<1> DEFINE rank == [n \in Numbers |-> IF n < 0 THEN MaxInt + 1 ELSE n]
           next == [n \in Numbers |-> DivTen(n)]
           x == [n \in Numbers |-> Digit(ModTen(n))]
<1>1. rank \in [Numbers -> 0 .. MaxInt + 1]
  <2>1. \A n \in Numbers : (IF n < 0 THEN MaxInt + 1 ELSE n) \in 0 .. MaxInt + 1
    <3> SUFFICES ASSUME NEW n \in Numbers
                 PROVE  (IF n < 0 THEN MaxInt + 1 ELSE n) \in 0 .. MaxInt + 1
      OBVIOUS
    <3> QED
      BY NumbersAreIntegers
  <2> QED
    BY <2>1
<1>2. MaxInt + 1 \in Nat /\ {0} \in SUBSET Numbers
  BY NumberBounds, SMT
<1>3. ASSUME NEW n \in Numbers \ {0}
      PROVE  next[n] \in Numbers /\ rank[next[n]] < rank[n]
  <2>1. /\ next[n] = DivTen(n) /\ DivTen(n) \in Numbers
        /\ rank[DivTen(n)] = IF DivTen(n) < 0 THEN MaxInt + 1 ELSE DivTen(n)
        /\ rank[n] = IF n < 0 THEN MaxInt + 1 ELSE n
    BY TenFalls, SMT
  <2> HIDE DEF rank, next
  <2> QED
    BY <2>1, TenFalls, SMT
<1> HIDE DEF rank
<1>4. \E F : Recursive(F, Numbers, {0}, <<>>, "back", x, next)
  <2>1. \A n \in Numbers \ {0} : next[n] \in Numbers /\ rank[next[n]] < rank[n]
    BY <1>3
  <2> HIDE DEF next, x
  <2> QED
    BY <1>1, <1>2, <2>1, RecursionExists
<1>5. \E F : F = [n \in Numbers |-> IF n = 0 THEN <<>> ELSE Append(F[DivTen(n)], Digit(ModTen(n)))]
  <2>1. PICK F : F = [n \in Numbers |-> IF n \in {0} THEN <<>> ELSE Combined("back", x[n], F[next[n]])]
    BY <1>4 DEF Recursive
  <2>2. ASSUME NEW n \in Numbers
        PROVE  (IF n \in {0} THEN <<>> ELSE Combined("back", x[n], F[next[n]]))
                 = IF n = 0 THEN <<>> ELSE Append(F[DivTen(n)], Digit(ModTen(n)))
    <3>1. Combined("back", x[n], F[next[n]]) = Append(F[next[n]], x[n])
      BY DEF Combined
    <3>2. next[n] = DivTen(n) /\ x[n] = Digit(ModTen(n))
      OBVIOUS
    <3> HIDE DEF next, x
    <3> QED
      BY <3>1, <3>2
  <2> HIDE DEF next, x
  <2>3. F = [n \in Numbers |-> IF n = 0 THEN <<>> ELSE Append(F[DivTen(n)], Digit(ModTen(n)))]
    BY <2>1, <2>2, Zenon
  <2> QED
    BY <2>3
<1>6. Digits = [n \in Numbers |-> IF n = 0 THEN <<>> ELSE Append(Digits[DivTen(n)], Digit(ModTen(n)))]
  BY <1>5 DEF Digits
<1> QED
  BY <1>6, Zenon

LEMMA CharactersAre ==
  /\ {"0", "1", "2", "3", "4", "5", "6", "7", "8", "9", "a", "b", "c", "d", "e", "f"} \subseteq Characters
  /\ {"x", "p", "-", "%", "."} \subseteq Characters /\ NUL \notin Characters
  /\ Characters \subseteq AnyCharacter
<1>1. NUL \notin {"0", "1", "2", "3", "4", "5", "6", "7", "8", "9", "a", "b", "c", "d", "e", "f",
                 "x", "p", "-", "%", "."}
  BY DEF NUL
<1> QED
  BY <1>1, Zenon DEF Characters, AnyCharacter

LEMMA DigitIsCharacter == \A d \in 0 .. 15 : Digit(d) \in Characters
<1>1. ASSUME NEW d \in 0 .. 15 PROVE Digit(d) \in Characters
  <2>1. \/ d = 0 \/ d = 1 \/ d = 2 \/ d = 3 \/ d = 4 \/ d = 5 \/ d = 6 \/ d = 7
        \/ d = 8 \/ d = 9 \/ d = 10 \/ d = 11 \/ d = 12 \/ d = 13 \/ d = 14 \/ d = 15
    OBVIOUS
  <2>2. Digit(d) \in {"0", "1", "2", "3", "4", "5", "6", "7", "8", "9", "a", "b", "c", "d", "e", "f"}
    BY <2>1, SMTT(30) DEF Digit
  <2> QED
    BY <2>2, CharactersAre, Zenon
<1> QED
  BY <1>1

\* The digits of a place are those of its number, one place further left.
LEMMA TensShift ==
  ASSUME NEW n \in Nat
  PROVE  /\ n \div Tens[1] = n /\ Tens[2] = 10
         /\ \A j \in 1 .. 9 : (n \div 10) \div Tens[j] = n \div Tens[j + 1]
<1>1. n \div 1 = n /\ Tens[1] = 1 /\ Tens[2] = 10
  BY SMT DEF Tens
<1>2. /\ (n \div 10) \div 1 = n \div 10 /\ (n \div 10) \div 10 = n \div 100
      /\ (n \div 10) \div 100 = n \div 1000 /\ (n \div 10) \div 1000 = n \div 10000
  BY SMT
<1>3. /\ (n \div 10) \div 10000 = n \div 100000 /\ (n \div 10) \div 100000 = n \div 1000000
      /\ (n \div 10) \div 1000000 = n \div 10000000
  BY SMT
<1>4. /\ (n \div 10) \div 10000000 = n \div 100000000
      /\ (n \div 10) \div 100000000 = n \div 1000000000
  BY SMT
<1>5. /\ Tens[3] = 100 /\ Tens[4] = 1000 /\ Tens[5] = 10000 /\ Tens[6] = 100000
      /\ Tens[7] = 1000000 /\ Tens[8] = 10000000 /\ Tens[9] = 100000000
      /\ Tens[10] = 1000000000
  BY SMT DEF Tens
<1>6. ASSUME NEW j \in 1 .. 9 PROVE (n \div 10) \div Tens[j] = n \div Tens[j + 1]
  <2>1. j = 1 \/ j = 2 \/ j = 3 \/ j = 4 \/ j = 5 \/ j = 6 \/ j = 7 \/ j = 8 \/ j = 9
    BY SMT
  <2> QED
    BY <1>1, <1>2, <1>3, <1>4, <1>5, <2>1, SMT
<1> QED
  BY <1>1, <1>6, SMT

LEMMA SixteensShift ==
  ASSUME NEW n \in Nat
  PROVE  /\ n \div Sixteens[1] = n /\ Sixteens[2] = 16
         /\ \A j \in 1 .. 7 : (n \div 16) \div Sixteens[j] = n \div Sixteens[j + 1]
<1>1. n \div 1 = n /\ Sixteens[1] = 1 /\ Sixteens[2] = 16
  BY SMT DEF Sixteens
<1>2. /\ (n \div 16) \div 1 = n \div 16 /\ (n \div 16) \div 16 = n \div 256
      /\ (n \div 16) \div 256 = n \div 4096 /\ (n \div 16) \div 4096 = n \div 65536
  BY SMT
<1>3. /\ (n \div 16) \div 65536 = n \div 1048576
      /\ (n \div 16) \div 1048576 = n \div 16777216
      /\ (n \div 16) \div 16777216 = n \div 268435456
  BY SMT
<1>4. /\ Sixteens[3] = 256 /\ Sixteens[4] = 4096 /\ Sixteens[5] = 65536
      /\ Sixteens[6] = 1048576 /\ Sixteens[7] = 16777216 /\ Sixteens[8] = 268435456
  BY SMT DEF Sixteens
<1>5. ASSUME NEW j \in 1 .. 7 PROVE (n \div 16) \div Sixteens[j] = n \div Sixteens[j + 1]
  <2>1. j = 1 \/ j = 2 \/ j = 3 \/ j = 4 \/ j = 5 \/ j = 6 \/ j = 7
    BY SMT
  <2> QED
    BY <1>1, <1>2, <1>3, <1>4, <2>1, SMT
<1> QED
  BY <1>1, <1>5, SMT

\* Every place of a number is a digit.
LEMMA PlacesAreCharacters ==
  ASSUME NEW n \in Nat, NEW unit \in {Tens, Sixteens}, NEW w \in 0 .. IF unit = Tens THEN 10 ELSE 8
  PROVE  /\ Places(n, unit, w) \in Seq(Characters) /\ Len(Places(n, unit, w)) = w
         /\ \A k \in 1 .. w : Places(n, unit, w)[k] = Digit((n \div unit[w - k + 1]) % unit[2])
<1>1. ASSUME NEW k \in 1 .. w PROVE Digit((n \div unit[w - k + 1]) % unit[2]) \in Characters
  <2>1. unit[2] \in {10, 16} /\ unit[w - k + 1] \in Nat \ {0}
    <3>1. CASE unit = Tens
      <4>1. w - k + 1 \in 1 .. 10
        BY <3>1
      <4> QED
        BY <3>1, <4>1, SMT DEF Tens
    <3>2. CASE unit = Sixteens /\ unit # Tens
      <4>1. w - k + 1 \in 1 .. 8
        BY <3>2
      <4> QED
        BY <3>2, <4>1, SMT DEF Sixteens
    <3> QED
      BY <3>1, <3>2
  <2>2. \A x \in Nat : \A u \in Nat \ {0} : x \div u \in Nat
    BY SMT
  <2>3. \A x \in Nat : x % 10 \in 0 .. 15 /\ x % 16 \in 0 .. 15
    BY SMT
  <2>4. (n \div unit[w - k + 1]) % unit[2] \in 0 .. 15
    BY <2>1, <2>2, <2>3
  <2> QED
    BY <2>4, DigitIsCharacter
<1>2. w \in Nat
  BY SMT
<1> QED
  BY <1>1, <1>2 DEF Places

LEMMA PlacesTen ==
  ASSUME NEW n \in Nat, NEW w \in Nat, w <= 10
  PROVE  /\ Places(n, Tens, w) \in Seq(Characters) /\ Len(Places(n, Tens, w)) = w
         /\ \A k \in 1 .. w : Places(n, Tens, w)[k] = Digit((n \div Tens[w - k + 1]) % 10)
<1>1. Tens[2] = 10
  BY TensShift
<1>2. w \in 0 .. (IF Tens = Tens THEN 10 ELSE 8)
  OBVIOUS
<1>3. Tens \in {Tens, Sixteens}
  OBVIOUS
<1>4. /\ Places(n, Tens, w) \in Seq(Characters) /\ Len(Places(n, Tens, w)) = w
      /\ \A k \in 1 .. w : Places(n, Tens, w)[k] = Digit((n \div Tens[w - k + 1]) % Tens[2])
  BY <1>2, <1>3, PlacesAreCharacters, Zenon
<1> QED
  BY <1>1, <1>4, Zenon

LEMMA PlacesSixteen ==
  ASSUME NEW n \in Nat, NEW w \in Nat, w <= 8
  PROVE  /\ Places(n, Sixteens, w) \in Seq(Characters) /\ Len(Places(n, Sixteens, w)) = w
         /\ \A k \in 1 .. w : Places(n, Sixteens, w)[k] = Digit((n \div Sixteens[w - k + 1]) % 16)
<1>1. Sixteens[2] = 16
  BY SixteensShift
<1>2. w \in 0 .. (IF Sixteens = Tens THEN 10 ELSE 8)
  OBVIOUS
<1>3. Sixteens \in {Tens, Sixteens}
  OBVIOUS
<1>4. /\ Places(n, Sixteens, w) \in Seq(Characters) /\ Len(Places(n, Sixteens, w)) = w
      /\ \A k \in 1 .. w : Places(n, Sixteens, w)[k] = Digit((n \div Sixteens[w - k + 1]) % Sixteens[2])
  BY <1>2, <1>3, PlacesAreCharacters, Zenon
<1> QED
  BY <1>1, <1>4, Zenon

LEMMA PlacesOfTens ==
  ASSUME NEW n \in Nat, NEW w \in 1 .. 10
  PROVE  Places(n, Tens, w) = Append(Places(n \div 10, Tens, w - 1), Digit(n % 10))
<1> DEFINE s == Places(n, Tens, w)
           t == Places(n \div 10, Tens, w - 1)
<1>1. n \div 10 \in Nat /\ n % 10 \in 0 .. 15
  BY SMT
<1>8. w \in Nat /\ w <= 10 /\ w - 1 \in Nat /\ w - 1 <= 10
  OBVIOUS
<1>2. s \in Seq(Characters) /\ Len(s) = w /\ \A k \in 1 .. w : s[k] = Digit((n \div Tens[w - k + 1]) % 10)
  BY <1>8, PlacesTen, Zenon
<1>3. t \in Seq(Characters) /\ Len(t) = w - 1
      /\ \A k \in 1 .. w - 1 : t[k] = Digit(((n \div 10) \div Tens[(w - 1) - k + 1]) % 10)
  BY <1>1, <1>8, PlacesTen, Zenon
<1>4. Digit(n % 10) \in Characters
  BY <1>1, DigitIsCharacter
<1> DEFINE u == Append(t, Digit(n % 10))
<1> HIDE DEF s, t
<1>5. u \in Seq(Characters) /\ Len(u) = w /\ u[w] = Digit(n % 10) /\ \A k \in 1 .. w - 1 : u[k] = t[k]
  BY <1>3, <1>4, AppendProperties
<1>6. ASSUME NEW k \in 1 .. w PROVE s[k] = u[k]
  <2>1. CASE k = w
    <3>1. w - k + 1 = 1
      BY <2>1
    <3> QED
      BY <1>2, <1>5, <2>1, <3>1, TensShift
  <2>2. CASE k # w
    <3>1. k \in 1 .. w - 1 /\ w - k \in 1 .. 9 /\ (w - 1) - k + 1 = w - k
      BY <2>2
    <3>2. (n \div 10) \div Tens[w - k] = n \div Tens[w - k + 1]
      BY <3>1, TensShift
    <3> QED
      BY <1>2, <1>3, <1>5, <3>1, <3>2
  <2> QED
    BY <2>1, <2>2
<1> HIDE DEF u
<1>7. s = u
  BY <1>2, <1>5, <1>6, SeqEqual
<1> QED
  BY <1>7 DEF s, t, u

LEMMA PlacesOfSixteens ==
  ASSUME NEW n \in Nat, NEW w \in 1 .. 8
  PROVE  Places(n, Sixteens, w) = Append(Places(n \div 16, Sixteens, w - 1), Digit(n % 16))
<1> DEFINE s == Places(n, Sixteens, w)
           t == Places(n \div 16, Sixteens, w - 1)
<1>1. n \div 16 \in Nat /\ n % 16 \in 0 .. 15
  BY SMT
<1>2. w \in Nat /\ w <= 8 /\ w - 1 \in Nat /\ w - 1 <= 8
  OBVIOUS
<1>3. s \in Seq(Characters) /\ Len(s) = w
      /\ \A k \in 1 .. w : s[k] = Digit((n \div Sixteens[w - k + 1]) % 16)
  BY <1>2, PlacesSixteen, Zenon
<1>4. t \in Seq(Characters) /\ Len(t) = w - 1
      /\ \A k \in 1 .. w - 1 : t[k] = Digit(((n \div 16) \div Sixteens[(w - 1) - k + 1]) % 16)
  BY <1>1, <1>2, PlacesSixteen, Zenon
<1>5. Digit(n % 16) \in Characters
  BY <1>1, DigitIsCharacter
<1> DEFINE u == Append(t, Digit(n % 16))
<1> HIDE DEF s, t
<1>6. u \in Seq(Characters) /\ Len(u) = w /\ u[w] = Digit(n % 16) /\ \A k \in 1 .. w - 1 : u[k] = t[k]
  BY <1>4, <1>5, AppendProperties
<1>7. ASSUME NEW k \in 1 .. w PROVE s[k] = u[k]
  <2>1. CASE k = w
    <3>1. w - k + 1 = 1
      BY <2>1
    <3> QED
      BY <1>3, <1>6, <2>1, <3>1, SixteensShift
  <2>2. CASE k # w
    <3>1. k \in 1 .. w - 1 /\ w - k \in 1 .. 7 /\ (w - 1) - k + 1 = w - k
      BY <2>2
    <3>2. (n \div 16) \div Sixteens[w - k] = n \div Sixteens[w - k + 1]
      BY <3>1, SixteensShift
    <3> QED
      BY <1>3, <1>4, <1>6, <3>1, <3>2
  <2> QED
    BY <2>1, <2>2
<1> HIDE DEF u
<1>8. s = u
  BY <1>3, <1>6, <1>7, SeqEqual
<1> QED
  BY <1>8 DEF s, t, u

\* The loop's digits of a number of w places, none of them a leading zero, are its
\* places: the least w of which that is not so has one place more than a right one.
LEMMA DigitsAtWidth ==
  ASSUME NEW n \in Numbers, NEW w \in 1 .. 10, n >= 0, n \div Tens[w] \in 1 .. 9
  PROVE  Digits[n] = Places(n, Tens, w)
<1> DEFINE Level(v) == {m \in Numbers : m >= 0 /\ m \div Tens[v] \in 1 .. 9}
           Bad == {v \in 1 .. 10 : \E m \in Level(v) : Digits[m] # Places(m, Tens, v)}
<1>1. ASSUME Bad # {} PROVE FALSE
  <2>1. Bad \in SUBSET Nat
    OBVIOUS
  <2>2. PICK v \in Bad : \A y \in Bad : v <= y
    BY <1>1, <2>1, LeastOf
  <2>3. v \in 1 .. 10
    OBVIOUS
  <2>4. PICK m \in Level(v) : Digits[m] # Places(m, Tens, v)
    OBVIOUS
  <2>5. m \in Numbers /\ m \in Nat /\ m \div Tens[v] \in 1 .. 9
    BY <2>4, NumbersAreIntegers
  <2>6. /\ DivTen(m) = m \div 10 /\ ModTen(m) = m % 10 /\ m \div 10 \in Numbers /\ m \div 10 \in Nat
        /\ m = 10 * (m \div 10) + (m % 10) /\ m % 10 \in 0 .. 9
    BY <2>5, TenParts, SMT
  <2>7. m # 0
    <3>1. CASE m = 0
      <4>1. Tens[v] \in Nat \ {0}
        BY <2>3, SMT DEF Tens
      <4>2. 0 \div Tens[v] = 0
        BY <4>1, SMT
      <4> QED
        BY <2>5, <3>1, <4>2
    <3> QED
      BY <3>1
  <2>8. Digits[m] = Append(Digits[m \div 10], Digit(m % 10))
    BY <2>5, <2>6, <2>7, DigitsRecursion
  <2>9. Places(m, Tens, v) = Append(Places(m \div 10, Tens, v - 1), Digit(m % 10))
    BY <2>3, <2>5, PlacesOfTens
  <2>10. CASE v = 1
    <3>1. m \div 10 = 0
      BY <2>5, <2>6, <2>10, TensShift
    <3>2. Digits[0] = <<>>
      BY NumbersAreIntegers, DigitsRecursion
    <3>3. Places(0, Tens, 0) = <<>>
      <4>1. 0 \in 0 .. (IF Tens = Tens THEN 10 ELSE 8)
        OBVIOUS
      <4> QED
        BY <4>1, PlacesAreCharacters, EmptySeq
    <3> QED
      BY <2>4, <2>8, <2>9, <2>10, <3>1, <3>2, <3>3
  <2>11. CASE v # 1
    <3>1. v - 1 \in 1 .. 9 /\ v - 1 \in 1 .. 10 /\ ~(v <= v - 1) /\ v - 1 + 1 = v
      BY <2>3, <2>11
    <3>2. (m \div 10) \div Tens[v - 1] = m \div Tens[v]
      BY <2>5, <3>1, TensShift
    <3>3. m \div 10 \in Level(v - 1)
      BY <2>5, <2>6, <3>2
    <3>4. v - 1 \notin Bad
      <4> HIDE DEF Bad
      <4> QED
        BY <2>2, <3>1
    <3>5. Digits[m \div 10] = Places(m \div 10, Tens, v - 1)
      <4> HIDE DEF Level
      <4> QED
        BY <3>1, <3>3, <3>4
    <3> QED
      BY <2>4, <2>8, <2>9, <3>5
  <2> QED
    BY <2>10, <2>11
<1>2. n \in Level(w)
  OBVIOUS
<1> HIDE DEF Level
<1> QED
  BY <1>1, <1>2

\* A number from 0 on has a width.
LEMMA WidthIs ==
  ASSUME NEW n \in Numbers, n >= 0
  PROVE  Width(n) \in 1 .. 10 /\ n \div Tens[Width(n)] \in (IF Width(n) = 1 THEN 0 ELSE 1) .. 9
<1>1. n \in Nat /\ n <= 2147483647
  BY NumbersAreIntegers, NumberBounds, SMT
<1>2. /\ Tens[1] = 1 /\ Tens[2] = 10 /\ Tens[3] = 100 /\ Tens[4] = 1000 /\ Tens[5] = 10000
      /\ Tens[6] = 100000 /\ Tens[7] = 1000000 /\ Tens[8] = 10000000 /\ Tens[9] = 100000000
      /\ Tens[10] = 1000000000
  BY SMT DEF Tens
<1>3. /\ n < 10 => n \div 1 \in 0 .. 9
      /\ n >= 10 /\ n < 100 => n \div 10 \in 1 .. 9
      /\ n >= 100 /\ n < 1000 => n \div 100 \in 1 .. 9
      /\ n >= 1000 /\ n < 10000 => n \div 1000 \in 1 .. 9
      /\ n >= 10000 /\ n < 100000 => n \div 10000 \in 1 .. 9
  BY <1>1, SMT
<1>4. /\ n >= 100000 /\ n < 1000000 => n \div 100000 \in 1 .. 9
      /\ n >= 1000000 /\ n < 10000000 => n \div 1000000 \in 1 .. 9
      /\ n >= 10000000 /\ n < 100000000 => n \div 10000000 \in 1 .. 9
      /\ n >= 100000000 /\ n < 1000000000 => n \div 100000000 \in 1 .. 9
      /\ n >= 1000000000 => n \div 1000000000 \in 1 .. 9
  BY <1>1, SMT
<1>5. \E w \in 1 .. 10 : n \div Tens[w] \in (IF w = 1 THEN 0 ELSE 1) .. 9
  <2> DEFINE Fits(w) == n \div Tens[w] \in (IF w = 1 THEN 0 ELSE 1) .. 9
  <2>1. n < 10000 => Fits(1) \/ Fits(2) \/ Fits(3) \/ Fits(4)
    BY <1>1, <1>2, <1>3, SMT
  <2>2. n >= 10000 /\ n < 10000000 => Fits(5) \/ Fits(6) \/ Fits(7)
    BY <1>1, <1>2, <1>3, <1>4, SMT
  <2>3. n >= 10000000 => Fits(8) \/ Fits(9) \/ Fits(10)
    BY <1>1, <1>2, <1>4, SMT
  <2>4. \/ Fits(1) \/ Fits(2) \/ Fits(3) \/ Fits(4) \/ Fits(5)
        \/ Fits(6) \/ Fits(7) \/ Fits(8) \/ Fits(9) \/ Fits(10)
    <3> HIDE DEF Fits
    <3> QED
      BY <1>1, <2>1, <2>2, <2>3, SMT
  <2> HIDE DEF Fits
  <2>5. \E w \in 1 .. 10 : Fits(w)
    BY <2>4
  <2> QED
    BY <2>5 DEF Fits
<1> QED
  BY <1>5 DEF Width

\* What the loop writes of a number from 0 on is its decimal places.
LEMMA UnsignedIsDecimal ==
  ASSUME NEW n \in Numbers, n >= 0
  PROVE  /\ Unsigned(n) = Decimal(n) /\ Unsigned(n) \in Seq(Characters)
         /\ Len(Unsigned(n)) <= 10
         /\ Len(Digits[n]) <= 10
<1> DEFINE w == Width(n)
<1>1. n \in Nat
  BY NumbersAreIntegers
<1>2. w \in 1 .. 10 /\ n \div Tens[w] \in (IF w = 1 THEN 0 ELSE 1) .. 9
  BY WidthIs, Zenon
<1> HIDE DEF w
<1>3. Decimal(n) = Places(n, Tens, w)
  BY DEF Decimal, w
<1>4. w \in 0 .. (IF Tens = Tens THEN 10 ELSE 8)
  BY <1>2
<1>5. Places(n, Tens, w) \in Seq(Characters) /\ Len(Places(n, Tens, w)) = w
      /\ \A k \in 1 .. w : Places(n, Tens, w)[k] = Digit((n \div Tens[w - k + 1]) % Tens[2])
  BY <1>1, <1>4, PlacesAreCharacters
<1>6. CASE n = 0
  <2>1. Digits[0] = <<>>
    BY NumbersAreIntegers, DigitsRecursion
  <2>2. w = 1
    <3>1. Tens[w] \in Nat \ {0}
      BY <1>2, SMT DEF Tens
    <3>2. 0 \div Tens[w] = 0
      BY <3>1, SMT
    <3> QED
      BY <1>2, <1>6, <3>2
  <2>3. Places(n, Tens, w)[1] = Digit(0) /\ Len(Places(n, Tens, w)) = 1
    BY <1>5, <1>6, <2>2, TensShift
  <2>4. Digit(0) = "0"
    BY DEF Digit
  <2>5. Places(n, Tens, w) = <<"0">>
    BY <1>5, <2>3, <2>4
  <2> QED
    BY <1>3, <1>5, <1>6, <2>1, <2>2, <2>5, EmptySeq DEF Unsigned
<1>7. CASE n # 0
  <2>1. n \div Tens[w] \in 1 .. 9
    <3>1. w = 1 => n \div Tens[w] = n
      BY <1>1, TensShift
    <3> QED
      BY <1>1, <1>2, <1>7, <3>1
  <2>2. Digits[n] = Places(n, Tens, w)
    BY <1>2, <2>1, DigitsAtWidth
  <2>3. Unsigned(n) = Digits[n]
    BY <1>7 DEF Unsigned
  <2>4. Len(Digits[n]) <= 10
    BY <1>2, <1>5, <2>2
  <2>5. Digits[n] \in Seq(Characters)
    BY <1>5, <2>2
  <2>6. Unsigned(n) = Decimal(n)
    BY <1>3, <2>2, <2>3
  <2> QED
    BY <2>3, <2>4, <2>5, <2>6
<1> QED
  BY <1>6, <1>7

\* A negative number's halves of five places.
LEMMA Halves ==
  ASSUME NEW n \in Numbers, n < 0
  PROVE  /\ FirstFive(n) \in Nat /\ LastFive(n) \in Nat /\ LastFive(n) < 100000
         /\ 10 * DivTen(n) + ModTen(n) = 100000 * FirstFive(n) + LastFive(n)
<1> DEFINE u == Upper(n)
           top == u \div 100000
           b == u % 100000
           low == 83648 + b
           carry == low \div 100000
           d == low % 100000
<1>1. n \in Int /\ n >= -2147483648
  BY NumberBounds, SMT
<1>2. 10 * DivTen(n) + ModTen(n) = n + 4294967296
  BY TenParts, SMT
<1>3. u \in Nat /\ n + 4294967296 = u + 2147483648
  BY <1>1, NumberBounds, SMT DEF Upper
<1>4. LastFive(n) = d /\ FirstFive(n) = 21474 + top + carry
  BY SMT DEF LastFive, FirstFive, Lower
<1> HIDE DEF u
<1>5. top \in Nat /\ b \in Nat /\ b < 100000 /\ u = 100000 * top + b
  BY <1>3, SMT
<1> HIDE DEF top, b
<1>6. low \in Nat /\ low = 83648 + b
  BY <1>5, SMT
<1> HIDE DEF low
<1>7. carry \in Nat /\ d \in Nat /\ d < 100000 /\ low = 100000 * carry + d
  BY <1>6, SMT
<1> HIDE DEF carry, d
<1>8. u + 2147483648 = 100000 * (21474 + top + carry) + d
  BY <1>5, <1>6, <1>7, SMT
<1>9. 21474 + top + carry \in Nat
  BY <1>5, <1>7, SMT
<1> QED
  BY <1>2, <1>3, <1>4, <1>7, <1>8, <1>9, SMT

\* Read as unsigned, a negative number is its ten places too.
LEMMA NegativeIsDecimal ==
  ASSUME NEW n \in Numbers, n < 0
  PROVE  /\ Unsigned(n) = Decimal(n) /\ Unsigned(n) \in Seq(Characters) /\ Len(Unsigned(n)) = 10
         /\ Digits[n] = Unsigned(n)
<1> DEFINE high == FirstFive(n)
           lo == LastFive(n)
           q == DivTen(n)
           r == ModTen(n)
<1>1. high \in Nat /\ lo \in Nat
  BY Halves, SMT
<1>2. q \in Numbers /\ q \in Nat /\ r \in 0 .. 9
  <2>1. q \in Numbers /\ q >= 0 /\ r \in 0 .. 9
    BY TenParts, SMT
  <2>2. q \in Int
    BY <2>1, NumbersAreIntegers
  <2> QED
    BY <2>1, <2>2
<1>20. q >= 214748364 /\ q <= 429496729
  BY TenParts, SMT
<1>21. lo < 100000 /\ 10 * q + r = 100000 * high + lo
  BY Halves, SMT
<1>3. n # 0 /\ ~(n >= 0)
  BY NumbersAreIntegers
<1>4. Decimal(n) = Places(high, Tens, 5) \o Places(lo, Tens, 5)
  BY <1>3 DEF Decimal
<1>22. Digits[n] = Append(Digits[q], Digit(r))
  BY <1>3, DigitsRecursion
<1>5. Unsigned(n) = Append(Digits[q], Digit(r)) /\ Digits[n] = Unsigned(n)
  BY <1>3, <1>22 DEF Unsigned
<1> HIDE DEF high, q, r, lo
<1>6. Digits[q] = Places(q, Tens, 9)
  <2>1. Tens[9] = 100000000
    BY SMT DEF Tens
  <2>2. q \div Tens[9] \in 1 .. 9
    BY <1>2, <1>20, <2>1, SMT
  <2>3. 9 \in 1 .. 10 /\ q >= 0
    BY <1>2, SMT
  <2> QED
    BY <1>2, <2>2, <2>3, DigitsAtWidth, Zenon
<1> DEFINE s == Append(Places(q, Tens, 9), Digit(r))
           t == Places(high, Tens, 5) \o Places(lo, Tens, 5)
<1>7. /\ Places(q, Tens, 9) \in Seq(Characters) /\ Len(Places(q, Tens, 9)) = 9
      /\ \A k \in 1 .. 9 : Places(q, Tens, 9)[k] = Digit((q \div Tens[9 - k + 1]) % 10)
  <2>1. 9 \in Nat /\ 9 <= 10
    OBVIOUS
  <2> QED
    BY <1>2, <2>1, PlacesTen, Zenon
<1>8. \A x \in Nat : /\ Places(x, Tens, 5) \in Seq(Characters) /\ Len(Places(x, Tens, 5)) = 5
                     /\ \A k \in 1 .. 5 : Places(x, Tens, 5)[k] = Digit((x \div Tens[5 - k + 1]) % 10)
  <2>1. 5 \in Nat /\ 5 <= 10
    OBVIOUS
  <2> QED
    BY <2>1, PlacesTen, Zenon
<1>9. Digit(r) \in Characters
  BY <1>2, DigitIsCharacter
<1>10. s \in Seq(Characters) /\ Len(s) = 10 /\ s[10] = Digit(r)
       /\ \A k \in 1 .. 9 : s[k] = Digit((q \div Tens[9 - k + 1]) % 10)
  <2> DEFINE v == Places(q, Tens, 9)
             e == Digit(r)
  <2>1. v \in Seq(Characters) /\ e \in Characters
    BY <1>7, <1>9
  <2>4. s = Append(v, e) /\ Len(v) = 9
    BY <1>7
  <2> HIDE DEF v, s, e
  <2>2. Append(v, e) \in Seq(Characters) /\ Len(Append(v, e)) = Len(v) + 1
        /\ Append(v, e)[Len(v) + 1] = e /\ \A k \in 1 .. Len(v) : Append(v, e)[k] = v[k]
    BY <2>1, AppendProperties
  <2>3. s \in Seq(Characters) /\ Len(s) = 10 /\ s[10] = e /\ \A k \in 1 .. 9 : s[k] = v[k]
    BY <2>1, <2>2, <2>4
  <2> QED
    BY <1>7, <2>3 DEF v, e
<1>11. /\ t \in Seq(Characters) /\ Len(t) = 10
       /\ \A k \in 1 .. 5 : t[k] = Digit((high \div Tens[5 - k + 1]) % 10)
       /\ \A k \in 6 .. 10 : t[k] = Digit((lo \div Tens[5 - (k - 5) + 1]) % 10)
  <2>1. /\ t \in Seq(Characters) /\ Len(t) = 10
        /\ \A k \in 1 .. 10 : t[k] = IF k <= 5 THEN Places(high, Tens, 5)[k] ELSE Places(lo, Tens, 5)[k - 5]
    <3> DEFINE v == Places(high, Tens, 5)
               y == Places(lo, Tens, 5)
    <3>1. v \in Seq(Characters) /\ y \in Seq(Characters) /\ Len(v) = 5 /\ Len(y) = 5
      BY <1>1, <1>8
    <3> HIDE DEF v, y
    <3>2. v \o y \in Seq(Characters) /\ Len(v \o y) = Len(v) + Len(y)
          /\ \A k \in 1 .. Len(v) + Len(y) : (v \o y)[k] = IF k <= Len(v) THEN v[k] ELSE y[k - Len(v)]
      BY <3>1, ConcatProperties
    <3>3. v \o y \in Seq(Characters) /\ Len(v \o y) = 10
          /\ \A k \in 1 .. 10 : (v \o y)[k] = IF k <= 5 THEN v[k] ELSE y[k - 5]
      BY <3>1, <3>2
    <3> QED
      BY <3>3 DEF v, y
  <2>2. \A k \in 6 .. 10 : k - 5 \in 1 .. 5 /\ ~(k <= 5)
    OBVIOUS
  <2> QED
    BY <1>1, <1>8, <2>1, <2>2
<1> HIDE DEF s, t
<1>12. /\ Tens[1] = 1 /\ Tens[2] = 10 /\ Tens[3] = 100 /\ Tens[4] = 1000 /\ Tens[5] = 10000
       /\ Tens[6] = 100000 /\ Tens[7] = 1000000 /\ Tens[8] = 10000000 /\ Tens[9] = 100000000
  BY SMT DEF Tens
<1>13. /\ q \div 100000000 = high \div 10000 /\ q \div 10000000 = high \div 1000
       /\ q \div 1000000 = high \div 100 /\ q \div 100000 = high \div 10
       /\ q \div 10000 = high
       /\ (q \div 1000) % 10 = (lo \div 10000) % 10
       /\ (q \div 100) % 10 = (lo \div 1000) % 10
       /\ (q \div 10) % 10 = (lo \div 100) % 10
       /\ q % 10 = (lo \div 10) % 10
       /\ r = lo % 10
  <2>1. r \in Nat /\ r < 10
    BY <1>2, SMT
  <2> DEFINE l == lo \div 10
  <2>2. l \in Nat /\ l < 10000 /\ lo = 10 * l + (lo % 10) /\ lo % 10 \in 0 .. 9
    BY <1>1, <1>21, SMT
  <2>3. q = 10000 * high + l /\ r = lo % 10
    BY <1>1, <1>2, <1>21, <2>1, <2>2, SMT
  <2>4. /\ lo \div 10000 = l \div 1000 /\ lo \div 1000 = l \div 100 /\ lo \div 100 = l \div 10
    BY <1>1, SMT
  <2> HIDE DEF l
  <2>5. q \div 10000 = high
    BY <1>1, <2>2, <2>3, SMT
  <2>6. q \div 100000 = high \div 10 /\ q \div 1000000 = high \div 100
    BY <1>1, <1>2, <2>5, SMT
  <2>7. q \div 10000000 = high \div 1000 /\ q \div 100000000 = high \div 10000
    BY <1>1, <1>2, <2>5, SMT
  <2>8. (q \div 1000) % 10 = (l \div 1000) % 10
    BY <1>1, <2>2, <2>3, SMT
  <2>9. (q \div 100) % 10 = (l \div 100) % 10
    BY <1>1, <2>2, <2>3, SMT
  <2>10. (q \div 10) % 10 = (l \div 10) % 10 /\ q % 10 = l % 10
    BY <1>1, <2>2, <2>3, SMT
  <2> QED
    BY <2>3, <2>4, <2>5, <2>6, <2>7, <2>8, <2>9, <2>10, SMT DEF l
<1>14. high \div 1 = high /\ q \div 1 = q /\ lo \div 1 = lo
  BY <1>1, <1>2, SMT
<1>15. /\ s[1] = Digit((q \div 100000000) % 10) /\ s[2] = Digit((q \div 10000000) % 10)
       /\ s[3] = Digit((q \div 1000000) % 10) /\ s[4] = Digit((q \div 100000) % 10)
       /\ s[5] = Digit((q \div 10000) % 10) /\ s[6] = Digit((q \div 1000) % 10)
       /\ s[7] = Digit((q \div 100) % 10) /\ s[8] = Digit((q \div 10) % 10)
       /\ s[9] = Digit((q \div 1) % 10) /\ s[10] = Digit(r)
  BY <1>10, <1>12, SMT
<1>16. /\ t[1] = Digit((high \div 10000) % 10) /\ t[2] = Digit((high \div 1000) % 10)
       /\ t[3] = Digit((high \div 100) % 10) /\ t[4] = Digit((high \div 10) % 10)
       /\ t[5] = Digit((high \div 1) % 10)
       /\ t[6] = Digit((lo \div 10000) % 10) /\ t[7] = Digit((lo \div 1000) % 10)
       /\ t[8] = Digit((lo \div 100) % 10) /\ t[9] = Digit((lo \div 10) % 10)
       /\ t[10] = Digit((lo \div 1) % 10)
  BY <1>11, <1>12, SMT
<1>17. /\ s[1] = t[1] /\ s[2] = t[2] /\ s[3] = t[3] /\ s[4] = t[4] /\ s[5] = t[5]
       /\ s[6] = t[6] /\ s[7] = t[7] /\ s[8] = t[8] /\ s[9] = t[9] /\ s[10] = t[10]
  BY <1>13, <1>14, <1>15, <1>16, SMT
<1>18. \A k \in 1 .. 10 : s[k] = t[k]
  <2> SUFFICES ASSUME NEW k \in 1 .. 10 PROVE s[k] = t[k]
    OBVIOUS
  <2>1. \/ k = 1 \/ k = 2 \/ k = 3 \/ k = 4 \/ k = 5
        \/ k = 6 \/ k = 7 \/ k = 8 \/ k = 9 \/ k = 10
    OBVIOUS
  <2> QED
    BY <1>17, <2>1, SMT
<1>19. s = t
  BY <1>10, <1>11, <1>18, SeqEqual
<1> QED
  BY <1>4, <1>5, <1>6, <1>10, <1>19 DEF s, t

\* A number without its last hexadecimal digit, and that digit.
LEMMA SixteenParts ==
  ASSUME NEW n \in Numbers
  PROVE  /\ n % 16 \in 0 .. 15 /\ ShiftFour(n) \in Numbers /\ ShiftFour(n) \in Nat
         /\ n >= 0 => ShiftFour(n) = n \div 16
<1>1. n \in Int /\ n >= -2147483648 /\ n <= 2147483647
  BY NumberBounds, SMT
<1>2. n % 16 \in 0 .. 15 /\ n \div 16 \in Int /\ n = 16 * (n \div 16) + (n % 16)
  BY <1>1, SMT
<1>3. ShiftFour(n) = IF n < 0 THEN 268435456 + (n \div 16) ELSE n \div 16
  BY SMT DEF ShiftFour
<1>4. ShiftFour(n) \in Int /\ ShiftFour(n) >= 0 /\ ShiftFour(n) <= 2147483647
  BY <1>1, <1>2, <1>3, SMT
<1>5. ShiftFour(n) \in Numbers /\ ShiftFour(n) \in Nat
  BY <1>4, NumberBounds, SMT
<1>6. n >= 0 => ShiftFour(n) = n \div 16
  BY <1>1, <1>3, SMT
<1> QED
  BY <1>2, <1>5, <1>6, SMT

LEMMA NibblesRecursion ==
  ASSUME NEW k \in 0 .. 16, NEW n \in Numbers
  PROVE  Nibbles(k, n) = IF k = 0 THEN <<>> ELSE Append(Nibbles(k - 1, ShiftFour(n)), Digit(n % 16))
<1> DEFINE B == 16
           P == (0 .. 16) \X Numbers
           stop == {p \in P : p[1] = 0}
           rank == [p \in P |-> p[1]]
           next == [p \in P |-> <<p[1] - 1, ShiftFour(p[2])>>]
           x == [p \in P |-> Digit(p[2] % 16)]
<1>1. ASSUME NEW p \in P PROVE p[1] \in 0 .. 16 /\ p[2] \in Numbers
  OBVIOUS
<1>2. rank \in [P -> 0 .. B] /\ stop \in SUBSET P /\ B \in Nat
  BY <1>1
<1>3. ASSUME NEW p \in P \ stop PROVE next[p] \in P /\ rank[next[p]] < rank[p]
  <2>1. p \in P /\ p[1] \in 0 .. 16 /\ p[2] \in Numbers /\ p[1] # 0
    BY <1>1
  <2>2. p[1] - 1 \in 0 .. 16 /\ ShiftFour(p[2]) \in Numbers
    BY <2>1, SixteenParts
  <2>3. next[p] = <<p[1] - 1, ShiftFour(p[2])>>
    BY <2>1
  <2>4. next[p] \in P /\ next[p][1] = p[1] - 1
    BY <2>2, <2>3
  <2>5. rank[next[p]] = p[1] - 1 /\ rank[p] = p[1]
    BY <2>1, <2>4
  <2> QED
    BY <2>1, <2>4, <2>5
<1>4. \E F : Recursive(F, P, stop, <<>>, "back", x, next)
  <2>1. \A p \in P \ stop : next[p] \in P /\ rank[next[p]] < rank[p]
    BY <1>3
  <2> HIDE DEF B, P, stop, rank, next, x
  <2> QED
    BY <1>2, <2>1, RecursionExists
<1>5. \E F : F = [p \in P |-> IF p[1] = 0 THEN <<>>
                            ELSE Append(F[<<p[1] - 1, ShiftFour(p[2])>>], Digit(p[2] % 16))]
  <2>1. PICK F : F = [p \in P |-> IF p \in stop THEN <<>> ELSE Combined("back", x[p], F[next[p]])]
    BY <1>4 DEF Recursive
  <2>2. ASSUME NEW p \in P
        PROVE  (IF p \in stop THEN <<>> ELSE Combined("back", x[p], F[next[p]]))
                 = IF p[1] = 0 THEN <<>> ELSE Append(F[<<p[1] - 1, ShiftFour(p[2])>>], Digit(p[2] % 16))
    <3>1. Combined("back", x[p], F[next[p]]) = Append(F[next[p]], x[p])
      BY DEF Combined
    <3>2. next[p] = <<p[1] - 1, ShiftFour(p[2])>> /\ x[p] = Digit(p[2] % 16)
      OBVIOUS
    <3>3. p \in stop <=> p[1] = 0
      OBVIOUS
    <3> HIDE DEF P, stop, rank, next, x
    <3> QED
      BY <3>1, <3>2, <3>3
  <2> HIDE DEF P, stop, rank, next, x
  <2>3. F = [p \in P |-> IF p[1] = 0 THEN <<>> ELSE Append(F[<<p[1] - 1, ShiftFour(p[2])>>], Digit(p[2] % 16))]
    BY <2>1, <2>2, Zenon
  <2> QED
    BY <2>3
<1>6. NibblesOf = [p \in P |-> IF p[1] = 0 THEN <<>>
                             ELSE Append(NibblesOf[<<p[1] - 1, ShiftFour(p[2])>>], Digit(p[2] % 16))]
  BY <1>5 DEF NibblesOf
<1>7. <<k, n>> \in P /\ <<k, n>>[1] = k /\ <<k, n>>[2] = n
  OBVIOUS
<1>8. NibblesOf[<<k, n>>] = IF k = 0 THEN <<>> ELSE Append(NibblesOf[<<k - 1, ShiftFour(n)>>], Digit(n % 16))
  <2> HIDE DEF P
  <2> QED
    BY <1>6, <1>7, Zenon
<1> QED
  BY <1>8 DEF Nibbles

\* The loop's last k hexadecimal digits of a number from 0 on are its places.
LEMMA NibblesArePlaces ==
  ASSUME NEW k \in 0 .. 8, NEW n \in Numbers, n >= 0
  PROVE  Nibbles(k, n) = Places(n, Sixteens, k)
<1> DEFINE Whole == {m \in Numbers : m >= 0}
           Bad == {v \in 0 .. 8 : \E m \in Whole : Nibbles(v, m) # Places(m, Sixteens, v)}
<1>1. ASSUME Bad # {} PROVE FALSE
  <2>1. Bad \in SUBSET Nat
    OBVIOUS
  <2>2. PICK v \in Bad : \A y \in Bad : v <= y
    BY <1>1, <2>1, LeastOf
  <2>3. v \in 0 .. 8 /\ v \in 0 .. 16
    OBVIOUS
  <2>4. PICK m \in Whole : Nibbles(v, m) # Places(m, Sixteens, v)
    OBVIOUS
  <2>5. m \in Numbers /\ m \in Nat
    BY <2>4, NumbersAreIntegers
  <2>6. ShiftFour(m) = m \div 16 /\ ShiftFour(m) \in Numbers /\ ShiftFour(m) \in Nat
    BY <2>5, SixteenParts
  <2>7. CASE v = 0
    <3>1. 0 \in 0 .. (IF Sixteens = Tens THEN 10 ELSE 8)
      OBVIOUS
    <3>2. Places(m, Sixteens, 0) = <<>>
      BY <2>5, <3>1, PlacesAreCharacters, EmptySeq
    <3>3. Nibbles(0, m) = <<>>
      BY <2>5, NibblesRecursion
    <3> QED
      BY <2>4, <2>7, <3>2, <3>3
  <2>8. CASE v # 0
    <3>1. v - 1 \in 0 .. 8 /\ ~(v <= v - 1) /\ v \in 1 .. 8
      BY <2>3, <2>8
    <3>2. v - 1 \notin Bad
      <4> HIDE DEF Bad
      <4> QED
        BY <2>2, <3>1
    <3>3. ShiftFour(m) \in Whole
      BY <2>6
    <3>4. Nibbles(v - 1, ShiftFour(m)) = Places(ShiftFour(m), Sixteens, v - 1)
      <4> HIDE DEF Whole
      <4> QED
        BY <3>1, <3>2, <3>3
    <3>5. Nibbles(v, m) = Append(Nibbles(v - 1, ShiftFour(m)), Digit(m % 16))
      BY <2>3, <2>5, <2>8, NibblesRecursion
    <3>6. Places(m, Sixteens, v) = Append(Places(m \div 16, Sixteens, v - 1), Digit(m % 16))
      BY <2>5, <3>1, PlacesOfSixteens
    <3> QED
      BY <2>4, <2>6, <3>4, <3>5, <3>6
  <2> QED
    BY <2>7, <2>8
<1>2. n \in Whole
  OBVIOUS
<1> HIDE DEF Whole
<1> QED
  BY <1>1, <1>2

\* Eight zeros, in front of what a pointer's loop writes of a number.
Zeros == [k \in 1 .. 8 |-> "0"]

LEMMA ZerosAre == Zeros \in Seq(Characters) /\ Len(Zeros) = 8 /\ Zeros = Places(0, Sixteens, 8)
<1>1. "0" \in Characters /\ Digit(0) = "0"
  BY CharactersAre DEF Digit
<1>2. Zeros \in Seq(Characters) /\ Len(Zeros) = 8 /\ \A k \in 1 .. 8 : Zeros[k] = "0"
  BY <1>1 DEF Zeros
<1>3. 8 \in Nat /\ 8 <= 8 /\ 0 \in Nat
  OBVIOUS
<1>4. /\ Places(0, Sixteens, 8) \in Seq(Characters) /\ Len(Places(0, Sixteens, 8)) = 8
      /\ \A k \in 1 .. 8 : Places(0, Sixteens, 8)[k] = Digit((0 \div Sixteens[8 - k + 1]) % 16)
  BY <1>3, PlacesSixteen, Zenon
<1>5. \A k \in 1 .. 8 : Digit((0 \div Sixteens[8 - k + 1]) % 16) = "0"
  <2>1. ASSUME NEW j \in 1 .. 8 PROVE (0 \div Sixteens[j]) % 16 = 0
    <3>1. Sixteens[j] \in Nat \ {0}
      BY SMT DEF Sixteens
    <3>2. 0 \div Sixteens[j] = 0
      BY <3>1, SMT
    <3> QED
      BY <3>2
  <2>2. \A k \in 1 .. 8 : 8 - k + 1 \in 1 .. 8
    OBVIOUS
  <2> QED
    BY <1>1, <2>1, <2>2
<1>6. Zeros = Places(0, Sixteens, 8)
  BY <1>2, <1>4, <1>5, SeqEqual
<1> QED
  BY <1>2, <1>6

LEMMA AppendBehind ==
  ASSUME NEW S, NEW s \in Seq(S), NEW t \in Seq(S), NEW e \in S
  PROVE  s \o Append(t, e) = Append(s \o t, e)
<1>1. s \o t \in Seq(S) /\ <<e>> \in Seq(S)
  BY ConcatProperties
<1>2. Append(t, e) = t \o <<e>> /\ Append(s \o t, e) = (s \o t) \o <<e>>
  BY <1>1, AppendIsConcat
<1> QED
  BY <1>1, <1>2, ConcatAssociative

\* With eight digits more than the number has, the loop goes on to write zeros.
LEMMA NibblesBehindZeros ==
  ASSUME NEW j \in 0 .. 8, NEW n \in Numbers, n >= 0,
         IF j = 0 THEN n = 0 ELSE n \div Sixteens[j] \in 0 .. 15
  PROVE  Nibbles(8 + j, n) = Zeros \o Places(n, Sixteens, j)
<1> DEFINE Low(v) == {m \in Numbers : m >= 0 /\ IF v = 0 THEN m = 0 ELSE m \div Sixteens[v] \in 0 .. 15}
           Bad == {v \in 0 .. 8 : \E m \in Low(v) : Nibbles(8 + v, m) # Zeros \o Places(m, Sixteens, v)}
<1>1. ASSUME Bad # {} PROVE FALSE
  <2>1. Bad \in SUBSET Nat
    OBVIOUS
  <2>2. PICK v \in Bad : \A y \in Bad : v <= y
    BY <1>1, <2>1, LeastOf
  <2>3. v \in 0 .. 8 /\ 8 + v \in 0 .. 16 /\ 8 + v # 0
    OBVIOUS
  <2>4. PICK m \in Low(v) : Nibbles(8 + v, m) # Zeros \o Places(m, Sixteens, v)
    OBVIOUS
  <2>5. m \in Numbers /\ m \in Nat /\ IF v = 0 THEN m = 0 ELSE m \div Sixteens[v] \in 0 .. 15
    BY <2>4, NumbersAreIntegers
  <2>6. ShiftFour(m) = m \div 16 /\ ShiftFour(m) \in Numbers /\ ShiftFour(m) \in Nat /\ m % 16 \in 0 .. 15
    BY <2>5, SixteenParts
  <2>7. CASE v = 0
    <3>1. 0 \in 0 .. (IF Sixteens = Tens THEN 10 ELSE 8)
      OBVIOUS
    <3>2. Places(m, Sixteens, 0) = <<>>
      BY <2>5, <3>1, PlacesAreCharacters, EmptySeq
    <3>3. Zeros \o <<>> = Zeros
      BY ZerosAre, ConcatEmptySeq
    <3>4. m = 0 /\ 8 + v = 8
      BY <2>5, <2>7
    <3>5. Nibbles(8, m) = Places(m, Sixteens, 8)
      BY <2>5, NibblesArePlaces
    <3> QED
      BY <2>4, <2>7, <3>2, <3>3, <3>4, <3>5, ZerosAre
  <2>8. CASE v # 0
    <3>1. v - 1 \in 0 .. 8 /\ ~(v <= v - 1) /\ v \in 1 .. 8 /\ 8 + (v - 1) = (8 + v) - 1
      BY <2>3, <2>8
    <3>2. v - 1 \notin Bad
      <4> HIDE DEF Bad
      <4> QED
        BY <2>2, <3>1
    <3>3. ShiftFour(m) \in Low(v - 1)
      <4>1. CASE v = 1
        <5>1. m \in 0 .. 15
          BY <2>5, <4>1, SixteensShift
        <5>2. m \div 16 = 0
          BY <5>1
        <5> QED
          BY <2>6, <4>1, <5>2
      <4>2. CASE v # 1
        <5>1. v - 1 \in 1 .. 7 /\ v - 1 # 0 /\ v - 1 + 1 = v
          BY <3>1, <4>2
        <5>2. (m \div 16) \div Sixteens[v - 1] = m \div Sixteens[v]
          BY <2>5, <5>1, SixteensShift
        <5> QED
          BY <2>5, <2>6, <2>8, <5>1, <5>2
      <4> QED
        BY <4>1, <4>2
    <3>4. Nibbles(8 + (v - 1), ShiftFour(m)) = Zeros \o Places(ShiftFour(m), Sixteens, v - 1)
      <4> HIDE DEF Low
      <4> QED
        BY <3>1, <3>2, <3>3
    <3>5. Nibbles(8 + v, m) = Append(Nibbles((8 + v) - 1, ShiftFour(m)), Digit(m % 16))
      BY <2>3, <2>5, NibblesRecursion
    <3>6. Places(m, Sixteens, v) = Append(Places(m \div 16, Sixteens, v - 1), Digit(m % 16))
      BY <2>5, <3>1, PlacesOfSixteens
    <3>7. v - 1 \in 0 .. (IF Sixteens = Tens THEN 10 ELSE 8)
      BY <3>1
    <3>8. Places(m \div 16, Sixteens, v - 1) \in Seq(Characters) /\ Digit(m % 16) \in Characters
      BY <2>6, <3>7, PlacesAreCharacters, DigitIsCharacter
    <3>9. Zeros \o Places(m, Sixteens, v) = Append(Zeros \o Places(m \div 16, Sixteens, v - 1), Digit(m % 16))
      <4>1. Zeros \in Seq(Characters)
        BY ZerosAre
      <4> DEFINE t == Places(m \div 16, Sixteens, v - 1)
                 e == Digit(m % 16)
      <4> HIDE DEF t, e, Low, Bad
      <4>2. t \in Seq(Characters) /\ e \in Characters /\ Places(m, Sixteens, v) = Append(t, e)
        BY <3>6, <3>8 DEF t, e
      <4>3. Zeros \o Append(t, e) = Append(Zeros \o t, e)
        BY <4>1, <4>2, AppendBehind
      <4> QED
        BY <4>2, <4>3 DEF t, e
    <3> QED
      BY <2>4, <2>6, <3>1, <3>4, <3>5, <3>9
  <2> QED
    BY <2>7, <2>8
<1>2. n \in Low(j)
  OBVIOUS
<1> HIDE DEF Low
<1> QED
  BY <1>1, <1>2

\* Seven hexadecimal places one by one.
SevenOf(p, x) ==
    /\ p[1] = Digit((x \div 16777216) % 16) /\ p[2] = Digit((x \div 1048576) % 16)
    /\ p[3] = Digit((x \div 65536) % 16) /\ p[4] = Digit((x \div 4096) % 16)
    /\ p[5] = Digit((x \div 256) % 16) /\ p[6] = Digit((x \div 16) % 16)
    /\ p[7] = Digit(x % 16)

LEMMA SevenPlaces ==
  ASSUME NEW x \in Nat
  PROVE  SevenOf(Places(x, Sixteens, 7), x)
<1> DEFINE p == Places(x, Sixteens, 7)
<1>1. \A k \in 1 .. 7 : p[k] = Digit((x \div Sixteens[7 - k + 1]) % 16)
  <2>1. 7 \in Nat /\ 7 <= 8
    OBVIOUS
  <2> QED
    BY <2>1, PlacesSixteen, Zenon
<1> HIDE DEF p
<1>2. /\ p[1] = Digit((x \div Sixteens[7]) % 16) /\ p[2] = Digit((x \div Sixteens[6]) % 16)
      /\ p[3] = Digit((x \div Sixteens[5]) % 16) /\ p[4] = Digit((x \div Sixteens[4]) % 16)
      /\ p[5] = Digit((x \div Sixteens[3]) % 16) /\ p[6] = Digit((x \div Sixteens[2]) % 16)
      /\ p[7] = Digit((x \div Sixteens[1]) % 16)
  BY <1>1
<1>3. /\ x \div Sixteens[1] = x /\ Sixteens[2] = 16 /\ Sixteens[3] = 256 /\ Sixteens[4] = 4096
      /\ Sixteens[5] = 65536 /\ Sixteens[6] = 1048576 /\ Sixteens[7] = 16777216
  BY SMT DEF Sixteens
<1> QED
  BY <1>2, <1>3, SMT DEF p, SevenOf

\* A negative number's eight hexadecimal places: those of what is left of it after one
\* shift, and the digit that was shifted out.
LEMMA HexOfNegative ==
  ASSUME NEW n \in Numbers, n < 0
  PROVE  /\ Hex(n) = Append(Places(ShiftFour(n), Sixteens, 7), Digit(n % 16))
         /\ ShiftFour(n) \div Sixteens[7] \in 0 .. 15
<1> DEFINE u == Upper(n)
           b == u \div Sixteens[8]
           g == u % Sixteens[8]
           s == ShiftFour(n)
           r == n % 16
<1>1. n \in Int /\ n >= -2147483648 /\ s = 268435456 + (n \div 16)
  BY NumberBounds, SMT DEF ShiftFour
<1>2. u \in Nat /\ u <= 2147483647 /\ u = n + 2147483648
  BY <1>1, NumberBounds, SMT DEF Upper
<1>3. Hex(n) = <<Digit(8 + b)>> \o Places(g, Sixteens, 7)
  BY <1>1, SMT DEF Hex
<1>4. /\ Sixteens[1] = 1 /\ Sixteens[2] = 16 /\ Sixteens[3] = 256 /\ Sixteens[4] = 4096
      /\ Sixteens[5] = 65536 /\ Sixteens[6] = 1048576 /\ Sixteens[7] = 16777216
      /\ Sixteens[8] = 268435456
  BY SMT DEF Sixteens
<1>5. s \in Nat /\ r \in Nat /\ r < 16 /\ 16 * s + r = n + 4294967296
  BY <1>1, SMT
<1> HIDE DEF u, s, r
<1>6. b \in Nat /\ g \in Nat /\ g < 268435456 /\ u = 268435456 * b + g /\ b < 8
  BY <1>2, <1>4, SMT
<1> HIDE DEF b, g
<1> DEFINE l == g \div 16
<1>7. l \in Nat /\ g % 16 \in Nat /\ g % 16 < 16 /\ g = 16 * l + (g % 16)
  BY <1>6, SMT
<1>8. /\ g \div 16777216 = l \div 1048576 /\ g \div 1048576 = l \div 65536 /\ g \div 65536 = l \div 4096
      /\ g \div 4096 = l \div 256 /\ g \div 256 = l \div 16
  BY <1>6, SMT
<1> HIDE DEF l
<1>9. l < 16777216
  BY <1>6, <1>7, SMT
<1>10. s = 16777216 * (8 + b) + l /\ r = g % 16
  <2> DEFINE m == g % 16
             y == 16777216 * (8 + b) + l
  <2>1. m \in Nat /\ m < 16 /\ g = 16 * l + m
    BY <1>7
  <2> HIDE DEF m
  <2>2. y \in Nat
    BY <1>6, <1>7, SMT
  <2>4. 16 * s + r = u + 2147483648
    BY <1>1, <1>2, <1>5, SMT
  <2>5. 16 * y + m = 268435456 * b + g + 2147483648
    BY <1>6, <1>7, <2>1, SMT
  <2>6. 16 * s + r = 16 * y + m
    BY <1>6, <2>4, <2>5, SMT
  <2> HIDE DEF y
  <2>3. s = y /\ r = m
    BY <1>5, <2>1, <2>2, <2>6, SMT
  <2> QED
    BY <2>3, SMT DEF m, y
<1>11. s \div 16777216 = 8 + b
  BY <1>6, <1>7, <1>9, <1>10, SMT
<1>12. (s \div 1048576) % 16 = (l \div 1048576) % 16 /\ (s \div 65536) % 16 = (l \div 65536) % 16
  BY <1>6, <1>7, <1>10, SMT
<1>13. (s \div 4096) % 16 = (l \div 4096) % 16 /\ (s \div 256) % 16 = (l \div 256) % 16
  BY <1>6, <1>7, <1>10, SMT
<1>14. (s \div 16) % 16 = (l \div 16) % 16 /\ s % 16 = l % 16
  BY <1>6, <1>7, <1>10, SMT
<1>15. 8 + b \in 0 .. 15 /\ (8 + b) % 16 = 8 + b /\ r \in 0 .. 15
  BY <1>5, <1>6, SMT
<1>16. s \div Sixteens[7] \in 0 .. 15
  BY <1>4, <1>11, <1>15, SMT
<1>17. \A x \in Nat :
          /\ Places(x, Sixteens, 7) \in Seq(Characters) /\ Len(Places(x, Sixteens, 7)) = 7
          /\ \A k \in 1 .. 7 : Places(x, Sixteens, 7)[k] = Digit((x \div Sixteens[7 - k + 1]) % 16)
  <2>1. 7 \in Nat /\ 7 <= 8
    OBVIOUS
  <2> QED
    BY <2>1, PlacesSixteen, Zenon
<1> DEFINE ps == Places(s, Sixteens, 7)
           pg == Places(g, Sixteens, 7)
           e == Digit(r)
           h == Digit(8 + b)
           left == <<h>> \o pg
           right == Append(ps, e)
<1>18. h \in Characters /\ e \in Characters
  BY <1>15, DigitIsCharacter
<1>19. ps \in Seq(Characters) /\ Len(ps) = 7 /\ pg \in Seq(Characters) /\ Len(pg) = 7
  <2>1. s \in Nat /\ g \in Nat
    BY <1>5, <1>6, SMT
  <2> QED
    BY <1>17, <2>1
<1>20. left \in Seq(Characters) /\ Len(left) = 8 /\ left[1] = h /\ \A k \in 2 .. 8 : left[k] = pg[k - 1]
  <2>1. <<h>> \in Seq(Characters) /\ Len(<<h>>) = 1 /\ <<h>>[1] = h
    BY <1>18
  <2>2. pg \in Seq(Characters)
    BY <1>19
  <2> DEFINE hh == <<h>>
  <2> HIDE DEF hh, pg, h
  <2>3. hh \in Seq(Characters)
    BY <2>1 DEF hh
  <2>4. /\ hh \o pg \in Seq(Characters) /\ Len(hh \o pg) = Len(hh) + Len(pg)
        /\ \A k \in 1 .. Len(hh) + Len(pg) : (hh \o pg)[k] = IF k <= Len(hh) THEN hh[k] ELSE pg[k - Len(hh)]
    BY <2>2, <2>3, ConcatProperties
  <2>5. left = hh \o pg /\ Len(hh) = 1 /\ hh[1] = h
    BY <2>1 DEF hh
  <2> HIDE DEF left
  <2>6. left \in Seq(Characters) /\ Len(left) = 8
        /\ \A k \in 1 .. 8 : left[k] = IF k <= 1 THEN hh[k] ELSE pg[k - 1]
    BY <1>19, <2>4, <2>5
  <2>7. \A k \in 2 .. 8 : k \in 1 .. 8 /\ ~(k <= 1)
    OBVIOUS
  <2>8. \A k \in 2 .. 8 : left[k] = pg[k - 1]
    BY <2>6, <2>7
  <2>9. left[1] = h
    BY <2>5, <2>6
  <2> QED
    BY <2>6, <2>8, <2>9
<1>21. right \in Seq(Characters) /\ Len(right) = 8 /\ right[8] = e /\ \A k \in 1 .. 7 : right[k] = ps[k]
  <2>1. ps \in Seq(Characters)
    BY <1>19
  <2> HIDE DEF ps, e
  <2>2. right \in Seq(Characters) /\ Len(right) = Len(ps) + 1 /\ right[Len(ps) + 1] = e
        /\ \A k \in 1 .. Len(ps) : right[k] = ps[k]
    BY <1>18, <2>1, AppendProperties
  <2> QED
    BY <1>19, <2>2
<1>22. /\ left[1] = h /\ left[2] = pg[1] /\ left[3] = pg[2] /\ left[4] = pg[3]
       /\ left[5] = pg[4] /\ left[6] = pg[5] /\ left[7] = pg[6] /\ left[8] = pg[7]
  <2> HIDE DEF left, pg
  <2> QED
    BY <1>20
<1>23. /\ right[1] = ps[1] /\ right[2] = ps[2] /\ right[3] = ps[3] /\ right[4] = ps[4]
       /\ right[5] = ps[5] /\ right[6] = ps[6] /\ right[7] = ps[7] /\ right[8] = e
  <2> HIDE DEF right, ps
  <2> QED
    BY <1>21
<1>24. s \in Nat /\ g \in Nat
  BY <1>5, <1>6, SMT
<1>25. /\ ps[1] = h /\ pg[1] = ps[2] /\ pg[2] = ps[3] /\ pg[3] = ps[4]
       /\ pg[4] = ps[5] /\ pg[5] = ps[6] /\ pg[6] = ps[7] /\ pg[7] = e
  <2>2. g \div 16 = l
    BY DEF l
  <2> QED
    <3>1. /\ ps[1] = Digit((s \div 16777216) % 16) /\ ps[2] = Digit((s \div 1048576) % 16)
          /\ ps[3] = Digit((s \div 65536) % 16) /\ ps[4] = Digit((s \div 4096) % 16)
          /\ ps[5] = Digit((s \div 256) % 16) /\ ps[6] = Digit((s \div 16) % 16)
          /\ ps[7] = Digit(s % 16)
      <4>1. SevenOf(ps, s)
        BY <1>24, SevenPlaces
      <4> HIDE DEF ps
      <4> QED
        BY <4>1, SMT DEF SevenOf
    <3>2. /\ pg[1] = Digit((g \div 16777216) % 16) /\ pg[2] = Digit((g \div 1048576) % 16)
          /\ pg[3] = Digit((g \div 65536) % 16) /\ pg[4] = Digit((g \div 4096) % 16)
          /\ pg[5] = Digit((g \div 256) % 16) /\ pg[6] = Digit((g \div 16) % 16)
          /\ pg[7] = Digit(g % 16)
      <4>1. SevenOf(pg, g)
        BY <1>24, SevenPlaces
      <4> HIDE DEF pg
      <4> QED
        BY <4>1, SMT DEF SevenOf
    <3> HIDE DEF ps, pg
    <3>3. ps[1] = h
      BY <1>11, <1>15, <3>1, SMT
    <3>4. pg[1] = ps[2] /\ pg[2] = ps[3]
      BY <1>8, <1>12, <3>1, <3>2, SMT
    <3>5. pg[3] = ps[4] /\ pg[4] = ps[5]
      BY <1>8, <1>13, <3>1, <3>2, SMT
    <3>6. pg[5] = ps[6] /\ pg[6] = ps[7]
      BY <1>8, <1>14, <2>2, <3>1, <3>2, SMT
    <3>7. pg[7] = e
      BY <1>10, <3>2, SMT
    <3> QED
      BY <3>3, <3>4, <3>5, <3>6, <3>7, SMT
<1>26. \A k \in 1 .. 8 : left[k] = right[k]
  <2>1. \A k \in 1 .. 8 : k = 1 \/ k = 2 \/ k = 3 \/ k = 4 \/ k = 5 \/ k = 6 \/ k = 7 \/ k = 8
    OBVIOUS
  <2> HIDE DEF left, right, ps, pg, h, e
  <2> QED
    BY <1>22, <1>23, <1>25, <2>1, Zenon
<1>27. left = right
  <2> HIDE DEF left, right
  <2> QED
    BY <1>20, <1>21, <1>26, SeqEqual
<1> QED
  BY <1>3, <1>16, <1>27 DEF s, r

\* What both pointer loops and the one of %x write of any number is its eight places.
LEMMA NibblesAreHex ==
  ASSUME NEW n \in Numbers
  PROVE  /\ Nibbles(8, n) = Hex(n) /\ Nibbles(16, n) = Zeros \o Hex(n)
         /\ Hex(n) \in Seq(Characters) /\ Len(Hex(n)) = 8
<1>1. \A w \in {7, 8} : w \in 0 .. (IF Sixteens = Tens THEN 10 ELSE 8)
  OBVIOUS
<1>2. CASE n >= 0
  <2>1. Hex(n) = Places(n, Sixteens, 8)
    BY <1>2 DEF Hex
  <2>2. Nibbles(8, n) = Hex(n)
    BY <1>2, <2>1, NibblesArePlaces
  <2>3. n \in Nat
    BY <1>2, NumbersAreIntegers
  <2>7. Places(n, Sixteens, 8) \in Seq(Characters) /\ Len(Places(n, Sixteens, 8)) = 8
    BY <1>1, <2>3, PlacesAreCharacters
  <2>4. Hex(n) \in Seq(Characters) /\ Len(Hex(n)) = 8
    BY <2>1, <2>7, Zenon
  <2>5. n \div Sixteens[8] \in 0 .. 15
    <3>1. n <= 2147483647 /\ Sixteens[8] = 268435456
      BY NumberBounds, NumbersAreIntegers, SMT DEF Sixteens
    <3> QED
      BY <2>3, <3>1, SMT
  <2>6. Nibbles(8 + 8, n) = Zeros \o Places(n, Sixteens, 8)
    BY <1>2, <2>5, NibblesBehindZeros
  <2> QED
    BY <2>1, <2>2, <2>4, <2>6
<1>3. CASE n < 0
  <2> DEFINE s == ShiftFour(n)
             e == Digit(n % 16)
             t == Places(s, Sixteens, 7)
  <2>1. s \in Numbers /\ s \in Nat /\ s >= 0 /\ e \in Characters
    BY SixteenParts, DigitIsCharacter
  <2>2. Hex(n) = Append(t, e) /\ s \div Sixteens[7] \in 0 .. 15
    BY <1>3, HexOfNegative
  <2>3. Nibbles(8, n) = Append(Nibbles(7, s), e) /\ Nibbles(16, n) = Append(Nibbles(15, s), e)
    <3>1. 8 - 1 = 7 /\ 16 - 1 = 15 /\ 8 \in 0 .. 16 /\ 16 \in 0 .. 16 /\ 8 # 0 /\ 16 # 0
      OBVIOUS
    <3> QED
      BY <3>1, NibblesRecursion
  <2>4. t \in Seq(Characters) /\ Len(t) = 7
    BY <1>1, <2>1, PlacesAreCharacters
  <2> HIDE DEF s, e
  <2>5. Nibbles(7, s) = t
    BY <2>1, NibblesArePlaces
  <2>6. Nibbles(8 + 7, s) = Zeros \o t
    <3>1. 7 \in 0 .. 8 /\ 7 # 0
      OBVIOUS
    <3> QED
      BY <2>1, <2>2, <3>1, NibblesBehindZeros
  <2> HIDE DEF t
  <2>7. t \in Seq(Characters) /\ Zeros \in Seq(Characters)
    BY <2>4, ZerosAre
  <2>8. Zeros \o Append(t, e) = Append(Zeros \o t, e)
    BY <2>1, <2>7, AppendBehind
  <2>9. Append(t, e) \in Seq(Characters) /\ Len(Append(t, e)) = Len(t) + 1
    BY <2>1, <2>7, AppendProperties
  <2>10. Len(Append(t, e)) = 8
    BY <2>4, <2>9
  <2>11. 8 + 7 = 15
    OBVIOUS
  <2> QED
    BY <2>2, <2>3, <2>5, <2>6, <2>8, <2>9, <2>10, <2>11
<1> QED
  BY <1>2, <1>3, NumbersAreIntegers

\* The length of a concatenation.
LEMMA ConcatLength ==
  ASSUME NEW S, NEW s \in Seq(S), NEW t \in Seq(S)
  PROVE  s \o t \in Seq(S) /\ Len(s \o t) = Len(s) + Len(t) /\ Len(s) \in Nat /\ Len(t) \in Nat
BY ConcatProperties, LenProperties

\* What %u writes of any number is the decimal places of its unsigned reading.
LEMMA UnsignedMeans ==
  ASSUME NEW n \in Numbers
  PROVE  /\ Unsigned(n) = Decimal(n) /\ Unsigned(n) \in Seq(Characters)
         /\ Len(Unsigned(n)) <= 10 /\ Len(Digits[n]) <= 10
<1>1. CASE n >= 0
  BY <1>1, UnsignedIsDecimal
<1>2. CASE n < 0
  <2>1. Unsigned(n) = Decimal(n) /\ Unsigned(n) \in Seq(Characters)
    BY <1>2, NegativeIsDecimal
  <2>2. Len(Unsigned(n)) = 10 /\ Digits[n] = Unsigned(n)
    BY <1>2, NegativeIsDecimal
  <2>4. 10 <= 10
    OBVIOUS
  <2>3. Len(Unsigned(n)) <= 10 /\ Len(Digits[n]) <= 10
    BY <2>2, <2>4, Zenon
  <2> QED
    BY <2>1, <2>3
<1> QED
  BY <1>1, <1>2, NumbersAreIntegers

\* What %d writes is a sign and the places of the number without it, or of the
\* smallest number the sign alone.
LEMMA SignedMeans ==
  ASSUME NEW n \in Numbers
  PROVE  /\ Signed(n) = (IF n < 0 THEN <<"-">> ELSE <<>>)
                        \o (IF n = MinInt THEN <<>> ELSE Decimal(IF n < 0 THEN -n ELSE n))
         /\ Signed(n) \in Seq(Characters) /\ Len(Signed(n)) <= 11
         /\ n < 0 => Len(Negated(n)) <= 10
<1>1. <<"-">> \in Seq(Characters) /\ Len(<<"-">>) = 1 /\ <<>> \in Seq(Characters) /\ Len(<<>>) = 0
  BY CharactersAre
<1>2. n \in Int /\ MinInt < 0 /\ MinInt \in Int
  BY NumbersAreIntegers, NumberBounds, SMT
<1>3. CASE n >= 0
  <2>1. Signed(n) = Unsigned(n) /\ n # MinInt /\ ~(n < 0)
    BY <1>2, <1>3 DEF Signed
  <2>2. /\ Unsigned(n) = Decimal(n) /\ Unsigned(n) \in Seq(Characters)
        /\ Len(Unsigned(n)) <= 10
    BY UnsignedMeans
  <2>3. <<>> \o Decimal(n) = Decimal(n)
    BY <2>2, ConcatEmptySeq
  <2>4. Signed(n) = (IF n < 0 THEN <<"-">> ELSE <<>>)
                    \o (IF n = MinInt THEN <<>> ELSE Decimal(IF n < 0 THEN -n ELSE n))
    BY <2>1, <2>2, <2>3, Zenon
  <2>5. Signed(n) \in Seq(Characters) /\ Len(Signed(n)) <= 10
    BY <2>1, <2>2
  <2>6. Len(Signed(n)) <= 11
    BY <2>5
  <2> QED
    BY <2>1, <2>4, <2>5, <2>6, Zenon
<1>4. CASE n < 0
  <2> DEFINE m == Negated(n)
             sign == <<"-">>
  <2>1. Signed(n) = sign \o m
    BY <1>2, <1>4 DEF Signed
  <2>2. m \in Seq(Characters) /\ Len(m) <= 10 /\ m = IF n = MinInt THEN <<>> ELSE Decimal(-n)
    <3>1. CASE n = MinInt
      BY <1>1, <3>1 DEF Negated
    <3>2. CASE n # MinInt
      <4>1. -n \in Numbers
        <5>1. n # -2147483648 /\ n >= -2147483648
          BY <3>2, NumberBounds, SMT
        <5>2. -n \in Int /\ -n >= -2147483648 /\ -n <= 2147483647
          BY <1>2, <1>4, <5>1, SMT
        <5> QED
          BY <5>2, NumberBounds, SMT
      <4>2. m = Unsigned(-n)
        BY <3>2 DEF Negated
      <4>3. Unsigned(-n) = Decimal(-n) /\ Unsigned(-n) \in Seq(Characters) /\ Len(Unsigned(-n)) <= 10
        BY <4>1, UnsignedMeans
      <4> QED
        BY <3>2, <4>2, <4>3
    <3> QED
      BY <3>1, <3>2
  <2> HIDE DEF m, sign
  <2>3. sign \in Seq(Characters) /\ Len(sign) = 1
    BY <1>1 DEF sign
  <2>4. sign \o m \in Seq(Characters) /\ Len(sign \o m) = Len(sign) + Len(m)
    <3>1. sign \in Seq(Characters) /\ m \in Seq(Characters)
      BY <2>2, <2>3
    <3> QED
      BY <3>1, ConcatLength
  <2>10. Len(m) \in Nat /\ Len(m) <= 10
    BY <2>2, LenProperties
  <2>11. Len(sign \o m) = 1 + Len(m)
    BY <2>3, <2>4
  <2>5. Len(sign \o m) <= 11
    BY <2>10, <2>11
  <2>6. Signed(n) = (IF n < 0 THEN <<"-">> ELSE <<>>) \o m
    BY <1>4, <2>1 DEF sign
  <2>7. m = (IF n = MinInt THEN <<>> ELSE Decimal(IF n < 0 THEN -n ELSE n))
    BY <1>4, <2>2
  <2>8. Signed(n) \in Seq(Characters) /\ Len(Signed(n)) <= 11
    BY <2>1, <2>4, <2>5
  <2>9. Len(Negated(n)) <= 10
    BY <2>2 DEF m
  <2> QED
    BY <2>6, <2>7, <2>8, <2>9, Zenon
<1> QED
  <2>1. n >= 0 \/ n < 0
    BY <1>2
  <2> QED
    BY <1>3, <1>4, <2>1, Zenon

-----------------------------------------------------------------------------
(* What a directive writes is what it means                                *)

\* A text: it may hold a NUL, of %c.
IsText(s) == s \in Seq(AnyCharacter)

LEMMA PlainIsText == \A s \in Seq(Characters) : IsText(s)
BY CharactersAre, SeqMonotonic DEF IsText

\* A pointer's digits behind their prefix.
LEMMA PointerMeans ==
  ASSUME NEW n \in Numbers
  PROVE  /\ <<"0", "x">> \o Nibbles(16, n) = <<"0", "x">> \o [k \in 1 .. 8 |-> "0"] \o Hex(n)
         /\ <<"0", "x">> \o Nibbles(16, n) \in Seq(Characters)
         /\ Len(<<"0", "x">> \o Nibbles(16, n)) = 18
         /\ <<"0", "x">> \o Nibbles(8, n) = <<"0", "x">> \o Hex(n)
         /\ <<"0", "x">> \o Nibbles(8, n) \in Seq(Characters)
         /\ Len(<<"0", "x">> \o Nibbles(8, n)) = 10
<1> DEFINE p == <<"0", "x">>
           h == Hex(n)
<1>1. p \in Seq(Characters) /\ Len(p) = 2
  BY CharactersAre
<1>2. Zeros \in Seq(Characters) /\ Len(Zeros) = 8 /\ h \in Seq(Characters) /\ Len(h) = 8
  BY ZerosAre, NibblesAreHex
<1>3. Nibbles(16, n) = Zeros \o h /\ Nibbles(8, n) = h
  BY NibblesAreHex
<1> HIDE DEF p, h
<1>4. p \in Seq(Characters) /\ Zeros \in Seq(Characters) /\ h \in Seq(Characters)
  BY <1>1, <1>2
<1>5. Zeros \o h \in Seq(Characters) /\ Len(Zeros \o h) = Len(Zeros) + Len(h)
  BY <1>4, ConcatLength
<1>6. p \o (Zeros \o h) \in Seq(Characters) /\ Len(p \o (Zeros \o h)) = Len(p) + Len(Zeros \o h)
  BY <1>4, <1>5, ConcatLength
<1>7. p \o h \in Seq(Characters) /\ Len(p \o h) = Len(p) + Len(h)
  BY <1>4, ConcatLength
<1>8. (p \o Zeros) \o h = p \o (Zeros \o h)
  BY <1>4, ConcatAssociative
<1>9. Len(p) + Len(Zeros \o h) = 18 /\ Len(p) + Len(h) = 10
  BY <1>1, <1>2, <1>5
<1>10. /\ p \o Nibbles(16, n) = p \o (Zeros \o h) /\ p \o Nibbles(16, n) = p \o Zeros \o h
       /\ p \o Nibbles(8, n) = p \o h
  BY <1>3, <1>8, Zenon
<1>11. Len(p \o Nibbles(16, n)) = 18 /\ Len(p \o Nibbles(8, n)) = 10
  BY <1>6, <1>7, <1>9, <1>10, Zenon
<1>12. p \o Nibbles(16, n) \in Seq(Characters) /\ p \o Nibbles(8, n) \in Seq(Characters)
  BY <1>6, <1>7, <1>10, Zenon
<1>13. Zeros = [k \in 1 .. 8 |-> "0"]
  BY DEF Zeros
<1>14. p \o Nibbles(16, n) = p \o [k \in 1 .. 8 |-> "0"] \o h
  BY <1>10, <1>13, Zenon
<1> QED
  BY <1>10, <1>11, <1>12, <1>14, Zenon DEF p, h

\* Whatever a directive's character, of an argument of its kind it writes what it means.
LEMMA WrittenMeans ==
  ASSUME NEW d, NEW arg, Suits(d, arg)
  PROVE  Written(d, arg) = Meaning(d, arg) /\ IsText(Written(d, arg))
<1>1. /\ d \in {"d", "u", "x", "p"} => arg \in Numbers
      /\ d = "s" => arg \in Seq(Characters)
      /\ d = "c" => arg \in AnyCharacter
  BY DEF Suits
<1>2. CASE d = "d"
  <2>1. arg \in Numbers
    BY <1>1, <1>2
  <2>2. Written(d, arg) = Signed(arg)
    BY <1>2, Zenon DEF Written
  <2>3. Meaning(d, arg) = (IF arg < 0 THEN <<"-">> ELSE <<>>)
                          \o (IF arg = MinInt THEN <<>> ELSE Decimal(IF arg < 0 THEN -arg ELSE arg))
    BY <1>2, Zenon DEF Meaning
  <2>4. /\ Signed(arg) = (IF arg < 0 THEN <<"-">> ELSE <<>>)
                         \o (IF arg = MinInt THEN <<>> ELSE Decimal(IF arg < 0 THEN -arg ELSE arg))
        /\ Signed(arg) \in Seq(Characters)
    BY <2>1, SignedMeans, Zenon
  <2> QED
    BY <2>2, <2>3, <2>4, PlainIsText, Zenon
<1>3. CASE d = "u"
  <2>1. arg \in Numbers
    BY <1>1, <1>3
  <2>2. Written(d, arg) = Unsigned(arg) /\ Meaning(d, arg) = Decimal(arg)
    BY <1>3 DEF Written, Meaning
  <2> QED
    BY <2>1, <2>2, UnsignedMeans, PlainIsText
<1>4. CASE d = "s"
  <2>1. Written(d, arg) = arg /\ Meaning(d, arg) = arg
    BY <1>4 DEF Written, Meaning
  <2> QED
    BY <1>1, <1>4, <2>1, PlainIsText
<1>5. CASE d = "c"
  <2>1. Written(d, arg) = <<arg>> /\ Meaning(d, arg) = <<arg>>
    BY <1>5 DEF Written, Meaning
  <2>2. arg \in AnyCharacter
    BY <1>1, <1>5
  <2> QED
    BY <2>1, <2>2 DEF IsText
<1>6. CASE d = "x"
  <2>1. arg \in Numbers
    BY <1>1, <1>6
  <2>2. Written(d, arg) = Nibbles(8, arg) /\ Meaning(d, arg) = Hex(arg)
    BY <1>6 DEF Written, Meaning
  <2> QED
    BY <2>1, <2>2, NibblesAreHex, PlainIsText
<1>7. CASE d = "p"
  <2>1. arg \in Numbers
    BY <1>1, <1>7
  <2>2. /\ Written(d, arg) = <<"0", "x">> \o Nibbles(16, arg)
        /\ Meaning(d, arg) = <<"0", "x">> \o [k \in 1 .. 8 |-> "0"] \o Hex(arg)
    BY <1>7 DEF Written, Meaning
  <2> QED
    BY <2>1, <2>2, PointerMeans, PlainIsText, Zenon
<1>8. CASE d \notin {"d", "u", "s", "c", "x", "p"}
  <2>1. Written(d, arg) = IF d = "%" THEN <<"%">> ELSE <<>>
    BY <1>8 DEF Written
  <2>2. Meaning(d, arg) = IF d = "%" THEN <<"%">> ELSE <<>>
    BY <1>8 DEF Meaning
  <2>3. <<"%">> \in Seq(Characters) /\ <<>> \in Seq(Characters)
    BY CharactersAre
  <2>4. IsText(<<"%">>) /\ IsText(<<>>)
    BY <2>3, PlainIsText
  <2>5. CASE d = "%"
    BY <2>1, <2>2, <2>4, <2>5, Zenon
  <2>6. CASE d # "%"
    BY <2>1, <2>2, <2>4, <2>6, Zenon
  <2> QED
    BY <2>5, <2>6
<1> QED
  BY <1>2, <1>3, <1>4, <1>5, <1>6, <1>7, <1>8

\* The same of debug_printf.
LEMMA LoggedMeans ==
  ASSUME NEW d \in AnyCharacter, NEW arg, Suits(d, arg)
  PROVE  Logged(d, arg) = LogMeaning(d, arg) /\ IsText(Logged(d, arg))
<1>1. CASE d \in {"d", "u", "s", "c"}
  <2>1. Logged(d, arg) = Written(d, arg)
    BY <1>1 DEF Logged, Written
  <2>2. LogMeaning(d, arg) = Meaning(d, arg)
    BY <1>1 DEF LogMeaning
  <2> QED
    BY <2>1, <2>2, WrittenMeans
<1>2. CASE d = "x"
  <2>1. Logged(d, arg) = Written(d, arg)
    BY <1>2 DEF Logged, Written, LogHex
  <2>2. LogMeaning(d, arg) = Meaning(d, arg)
    BY <1>2 DEF LogMeaning
  <2> QED
    BY <2>1, <2>2, WrittenMeans
<1>3. CASE d = "p"
  <2>1. arg \in Numbers
    BY <1>3 DEF Suits
  <2>2. Logged(d, arg) = <<"0", "x">> \o Nibbles(8, arg) /\ LogMeaning(d, arg) = <<"0", "x">> \o Hex(arg)
    BY <1>3 DEF Logged, LogPointer, LogMeaning
  <2> QED
    BY <2>1, <2>2, PointerMeans, PlainIsText, Zenon
<1>4. CASE d \notin {"d", "u", "s", "c", "x", "p"}
  <2>1. Logged(d, arg) = <<d>> /\ LogMeaning(d, arg) = <<d>>
    BY <1>4 DEF Logged, LogMeaning
  <2> QED
    BY <2>1 DEF IsText
<1> QED
  BY <1>1, <1>2, <1>3, <1>4

-----------------------------------------------------------------------------
(* The walks over a format                                                 *)

Walk == Nat \X Nat

LEMMA AfterMoves ==
  ASSUME NEW fmt, NEW w \in Walk
  PROVE  /\ After(fmt, w) \in Walk
         /\ After(fmt, w)[1] > w[1]
BY DEF After, Walk

\* A function along a walk exists when the walk stops behind some place.
LEMMA WalkExists ==
  ASSUME NEW B \in Nat, NEW fmt, NEW stop \in SUBSET Walk, \A w \in Walk : w[1] > B => w \in stop,
         NEW x, NEW base, NEW mode
  PROVE  \E F : Recursive(F, Walk, stop, base, mode, x, [w \in Walk |-> After(fmt, w)])
<1> DEFINE rank == [w \in Walk |-> IF w[1] > B THEN 0 ELSE B + 1 - w[1]]
           next == [w \in Walk |-> After(fmt, w)]
<1>1. \A w \in Walk : w[1] \in Nat
  BY DEF Walk
<1>2. rank \in [Walk -> 0 .. B + 1] /\ B + 1 \in Nat
  BY <1>1
<1>3. ASSUME NEW w \in Walk \ stop PROVE next[w] \in Walk /\ rank[next[w]] < rank[w]
  <2>1. next[w] = After(fmt, w) /\ next[w] \in Walk /\ next[w][1] > w[1] /\ w[1] \in Nat
        /\ next[w][1] \in Nat /\ ~(w[1] > B)
    BY <1>1, AfterMoves
  <2>2. /\ rank[w] = B + 1 - w[1]
        /\ rank[next[w]] = IF next[w][1] > B THEN 0 ELSE B + 1 - next[w][1]
    BY <2>1
  <2> HIDE DEF rank, next
  <2> QED
    BY <2>1, <2>2
<1> HIDE DEF rank, next
<1>4. \A w \in Walk \ stop : next[w] \in Walk /\ rank[next[w]] < rank[w]
  BY <1>3
<1>5. \E F : Recursive(F, Walk, stop, base, mode, x, next)
  BY <1>2, <1>4, RecursionExists
<1> QED
  BY <1>5 DEF next

\* The text of a call of snprintf and of a message, from each place on.
Text(c) == TextFrom(c, Meaning)
LogText(c) == TextFrom(c, LogMeaning)
Piece(c, w) == IF c.fmt[w[1]] = "%" THEN Meaning(c.fmt[w[1] + 1], c.args[w[2]]) ELSE <<c.fmt[w[1]]>>
LogPiece(c, w) == IF c.fmt[w[1]] = "%" THEN LogMeaning(c.fmt[w[1] + 1], c.args[w[2]]) ELSE <<c.fmt[w[1]]>>

LEMMA TextRecursion ==
  ASSUME NEW c, c.fmt \in Seq(Characters)
  PROVE  /\ TextOf(c, Meaning) = Text(c)[<<1, 1>>]
         /\ \A w \in Walk : Text(c)[w] = IF w[1] > Len(c.fmt) THEN <<>>
                                         ELSE Piece(c, w) \o Text(c)[After(c.fmt, w)]
<1> DEFINE stop == {w \in Walk : w[1] > Len(c.fmt)}
           x == [w \in Walk |-> Piece(c, w)]
           next == [w \in Walk |-> After(c.fmt, w)]
<1>1. \E F : Recursive(F, Walk, stop, <<>>, "front", x, next)
  <2>1. Len(c.fmt) \in Nat /\ stop \in SUBSET Walk /\ \A w \in Walk : w[1] > Len(c.fmt) => w \in stop
    OBVIOUS
  <2> HIDE DEF stop, x
  <2> QED
    BY <2>1, WalkExists
<1>2. PICK F : F = [w \in Walk |-> IF w \in stop THEN <<>> ELSE Combined("front", x[w], F[next[w]])]
  BY <1>1 DEF Recursive
<1>3. ASSUME NEW w \in Walk
      PROVE  (IF w \in stop THEN <<>> ELSE Combined("front", x[w], F[next[w]]))
               = IF w[1] > Len(c.fmt) THEN <<>> ELSE Piece(c, w) \o F[After(c.fmt, w)]
  <2>1. Combined("front", x[w], F[next[w]]) = x[w] \o F[next[w]]
    BY DEF Combined
  <2>2. next[w] = After(c.fmt, w) /\ x[w] = Piece(c, w) /\ (w \in stop <=> w[1] > Len(c.fmt))
    OBVIOUS
  <2> HIDE DEF next, x, stop
  <2> QED
    BY <2>1, <2>2
<1> HIDE DEF next, x, stop
<1>4. F = [w \in Walk |-> IF w[1] > Len(c.fmt) THEN <<>> ELSE Piece(c, w) \o F[After(c.fmt, w)]]
  BY <1>2, <1>3, Zenon
<1>5. \E T : T = [w \in Walk |-> IF w[1] > Len(c.fmt) THEN <<>> ELSE Piece(c, w) \o T[After(c.fmt, w)]]
  BY <1>4
<1>6. Text(c) = [w \in Walk |-> IF w[1] > Len(c.fmt) THEN <<>> ELSE Piece(c, w) \o Text(c)[After(c.fmt, w)]]
  BY <1>5, Zenon DEF Text, TextFrom, Piece, Walk
<1>7. TextOf(c, Meaning) = Text(c)[<<1, 1>>]
  BY Zenon DEF TextOf, Text, TextFrom
<1> QED
  BY <1>6, <1>7, Zenon


LEMMA LogTextRecursion ==
  ASSUME NEW c, c.fmt \in Seq(Characters)
  PROVE  /\ TextOf(c, LogMeaning) = LogText(c)[<<1, 1>>]
         /\ \A w \in Walk : LogText(c)[w] = IF w[1] > Len(c.fmt) THEN <<>>
                                            ELSE LogPiece(c, w) \o LogText(c)[After(c.fmt, w)]
<1> DEFINE stop == {w \in Walk : w[1] > Len(c.fmt)}
           x == [w \in Walk |-> LogPiece(c, w)]
           next == [w \in Walk |-> After(c.fmt, w)]
<1>1. \E F : Recursive(F, Walk, stop, <<>>, "front", x, next)
  <2>1. Len(c.fmt) \in Nat /\ stop \in SUBSET Walk /\ \A w \in Walk : w[1] > Len(c.fmt) => w \in stop
    OBVIOUS
  <2> HIDE DEF stop, x
  <2> QED
    BY <2>1, WalkExists
<1>2. PICK F : F = [w \in Walk |-> IF w \in stop THEN <<>> ELSE Combined("front", x[w], F[next[w]])]
  BY <1>1 DEF Recursive
<1>3. ASSUME NEW w \in Walk
      PROVE  (IF w \in stop THEN <<>> ELSE Combined("front", x[w], F[next[w]]))
               = IF w[1] > Len(c.fmt) THEN <<>> ELSE LogPiece(c, w) \o F[After(c.fmt, w)]
  <2>1. Combined("front", x[w], F[next[w]]) = x[w] \o F[next[w]]
    BY DEF Combined
  <2>2. next[w] = After(c.fmt, w) /\ x[w] = LogPiece(c, w) /\ (w \in stop <=> w[1] > Len(c.fmt))
    OBVIOUS
  <2> HIDE DEF next, x, stop
  <2> QED
    BY <2>1, <2>2
<1> HIDE DEF next, x, stop
<1>4. F = [w \in Walk |-> IF w[1] > Len(c.fmt) THEN <<>> ELSE LogPiece(c, w) \o F[After(c.fmt, w)]]
  BY <1>2, <1>3, Zenon
<1>5. \E T : T = [w \in Walk |-> IF w[1] > Len(c.fmt) THEN <<>> ELSE LogPiece(c, w) \o T[After(c.fmt, w)]]
  BY <1>4
<1>6. LogText(c) = [w \in Walk |-> IF w[1] > Len(c.fmt) THEN <<>>
                                   ELSE LogPiece(c, w) \o LogText(c)[After(c.fmt, w)]]
  BY <1>5, Zenon DEF LogText, TextFrom, LogPiece, Walk
<1>7. TextOf(c, LogMeaning) = LogText(c)[<<1, 1>>]
  BY Zenon DEF TextOf, LogText, TextFrom
<1> QED
  BY <1>6, <1>7, Zenon

\* Well-formed from a place on is a truth value, and goes on to the next place.
LEMMA WellFormedRecursion ==
  ASSUME NEW fmt \in Seq(Characters)
  PROVE  \A w \in Walk : WellFormedFrom(fmt)[w] =
           IF w[1] > Len(fmt) THEN TRUE
           ELSE (fmt[w[1]] = "%" => w[1] < Len(fmt)) /\ WellFormedFrom(fmt)[After(fmt, w)]
<1> DEFINE stop == {w \in Walk : w[1] > Len(fmt)}
           x == [w \in Walk |-> fmt[w[1]] = "%" => w[1] < Len(fmt)]
           next == [w \in Walk |-> After(fmt, w)]
<1>1. \E F : Recursive(F, Walk, stop, TRUE, "both", x, next)
  <2>1. Len(fmt) \in Nat /\ stop \in SUBSET Walk /\ \A w \in Walk : w[1] > Len(fmt) => w \in stop
    OBVIOUS
  <2> HIDE DEF stop, x
  <2> QED
    BY <2>1, WalkExists
<1>2. PICK F : F = [w \in Walk |-> IF w \in stop THEN TRUE ELSE Combined("both", x[w], F[next[w]])]
  BY <1>1 DEF Recursive
<1>3. ASSUME NEW w \in Walk
      PROVE  (IF w \in stop THEN TRUE ELSE Combined("both", x[w], F[next[w]]))
               = IF w[1] > Len(fmt) THEN TRUE
                 ELSE (fmt[w[1]] = "%" => w[1] < Len(fmt)) /\ F[After(fmt, w)]
  <2>1. Combined("both", x[w], F[next[w]]) = (x[w] /\ F[next[w]])
    BY Zenon DEF Combined
  <2>2. next[w] = After(fmt, w) /\ (w \in stop <=> w[1] > Len(fmt))
    BY DEF stop
  <2>3. x[w] = (fmt[w[1]] = "%" => w[1] < Len(fmt))
    BY Zenon
  <2> HIDE DEF next, x, stop
  <2> QED
    BY <2>1, <2>2, <2>3, Zenon
<1> HIDE DEF next, x, stop
<1>4. F = [w \in Walk |-> IF w[1] > Len(fmt) THEN TRUE
                          ELSE (fmt[w[1]] = "%" => w[1] < Len(fmt)) /\ F[After(fmt, w)]]
  BY <1>2, <1>3, Zenon
<1>5. \E G : G = [w \in Walk |-> IF w[1] > Len(fmt) THEN TRUE
                                 ELSE (fmt[w[1]] = "%" => w[1] < Len(fmt)) /\ G[After(fmt, w)]]
  BY <1>4, Zenon
<1>6. WellFormedFrom(fmt) = [w \in Walk |->
        IF w[1] > Len(fmt) THEN TRUE
        ELSE (fmt[w[1]] = "%" => w[1] < Len(fmt)) /\ WellFormedFrom(fmt)[After(fmt, w)]]
  BY <1>5, Zenon DEF WellFormedFrom, Walk
<1> QED
  BY <1>6, Zenon

\* The arguments suit their directives from a place on.
StopsAt(c, w) == w[1] > Len(c.fmt) + 1 + Len(Rest) \/ CharOf(c.fmt, w[1]) = NUL
SuitsAt(c, w) == CharOf(c.fmt, w[1]) = "%" => Suits(CharOf(c.fmt, w[1] + 1), c.args[w[2]])

LEMMA SuitsRecursion ==
  ASSUME NEW c, c.fmt \in Seq(Characters), Rest \in Seq(AnyCharacter)
  PROVE  \A w \in Walk : SuitsFrom(c)[w] =
           IF StopsAt(c, w) THEN TRUE ELSE SuitsAt(c, w) /\ SuitsFrom(c)[After(c.fmt, w)]
<1> DEFINE stop == {w \in Walk : StopsAt(c, w)}
           x == [w \in Walk |-> SuitsAt(c, w)]
           next == [w \in Walk |-> After(c.fmt, w)]
<1>1. \E F : Recursive(F, Walk, stop, TRUE, "both", x, next)
  <2> DEFINE B == Len(c.fmt) + 1 + Len(Rest)
  <2>1. B \in Nat /\ stop \in SUBSET Walk /\ \A w \in Walk : w[1] > B => w \in stop
    BY DEF StopsAt
  <2> HIDE DEF stop, x, B
  <2> QED
    BY <2>1, WalkExists
<1>2. PICK F : F = [w \in Walk |-> IF w \in stop THEN TRUE ELSE Combined("both", x[w], F[next[w]])]
  BY <1>1 DEF Recursive
<1>3. ASSUME NEW w \in Walk
      PROVE  (IF w \in stop THEN TRUE ELSE Combined("both", x[w], F[next[w]]))
               = IF StopsAt(c, w) THEN TRUE ELSE SuitsAt(c, w) /\ F[After(c.fmt, w)]
  <2>1. Combined("both", x[w], F[next[w]]) = (x[w] /\ F[next[w]])
    BY Zenon DEF Combined
  <2>2. next[w] = After(c.fmt, w) /\ (w \in stop <=> StopsAt(c, w))
    BY DEF stop
  <2>3. x[w] = SuitsAt(c, w)
    BY Zenon
  <2> HIDE DEF next, x, stop
  <2> QED
    BY <2>1, <2>2, <2>3, Zenon
<1> HIDE DEF next, x, stop
<1>4. F = [w \in Walk |-> IF StopsAt(c, w) THEN TRUE ELSE SuitsAt(c, w) /\ F[After(c.fmt, w)]]
  BY <1>2, <1>3, Zenon
<1>5. \E G : G = [w \in Walk |-> IF StopsAt(c, w) THEN TRUE ELSE SuitsAt(c, w) /\ G[After(c.fmt, w)]]
  BY <1>4, Zenon
<1>6. SuitsFrom(c) = [w \in Walk |->
        IF StopsAt(c, w) THEN TRUE ELSE SuitsAt(c, w) /\ SuitsFrom(c)[After(c.fmt, w)]]
  BY <1>5, Zenon DEF SuitsFrom, Walk, StopsAt, SuitsAt
<1> QED
  BY <1>6, Zenon


\* A walk that has met no NUL goes on, its directives with arguments of their kinds.
LEMMA SuitsGoesOn ==
  ASSUME NEW c, c.fmt \in Seq(Characters), Rest \in Seq(AnyCharacter),
         NEW w \in Walk, w[1] >= 1, SuitsFrom(c)[w], CharOf(c.fmt, w[1]) # NUL
  PROVE  SuitsAt(c, w) /\ SuitsFrom(c)[After(c.fmt, w)]
<1>1. ~StopsAt(c, w)
  <2>1. w[1] \in Nat /\ Len(c.fmt) \in Nat /\ Len(Rest) \in Nat
    BY DEF Walk
  <2>2. w[1] > Len(c.fmt) + 1 + Len(Rest) => CharOf(c.fmt, w[1]) = NUL
    BY <2>1 DEF CharOf
  <2> QED
    BY <2>2 DEF StopsAt
<1> QED
  BY <1>1, SuitsRecursion, Zenon

\* Every character met is one, or NUL.
LEMMA CharTyped ==
  ASSUME NEW fmt \in Seq(Characters), Rest \in Seq(AnyCharacter), NEW i \in Nat \ {0}
  PROVE  /\ CharOf(fmt, i) \in AnyCharacter
         /\ i <= Len(fmt) => CharOf(fmt, i) = fmt[i] /\ fmt[i] \in Characters /\ fmt[i] # NUL
         /\ i = Len(fmt) + 1 => CharOf(fmt, i) = NUL
<1>1. Len(fmt) \in Nat /\ Len(Rest) \in Nat
  OBVIOUS
<1>2. CASE i <= Len(fmt)
  <2>1. CharOf(fmt, i) = fmt[i] /\ fmt[i] \in Characters
    BY <1>1, <1>2 DEF CharOf
  <2>2. i # Len(fmt) + 1
    BY <1>1, <1>2
  <2> QED
    BY <2>1, <2>2, CharactersAre
<1>3. CASE i \in Len(fmt) + 2 .. Len(fmt) + 1 + Len(Rest)
  <2>1. CharOf(fmt, i) = Rest[i - Len(fmt) - 1]
    BY <1>1, <1>3 DEF CharOf
  <2>2. i - Len(fmt) - 1 \in 1 .. Len(Rest) /\ i # Len(fmt) + 1 /\ ~(i <= Len(fmt))
    BY <1>1, <1>3
  <2> QED
    BY <2>1, <2>2
<1>4. CASE ~(i <= Len(fmt)) /\ i \notin Len(fmt) + 2 .. Len(fmt) + 1 + Len(Rest)
  <2>1. CharOf(fmt, i) = NUL
    BY <1>4, Zenon DEF CharOf
  <2> QED
    BY <1>4, <2>1 DEF AnyCharacter
<1> QED
  BY <1>2, <1>3, <1>4

\* One step of a walk inside a well-formed format.
LEMMA WalkGoesOn ==
  ASSUME NEW c, c.fmt \in Seq(Characters), Rest \in Seq(AnyCharacter),
         NEW w \in Walk, w[1] \in 1 .. Len(c.fmt), WellFormedFrom(c.fmt)[w], SuitsFrom(c)[w]
  PROVE  /\ WellFormedFrom(c.fmt)[After(c.fmt, w)]
         /\ SuitsFrom(c)[After(c.fmt, w)]
         /\ After(c.fmt, w)[1] \in 2 .. Len(c.fmt) + 1
         /\ c.fmt[w[1]] = "%" => /\ w[1] < Len(c.fmt)
                                 /\ CharOf(c.fmt, w[1] + 1) = c.fmt[w[1] + 1]
                                 /\ c.fmt[w[1] + 1] \in AnyCharacter
                                 /\ Suits(c.fmt[w[1] + 1], c.args[w[2]])
         /\ IsText(Piece(c, w)) /\ IsText(LogPiece(c, w))
<1>1. w[1] \in Nat \ {0} /\ Len(c.fmt) \in Nat /\ w[1] <= Len(c.fmt) /\ w[1] >= 1 /\ ~(w[1] > Len(c.fmt))
  OBVIOUS
<1>2. CharOf(c.fmt, w[1]) = c.fmt[w[1]] /\ c.fmt[w[1]] \in Characters /\ CharOf(c.fmt, w[1]) # NUL
  BY <1>1, CharTyped
<1>3. SuitsAt(c, w) /\ SuitsFrom(c)[After(c.fmt, w)]
  BY <1>1, <1>2, SuitsGoesOn
<1>4. (c.fmt[w[1]] = "%" => w[1] < Len(c.fmt)) /\ WellFormedFrom(c.fmt)[After(c.fmt, w)]
  BY <1>1, WellFormedRecursion, Zenon
<1>5. c.fmt[w[1]] = "%" => /\ w[1] < Len(c.fmt)
                           /\ CharOf(c.fmt, w[1] + 1) = c.fmt[w[1] + 1]
                           /\ c.fmt[w[1] + 1] \in AnyCharacter
                           /\ Suits(c.fmt[w[1] + 1], c.args[w[2]])
  <2> SUFFICES ASSUME c.fmt[w[1]] = "%"
               PROVE  /\ w[1] < Len(c.fmt)
                      /\ CharOf(c.fmt, w[1] + 1) = c.fmt[w[1] + 1]
                      /\ c.fmt[w[1] + 1] \in AnyCharacter
                      /\ Suits(c.fmt[w[1] + 1], c.args[w[2]])
    OBVIOUS
  <2>1. w[1] < Len(c.fmt) /\ w[1] + 1 \in Nat \ {0} /\ w[1] + 1 <= Len(c.fmt)
    BY <1>1, <1>4
  <2>2. CharOf(c.fmt, w[1] + 1) = c.fmt[w[1] + 1] /\ c.fmt[w[1] + 1] \in Characters
    BY <2>1, CharTyped
  <2>3. Suits(CharOf(c.fmt, w[1] + 1), c.args[w[2]])
    BY <1>2, <1>3 DEF SuitsAt
  <2> QED
    BY <2>1, <2>2, <2>3, CharactersAre
<1>6. After(c.fmt, w)[1] \in 2 .. Len(c.fmt) + 1
  <2>1. CASE c.fmt[w[1]] = "%"
    <3>1. After(c.fmt, w)[1] = w[1] + 2 /\ w[1] < Len(c.fmt)
      BY <1>2, <1>5, <2>1 DEF After
    <3> QED
      BY <1>1, <3>1
  <2>2. CASE c.fmt[w[1]] # "%"
    <3>1. After(c.fmt, w)[1] = w[1] + 1
      BY <1>2, <2>2 DEF After
    <3> QED
      BY <1>1, <3>1
  <2> QED
    BY <2>1, <2>2
<1>7. IsText(Piece(c, w)) /\ IsText(LogPiece(c, w))
  <2>1. CASE c.fmt[w[1]] = "%"
    <3> DEFINE d == c.fmt[w[1] + 1]
               arg == c.args[w[2]]
    <3>1. Piece(c, w) = Meaning(d, arg) /\ LogPiece(c, w) = LogMeaning(d, arg)
      BY <2>1 DEF Piece, LogPiece
    <3>2. d \in AnyCharacter /\ Suits(d, arg)
      BY <1>5, <2>1
    <3> HIDE DEF d, arg
    <3>3. IsText(Meaning(d, arg))
      BY <3>2, WrittenMeans
    <3>4. IsText(LogMeaning(d, arg))
      BY <3>2, LoggedMeans
    <3> QED
      BY <3>1, <3>3, <3>4
  <2>2. CASE c.fmt[w[1]] # "%"
    <3>1. Piece(c, w) = <<c.fmt[w[1]]>> /\ LogPiece(c, w) = <<c.fmt[w[1]]>>
      BY <2>2 DEF Piece, LogPiece
    <3>2. c.fmt[w[1]] \in AnyCharacter
      BY <1>2, CharactersAre
    <3> QED
      BY <3>1, <3>2 DEF IsText
  <2> QED
    BY <2>1, <2>2
<1> QED
  BY <1>3, <1>4, <1>5, <1>6, <1>7

\* The same with both places named.
LEMMA WalkGoesFrom ==
  ASSUME NEW c, c.fmt \in Seq(Characters), Rest \in Seq(AnyCharacter),
         NEW i \in Nat \ {0}, NEW j \in Nat \ {0}, i <= Len(c.fmt),
         WellFormedFrom(c.fmt)[<<i, j>>], SuitsFrom(c)[<<i, j>>],
         NEW u, NEW v, After(c.fmt, <<i, j>>) = <<u, v>>
  PROVE  /\ WellFormedFrom(c.fmt)[<<u, v>>] /\ SuitsFrom(c)[<<u, v>>]
         /\ u \in 1 .. Len(c.fmt) + 1
         /\ c.fmt[i] = "%" => /\ CharOf(c.fmt, i + 1) = c.fmt[i + 1]
                              /\ Suits(c.fmt[i + 1], c.args[j])
         /\ IsText(Piece(c, <<i, j>>)) /\ IsText(LogPiece(c, <<i, j>>))
<1> DEFINE w == <<i, j>>
<1>1. w \in Walk /\ w[1] = i /\ w[2] = j /\ w[1] \in 1 .. Len(c.fmt)
  BY DEF Walk
<1>2. WellFormedFrom(c.fmt)[w] /\ SuitsFrom(c)[w] /\ After(c.fmt, w) = <<u, v>>
  OBVIOUS
<1> HIDE DEF w
<1>3. /\ WellFormedFrom(c.fmt)[After(c.fmt, w)]
      /\ SuitsFrom(c)[After(c.fmt, w)]
      /\ After(c.fmt, w)[1] \in 2 .. Len(c.fmt) + 1
      /\ c.fmt[w[1]] = "%" => /\ CharOf(c.fmt, w[1] + 1) = c.fmt[w[1] + 1]
                              /\ Suits(c.fmt[w[1] + 1], c.args[w[2]])
      /\ IsText(Piece(c, w)) /\ IsText(LogPiece(c, w))
  BY <1>1, <1>2, WalkGoesOn, Zenon
<1>4. \A n \in Nat : \A x \in 2 .. n + 1 : x \in 1 .. n + 1
  OBVIOUS
<1>5. After(c.fmt, w)[1] = u /\ Len(c.fmt) \in Nat
  BY <1>2
<1>6. u \in 1 .. Len(c.fmt) + 1
  BY <1>3, <1>4, <1>5, Zenon
<1> QED
  BY <1>1, <1>2, <1>3, <1>6, Zenon DEF w

\* The text from a place on is one: the last place where it is none would have a next.
LEMMA TextTyped ==
  ASSUME NEW c, c.fmt \in Seq(Characters), Rest \in Seq(AnyCharacter),
         NEW w \in Walk, w[1] >= 1, WellFormedFrom(c.fmt)[w], SuitsFrom(c)[w]
  PROVE  IsText(Text(c)[w]) /\ IsText(LogText(c)[w])
<1> DEFINE n == Len(c.fmt)
           Fine(v) == /\ v[1] >= 1 /\ WellFormedFrom(c.fmt)[v] /\ SuitsFrom(c)[v]
                      => IsText(Text(c)[v]) /\ IsText(LogText(c)[v])
           Bad == {k \in 0 .. n : \E v \in Walk : v[1] = n - k /\ ~Fine(v)}
<1>1. n \in Nat
  OBVIOUS
<1>2. ASSUME NEW v \in Walk, v[1] > n PROVE Fine(v)
  <2>1. Text(c)[v] = <<>> /\ LogText(c)[v] = <<>>
    BY <1>2, TextRecursion, LogTextRecursion
  <2> QED
    BY <2>1 DEF IsText
<1>3. ASSUME NEW v \in Walk, v[1] \in 1 .. n, WellFormedFrom(c.fmt)[v], SuitsFrom(c)[v],
             Fine(After(c.fmt, v))
      PROVE  IsText(Text(c)[v]) /\ IsText(LogText(c)[v])
  <2> DEFINE u == After(c.fmt, v)
  <2>1. /\ WellFormedFrom(c.fmt)[u] /\ SuitsFrom(c)[u] /\ u[1] \in 2 .. n + 1
        /\ IsText(Piece(c, v)) /\ IsText(LogPiece(c, v))
    BY <1>3, WalkGoesOn
  <2>2. IsText(Text(c)[u]) /\ IsText(LogText(c)[u])
    BY <1>3, <2>1
  <2>3. Text(c)[v] = Piece(c, v) \o Text(c)[u] /\ LogText(c)[v] = LogPiece(c, v) \o LogText(c)[u]
    <3>1. ~(v[1] > Len(c.fmt))
      BY <1>1, <1>3
    <3> QED
      BY <3>1, TextRecursion, LogTextRecursion, Zenon
  <2> HIDE DEF u
  <2> QED
    BY <2>1, <2>2, <2>3, ConcatProperties DEF IsText
<1>4. Bad = {}
  <2>1. SUFFICES ASSUME Bad # {} PROVE FALSE
    OBVIOUS
  <2>2. PICK k \in Bad : \A y \in Bad : k <= y
    <3>1. Bad \in SUBSET Nat
      OBVIOUS
    <3> HIDE DEF Bad
    <3> QED
      BY <2>1, <3>1, LeastOf
  <2>3. k \in 0 .. n
    OBVIOUS
  <2>4. PICK v \in Walk : v[1] = n - k /\ ~Fine(v)
    OBVIOUS
  <2>5. v[1] \in 1 .. n /\ WellFormedFrom(c.fmt)[v] /\ SuitsFrom(c)[v]
    <3> HIDE DEF n
    <3> QED
      BY <1>1, <2>3, <2>4
  <2> DEFINE u == After(c.fmt, v)
  <2>6. u \in Walk /\ u[1] \in 2 .. n + 1 /\ u[1] > v[1]
    BY <2>5, AfterMoves, WalkGoesOn
  <2>7. Fine(u)
    <3>1. CASE u[1] > n
      BY <1>2, <2>6, <3>1
    <3>2. CASE u[1] <= n
      <4>1. n - u[1] \in 0 .. n /\ u[1] = n - (n - u[1]) /\ ~(k <= n - u[1])
        <5> HIDE DEF n, u
        <5> QED
          BY <1>1, <2>3, <2>4, <2>6, <3>2
      <4>2. ~Fine(u) => n - u[1] \in Bad
        <5> HIDE DEF n, u, Fine
        <5> QED
          BY <2>6, <4>1
      <4> HIDE DEF Bad, n, u, Fine
      <4> QED
        BY <2>2, <4>1, <4>2
    <3> HIDE DEF n, u, Fine
    <3> QED
      BY <1>1, <2>6, <3>1, <3>2
  <2>8. IsText(Text(c)[v]) /\ IsText(LogText(c)[v])
    <3> HIDE DEF Fine, n
    <3> QED
      BY <1>3, <2>5, <2>7
  <2> QED
    BY <2>4, <2>8
<1>5. Fine(w)
  <2>1. CASE w[1] > n
    BY <1>2, <2>1
  <2>2. CASE w[1] <= n
    <3>1. n - w[1] \in 0 .. n /\ w[1] = n - (n - w[1])
      <4>1. w[1] \in Nat
        BY DEF Walk
      <4> HIDE DEF n
      <4> QED
        BY <1>1, <2>2, <4>1
    <3> HIDE DEF Fine, n
    <3> QED
      BY <1>4, <3>1
  <2>3. w[1] \in Nat
    BY DEF Walk
  <2> HIDE DEF Fine, n
  <2> QED
    BY <1>1, <2>1, <2>2, <2>3
<1> QED
  BY <1>5


-----------------------------------------------------------------------------
(* The number buffers of debug_printf                                      *)

\* What is stored behind a number buffer: two bytes of a pointer, of nothing else.
LEMMA BehindIsTwo ==
  ASSUME NEW d \in AnyCharacter, NEW arg, Suits(d, arg)
  PROVE  Behind(d, arg) = IF d = "p" THEN 2 ELSE 0
<1>1. DOMAIN BufSize = {"d", "u", "x", "p", "s", "c"}
  BY DEF BufSize
<1>2. \A s \in Seq(Characters) : Len(s) \in Nat
  OBVIOUS
<1>3. CASE d = "d"
  <2>1. arg \in Numbers /\ BufSize[d] = 12
    BY <1>3 DEF Suits, BufSize
  <2>2. Stored(d, arg) = IF arg = 0 THEN 0 ELSE Len(IF arg < 0 THEN Negated(arg) ELSE Digits[arg]) + 1
    BY <1>3 DEF Stored
  <2>3. CASE arg = 0
    BY <1>3, <2>1, <2>2, <2>3 DEF Behind
  <2>4. CASE arg < 0
    <3>1. arg # 0
      BY <2>4
    <3>2. Len(Negated(arg)) \in Nat
      <4>1. CASE arg = MinInt
        BY <4>1 DEF Negated
      <4>2. CASE arg # MinInt
        <5>1. -arg \in Numbers
          BY <2>1, <2>4, <4>2, NumberBounds, SMT
        <5> QED
          BY <1>2, <4>2, <5>1, UnsignedMeans DEF Negated
      <4> QED
        BY <4>1, <4>2
    <3>3. Len(Negated(arg)) <= 10
      BY <2>1, <2>4, SignedMeans
    <3>4. Stored(d, arg) = Len(Negated(arg)) + 1
      BY <2>2, <2>4, <3>1
    <3>5. ~(Stored(d, arg) > BufSize[d])
      BY <2>1, <3>2, <3>3, <3>4
    <3> QED
      BY <1>3, <3>5 DEF Behind
  <2>5. CASE arg > 0
    <3>1. arg # 0 /\ ~(arg < 0)
      BY <2>1, <2>5, NumbersAreIntegers
    <3>2. Digits[arg] = Unsigned(arg)
      BY <3>1 DEF Unsigned
    <3>3. Len(Digits[arg]) \in Nat /\ Len(Digits[arg]) <= 10
      BY <1>2, <2>1, <3>2, UnsignedMeans
    <3>4. Stored(d, arg) = Len(Digits[arg]) + 1
      BY <2>2, <3>1
    <3>5. ~(Stored(d, arg) > BufSize[d])
      BY <2>1, <3>3, <3>4
    <3> QED
      BY <1>3, <3>5 DEF Behind
  <2> QED
    BY <2>1, <2>3, <2>4, <2>5, NumbersAreIntegers
<1>4. CASE d = "u"
  <2>1. arg \in Numbers /\ BufSize[d] = 11
    BY <1>4 DEF Suits, BufSize
  <2>2. Stored(d, arg) = IF arg = 0 THEN 0 ELSE Len(Digits[arg]) + 1
    BY <1>4 DEF Stored
  <2>3. CASE arg = 0
    BY <1>4, <2>1, <2>2, <2>3 DEF Behind
  <2>4. CASE arg # 0
    <3>1. Digits[arg] = Unsigned(arg)
      BY <2>4 DEF Unsigned
    <3>2. Len(Digits[arg]) \in Nat /\ Len(Digits[arg]) <= 10
      BY <1>2, <2>1, <3>1, UnsignedMeans
    <3>3. ~(Stored(d, arg) > BufSize[d])
      BY <2>1, <2>2, <2>4, <3>2
    <3> QED
      BY <1>4, <3>3 DEF Behind
  <2> QED
    BY <2>3, <2>4
<1>5. CASE d = "x"
  <2>1. arg \in Numbers /\ BufSize[d] = 9
    BY <1>5 DEF Suits, BufSize
  <2>2. Stored(d, arg) = Len(Nibbles(8, arg)) + 1
    BY <1>5 DEF Stored, Logged, LogHex
  <2>3. Len(Nibbles(8, arg)) = 8
    BY <2>1, NibblesAreHex, Zenon
  <2>4. Stored(d, arg) = 8 + 1
    BY <2>2, <2>3, Zenon
  <2>5. ~(Stored(d, arg) > BufSize[d])
    BY <2>1, <2>4
  <2> QED
    BY <1>5, <2>5 DEF Behind
<1>6. CASE d = "p"
  <2>1. arg \in Numbers /\ BufSize[d] = 9 /\ d \in DOMAIN BufSize
    BY <1>6 DEF Suits, BufSize
  <2>2. Stored(d, arg) = Len(<<"0", "x">> \o Nibbles(8, arg)) + 1
    BY <1>6, Zenon DEF Stored, Logged, LogPointer
  <2>3. Len(<<"0", "x">> \o Nibbles(8, arg)) = 10
    BY <2>1, PointerMeans, Zenon
  <2> HIDE DEF Stored
  <2>4. Stored(d, arg) = 11
    BY <2>2, <2>3
  <2> QED
    BY <1>6, <2>1, <2>4 DEF Behind
<1>7. CASE d \in {"s", "c"}
  <2>1. Stored(d, arg) = 0 /\ BufSize[d] \in {0, 1}
    BY <1>7 DEF Stored, BufSize
  <2> QED
    BY <1>7, <2>1 DEF Behind
<1>8. CASE d \notin {"d", "u", "x", "p", "s", "c"}
  BY <1>1, <1>8 DEF Behind
<1> QED
  BY <1>3, <1>4, <1>5, <1>6, <1>7, <1>8

\* While debug_printf walks, what is ahead suits its arguments; a byte behind a number
\* buffer is a pointer's second one.
RoomInv ==
    /\ row # NoRow \/ pc \notin {"log", "sent"} => over = 0
    /\ pc = "log" => /\ call \in Messages
                     /\ f \in Nat \ {0} /\ a \in Nat \ {0}
                     /\ SuitsFrom(call)[<<f, a>>]
                     /\ row = NoRow
    /\ over \in {0, 2}
    /\ LocalRoom

\* The place of a walk and the one behind it.
LEMMA AfterIs ==
  ASSUME NEW fmt, NEW i \in Nat, NEW j \in Nat
  PROVE  /\ <<i, j>> \in Walk /\ <<i, j>>[1] = i /\ <<i, j>>[2] = j
         /\ CharOf(fmt, i) # "%" => After(fmt, <<i, j>>) = <<i + 1, j>>
         /\ CharOf(fmt, i) = "%" =>
              After(fmt, <<i, j>>) = <<i + 2, IF CharOf(fmt, i + 1) \in TakesArg THEN j + 1 ELSE j>>
BY DEF Walk, After

LEMMA RoomInit == MessagesTyped /\ LogInit => RoomInv
<1> SUFFICES ASSUME MessagesTyped, LogInit PROVE RoomInv
  OBVIOUS
<1>1. over = 0 /\ f = 1 /\ a = 1 /\ row \in {NoRow, 0} /\ NoRow \in Int
  BY DEF LogInit, Init, NoRow
<1>2. pc = "log" => call \in Messages /\ row = NoRow
  BY DEF LogInit, Init
<1>3. pc = "log" => SuitsFrom(call)[<<f, a>>]
  BY <1>1, <1>2 DEF MessagesTyped, Typed
<1> QED
  BY <1>1, <1>2, <1>3 DEF RoomInv, LocalRoom

LEMMA RoomNext == MessagesTyped /\ RoomInv /\ [LogNext]_logvars => RoomInv'
<1> SUFFICES ASSUME MessagesTyped, RoomInv, [LogNext]_logvars PROVE RoomInv'
  OBVIOUS
<1>1. Rest \in Seq(AnyCharacter) /\ \A c \in Messages : c.fmt \in Seq(Characters)
  BY DEF MessagesTyped, Typed
<1>2. CASE Say
  <2>1. pc = "log" /\ pc' = "log" /\ CharOf(call.fmt, f) \notin {NUL, "%"}
        /\ f' = f + 1 /\ UNCHANGED <<call, a, row, over>>
    BY <1>2 DEF Say, Char
  <2>2. /\ call \in Messages /\ f \in Nat \ {0} /\ a \in Nat \ {0}
        /\ SuitsFrom(call)[<<f, a>>] /\ call.fmt \in Seq(Characters)
    BY <1>1, <2>1 DEF RoomInv
  <2>3. <<f, a>> \in Walk /\ <<f, a>>[1] >= 1 /\ <<f, a>>[1] = f
    <3>1. f \in Nat /\ a \in Nat /\ f >= 1
      BY <2>2
    <3> QED
      BY <3>1, AfterIs
  <2>4. After(call.fmt, <<f, a>>) = <<f + 1, a>>
    BY <2>1, <2>2, AfterIs
  <2>5. SuitsFrom(call)[<<f + 1, a>>]
    BY <1>1, <2>1, <2>2, <2>3, <2>4, SuitsGoesOn
  <2>6. LocalRoom'
    <3> SUFFICES ASSUME over # 0
                 PROVE  over = 2 /\ \E i \in 1 .. f' - 2 : Char(i)' = "%" /\ Char(i + 1)' = "p"
      BY <2>1 DEF LocalRoom
    <3>1. over = 2
      BY DEF RoomInv, LocalRoom
    <3>2. PICK i \in 1 .. f - 2 : Char(i) = "%" /\ Char(i + 1) = "p"
      BY DEF RoomInv, LocalRoom
    <3>3. i \in 1 .. f' - 2
      BY <2>1, <2>2
    <3>4. Char(i)' = Char(i) /\ Char(i + 1)' = Char(i + 1)
      BY <2>1 DEF Char
    <3> QED
      BY <3>1, <3>2, <3>3, <3>4
  <2> QED
    BY <2>1, <2>2, <2>5, <2>6 DEF RoomInv
<1>3. CASE SayDirective
  <2> DEFINE d == CharOf(call.fmt, f + 1)
             arg == call.args[a]
  <2>1. pc = "log" /\ pc' = "log" /\ CharOf(call.fmt, f) = "%"
        /\ over' = Max({over, Behind(d, arg)}) /\ a' = NextArg(d)
        /\ f' = f + 2 /\ UNCHANGED <<call, row>>
    BY <1>3 DEF SayDirective, Char
  <2>2. /\ call \in Messages /\ f \in Nat \ {0} /\ a \in Nat \ {0}
        /\ SuitsFrom(call)[<<f, a>>] /\ call.fmt \in Seq(Characters)
    BY <1>1, <2>1 DEF RoomInv
  <2>3. <<f, a>> \in Walk /\ <<f, a>>[1] >= 1 /\ <<f, a>>[1] = f /\ <<f, a>>[2] = a
    <3>1. f \in Nat /\ a \in Nat /\ f >= 1
      BY <2>2
    <3> QED
      BY <3>1, AfterIs
  <2>4. After(call.fmt, <<f, a>>) = <<f', a'>> /\ f' \in Nat \ {0} /\ a' \in Nat \ {0}
    BY <2>1, <2>2, AfterIs DEF NextArg
  <2>5. "%" # NUL
    BY DEF NUL
  <2>6. SuitsAt(call, <<f, a>>) /\ SuitsFrom(call)[<<f', a'>>]
    BY <1>1, <2>1, <2>2, <2>3, <2>4, <2>5, SuitsGoesOn
  <2>7. Suits(d, arg)
    BY <2>1, <2>3, <2>6 DEF SuitsAt
  <2>8. d \in AnyCharacter
    BY <1>1, <2>2, CharTyped
  <2>9. Behind(d, arg) = IF d = "p" THEN 2 ELSE 0
    BY <2>7, <2>8, BehindIsTwo
  <2>10. over \in {0, 2}
    BY DEF RoomInv
  <2>11. over' = IF d = "p" THEN 2 ELSE over
    <3>1. Max({0, 0}) = 0 /\ Max({2, 0}) = 2 /\ Max({0, 2}) = 2 /\ Max({2, 2}) = 2
      BY DEF Max
    <3> QED
      BY <2>1, <2>9, <2>10, <3>1
  <2>12. LocalRoom'
    <3>1. CASE d = "p"
      <4>1. f \in 1 .. f' - 2 /\ CharOf(call.fmt', f) = "%" /\ CharOf(call.fmt', f + 1) = "p"
        BY <2>1, <2>2, <3>1
      <4> HIDE DEF d, arg
      <4> QED
        BY <2>11, <3>1, <4>1 DEF LocalRoom, Char
    <3>2. CASE d # "p" /\ over # 0
      <4>1. over = 2 /\ over' = 2
        BY <2>10, <2>11, <3>2
      <4>2. PICK i \in 1 .. f - 2 : Char(i) = "%" /\ Char(i + 1) = "p"
        BY <3>2 DEF RoomInv, LocalRoom
      <4>3. i \in 1 .. f' - 2
        BY <2>1, <2>2
      <4>4. Char(i)' = Char(i) /\ Char(i + 1)' = Char(i + 1)
        BY <2>1 DEF Char
      <4> QED
        BY <4>1, <4>2, <4>3, <4>4 DEF LocalRoom
    <3>3. CASE d # "p" /\ over = 0
      BY <2>11, <3>3 DEF LocalRoom
    <3> QED
      BY <3>1, <3>2, <3>3
  <2> HIDE DEF d, arg
  <2> QED
    BY <2>1, <2>2, <2>4, <2>6, <2>10, <2>11, <2>12 DEF RoomInv
<1>4. CASE SayEnd
  BY <1>4 DEF SayEnd, RoomInv, LocalRoom, Char, CharOf
<1>5. CASE Snprintf
  <2>1. pc \in {"scan", "emit"} /\ pc' \in {"scan", "emit", "done"} /\ over' = over /\ row' = row
    BY <1>5 DEF Snprintf, Next, Literal, Directive, Emit, EmitDone, Close
  <2> QED
    BY <2>1 DEF RoomInv, LocalRoom
<1>6. CASE SendBorder
  <2>1. pc = "border" /\ pc' \in {"next", "sent"} /\ UNCHANGED <<over, row, f>>
    BY <1>6 DEF SendBorder
  <2> QED
    BY <2>1 DEF RoomInv, LocalRoom
<1>7. CASE NextRow \/ LastRow \/ PadRow \/ SendRow
  BY <1>7 DEF NextRow, LastRow, PadRow, SendRow, RoomInv, LocalRoom
<1>8. CASE UNCHANGED logvars
  BY <1>8 DEF logvars, vars, RoomInv, LocalRoom, Char, CharOf
<1> QED
  BY <1>2, <1>3, <1>4, <1>5, <1>6, <1>7, <1>8 DEF LogNext


\* Whatever the messages say, no number buffer is too small but a pointer's, by two
\* bytes (log.c:12, 57, 71, 87).
THEOREM OnlyPointersOverrun ==
  ASSUME MessagesTyped
  PROVE  LogSpec => []LocalRoom
<1>1. LogInit => RoomInv
  BY RoomInit
<1>2. RoomInv /\ [LogNext]_logvars => RoomInv'
  BY RoomNext
<1>3. RoomInv => LocalRoom
  BY DEF RoomInv
<1> QED
  BY <1>1, <1>2, <1>3, PTL DEF LogSpec


-----------------------------------------------------------------------------
(* The buffer gets the text                                                *)

\* What the buffer holds so far, and what of the text is still to come while there
\* is room.
Kept == [i \in 1 .. written |-> buffer[i - 1]]
Place == IF pc = "emit" THEN f + 1 ELSE f
Left == IF pc = "scan" THEN Text(call)[<<f, a>>]
        ELSE IF pc = "emit" THEN todo \o Text(call)[<<f + 1, a>>] ELSE <<>>

\* What is kept and what is left make up the text, until the bound cuts it.
CallInv ==
    /\ Rest \in Seq(AnyCharacter) /\ Typed(call)
    /\ WellFormed(call.fmt) =>
         /\ IsText(Kept)
         /\ \E rest : /\ IsText(rest) /\ Kept \o rest = Text(call)[<<1, 1>>]
                      /\ Room => rest = Left
         /\ pc # "done" => /\ Place \in 1 .. Len(call.fmt) + 1 /\ a \in Nat \ {0}
                           /\ WellFormedFrom(call.fmt)[<<Place, a>>]
                           /\ SuitsFrom(call)[<<Place, a>>]
         /\ pc = "emit" => IsText(todo) /\ f \in Nat
         /\ pc = "done" => buffer[written] = NUL

\* A store under the bound adds its character to what is kept.
LEMMA KeptGrows ==
  ASSUME Bounded, Room, NEW c \in AnyCharacter, Put(c), IsText(Kept)
  PROVE  Kept' = Kept \o <<c>> /\ IsText(Kept')
<1>1. written \in Nat /\ size \in Nat /\ written <= size - 1 /\ size <= Memory /\ Memory \in Nat
  BY FormatAssumption DEF Bounded
<1>2. written' = written + 1 /\ buffer' = [buffer EXCEPT ![written] = c] /\ written \in DOMAIN buffer
  BY <1>1 DEF Put, Bounded
<1>3. /\ Kept \in Seq(AnyCharacter) /\ Len(Kept) = written
      /\ \A i \in 1 .. written : Kept[i] = buffer[i - 1]
  BY <1>1 DEF Kept, IsText
<1>4. /\ DOMAIN Kept' = 1 .. written + 1
      /\ \A i \in 1 .. written + 1 : Kept'[i] = buffer'[i - 1]
      /\ Kept' = [i \in 1 .. written + 1 |-> Kept'[i]]
  BY <1>2 DEF Kept
<1>5. \A i \in 1 .. written : i - 1 # written /\ i - 1 \in DOMAIN buffer
  BY <1>1 DEF Bounded
<1>6. \A i \in 1 .. written : Kept'[i] = Kept[i]
  <2>1. \A i \in 1 .. written : i \in 1 .. written + 1
    BY <1>1
  <2> QED
    BY <1>2, <1>3, <1>4, <1>5, <2>1
<1>7. Kept'[written + 1] = c
  <2>1. written + 1 \in 1 .. written + 1 /\ (written + 1) - 1 = written
    BY <1>1
  <2> QED
    BY <1>2, <1>4, <2>1
<1> DEFINE k == Kept
           n == Kept'
<1>8. k \o <<c>> \in Seq(AnyCharacter) /\ Len(k \o <<c>>) = written + 1
      /\ \A i \in 1 .. written : (k \o <<c>>)[i] = k[i]
      /\ (k \o <<c>>)[written + 1] = c
  <2> HIDE DEF k
  <2> QED
    BY <1>1, <1>3 DEF k
<1>9. n \in Seq(AnyCharacter) /\ Len(n) = written + 1
  <2>1. \A i \in 1 .. written + 1 : n[i] \in AnyCharacter
    BY <1>1, <1>3, <1>6, <1>7
  <2> HIDE DEF n
  <2> QED
    BY <1>1, <1>4, <2>1 DEF n
<1>10. \A i \in 1 .. written + 1 : n[i] = (k \o <<c>>)[i]
  <2>1. \A i \in 1 .. written + 1 : i \in 1 .. written \/ i = written + 1
    BY <1>1
  <2> QED
    BY <1>6, <1>7, <1>8, <2>1
<1> HIDE DEF k, n
<1>11. n = k \o <<c>>
  BY <1>8, <1>9, <1>10, SeqEqual
<1> QED
  BY <1>9, <1>11 DEF k, n, IsText

\* If the rest begins with that character, what is behind it is the new rest.
LEMMA RestShrinks ==
  ASSUME NEW k, NEW c \in AnyCharacter, NEW t, NEW whole,
         IsText(k), IsText(t), k \o (<<c>> \o t) = whole
  PROVE  (k \o <<c>>) \o t = whole
<1> DEFINE e == <<c>>
<1>1. e \in Seq(AnyCharacter)
  OBVIOUS
<1> HIDE DEF e
<1>2. (k \o e) \o t = k \o (e \o t)
  BY <1>1, ConcatAssociative DEF IsText
<1> QED
  BY <1>2, Zenon DEF e

\* A step that stores nothing keeps what is kept.
LEMMA KeptStays ==
  ASSUME UNCHANGED <<written, size, buffer, call>>, NEW rest, CallInv, WellFormed(call.fmt),
         IsText(rest), Kept \o rest = Text(call)[<<1, 1>>]
  PROVE  /\ IsText(Kept') /\ Kept' \o rest = Text(call')[<<1, 1>>]
         /\ Room' = Room
BY DEF Kept, CallInv, Room

LEMMA LiteralExact == Bounded /\ CallInv /\ Literal => CallInv'
<1> SUFFICES ASSUME Bounded, CallInv, Literal PROVE CallInv'
  OBVIOUS
<1> DEFINE T == Text(call)
           c == Char(f)
<1>1. /\ pc = "scan" /\ Char(f) # NUL /\ Room /\ Char(f) # "%" /\ Put(Char(f)) /\ f' = f + 1
      /\ pc' = pc /\ call' = call /\ a' = a
  BY DEF Literal, More
<1>2. Rest \in Seq(AnyCharacter) /\ Typed(call) /\ call.fmt \in Seq(Characters)
  BY DEF CallInv, Typed
<1>3. SUFFICES ASSUME WellFormed(call.fmt)
      PROVE /\ IsText(Kept')
            /\ \E rest : /\ IsText(rest) /\ Kept' \o rest = Text(call')[<<1, 1>>]
                         /\ Room' => rest = Left'
            /\ Place' \in 1 .. Len(call.fmt) + 1 /\ a' \in Nat \ {0}
            /\ WellFormedFrom(call.fmt)[<<Place', a'>>]
            /\ SuitsFrom(call)[<<Place', a'>>]
  BY <1>1, <1>2 DEF CallInv
<1>4. /\ f \in 1 .. Len(call.fmt) + 1 /\ a \in Nat \ {0} /\ Len(call.fmt) \in Nat
      /\ WellFormedFrom(call.fmt)[<<f, a>>] /\ SuitsFrom(call)[<<f, a>>] /\ IsText(Kept)
  BY <1>1, <1>2, <1>3 DEF CallInv, Place
<1>5. f \in 1 .. Len(call.fmt) /\ f \in Nat \ {0}
  <2>1. f \in Nat \ {0} /\ (f <= Len(call.fmt) \/ f = Len(call.fmt) + 1)
    BY <1>4
  <2>2. CharOf(call.fmt, f) # NUL
    BY <1>1 DEF Char
  <2>3. f # Len(call.fmt) + 1
    BY <1>2, <2>1, <2>2, CharTyped
  <2> QED
    BY <1>4, <2>1, <2>3
<1>6. /\ <<f, a>> \in Walk /\ <<f, a>>[1] = f /\ <<f, a>>[2] = a
      /\ After(call.fmt, <<f, a>>) = <<f + 1, a>>
  BY <1>1, <1>4, <1>5, AfterIs DEF Char
<1>7. /\ WellFormedFrom(call.fmt)[<<f + 1, a>>] /\ SuitsFrom(call)[<<f + 1, a>>]
      /\ f + 1 \in 1 .. Len(call.fmt) + 1
  <2>1. f <= Len(call.fmt)
    BY <1>4, <1>5
  <2> QED
    BY <1>2, <1>4, <1>5, <1>6, <2>1, WalkGoesFrom, Zenon
<1>8. c = call.fmt[f] /\ c \in AnyCharacter
  <2>1. f <= Len(call.fmt)
    BY <1>4, <1>5
  <2> QED
    BY <1>2, <1>5, <2>1, CharTyped, CharactersAre DEF Char
<1>9. T[<<f, a>>] = <<c>> \o T[<<f + 1, a>>]
  <2>1. ~(f > Len(call.fmt))
    BY <1>4, <1>5
  <2>2. Piece(call, <<f, a>>) = <<c>>
    BY <1>1, <1>6, <1>8 DEF Piece
  <2> QED
    BY <1>2, <1>6, <2>1, <2>2, TextRecursion, Zenon
<1>10. IsText(T[<<f + 1, a>>])
  <2>1. <<f + 1, a>> \in Walk /\ <<f + 1, a>>[1] >= 1
    BY <1>4, <1>5 DEF Walk
  <2> QED
    BY <1>2, <1>7, <2>1, TextTyped
<1>11. PICK rest : IsText(rest) /\ Kept \o rest = T[<<1, 1>>] /\ rest = T[<<f, a>>]
  BY <1>1, <1>3 DEF CallInv, Left
<1>12. Kept' = Kept \o <<c>> /\ IsText(Kept')
  BY <1>1, <1>4, <1>8, KeptGrows
<1>13. Kept' \o T[<<f + 1, a>>] = T[<<1, 1>>]
  <2> HIDE DEF T, c
  <2>1. Kept \o (<<c>> \o T[<<f + 1, a>>]) = T[<<1, 1>>]
    BY <1>9, <1>11
  <2>2. (Kept \o <<c>>) \o T[<<f + 1, a>>] = T[<<1, 1>>]
    BY <1>4, <1>8, <1>10, <2>1, RestShrinks
  <2> QED
    BY <1>12, <2>2
<1>14. Left' = T[<<f + 1, a>>] /\ Place' = f + 1 /\ Text(call')[<<1, 1>>] = T[<<1, 1>>]
  BY <1>1 DEF Left, Place
<1> HIDE DEF T
<1> QED
  BY <1>1, <1>4, <1>7, <1>10, <1>12, <1>13, <1>14


LEMMA DirectiveExact == CallInv /\ Directive => CallInv'
<1> SUFFICES ASSUME CallInv, Directive PROVE CallInv'
  OBVIOUS
<1> DEFINE T == Text(call)
           d == CharOf(call.fmt, f + 1)
           arg == call.args[a]
<1>1. /\ pc = "scan" /\ CharOf(call.fmt, f) # NUL /\ Room /\ CharOf(call.fmt, f) = "%"
      /\ todo' = Written(d, arg) /\ a' = NextArg(d) /\ f' = f + 1 /\ pc' = "emit"
      /\ UNCHANGED <<call, size, written, buffer>>
  BY DEF Directive, More, Char
<1>2. Rest \in Seq(AnyCharacter) /\ Typed(call) /\ call.fmt \in Seq(Characters)
  BY DEF CallInv, Typed
<1>3. SUFFICES ASSUME WellFormed(call.fmt)
      PROVE /\ IsText(Kept')
            /\ \E rest : /\ IsText(rest) /\ Kept' \o rest = Text(call')[<<1, 1>>]
                         /\ Room' => rest = Left'
            /\ Place' \in 1 .. Len(call.fmt) + 1 /\ a' \in Nat \ {0}
            /\ WellFormedFrom(call.fmt)[<<Place', a'>>]
            /\ SuitsFrom(call)[<<Place', a'>>]
            /\ IsText(todo') /\ f' \in Nat
  BY <1>1, <1>2 DEF CallInv
<1>4. /\ f \in 1 .. Len(call.fmt) + 1 /\ a \in Nat \ {0} /\ Len(call.fmt) \in Nat
      /\ WellFormedFrom(call.fmt)[<<f, a>>] /\ SuitsFrom(call)[<<f, a>>] /\ IsText(Kept)
  BY <1>1, <1>2, <1>3 DEF CallInv, Place
<1>5. f \in 1 .. Len(call.fmt) /\ f \in Nat \ {0} /\ f <= Len(call.fmt) /\ ~(f > Len(call.fmt))
  <2>1. f \in Nat \ {0} /\ (f <= Len(call.fmt) \/ f = Len(call.fmt) + 1)
    BY <1>4
  <2>2. f # Len(call.fmt) + 1
    BY <1>1, <1>2, <2>1, CharTyped
  <2> QED
    BY <1>4, <2>1, <2>2
<1>6. /\ <<f, a>> \in Walk /\ <<f, a>>[1] = f /\ <<f, a>>[2] = a
      /\ After(call.fmt, <<f, a>>) = <<f + 2, a'>> /\ a' \in Nat \ {0}
  BY <1>1, <1>4, <1>5, AfterIs DEF NextArg
<1>7. call.fmt[f] = "%"
  BY <1>1, <1>2, <1>5, CharTyped
<1>8. /\ WellFormedFrom(call.fmt)[<<f + 2, a'>>] /\ SuitsFrom(call)[<<f + 2, a'>>]
      /\ f + 2 \in 1 .. Len(call.fmt) + 1
      /\ call.fmt[f + 1] = d /\ Suits(d, arg)
  <2>1. /\ WellFormedFrom(call.fmt)[<<f + 2, a'>>] /\ SuitsFrom(call)[<<f + 2, a'>>]
        /\ f + 2 \in 1 .. Len(call.fmt) + 1
        /\ CharOf(call.fmt, f + 1) = call.fmt[f + 1]
        /\ Suits(call.fmt[f + 1], call.args[a])
    <3> DEFINE u == f + 2
    <3>1. After(call.fmt, <<f, a>>) = <<u, a'>>
      BY <1>6
    <3> HIDE DEF d, arg, u
    <3>2. /\ WellFormedFrom(call.fmt)[<<u, a'>>] /\ SuitsFrom(call)[<<u, a'>>]
          /\ u \in 1 .. Len(call.fmt) + 1
          /\ call.fmt[f] = "%" => /\ CharOf(call.fmt, f + 1) = call.fmt[f + 1]
                                  /\ Suits(call.fmt[f + 1], call.args[a])
      BY <1>2, <1>4, <1>5, <3>1, WalkGoesFrom, Zenon
    <3> QED
      BY <1>7, <3>2, Zenon DEF u
  <2>2. d = call.fmt[f + 1]
    BY <1>1, <2>1, Zenon DEF Char
  <2> QED
    BY <2>1, <2>2, Zenon
<1> HIDE DEF d, arg
<1>9. Written(d, arg) = Meaning(d, arg) /\ IsText(Written(d, arg))
  BY <1>8, WrittenMeans
<1>10. T[<<f, a>>] = todo' \o T[<<f + 2, a'>>]
  <2>1. Piece(call, <<f, a>>) = Meaning(d, arg)
    BY <1>6, <1>7, <1>8, Zenon DEF Piece, arg
  <2> QED
    BY <1>1, <1>2, <1>5, <1>6, <1>9, <2>1, TextRecursion, Zenon
<1>11. PICK rest : IsText(rest) /\ Kept \o rest = T[<<1, 1>>] /\ rest = T[<<f, a>>]
  BY <1>1, <1>3 DEF CallInv, Left
<1>12. Left' = todo' \o T[<<f + 2, a'>>] /\ Place' = f + 2
  <2>1. pc' = "emit" /\ f' + 1 = f + 2 /\ call' = call
    BY <1>1, <1>5
  <2> QED
    BY <2>1, Zenon DEF Left, Place
<1>13. IsText(Kept') /\ Kept' \o rest = Text(call')[<<1, 1>>]
  BY <1>1, <1>3, <1>11, KeptStays
<1> HIDE DEF T
<1>14. rest = Left'
  BY <1>10, <1>11, <1>12
<1>15. IsText(todo') /\ f' \in Nat
  BY <1>1, <1>5, <1>9
<1> QED
  BY <1>6, <1>8, <1>11, <1>12, <1>13, <1>14, <1>15

LEMMA EmitExact == Bounded /\ CallInv /\ Emit => CallInv'
<1> SUFFICES ASSUME Bounded, CallInv, Emit PROVE CallInv'
  OBVIOUS
<1> DEFINE behind == Text(call)[<<f + 1, a>>]
           c == Head(todo)
           t == Tail(todo)
<1>1. /\ pc = "emit" /\ todo # <<>> /\ Room /\ Put(c) /\ todo' = t
      /\ UNCHANGED <<pc, call, size, f, a>>
  BY DEF Emit
<1>2. Rest \in Seq(AnyCharacter) /\ Typed(call) /\ call.fmt \in Seq(Characters)
  BY DEF CallInv, Typed
<1>3. SUFFICES ASSUME WellFormed(call.fmt)
      PROVE /\ IsText(Kept')
            /\ \E rest : /\ IsText(rest) /\ Kept' \o rest = Text(call')[<<1, 1>>]
                         /\ Room' => rest = Left'
            /\ Place' \in 1 .. Len(call.fmt) + 1 /\ a' \in Nat \ {0}
            /\ WellFormedFrom(call.fmt)[<<Place', a'>>]
            /\ SuitsFrom(call)[<<Place', a'>>]
            /\ IsText(todo') /\ f' \in Nat
  BY <1>1, <1>2 DEF CallInv
<1>4. /\ f + 1 \in 1 .. Len(call.fmt) + 1 /\ a \in Nat \ {0} /\ f \in Nat /\ IsText(todo) /\ IsText(Kept)
      /\ WellFormedFrom(call.fmt)[<<f + 1, a>>] /\ SuitsFrom(call)[<<f + 1, a>>]
      /\ Place' = f + 1 /\ Left' = t \o behind /\ Text(call') = Text(call)
  BY <1>1, <1>2, <1>3 DEF CallInv, Place, Left
<1>5. IsText(behind)
  <2>1. <<f + 1, a>> \in Walk /\ <<f + 1, a>>[1] >= 1
    BY <1>4 DEF Walk
  <2> QED
    BY <1>2, <1>4, <2>1, TextTyped
<1>6. PICK rest : IsText(rest) /\ Kept \o rest = Text(call)[<<1, 1>>] /\ rest = todo \o behind
  BY <1>1, <1>3 DEF CallInv, Left
<1> HIDE DEF behind
<1>7. /\ c \in AnyCharacter /\ IsText(t) /\ <<c>> \o t = todo
  BY <1>1, <1>4, HeadTailProperties DEF IsText
<1> HIDE DEF c, t
<1>8. IsText(t \o behind) /\ rest = <<c>> \o (t \o behind)
  <2> DEFINE e == <<c>>
  <2>1. e \in Seq(AnyCharacter)
    BY <1>7
  <2> HIDE DEF e
  <2>2. (e \o t) \o behind = e \o (t \o behind)
    BY <1>5, <1>7, <2>1, ConcatAssociative DEF IsText
  <2>3. IsText(t \o behind)
    BY <1>5, <1>7, ConcatProperties DEF IsText
  <2> QED
    BY <1>6, <1>7, <2>2, <2>3, Zenon DEF e
<1>9. Kept' = Kept \o <<c>> /\ IsText(Kept')
  BY <1>1, <1>4, <1>7, KeptGrows
<1>10. Kept \o (<<c>> \o (t \o behind)) = Text(call)[<<1, 1>>]
  BY <1>6, <1>8, Zenon
<1>11. (Kept \o <<c>>) \o (t \o behind) = Text(call)[<<1, 1>>]
  <2> DEFINE u == t \o behind
  <2>1. IsText(u) /\ Kept \o (<<c>> \o u) = Text(call)[<<1, 1>>]
    BY <1>8, <1>10, Zenon
  <2> HIDE DEF u
  <2>2. c \in AnyCharacter /\ IsText(Kept)
    BY <1>4, <1>7
  <2>3. (Kept \o <<c>>) \o u = Text(call)[<<1, 1>>]
    BY <2>1, <2>2, RestShrinks
  <2> QED
    BY <2>3, Zenon DEF u
<1>12. Kept' \o (t \o behind) = Text(call')[<<1, 1>>]
  BY <1>4, <1>9, <1>11, Zenon
<1> QED
  BY <1>1, <1>4, <1>7, <1>8, <1>9, <1>12


LEMMA EmitDoneExact == CallInv /\ EmitDone => CallInv'
<1> SUFFICES ASSUME CallInv, EmitDone PROVE CallInv'
  OBVIOUS
<1> DEFINE behind == Text(call)[<<f + 1, a>>]
<1>1. /\ pc = "emit" /\ (todo = <<>> \/ ~Room) /\ f' = f + 1 /\ pc' = "scan"
      /\ UNCHANGED <<call, size, a, written, buffer>>
  BY DEF EmitDone
<1>2. Rest \in Seq(AnyCharacter) /\ Typed(call) /\ call.fmt \in Seq(Characters)
  BY DEF CallInv, Typed
<1>3. SUFFICES ASSUME WellFormed(call.fmt)
      PROVE /\ IsText(Kept')
            /\ \E rest : /\ IsText(rest) /\ Kept' \o rest = Text(call')[<<1, 1>>]
                         /\ Room' => rest = Left'
            /\ Place' \in 1 .. Len(call.fmt) + 1 /\ a' \in Nat \ {0}
            /\ WellFormedFrom(call.fmt)[<<Place', a'>>]
            /\ SuitsFrom(call)[<<Place', a'>>]
  BY <1>1, <1>2 DEF CallInv
<1>4. /\ f + 1 \in 1 .. Len(call.fmt) + 1 /\ a \in Nat \ {0} /\ f \in Nat
      /\ WellFormedFrom(call.fmt)[<<f + 1, a>>] /\ SuitsFrom(call)[<<f + 1, a>>]
      /\ Place' = f + 1 /\ Left' = behind /\ Text(call') = Text(call)
  BY <1>1, <1>2, <1>3 DEF CallInv, Place, Left
<1>5. IsText(behind)
  <2>1. <<f + 1, a>> \in Walk /\ <<f + 1, a>>[1] >= 1
    BY <1>4 DEF Walk
  <2> QED
    BY <1>2, <1>4, <2>1, TextTyped
<1>6. PICK rest : /\ IsText(rest) /\ Kept \o rest = Text(call)[<<1, 1>>]
                  /\ Room => rest = todo \o behind
  BY <1>1, <1>3 DEF CallInv, Left
<1>7. IsText(Kept') /\ Kept' \o rest = Text(call')[<<1, 1>>] /\ Room' = Room
  BY <1>1, <1>3, <1>6, KeptStays
<1> HIDE DEF behind
<1>8. Room => rest = behind
  <2>1. <<>> \o behind = behind
    BY <1>5, ConcatEmptySeq DEF IsText
  <2> QED
    BY <1>1, <1>6, <2>1
<1> QED
  BY <1>1, <1>4, <1>6, <1>7, <1>8

LEMMA CloseExact == Bounded /\ CallInv /\ Close => CallInv'
<1> SUFFICES ASSUME Bounded, CallInv, Close PROVE CallInv'
  OBVIOUS
<1>1. /\ pc = "scan" /\ (CharOf(call.fmt, f) = NUL \/ ~Room) /\ pc' = "done"
      /\ buffer' = [buffer EXCEPT ![written] = NUL]
      /\ UNCHANGED <<call, size, f, a, todo, written>>
  BY DEF Close, More, Char
<1>2. Rest \in Seq(AnyCharacter) /\ Typed(call) /\ call.fmt \in Seq(Characters)
  BY DEF CallInv, Typed
<1>3. SUFFICES ASSUME WellFormed(call.fmt)
      PROVE /\ IsText(Kept')
            /\ \E rest : /\ IsText(rest) /\ Kept' \o rest = Text(call')[<<1, 1>>]
                         /\ Room' => rest = Left'
            /\ buffer'[written'] = NUL
  BY <1>1, <1>2 DEF CallInv
<1>4. /\ written \in Nat /\ written \in DOMAIN buffer
  BY FormatAssumption DEF Bounded
<1>5. buffer'[written'] = NUL
  BY <1>1, <1>4
<1>6. Kept' = Kept
  <2>1. \A i \in 1 .. written : i - 1 # written /\ i - 1 \in DOMAIN buffer
    BY <1>4, FormatAssumption DEF Bounded
  <2>2. \A i \in 1 .. written : buffer'[i - 1] = buffer[i - 1]
    BY <1>1, <2>1
  <2> QED
    BY <1>1, <2>2 DEF Kept
<1>7. f \in 1 .. Len(call.fmt) + 1 /\ a \in Nat \ {0} /\ Len(call.fmt) \in Nat /\ IsText(Kept)
  BY <1>1, <1>2, <1>3 DEF CallInv, Place
<1>8. PICK rest : /\ IsText(rest) /\ Kept \o rest = Text(call)[<<1, 1>>]
                  /\ Room => rest = Text(call)[<<f, a>>]
  BY <1>1, <1>3 DEF CallInv, Left
<1>9. Room => rest = <<>>
  <2> SUFFICES ASSUME Room PROVE rest = <<>>
    OBVIOUS
  <2>1. f \in Nat \ {0} /\ CharOf(call.fmt, f) = NUL
    BY <1>1, <1>7
  <2>2. ~(f <= Len(call.fmt))
    BY <1>2, <2>1, CharTyped
  <2>3. f > Len(call.fmt)
    BY <1>7, <2>2
  <2>4. <<f, a>> \in Walk /\ <<f, a>>[1] = f
    BY <1>7 DEF Walk
  <2>5. Text(call)[<<f, a>>] = <<>>
    BY <1>2, <2>3, <2>4, TextRecursion
  <2> QED
    BY <1>8, <2>5
<1>10. Room' = Room /\ Left' = <<>> /\ Text(call') = Text(call)
  BY <1>1 DEF Room, Left
<1> QED
  BY <1>5, <1>6, <1>7, <1>8, <1>9, <1>10

\* A call starts with nothing kept and its whole text left.
LEMMA CallStarts ==
  ASSUME Rest \in Seq(AnyCharacter), NEW c, Typed(c), WellFormed(c.fmt)
  PROVE  /\ WellFormedFrom(c.fmt)[<<1, 1>>] /\ SuitsFrom(c)[<<1, 1>>]
         /\ IsText(Text(c)[<<1, 1>>]) /\ IsText(LogText(c)[<<1, 1>>])
         /\ c.fmt \in Seq(Characters) /\ 1 \in 1 .. Len(c.fmt) + 1
<1>1. c.fmt \in Seq(Characters) /\ SuitsFrom(c)[<<1, 1>>]
  BY DEF Typed
<1>2. WellFormedFrom(c.fmt)[<<1, 1>>]
  BY DEF WellFormed
<1>3. <<1, 1>> \in Walk /\ <<1, 1>>[1] >= 1
  BY DEF Walk
<1>4. IsText(Text(c)[<<1, 1>>]) /\ IsText(LogText(c)[<<1, 1>>])
  BY <1>1, <1>2, <1>3, TextTyped
<1>5. 1 \in 1 .. Len(c.fmt) + 1
  BY <1>1
<1> QED
  BY <1>1, <1>2, <1>4, <1>5

LEMMA CallNext == Bounded /\ CallInv /\ [Next]_vars => CallInv'
<1>1. CallInv /\ UNCHANGED vars => CallInv'
  <2> SUFFICES ASSUME CallInv, UNCHANGED vars PROVE CallInv'
    OBVIOUS
  <2>1. UNCHANGED <<pc, call, size, f, a, todo, written, buffer>>
    BY DEF vars
  <2>2. Kept' = Kept /\ Left' = Left /\ Place' = Place /\ Room' = Room
    BY <2>1 DEF Kept, Left, Place, Room
  <2> QED
    BY <2>1, <2>2 DEF CallInv
<1> QED
  BY <1>1, LiteralExact, DirectiveExact, EmitExact, EmitDoneExact, CloseExact DEF Next

\* A call that starts.
CallStart == pc = "scan" /\ f = 1 /\ a = 1 /\ written = 0

LEMMA CallInit ==
  ASSUME Rest \in Seq(AnyCharacter), Typed(call), CallStart
  PROVE  CallInv
<1> SUFFICES ASSUME WellFormed(call.fmt)
    PROVE /\ IsText(Kept)
          /\ \E rest : /\ IsText(rest) /\ Kept \o rest = Text(call)[<<1, 1>>]
                       /\ Room => rest = Left
          /\ Place \in 1 .. Len(call.fmt) + 1 /\ a \in Nat \ {0}
          /\ WellFormedFrom(call.fmt)[<<Place, a>>]
          /\ SuitsFrom(call)[<<Place, a>>]
  BY DEF CallInv, CallStart
<1>1. pc = "scan" /\ f = 1 /\ a = 1 /\ written = 0
  BY DEF CallStart
<1>2. Kept = <<>>
  BY <1>1 DEF Kept
<1>3. Place = 1 /\ Left = Text(call)[<<1, 1>>] /\ a \in Nat \ {0}
  BY <1>1 DEF Place, Left
<1> DEFINE whole == Text(call)[<<1, 1>>]
<1>4. IsText(whole)
  BY CallStarts
<1> HIDE DEF whole
<1>5. <<>> \o whole = whole /\ IsText(<<>>)
  BY <1>4, ConcatEmptySeq DEF IsText
<1> QED
  BY <1>1, <1>2, <1>3, <1>4, <1>5, CallStarts DEF whole

\* At the end of a call the buffer is right.
LEMMA CallEnds == Bounded /\ CallInv => Exact
<1> SUFFICES ASSUME Bounded, CallInv, pc = "done", WellFormed(call.fmt)
             PROVE  LET text == TextOf(call, Meaning)
                        n    == IF Len(text) < size THEN Len(text) ELSE size - 1
                    IN  /\ \A i \in 1 .. n : buffer[i - 1] = text[i]
                        /\ buffer[n] = NUL
  BY Zenon DEF Exact
<1> DEFINE text == Text(call)[<<1, 1>>]
<1>1. call.fmt \in Seq(Characters)
  BY DEF CallInv, Typed
<1>2. TextOf(call, Meaning) = text
  BY <1>1, TextRecursion
<1>3. PICK rest : /\ IsText(rest) /\ Kept \o rest = text
                  /\ Room => rest = <<>>
  BY DEF CallInv, Left
<1>4. IsText(Kept) /\ buffer[written] = NUL
  BY DEF CallInv
<1>5. written \in Nat /\ size \in Nat /\ written <= size - 1
  BY FormatAssumption DEF Bounded
<1>6. Len(Kept) = written /\ \A i \in 1 .. written : Kept[i] = buffer[i - 1]
  BY <1>5 DEF Kept
<1> DEFINE k == Kept
<1> HIDE DEF text
<1>7. /\ Len(text) = written + Len(rest) /\ Len(rest) \in Nat
      /\ \A i \in 1 .. written : text[i] = Kept[i]
  <2> HIDE DEF k
  <2>1. k \in Seq(AnyCharacter) /\ rest \in Seq(AnyCharacter) /\ k \o rest = text /\ Len(k) = written
    BY <1>3, <1>4, <1>6 DEF IsText, k
  <2>2. \A i \in 1 .. written : i \in 1 .. Len(k) + Len(rest) /\ i <= Len(k)
    BY <1>5, <2>1
  <2>3. /\ Len(k \o rest) = Len(k) + Len(rest) /\ Len(rest) \in Nat
        /\ \A i \in 1 .. written : (k \o rest)[i] = k[i]
    BY <2>1, <2>2, ConcatProperties, LenProperties
  <2> QED
    BY <2>1, <2>3 DEF k
<1>8. ~Room => written = size - 1
  BY <1>5 DEF Room
<1>9. Room => Len(rest) = 0
  BY <1>3
<1>10. (IF Len(text) < size THEN Len(text) ELSE size - 1) = written
  <2>1. CASE Room
    BY <1>5, <1>7, <1>9, <2>1 DEF Room
  <2>2. CASE ~Room
    BY <1>5, <1>7, <1>8, <2>2
  <2> QED
    BY <2>1, <2>2
<1>11. \A i \in 1 .. written : buffer[i - 1] = text[i]
  BY <1>6, <1>7
<1> QED
  BY <1>2, <1>4, <1>10, <1>11, Zenon

\* Of any call whose arguments suit its directives the buffer ends up with the text,
\* cut to fit, and a NUL (stdio.c:21-126).
THEOREM TextIsExact ==
  ASSUME CallsTyped
  PROVE  Spec => []Exact
<1> DEFINE Inv == Bounded /\ CallInv
<1>1. Init => Inv
  <2>1. Init => call \in Calls /\ CallStart
    BY DEF Init, CallStart
  <2> QED
    BY <2>1, BoundedInit, CallInit DEF CallsTyped
<1>2. Inv /\ [Next]_vars => Inv'
  BY BoundedNext, CallNext
<1>3. Inv => Exact
  BY CallEnds
<1> QED
  BY <1>1, <1>2, <1>3, PTL DEF Spec


-----------------------------------------------------------------------------
(* Sequences of sequences                                                  *)

\* Two functions agree up to m; and what FlattenSeq collects up to each place.
Alike(s, t, m) == \A i \in 1 .. m : s[i] = t[i]
Flat(F, s, n) == F = [i \in 1 .. n |-> IF i = 1 THEN s[i] ELSE F[i - 1] \o s[i]]

LEMMA FlatExists ==
  ASSUME NEW s, NEW n \in Nat \ {0}
  PROVE  \E F : Flat(F, s, n)
<1> DEFINE P == 1 .. n
           rank == [i \in P |-> i]
           x == [i \in P |-> s[i]]
           next == [i \in P |-> i - 1]
           base == s[1]
<1>1. rank \in [P -> 0 .. n] /\ n \in Nat /\ {1} \in SUBSET P
  OBVIOUS
<1>2. \A p \in P \ {1} : next[p] \in P /\ rank[next[p]] < rank[p]
  OBVIOUS
<1>3. \E F : Recursive(F, P, {1}, base, "last", x, next)
  <2> HIDE DEF P, rank, x, next, base
  <2> QED
    BY <1>1, <1>2, RecursionExists
<1>4. PICK F : F = [i \in P |-> IF i \in {1} THEN base ELSE Combined("last", x[i], F[next[i]])]
  BY <1>3 DEF Recursive
<1>5. ASSUME NEW i \in P
      PROVE  (IF i \in {1} THEN base ELSE Combined("last", x[i], F[next[i]]))
               = IF i = 1 THEN s[i] ELSE F[i - 1] \o s[i]
  <2>1. Combined("last", x[i], F[next[i]]) = F[next[i]] \o x[i]
    BY Zenon DEF Combined
  <2>2. next[i] = i - 1 /\ x[i] = s[i]
    OBVIOUS
  <2>3. i = 1 => base = s[i]
    OBVIOUS
  <2> HIDE DEF P, x, next, base
  <2> QED
    BY <2>1, <2>2, <2>3, Zenon
<1> HIDE DEF P, x, next, base
<1>6. F = [i \in P |-> IF i = 1 THEN s[i] ELSE F[i - 1] \o s[i]]
  BY <1>4, <1>5, Zenon
<1> QED
  BY <1>6, Zenon DEF Flat, P

\* Up to a place it depends on the sequences up to there only.
LEMMA FlatAgrees ==
  ASSUME NEW s, NEW t, NEW n \in Nat, NEW m \in Nat, NEW F, NEW G,
         Flat(F, s, n), Flat(G, t, m), m <= n, Alike(s, t, m)
  PROVE  Alike(F, G, m)
<1> DEFINE Bad == {i \in 1 .. m : F[i] # G[i]}
<1>1. ASSUME Bad # {} PROVE FALSE
  <2>1. Bad \in SUBSET Nat
    OBVIOUS
  <2>2. PICK k \in Bad : \A y \in Bad : k <= y
    <3> HIDE DEF Bad
    <3> QED
      BY <1>1, <2>1, LeastOf
  <2>3. k \in 1 .. m /\ k \in 1 .. n /\ F[k] # G[k] /\ s[k] = t[k]
    BY DEF Alike
  <2>4. F[k] = (IF k = 1 THEN s[k] ELSE F[k - 1] \o s[k]) /\ G[k] = (IF k = 1 THEN t[k] ELSE G[k - 1] \o t[k])
    <3>1. [i \in 1 .. n |-> IF i = 1 THEN s[i] ELSE F[i - 1] \o s[i]][k] = (IF k = 1 THEN s[k] ELSE F[k - 1] \o s[k])
      BY <2>3, Zenon
    <3>2. [i \in 1 .. m |-> IF i = 1 THEN t[i] ELSE G[i - 1] \o t[i]][k] = (IF k = 1 THEN t[k] ELSE G[k - 1] \o t[k])
      BY <2>3, Zenon
    <3> QED
      BY <3>1, <3>2, Zenon DEF Flat
  <2>5. k # 1
    BY <2>3, <2>4
  <2>6. k - 1 \in 1 .. m /\ ~(k <= k - 1)
    BY <2>3, <2>5
  <2>7. F[k - 1] = G[k - 1]
    BY <2>2, <2>6
  <2> QED
    BY <2>3, <2>4, <2>5, <2>7, Zenon
<1> QED
  BY <1>1 DEF Alike

\* The sequences from 1 to n, one behind the other.
LEMMA FlattenIs ==
  ASSUME NEW s, NEW n \in Nat \ {0}, s = [i \in 1 .. n |-> s[i]]
  PROVE  \E F : Flat(F, s, n) /\ FlattenSeq(s) = F[n]
<1>1. Len(s) = n
  OBVIOUS
<1>2. \E F : F = [i \in 1 .. n |-> IF i = 1 THEN s[i] ELSE F[i - 1] \o s[i]]
  BY FlatExists, Zenon DEF Flat
<1> DEFINE F == CHOOSE F : F = [i \in 1 .. n |-> IF i = 1 THEN s[i] ELSE F[i - 1] \o s[i]]
<1>3. F = [i \in 1 .. n |-> IF i = 1 THEN s[i] ELSE F[i - 1] \o s[i]]
  BY <1>2, Zenon
<1>4. n # 0
  OBVIOUS
<1>5. FlattenSeq(s) = F[n]
  BY <1>1, <1>4, Zenon DEF FlattenSeq
<1> QED
  BY <1>3, <1>5, Zenon DEF Flat

LEMMA FlattenEmpty == FlattenSeq(<<>>) = <<>>
BY DEF FlattenSeq



\* The last sequence comes behind the others.
LEMMA FlattenLast ==
  ASSUME NEW S, NEW n \in Nat \ {0}, NEW s, s = [i \in 1 .. n |-> s[i]], s[n] \in Seq(S)
  PROVE  FlattenSeq(s) = FlattenSeq([i \in 1 .. n - 1 |-> s[i]]) \o s[n]
<1> DEFINE t == [i \in 1 .. n - 1 |-> s[i]]
<1>1. PICK F : Flat(F, s, n) /\ FlattenSeq(s) = F[n]
  BY FlattenIs
<1>2. F[n] = (IF n = 1 THEN s[n] ELSE F[n - 1] \o s[n])
  <2>1. n \in 1 .. n
    OBVIOUS
  <2>2. [i \in 1 .. n |-> IF i = 1 THEN s[i] ELSE F[i - 1] \o s[i]][n] = (IF n = 1 THEN s[n] ELSE F[n - 1] \o s[n])
    BY <2>1, Zenon
  <2> QED
    BY <1>1, <2>2, Zenon DEF Flat
<1>3. CASE n = 1
  <2>1. t = <<>>
    BY <1>3
  <2>2. <<>> \o s[n] = s[n]
    BY ConcatEmptySeq
  <2> HIDE DEF t
  <2>3. FlattenSeq(t) = <<>>
    BY <2>1, FlattenEmpty, Zenon
  <2>4. FlattenSeq(s) = FlattenSeq(t) \o s[n]
    BY <1>1, <1>2, <1>3, <2>2, <2>3, Zenon
  <2> QED
    BY <2>4 DEF t
<1>4. CASE n # 1
  <2>1. n - 1 \in Nat \ {0} /\ n - 1 <= n /\ n - 1 \in Nat /\ n - 1 \in 1 .. n - 1
    BY <1>4
  <2>2. t = [i \in 1 .. n - 1 |-> t[i]] /\ \A i \in 1 .. n - 1 : s[i] = t[i]
    OBVIOUS
  <2> HIDE DEF t
  <2>3. PICK G : Flat(G, t, n - 1) /\ FlattenSeq(t) = G[n - 1]
    BY <2>1, <2>2, FlattenIs
  <2>4. Alike(s, t, n - 1)
    BY <2>2 DEF Alike
  <2>6. Alike(F, G, n - 1)
    BY <1>1, <2>1, <2>3, <2>4, FlatAgrees
  <2>7. F[n - 1] = G[n - 1]
    BY <2>1, <2>6 DEF Alike
  <2>5. FlattenSeq(s) = FlattenSeq(t) \o s[n]
    BY <1>1, <1>2, <1>4, <2>3, <2>7, Zenon
  <2> QED
    BY <2>5 DEF t
<1> QED
  BY <1>3, <1>4

\* Sequences over a set make up one over it.
LEMMA FlattenTyped ==
  ASSUME NEW S, NEW s \in Seq(Seq(S))
  PROVE  FlattenSeq(s) \in Seq(S)
<1> DEFINE n == Len(s)
<1>1. n \in Nat /\ s = [i \in 1 .. n |-> s[i]] /\ \A i \in 1 .. n : s[i] \in Seq(S)
  OBVIOUS
<1> HIDE DEF n
<1>2. CASE n = 0
  <2>1. s = <<>>
    BY <1>1, <1>2
  <2>2. <<>> \in Seq(S)
    OBVIOUS
  <2> QED
    BY <2>1, <2>2, FlattenEmpty, Zenon
<1>3. CASE n # 0
  <2>1. n \in Nat \ {0}
    BY <1>1, <1>3
  <2>2. PICK F : Flat(F, s, n) /\ FlattenSeq(s) = F[n]
    BY <1>1, <2>1, FlattenIs
  <2> DEFINE Bad == {i \in 1 .. n : F[i] \notin Seq(S)}
  <2>3. ASSUME Bad # {} PROVE FALSE
    <3>1. Bad \in SUBSET Nat
      OBVIOUS
    <3>2. PICK k \in Bad : \A y \in Bad : k <= y
      <4> HIDE DEF Bad
      <4> QED
        BY <2>3, <3>1, LeastOf
    <3>3. k \in 1 .. n /\ F[k] \notin Seq(S) /\ s[k] \in Seq(S)
      BY <1>1
    <3>4. F[k] = (IF k = 1 THEN s[k] ELSE F[k - 1] \o s[k])
      <4>1. [i \in 1 .. n |-> IF i = 1 THEN s[i] ELSE F[i - 1] \o s[i]][k] = (IF k = 1 THEN s[k] ELSE F[k - 1] \o s[k])
        BY <3>3, Zenon
      <4> QED
        BY <2>2, <4>1, Zenon DEF Flat
    <3>5. k # 1
      BY <3>3, <3>4
    <3>6. k - 1 \in 1 .. n /\ ~(k <= k - 1)
      BY <1>1, <3>3, <3>5
    <3>7. F[k - 1] \in Seq(S)
      BY <3>2, <3>6
    <3>8. F[k - 1] \o s[k] \in Seq(S)
      BY <3>3, <3>7, ConcatProperties
    <3> QED
      BY <3>3, <3>4, <3>5, <3>8, Zenon
  <2>4. n \in 1 .. n
    BY <2>1
  <2> QED
    BY <2>2, <2>3, <2>4
<1> QED
  BY <1>2, <1>3

-----------------------------------------------------------------------------
(* The rows of the memory table fit                                        *)

\* From a place on the format is well-formed, its arguments suit, and what it writes
\* has no NUL and at most m characters.
Fits(c, i, j, m) ==
    /\ WellFormedFrom(c.fmt)[<<i, j>>] /\ SuitsFrom(c)[<<i, j>>]
    /\ Text(c)[<<i, j>>] \in Seq(Characters) /\ Len(Text(c)[<<i, j>>]) <= m

LEMMA FitsAtEnd ==
  ASSUME NEW c, c.fmt \in Seq(Characters), Rest \in Seq(AnyCharacter), NEW j \in Nat
  PROVE  Fits(c, Len(c.fmt) + 1, j, 0)
<1> DEFINE i == Len(c.fmt) + 1
           w == <<i, j>>
<1>1. i \in Nat \ {0} /\ i > Len(c.fmt) /\ w \in Walk /\ w[1] = i
  BY DEF Walk
<1>2. CharOf(c.fmt, i) = NUL
  BY <1>1, CharTyped
<1> HIDE DEF i, w
<1>3. WellFormedFrom(c.fmt)[w]
  BY <1>1, WellFormedRecursion
<1>4. SuitsFrom(c)[w]
  BY <1>1, <1>2, SuitsRecursion DEF StopsAt
<1>5. Text(c)[w] = <<>>
  BY <1>1, TextRecursion
<1> QED
  BY <1>3, <1>4, <1>5 DEF Fits, w, i

LEMMA FitsBefore ==
  ASSUME NEW c, c.fmt \in Seq(Characters), Rest \in Seq(AnyCharacter),
         NEW i \in Nat \ {0}, i <= Len(c.fmt), NEW j \in Nat, NEW m \in Nat, NEW k \in Nat,
         NEW u, NEW v,
         c.fmt[i] = "%" => i < Len(c.fmt) /\ Suits(c.fmt[i + 1], c.args[j]),
         Piece(c, <<i, j>>) \in Seq(Characters), Len(Piece(c, <<i, j>>)) <= k,
         After(c.fmt, <<i, j>>) = <<u, v>>, Fits(c, u, v, m)
  PROVE  Fits(c, i, j, m + k)
<1> DEFINE w == <<i, j>>
           p == Piece(c, w)
           t == Text(c)[<<u, v>>]
<1>1. w \in Walk /\ w[1] = i /\ w[2] = j /\ ~(i > Len(c.fmt))
  BY DEF Walk
<1>2. CharOf(c.fmt, i) = c.fmt[i]
  BY CharTyped
<1>3. c.fmt[i] = "%" => CharOf(c.fmt, i + 1) = c.fmt[i + 1]
  <2>1. i < Len(c.fmt) => i + 1 \in Nat \ {0} /\ i + 1 <= Len(c.fmt)
    OBVIOUS
  <2> QED
    BY <2>1, CharTyped
<1>4. WellFormedFrom(c.fmt)[<<i, j>>]
  <2>1. WellFormedFrom(c.fmt)[After(c.fmt, w)]
    BY DEF Fits
  <2>2. c.fmt[w[1]] = "%" => w[1] < Len(c.fmt)
    BY <1>1
  <2> HIDE DEF w
  <2>3. WellFormedFrom(c.fmt)[w]
    BY <1>1, <2>1, <2>2, WellFormedRecursion, Zenon
  <2> QED
    BY <2>3 DEF w
<1>5. SuitsAt(c, w)
  BY <1>1, <1>2, <1>3 DEF SuitsAt
<1>6. SuitsFrom(c)[<<i, j>>]
  <2>1. SuitsFrom(c)[After(c.fmt, w)]
    BY DEF Fits
  <2> HIDE DEF w
  <2>2. SuitsFrom(c)[w]
    BY <1>1, <1>5, <2>1, SuitsRecursion, Zenon
  <2> QED
    BY <2>2 DEF w
<1>7. Text(c)[w] = p \o t
  BY <1>1, TextRecursion, Zenon
<1>8. t \in Seq(Characters) /\ Len(t) <= m /\ p \in Seq(Characters) /\ Len(p) <= k
  BY DEF Fits
<1> HIDE DEF p, t, w
<1>9. p \o t \in Seq(Characters) /\ Len(p \o t) = Len(p) + Len(t) /\ Len(p) \in Nat /\ Len(t) \in Nat
  BY <1>8, ConcatLength
<1>10. Len(p \o t) <= m + k
  BY <1>8, <1>9
<1> QED
  BY <1>4, <1>6, <1>7, <1>9, <1>10, Zenon DEF Fits, w


\* What a number takes as %d and as %p.
LEMMA NumbersFit ==
  ASSUME NEW n \in Numbers
  PROVE  /\ Meaning("d", n) \in Seq(Characters) /\ Len(Meaning("d", n)) <= 11
         /\ Meaning("p", n) \in Seq(Characters) /\ Len(Meaning("p", n)) <= 18
         /\ n \in 0 .. 99 => Len(Meaning("d", n)) <= 2
         /\ Suits("d", n) /\ Suits("p", n)
<1>1. Suits("d", n) /\ Suits("p", n)
  BY DEF Suits
<1>2. Written("d", n) = Signed(n) /\ Written("p", n) = <<"0", "x">> \o Nibbles(16, n)
  BY Zenon DEF Written
<1>3. Meaning("d", n) = Signed(n)
  BY <1>1, <1>2, WrittenMeans, Zenon
<1>4. Meaning("p", n) = <<"0", "x">> \o Nibbles(16, n)
  BY <1>1, <1>2, WrittenMeans, Zenon
<1>5. Signed(n) \in Seq(Characters) /\ Len(Signed(n)) <= 11
  BY SignedMeans, Zenon
<1>6. Meaning("p", n) \in Seq(Characters) /\ Len(Meaning("p", n)) <= 18
  <2>1. 18 <= 18
    OBVIOUS
  <2>2. /\ <<"0", "x">> \o Nibbles(16, n) \in Seq(Characters)
        /\ Len(<<"0", "x">> \o Nibbles(16, n)) = 18
    BY PointerMeans, Zenon
  <2> QED
    BY <1>4, <2>1, <2>2, Zenon
<1>7. n \in 0 .. 99 => Len(Meaning("d", n)) <= 2
  <2> SUFFICES ASSUME n >= 0, n <= 99, n \in Nat PROVE Len(Meaning("d", n)) <= 2
    BY SMT
  <2>1. Width(n) \in 1 .. 10 /\ n \div Tens[Width(n)] \in (IF Width(n) = 1 THEN 0 ELSE 1) .. 9
    BY WidthIs
  <2>2. Width(n) <= 2
    <3> DEFINE w == Width(n)
    <3>1. w \in 1 .. 10 /\ n \div Tens[w] \in (IF w = 1 THEN 0 ELSE 1) .. 9
      BY <2>1
    <3> HIDE DEF w
    <3>2. /\ Tens[3] = 100 /\ Tens[4] = 1000 /\ Tens[5] = 10000 /\ Tens[6] = 100000
          /\ Tens[7] = 1000000 /\ Tens[8] = 10000000 /\ Tens[9] = 100000000
          /\ Tens[10] = 1000000000
      BY SMT DEF Tens
    <3>3. /\ n \div 100 = 0 /\ n \div 1000 = 0 /\ n \div 10000 = 0 /\ n \div 100000 = 0
          /\ n \div 1000000 = 0 /\ n \div 10000000 = 0 /\ n \div 100000000 = 0
          /\ n \div 1000000000 = 0
      BY SMT
    <3>4. w = 1 \/ w = 2 \/ w = 3 \/ w = 4 \/ w = 5 \/ w = 6 \/ w = 7 \/ w = 8 \/ w = 9 \/ w = 10
      BY <3>1, SMT
    <3>5. w > 2 => n \div Tens[w] = 0
      BY <3>2, <3>3, <3>4, SMT
    <3>6. w # 1 => n \div Tens[w] # 0
      BY <3>1, SMT
    <3>7. w <= 2
      BY <3>1, <3>5, <3>6, SMT
    <3> QED
      BY <3>7 DEF w
  <2>3. Signed(n) = Unsigned(n)
    BY DEF Signed
  <2>4. Unsigned(n) = Places(n, Tens, Width(n))
    BY UnsignedMeans DEF Decimal
  <2>5. Width(n) \in 0 .. (IF Tens = Tens THEN 10 ELSE 8)
    BY <2>1
  <2>6. Len(Places(n, Tens, Width(n))) = Width(n)
    BY <2>5, PlacesAreCharacters
  <2> QED
    BY <1>3, <2>2, <2>3, <2>4, <2>6, Zenon
<1> QED
  BY <1>1, <1>3, <1>5, <1>6, <1>7, Zenon

\* A directive of a number, ...
LEMMA FitsDirective ==
  ASSUME NEW c, c.fmt \in Seq(Characters), Rest \in Seq(AnyCharacter),
         NEW i \in Nat \ {0}, i < Len(c.fmt), NEW j \in Nat, NEW m \in Nat, NEW k \in Nat,
         c.fmt[i] = "%", c.fmt[i + 1] \in {"d", "p"}, c.args[j] \in Numbers,
         Len(Meaning(c.fmt[i + 1], c.args[j])) <= k, Fits(c, i + 2, j + 1, m)
  PROVE  Fits(c, i, j, m + k)
<1> DEFINE d == c.fmt[i + 1]
           arg == c.args[j]
<1>1. Suits(d, arg) /\ Meaning(d, arg) \in Seq(Characters)
  BY NumbersFit
<1>2. Piece(c, <<i, j>>) = Meaning(d, arg)
  BY DEF Piece
<1>3. i \in Nat /\ i <= Len(c.fmt) /\ i + 1 \in Nat \ {0} /\ i + 1 <= Len(c.fmt)
  OBVIOUS
<1>4. CharOf(c.fmt, i) = "%" /\ CharOf(c.fmt, i + 1) = d
  BY <1>3, CharTyped
<1>5. After(c.fmt, <<i, j>>) = <<i + 2, j + 1>>
  <2>1. d \in TakesArg
    BY DEF TakesArg
  <2> HIDE DEF d
  <2> QED
    BY <1>3, <1>4, <2>1, AfterIs
<1> QED
  BY <1>1, <1>2, <1>3, <1>5, FitsBefore

\* ... and a run of n characters.
LEMMA FitsOne ==
  ASSUME NEW c, c.fmt \in Seq(Characters), Rest \in Seq(AnyCharacter),
         NEW i \in Nat \ {0}, i <= Len(c.fmt), NEW j \in Nat, NEW m \in Nat,
         c.fmt[i] # "%", Fits(c, i + 1, j, m)
  PROVE  Fits(c, i, j, m + 1)
<1>1. Piece(c, <<i, j>>) = <<c.fmt[i]>>
  BY DEF Piece
<1>2. c.fmt[i] \in Characters /\ CharOf(c.fmt, i) = c.fmt[i]
  BY CharTyped
<1>3. Piece(c, <<i, j>>) \in Seq(Characters) /\ Len(Piece(c, <<i, j>>)) <= 1
  <2> DEFINE x == c.fmt[i]
  <2>1. x \in Characters /\ Piece(c, <<i, j>>) = <<x>>
    BY <1>1, <1>2
  <2> HIDE DEF x
  <2>2. <<x>> \in Seq(Characters) /\ Len(<<x>>) <= 1
    BY <2>1
  <2> QED
    BY <2>1, <2>2, Zenon
<1>4. After(c.fmt, <<i, j>>) = <<i + 1, j>>
  <2>1. i \in Nat /\ CharOf(c.fmt, i) # "%"
    BY <1>2
  <2> QED
    BY <2>1, AfterIs
<1>5. 1 \in Nat
  OBVIOUS
<1> QED
  BY <1>3, <1>4, <1>5, FitsBefore

LEMMA FitsRun ==
  ASSUME NEW c, c.fmt \in Seq(Characters), Rest \in Seq(AnyCharacter),
         NEW i \in Nat \ {0}, NEW n \in Nat, i + n <= Len(c.fmt) + 1, NEW j \in Nat, NEW m \in Nat,
         \A k \in i .. i + n - 1 : c.fmt[k] # "%", Fits(c, i + n, j, m)
  PROVE  Fits(c, i, j, m + n)
<1> DEFINE Bad == {l \in 0 .. n : ~Fits(c, i + n - l, j, m + l)}
<1>1. ASSUME Bad # {} PROVE FALSE
  <2>1. Bad \in SUBSET Nat
    OBVIOUS
  <2>2. PICK l \in Bad : \A y \in Bad : l <= y
    <3> HIDE DEF Bad
    <3> QED
      BY <1>1, <2>1, LeastOf
  <2>3. l \in 0 .. n /\ ~Fits(c, i + n - l, j, m + l)
    OBVIOUS
  <2>4. l # 0
    <3>1. i + n - 0 = i + n /\ m + 0 = m
      OBVIOUS
    <3> QED
      BY <2>3, <3>1
  <2> DEFINE p == i + n - l
             q == m + (l - 1)
  <2>5. /\ l - 1 \in 0 .. n /\ ~(l <= l - 1) /\ p \in Nat \ {0} /\ q \in Nat /\ p <= Len(c.fmt)
        /\ p \in i .. i + n - 1 /\ i + n - (l - 1) = p + 1 /\ m + l = q + 1
    BY <2>3, <2>4
  <2>6. Fits(c, p + 1, j, q)
    <3>1. l - 1 \notin Bad
      <4> HIDE DEF Bad
      <4> QED
        BY <2>2, <2>5
    <3>2. Fits(c, i + n - (l - 1), j, m + (l - 1))
      BY <2>5, <3>1
    <3> QED
      BY <2>5, <3>2
  <2>7. c.fmt[p] # "%"
    BY <2>5
  <2> HIDE DEF p, q
  <2>8. Fits(c, p, j, q + 1)
    BY <2>5, <2>6, <2>7, FitsOne
  <2> QED
    BY <2>3, <2>5, <2>8 DEF p
<1>2. n \in 0 .. n /\ i + n - n = i
  OBVIOUS
<1> QED
  BY <1>1, <1>2


\* t begins with s; s has only points from l to h.
Keeps(s, t) == Len(s) \in Nat /\ Len(s) <= Len(t) /\ Len(t) \in Nat /\ \A i \in 1 .. Len(s) : t[i] = s[i]
Points(s, l, h) == \A i \in l .. h : s[i] = "."

LEMMA KeepsOn ==
  ASSUME NEW s, NEW t, NEW u, Keeps(s, t), Keeps(t, u)
  PROVE  Keeps(s, u)
BY DEF Keeps

LEMMA PointsKept ==
  ASSUME NEW s, NEW t, Keeps(s, t), NEW l \in Nat \ {0}, NEW h \in Nat, h <= Len(s), Points(s, l, h)
  PROVE  Points(t, l, h)
BY DEF Keeps, Points

\* A run of points and a directive behind a format.
LEMMA LitBehind ==
  ASSUME NEW s \in Seq(Characters), NEW n \in Nat
  PROVE  LET t == s \o Lit(n)
         IN  /\ t \in Seq(Characters) /\ Len(t) = Len(s) + n
             /\ Keeps(s, t) /\ Points(t, Len(s) + 1, Len(s) + n)
<1> DEFINE p == Lit(n)
           t == s \o p
<1>1. p \in Seq(Characters) /\ Len(p) = n /\ \A i \in 1 .. n : p[i] = "."
  BY CharactersAre DEF Lit
<1> HIDE DEF p
<1>2. /\ t \in Seq(Characters) /\ Len(t) = Len(s) + n /\ Len(s) \in Nat
      /\ \A i \in 1 .. Len(s) + n : t[i] = IF i <= Len(s) THEN s[i] ELSE p[i - Len(s)]
  BY <1>1, ConcatProperties, LenProperties
<1> HIDE DEF t
<1>3. Keeps(s, t)
  BY <1>2 DEF Keeps
<1>4. ASSUME NEW i \in Len(s) + 1 .. Len(s) + n PROVE t[i] = "."
  <2>1. i \in 1 .. Len(s) + n /\ ~(i <= Len(s)) /\ i - Len(s) \in 1 .. n
    BY <1>2
  <2> QED
    BY <1>1, <1>2, <2>1
<1> QED
  BY <1>2, <1>3, <1>4 DEF t, p, Points

LEMMA DirectiveBehind ==
  ASSUME NEW s \in Seq(Characters), NEW d \in {"d", "p"}
  PROVE  LET t == s \o <<"%", d>>
         IN  /\ t \in Seq(Characters) /\ Len(t) = Len(s) + 2
             /\ Keeps(s, t) /\ t[Len(s) + 1] = "%" /\ t[Len(s) + 2] = d
<1> DEFINE p == <<"%", d>>
           t == s \o p
<1>1. d \in Characters /\ "%" \in Characters
  BY CharactersAre
<1>2. p \in Seq(Characters) /\ Len(p) = 2 /\ p[1] = "%" /\ p[2] = d
  BY <1>1
<1> HIDE DEF p
<1>3. /\ t \in Seq(Characters) /\ Len(t) = Len(s) + 2 /\ Len(s) \in Nat
      /\ \A i \in 1 .. Len(s) + 2 : t[i] = IF i <= Len(s) THEN s[i] ELSE p[i - Len(s)]
  <2>1. Len(t) = Len(s) + Len(p) /\ t \in Seq(Characters) /\ Len(s) \in Nat
        /\ \A i \in 1 .. Len(s) + Len(p) : t[i] = IF i <= Len(s) THEN s[i] ELSE p[i - Len(s)]
    BY <1>2, ConcatProperties, LenProperties
  <2> QED
    BY <1>2, <2>1
<1> HIDE DEF t
<1>4. Keeps(s, t)
  BY <1>3 DEF Keeps
<1>5. t[Len(s) + 1] = "%"
  <2>1. Len(s) + 1 \in 1 .. Len(s) + 2 /\ ~(Len(s) + 1 <= Len(s)) /\ (Len(s) + 1) - Len(s) = 1
    BY <1>3
  <2> QED
    BY <1>2, <1>3, <2>1
<1>6. t[Len(s) + 2] = d
  <2>1. Len(s) + 2 \in 1 .. Len(s) + 2 /\ ~(Len(s) + 2 <= Len(s)) /\ (Len(s) + 2) - Len(s) = 2
    BY <1>3
  <2> QED
    BY <1>2, <1>3, <2>1
<1> QED
  BY <1>3, <1>4, <1>5, <1>6 DEF t, p

LEMMA RegionFormat ==
  ASSUME NEW n, NEW used, NEW free, NEW first
  PROVE  LET fmt == RegionRow(n, used, free, first).fmt
         IN  /\ fmt \in Seq(Characters) /\ Len(fmt) = 58
             /\ Points(fmt, 1, 14) /\ fmt[15] = "%" /\ fmt[16] = "d"
             /\ Points(fmt, 17, 24) /\ fmt[25] = "%" /\ fmt[26] = "d"
             /\ Points(fmt, 27, 33) /\ fmt[34] = "%" /\ fmt[35] = "d"
             /\ Points(fmt, 36, 56) /\ fmt[57] = "%" /\ fmt[58] = "p"
<1> DEFINE s0 == <<>>
           s1 == s0 \o Lit(14)
           s2 == s1 \o <<"%", "d">>
           s3 == s2 \o Lit(8)
           s4 == s3 \o <<"%", "d">>
           s5 == s4 \o Lit(7)
           s6 == s5 \o <<"%", "d">>
           s7 == s6 \o Lit(21)
           s8 == s7 \o <<"%", "p">>
<1>0. s0 \in Seq(Characters) /\ Len(s0) = 0
  OBVIOUS
<1>9. RegionRow(n, used, free, first).fmt = s8
  <2>1. Lit(14) \in Seq(Characters)
    BY CharactersAre DEF Lit
  <2>2. <<>> \o Lit(14) = Lit(14)
    BY <2>1, ConcatEmptySeq
  <2>3. RegionRow(n, used, free, first).fmt =
          Lit(14) \o <<"%", "d">> \o Lit(8) \o <<"%", "d">> \o Lit(7) \o <<"%", "d">>
              \o Lit(21) \o <<"%", "p">>
    BY Zenon DEF RegionRow
  <2> QED
    BY <2>2, <2>3, Zenon
<1> HIDE DEF s0
<1>1. s1 \in Seq(Characters) /\ Len(s1) = 14 /\ Keeps(s0, s1) /\ Points(s1, 1, 14)
  <2>1. s1 \in Seq(Characters) /\ Len(s1) = Len(s0) + 14 /\ Keeps(s0, s1) /\ Points(s1, Len(s0) + 1, Len(s0) + 14)
    BY <1>0, LitBehind
  <2> HIDE DEF s1
  <2> QED
    BY <1>0, <2>1
<1> HIDE DEF s1
<1>2. s2 \in Seq(Characters) /\ Len(s2) = 16 /\ Keeps(s1, s2) /\ s2[15] = "%" /\ s2[16] = "d"
  <2>1. s2 \in Seq(Characters) /\ Len(s2) = Len(s1) + 2 /\ Keeps(s1, s2) /\ s2[Len(s1) + 1] = "%" /\ s2[Len(s1) + 2] = "d"
    BY <1>1, DirectiveBehind
  <2> HIDE DEF s2
  <2> QED
    BY <1>1, <2>1
<1> HIDE DEF s2
<1>3. s3 \in Seq(Characters) /\ Len(s3) = 24 /\ Keeps(s2, s3) /\ Points(s3, 17, 24)
  <2>1. s3 \in Seq(Characters) /\ Len(s3) = Len(s2) + 8 /\ Keeps(s2, s3) /\ Points(s3, Len(s2) + 1, Len(s2) + 8)
    BY <1>2, LitBehind
  <2> HIDE DEF s3
  <2> QED
    BY <1>2, <2>1
<1> HIDE DEF s3
<1>4. s4 \in Seq(Characters) /\ Len(s4) = 26 /\ Keeps(s3, s4) /\ s4[25] = "%" /\ s4[26] = "d"
  <2>1. s4 \in Seq(Characters) /\ Len(s4) = Len(s3) + 2 /\ Keeps(s3, s4) /\ s4[Len(s3) + 1] = "%" /\ s4[Len(s3) + 2] = "d"
    BY <1>3, DirectiveBehind
  <2> HIDE DEF s4
  <2> QED
    BY <1>3, <2>1
<1> HIDE DEF s4
<1>5. s5 \in Seq(Characters) /\ Len(s5) = 33 /\ Keeps(s4, s5) /\ Points(s5, 27, 33)
  <2>1. s5 \in Seq(Characters) /\ Len(s5) = Len(s4) + 7 /\ Keeps(s4, s5) /\ Points(s5, Len(s4) + 1, Len(s4) + 7)
    BY <1>4, LitBehind
  <2> HIDE DEF s5
  <2> QED
    BY <1>4, <2>1
<1> HIDE DEF s5
<1>6. s6 \in Seq(Characters) /\ Len(s6) = 35 /\ Keeps(s5, s6) /\ s6[34] = "%" /\ s6[35] = "d"
  <2>1. s6 \in Seq(Characters) /\ Len(s6) = Len(s5) + 2 /\ Keeps(s5, s6) /\ s6[Len(s5) + 1] = "%" /\ s6[Len(s5) + 2] = "d"
    BY <1>5, DirectiveBehind
  <2> HIDE DEF s6
  <2> QED
    BY <1>5, <2>1
<1> HIDE DEF s6
<1>7. s7 \in Seq(Characters) /\ Len(s7) = 56 /\ Keeps(s6, s7) /\ Points(s7, 36, 56)
  <2>1. s7 \in Seq(Characters) /\ Len(s7) = Len(s6) + 21 /\ Keeps(s6, s7) /\ Points(s7, Len(s6) + 1, Len(s6) + 21)
    BY <1>6, LitBehind
  <2> HIDE DEF s7
  <2> QED
    BY <1>6, <2>1
<1> HIDE DEF s7
<1>8. s8 \in Seq(Characters) /\ Len(s8) = 58 /\ Keeps(s7, s8) /\ s8[57] = "%" /\ s8[58] = "p"
  <2>1. s8 \in Seq(Characters) /\ Len(s8) = Len(s7) + 2 /\ Keeps(s7, s8) /\ s8[Len(s7) + 1] = "%" /\ s8[Len(s7) + 2] = "p"
    BY <1>7, DirectiveBehind
  <2> HIDE DEF s8
  <2> QED
    BY <1>7, <2>1
<1> HIDE DEF s8
<1>10. Keeps(s6, s8) /\ Keeps(s5, s8) /\ Keeps(s4, s8) /\ Keeps(s3, s8) /\ Keeps(s2, s8) /\ Keeps(s1, s8)
  BY <1>2, <1>3, <1>4, <1>5, <1>6, <1>7, <1>8, KeepsOn
<1>11. Points(s8, 1, 14) /\ Points(s8, 17, 24) /\ Points(s8, 27, 33) /\ Points(s8, 36, 56)
  <2>1. \A s, l, h : Keeps(s, s8) /\ l \in Nat \ {0} /\ h \in Nat /\ h <= Len(s) /\ Points(s, l, h) => Points(s8, l, h)
    BY PointsKept
  <2>2. 1 \in Nat \ {0} /\ 17 \in Nat \ {0} /\ 27 \in Nat \ {0} /\ 36 \in Nat \ {0}
    OBVIOUS
  <2>3. 14 \in Nat /\ 24 \in Nat /\ 33 \in Nat /\ 56 \in Nat
    OBVIOUS
  <2>4. 14 <= 14 /\ 24 <= 24 /\ 33 <= 33 /\ 56 <= 56
    OBVIOUS
  <2>5. Points(s8, 1, 14)
    BY <1>1, <1>10, <2>1, <2>2, <2>3, <2>4, Zenon
  <2>6. Points(s8, 17, 24)
    BY <1>3, <1>10, <2>1, <2>2, <2>3, <2>4, Zenon
  <2>7. Points(s8, 27, 33)
    BY <1>5, <1>10, <2>1, <2>2, <2>3, <2>4, Zenon
  <2>8. Points(s8, 36, 56)
    <3>1. Keeps(s7, s8) /\ Points(s7, 36, 56) /\ Len(s7) = 56
      BY <1>7, <1>8
    <3>2. 36 \in Nat \ {0} /\ 56 \in Nat /\ 56 <= Len(s7)
      BY <3>1
    <3> QED
      BY <3>1, <3>2, PointsKept, SMT
  <2> QED
    BY <2>5, <2>6, <2>7, <2>8
<1>12. s8[15] = "%" /\ s8[16] = "d" /\ s8[25] = "%" /\ s8[26] = "d" /\ s8[34] = "%" /\ s8[35] = "d"
  BY <1>2, <1>4, <1>6, <1>10 DEF Keeps
<1> QED
  BY <1>8, <1>9, <1>11, <1>12, Zenon


LEMMA BlockFormat ==
  ASSUME NEW length, NEW data, NEW next
  PROVE  LET fmt == BlockRow(length, data, next).fmt
         IN  /\ fmt \in Seq(Characters) /\ Len(fmt) = 49
             /\ Points(fmt, 1, 26) /\ fmt[27] = "%" /\ fmt[28] = "d"
             /\ Points(fmt, 29, 38) /\ fmt[39] = "%" /\ fmt[40] = "p"
             /\ Points(fmt, 41, 47) /\ fmt[48] = "%" /\ fmt[49] = "p"
<1> DEFINE s0 == <<>>
           s1 == s0 \o Lit(26)
           s2 == s1 \o <<"%", "d">>
           s3 == s2 \o Lit(10)
           s4 == s3 \o <<"%", "p">>
           s5 == s4 \o Lit(7)
           s6 == s5 \o <<"%", "p">>
<1>0. s0 \in Seq(Characters) /\ Len(s0) = 0
  OBVIOUS
<1>9. BlockRow(length, data, next).fmt = s6
  <2>1. Lit(26) \in Seq(Characters)
    BY CharactersAre DEF Lit
  <2>2. <<>> \o Lit(26) = Lit(26)
    BY <2>1, ConcatEmptySeq
  <2>3. BlockRow(length, data, next).fmt =
          Lit(26) \o <<"%", "d">> \o Lit(10) \o <<"%", "p">> \o Lit(7) \o <<"%", "p">>
    BY Zenon DEF BlockRow
  <2> QED
    BY <2>2, <2>3, Zenon
<1> HIDE DEF s0
<1>1. s1 \in Seq(Characters) /\ Len(s1) = 26 /\ Keeps(s0, s1) /\ Points(s1, 1, 26)
  <2>1. s1 \in Seq(Characters) /\ Len(s1) = Len(s0) + 26 /\ Keeps(s0, s1) /\ Points(s1, Len(s0) + 1, Len(s0) + 26)
    BY <1>0, LitBehind
  <2> HIDE DEF s1
  <2> QED
    BY <1>0, <2>1
<1> HIDE DEF s1
<1>2. s2 \in Seq(Characters) /\ Len(s2) = 28 /\ Keeps(s1, s2) /\ s2[27] = "%" /\ s2[28] = "d"
  <2>1. s2 \in Seq(Characters) /\ Len(s2) = Len(s1) + 2 /\ Keeps(s1, s2) /\ s2[Len(s1) + 1] = "%" /\ s2[Len(s1) + 2] = "d"
    BY <1>1, DirectiveBehind
  <2> HIDE DEF s2
  <2> QED
    BY <1>1, <2>1
<1> HIDE DEF s2
<1>3. s3 \in Seq(Characters) /\ Len(s3) = 38 /\ Keeps(s2, s3) /\ Points(s3, 29, 38)
  <2>1. s3 \in Seq(Characters) /\ Len(s3) = Len(s2) + 10 /\ Keeps(s2, s3) /\ Points(s3, Len(s2) + 1, Len(s2) + 10)
    BY <1>2, LitBehind
  <2> HIDE DEF s3
  <2> QED
    BY <1>2, <2>1
<1> HIDE DEF s3
<1>4. s4 \in Seq(Characters) /\ Len(s4) = 40 /\ Keeps(s3, s4) /\ s4[39] = "%" /\ s4[40] = "p"
  <2>1. s4 \in Seq(Characters) /\ Len(s4) = Len(s3) + 2 /\ Keeps(s3, s4) /\ s4[Len(s3) + 1] = "%" /\ s4[Len(s3) + 2] = "p"
    BY <1>3, DirectiveBehind
  <2> HIDE DEF s4
  <2> QED
    BY <1>3, <2>1
<1> HIDE DEF s4
<1>5. s5 \in Seq(Characters) /\ Len(s5) = 47 /\ Keeps(s4, s5) /\ Points(s5, 41, 47)
  <2>1. s5 \in Seq(Characters) /\ Len(s5) = Len(s4) + 7 /\ Keeps(s4, s5) /\ Points(s5, Len(s4) + 1, Len(s4) + 7)
    BY <1>4, LitBehind
  <2> HIDE DEF s5
  <2> QED
    BY <1>4, <2>1
<1> HIDE DEF s5
<1>6. s6 \in Seq(Characters) /\ Len(s6) = 49 /\ Keeps(s5, s6) /\ s6[48] = "%" /\ s6[49] = "p"
  <2>1. s6 \in Seq(Characters) /\ Len(s6) = Len(s5) + 2 /\ Keeps(s5, s6) /\ s6[Len(s5) + 1] = "%" /\ s6[Len(s5) + 2] = "p"
    BY <1>5, DirectiveBehind
  <2> HIDE DEF s6
  <2> QED
    BY <1>5, <2>1
<1> HIDE DEF s6
<1>10. Keeps(s4, s6) /\ Keeps(s3, s6) /\ Keeps(s2, s6) /\ Keeps(s1, s6)
  BY <1>2, <1>3, <1>4, <1>5, <1>6, KeepsOn
<1>11. Points(s6, 1, 26) /\ Points(s6, 29, 38) /\ Points(s6, 41, 47)
  <2>1. \A s, l, h : Keeps(s, s6) /\ l \in Nat \ {0} /\ h \in Nat /\ h <= Len(s) /\ Points(s, l, h) => Points(s6, l, h)
    BY PointsKept
  <2>2. 1 \in Nat \ {0} /\ 29 \in Nat \ {0} /\ 41 \in Nat \ {0}
    OBVIOUS
  <2>3. 26 \in Nat /\ 38 \in Nat /\ 47 \in Nat
    OBVIOUS
  <2>4. 26 <= 26 /\ 38 <= 38 /\ 47 <= 47
    OBVIOUS
  <2>5. Points(s6, 1, 26)
    BY <1>1, <1>10, <2>1, <2>2, <2>3, <2>4, Zenon
  <2>6. Points(s6, 29, 38)
    BY <1>3, <1>10, <2>1, <2>2, <2>3, <2>4, Zenon
  <2>7. Points(s6, 41, 47)
    BY <1>5, <1>6, <2>1, <2>2, <2>3, <2>4, Zenon
  <2> QED
    BY <2>5, <2>6, <2>7
<1>12. s6[27] = "%" /\ s6[28] = "d" /\ s6[39] = "%" /\ s6[40] = "p"
  BY <1>2, <1>4, <1>10 DEF Keeps
<1> QED
  BY <1>6, <1>9, <1>11, <1>12, Zenon

\* The same with the places named: a directive of a number, and a run of points.
DirectiveAt(c, i, j, m, k) ==
    /\ i \in Nat \ {0} /\ i < Len(c.fmt) /\ j \in Nat /\ m \in Nat /\ k \in Nat
    /\ c.fmt[i] = "%" /\ c.fmt[i + 1] \in {"d", "p"} /\ c.args[j] \in Numbers
    /\ Len(Meaning(c.fmt[i + 1], c.args[j])) <= k /\ Fits(c, i + 2, j + 1, m)
PointsAt(c, i, k, j, m) ==
    /\ i \in Nat \ {0} /\ k \in Nat /\ i <= k /\ k <= Len(c.fmt) /\ j \in Nat /\ m \in Nat
    /\ Points(c.fmt, i, k - 1) /\ Fits(c, k, j, m)

LEMMA FitsSteps ==
  ASSUME NEW c, c.fmt \in Seq(Characters), Rest \in Seq(AnyCharacter)
  PROVE  /\ \A i, j, m, k : DirectiveAt(c, i, j, m, k) => Fits(c, i, j, m + k)
         /\ \A i, k, j, m : PointsAt(c, i, k, j, m) => Fits(c, i, j, m + (k - i))
<1>1. ASSUME NEW i, NEW j, NEW m, NEW k, DirectiveAt(c, i, j, m, k)
      PROVE  Fits(c, i, j, m + k)
  BY <1>1, FitsDirective DEF DirectiveAt
<1>2. ASSUME NEW i, NEW k, NEW j, NEW m, PointsAt(c, i, k, j, m)
      PROVE  Fits(c, i, j, m + (k - i))
  <2> DEFINE n == k - i
  <2>1. /\ i \in Nat \ {0} /\ j \in Nat /\ m \in Nat
        /\ n \in Nat /\ i + n = k /\ i + n <= Len(c.fmt) + 1 /\ i + n - 1 = k - 1
    BY <1>2 DEF PointsAt
  <2>2. \A l \in i .. i + n - 1 : c.fmt[l] # "%"
    BY <1>2, <2>1 DEF Points, PointsAt
  <2>3. Fits(c, i + n, j, m)
    BY <1>2, <2>1 DEF PointsAt
  <2> HIDE DEF n
  <2>4. Fits(c, i, j, m + n)
    BY <2>1, <2>2, <2>3, FitsRun
  <2> QED
    BY <2>4 DEF n
<1> QED
  BY <1>1, <1>2

\* The rows a table can have.
RegionRows == {RegionRow(r[1], r[2], r[3], r[4]) : r \in (0 .. 99) \X Numbers \X Numbers \X Numbers}
BlockRows == {BlockRow(r[1], r[2], r[3]) : r \in Numbers \X Numbers \X Numbers}
Rows == RegionRows \cup BlockRows

\* A row has room for its text.
RowFits(r) == /\ Typed(r) /\ WellFormed(r.fmt)
              /\ Text(r)[<<1, 1>>] \in Seq(Characters) /\ Len(Text(r)[<<1, 1>>]) <= 92

LEMMA RegionRowFits ==
  ASSUME Rest \in Seq(AnyCharacter), NEW n \in 0 .. 99,
         NEW used \in Numbers, NEW free \in Numbers, NEW first \in Numbers
  PROVE  RowFits(RegionRow(n, used, free, first))
<1> DEFINE c == RegionRow(n, used, free, first)
<1>1. /\ c.fmt \in Seq(Characters) /\ Len(c.fmt) = 58
      /\ Points(c.fmt, 1, 14)
      /\ c.fmt[15] = "%" /\ c.fmt[16] = "d"
      /\ Points(c.fmt, 17, 24)
      /\ c.fmt[25] = "%" /\ c.fmt[26] = "d"
      /\ Points(c.fmt, 27, 33)
      /\ c.fmt[34] = "%" /\ c.fmt[35] = "d"
      /\ Points(c.fmt, 36, 56)
      /\ c.fmt[57] = "%" /\ c.fmt[58] = "p"
  BY RegionFormat
<1>2. c.args = <<n, used, free, first>>
  BY DEF RegionRow
<1>3. c.args[1] = n /\ c.args[2] = used /\ c.args[3] = free /\ c.args[4] = first
  BY <1>2
<1>4. n \in Numbers
  BY NumberBounds, SMT
<1> HIDE DEF c
<1>5. /\ \A i, j, m, k : DirectiveAt(c, i, j, m, k) => Fits(c, i, j, m + k)
      /\ \A i, k, j, m : PointsAt(c, i, k, j, m) => Fits(c, i, j, m + (k - i))
  BY <1>1, FitsSteps, Zenon
<1>6. Fits(c, 59, 5, 0)
  <2>1. 5 \in Nat /\ c.fmt \in Seq(Characters)
    BY <1>1
  <2>2. Fits(c, Len(c.fmt) + 1, 5, 0)
    BY <2>1, FitsAtEnd, Zenon
  <2>3. Len(c.fmt) + 1 = 59
    BY <1>1
  <2> QED
    BY <2>2, <2>3, Zenon
<1>7. Fits(c, 57, 4, 18)
  <2>1. Len(Meaning("p", first)) <= 18 /\ first \in Numbers
    BY NumbersFit
  <2>2. DirectiveAt(c, 57, 4, 0, 18)
    <3>1. 57 \in Nat \ {0} /\ 57 < Len(c.fmt) /\ 57 + 1 = 58 /\ 57 + 2 = 59 /\ 4 + 1 = 5
      BY <1>1
    <3>2. 4 \in Nat /\ 0 \in Nat /\ 18 \in Nat /\ "p" \in {"d", "p"}
      OBVIOUS
    <3>3. /\ c.fmt[57] = "%" /\ c.fmt[57 + 1] \in {"d", "p"} /\ c.args[4] \in Numbers
          /\ Len(Meaning(c.fmt[57 + 1], c.args[4])) <= 18
      BY <1>1, <1>3, <2>1, <3>1, <3>2, Zenon
    <3>4. Fits(c, 57 + 2, 4 + 1, 0)
      BY <1>6, <3>1, Zenon
    <3> QED
      BY <3>1, <3>2, <3>3, <3>4, Zenon DEF DirectiveAt
  <2>3. Fits(c, 57, 4, 0 + 18)
    BY <1>5, <2>2, Zenon
  <2> QED
    BY <2>3
<1>8. Fits(c, 36, 4, 39)
  <2>1. PointsAt(c, 36, 57, 4, 18)
    BY <1>1, <1>7 DEF PointsAt
  <2>2. Fits(c, 36, 4, 18 + (57 - 36))
    BY <1>5, <2>1, Zenon
  <2> QED
    BY <2>2
<1>9. Fits(c, 34, 3, 50)
  <2>1. Len(Meaning("d", free)) <= 11 /\ free \in Numbers
    BY NumbersFit
  <2>2. DirectiveAt(c, 34, 3, 39, 11)
    BY <1>1, <1>3, <1>8, <2>1 DEF DirectiveAt
  <2>3. Fits(c, 34, 3, 39 + 11)
    BY <1>5, <2>2, Zenon
  <2> QED
    BY <2>3
<1>10. Fits(c, 27, 3, 57)
  <2>1. PointsAt(c, 27, 34, 3, 50)
    BY <1>1, <1>9 DEF PointsAt
  <2>2. Fits(c, 27, 3, 50 + (34 - 27))
    BY <1>5, <2>1, Zenon
  <2> QED
    BY <2>2
<1>11. Fits(c, 25, 2, 68)
  <2>1. Len(Meaning("d", used)) <= 11 /\ used \in Numbers
    BY NumbersFit
  <2>2. DirectiveAt(c, 25, 2, 57, 11)
    BY <1>1, <1>3, <1>10, <2>1 DEF DirectiveAt
  <2>3. Fits(c, 25, 2, 57 + 11)
    BY <1>5, <2>2, Zenon
  <2> QED
    BY <2>3
<1>12. Fits(c, 17, 2, 76)
  <2>1. PointsAt(c, 17, 25, 2, 68)
    BY <1>1, <1>11 DEF PointsAt
  <2>2. Fits(c, 17, 2, 68 + (25 - 17))
    BY <1>5, <2>1, Zenon
  <2> QED
    BY <2>2
<1>13. Fits(c, 15, 1, 78)
  <2>1. Len(Meaning("d", n)) <= 2 /\ n \in Numbers
    BY <1>4, NumbersFit
  <2>2. DirectiveAt(c, 15, 1, 76, 2)
    <3>1. 15 \in Nat \ {0} /\ 15 < Len(c.fmt) /\ 15 + 1 = 16 /\ 15 + 2 = 17 /\ 1 + 1 = 2
      BY <1>1
    <3>2. 1 \in Nat /\ 76 \in Nat /\ 2 \in Nat /\ "d" \in {"d", "p"}
      OBVIOUS
    <3>3. /\ c.fmt[15] = "%" /\ c.fmt[15 + 1] \in {"d", "p"} /\ c.args[1] \in Numbers
          /\ Len(Meaning(c.fmt[15 + 1], c.args[1])) <= 2
      BY <1>1, <1>3, <2>1, <3>1, <3>2, Zenon
    <3>4. Fits(c, 15 + 2, 1 + 1, 76)
      BY <1>12, <3>1, Zenon
    <3> QED
      BY <3>1, <3>2, <3>3, <3>4, Zenon DEF DirectiveAt
  <2>3. Fits(c, 15, 1, 76 + 2)
    BY <1>5, <2>2, Zenon
  <2> QED
    BY <2>3
<1>14. Fits(c, 1, 1, 92)
  <2>1. PointsAt(c, 1, 15, 1, 78)
    BY <1>1, <1>13 DEF PointsAt
  <2>2. Fits(c, 1, 1, 78 + (15 - 1))
    BY <1>5, <2>1, Zenon
  <2> QED
    BY <2>2
<1>15. Len(Text(c)[<<1, 1>>]) <= 92 => Len(Text(c)[<<1, 1>>]) <= 92
  <2>1. Text(c)[<<1, 1>>] \in Seq(Characters)
    BY <1>14 DEF Fits
  <2>2. Len(Text(c)[<<1, 1>>]) \in Nat
    BY <2>1
  <2> QED
    BY <2>2
<1>16. RowFits(c)
  BY <1>1, <1>14, <1>15 DEF RowFits, Fits, Typed, WellFormed
<1> QED
  BY <1>16 DEF c

LEMMA BlockRowFits ==
  ASSUME Rest \in Seq(AnyCharacter), NEW length \in Numbers, NEW data \in Numbers, NEW next \in Numbers
  PROVE  RowFits(BlockRow(length, data, next))
<1> DEFINE c == BlockRow(length, data, next)
<1>1. /\ c.fmt \in Seq(Characters) /\ Len(c.fmt) = 49
      /\ Points(c.fmt, 1, 26)
      /\ c.fmt[27] = "%" /\ c.fmt[28] = "d"
      /\ Points(c.fmt, 29, 38)
      /\ c.fmt[39] = "%" /\ c.fmt[40] = "p"
      /\ Points(c.fmt, 41, 47)
      /\ c.fmt[48] = "%" /\ c.fmt[49] = "p"
  BY BlockFormat
<1>2. c.args = <<length, data, next>>
  BY DEF BlockRow
<1>3. c.args[1] = length /\ c.args[2] = data /\ c.args[3] = next
  BY <1>2
<1> HIDE DEF c
<1>5. /\ \A i, j, m, k : DirectiveAt(c, i, j, m, k) => Fits(c, i, j, m + k)
      /\ \A i, k, j, m : PointsAt(c, i, k, j, m) => Fits(c, i, j, m + (k - i))
  BY <1>1, FitsSteps, Zenon
<1>6. Fits(c, 50, 4, 0)
  <2>1. 4 \in Nat /\ c.fmt \in Seq(Characters)
    BY <1>1
  <2>2. Fits(c, Len(c.fmt) + 1, 4, 0)
    BY <2>1, FitsAtEnd, Zenon
  <2>3. Len(c.fmt) + 1 = 50
    BY <1>1
  <2> QED
    BY <2>2, <2>3, Zenon
<1>7. Fits(c, 48, 3, 18)
  <2>1. Len(Meaning("p", next)) <= 18 /\ next \in Numbers
    BY NumbersFit
  <2>2. DirectiveAt(c, 48, 3, 0, 18)
    BY <1>1, <1>3, <1>6, <2>1 DEF DirectiveAt
  <2>3. Fits(c, 48, 3, 0 + 18)
    BY <1>5, <2>2, Zenon
  <2> QED
    BY <2>3
<1>8. Fits(c, 41, 3, 25)
  <2>1. PointsAt(c, 41, 48, 3, 18)
    BY <1>1, <1>7 DEF PointsAt
  <2>2. Fits(c, 41, 3, 18 + (48 - 41))
    BY <1>5, <2>1, Zenon
  <2> QED
    BY <2>2
<1>9. Fits(c, 39, 2, 43)
  <2>1. Len(Meaning("p", data)) <= 18 /\ data \in Numbers
    BY NumbersFit
  <2>2. DirectiveAt(c, 39, 2, 25, 18)
    BY <1>1, <1>3, <1>8, <2>1 DEF DirectiveAt
  <2>3. Fits(c, 39, 2, 25 + 18)
    BY <1>5, <2>2, Zenon
  <2> QED
    BY <2>3
<1>10. Fits(c, 29, 2, 53)
  <2>1. PointsAt(c, 29, 39, 2, 43)
    BY <1>1, <1>9 DEF PointsAt
  <2>2. Fits(c, 29, 2, 43 + (39 - 29))
    BY <1>5, <2>1, Zenon
  <2> QED
    BY <2>2
<1>11. Fits(c, 27, 1, 64)
  <2>1. Len(Meaning("d", length)) <= 11 /\ length \in Numbers
    BY NumbersFit
  <2>2. DirectiveAt(c, 27, 1, 53, 11)
    BY <1>1, <1>3, <1>10, <2>1 DEF DirectiveAt
  <2>3. Fits(c, 27, 1, 53 + 11)
    BY <1>5, <2>2, Zenon
  <2> QED
    BY <2>3
<1>12. Fits(c, 1, 1, 90)
  <2>1. PointsAt(c, 1, 27, 1, 64)
    BY <1>1, <1>11 DEF PointsAt
  <2>2. Fits(c, 1, 1, 64 + (27 - 1))
    BY <1>5, <2>1, Zenon
  <2> QED
    BY <2>2
<1>13. Len(Text(c)[<<1, 1>>]) <= 90 => Len(Text(c)[<<1, 1>>]) <= 92
  <2>1. Text(c)[<<1, 1>>] \in Seq(Characters)
    BY <1>12 DEF Fits
  <2>2. Len(Text(c)[<<1, 1>>]) \in Nat
    BY <2>1
  <2> QED
    BY <2>2
<1>14. RowFits(c)
  BY <1>1, <1>12, <1>13 DEF RowFits, Fits, Typed, WellFormed
<1> QED
  BY <1>14 DEF c


LEMMA RowsFit == Rest \in Seq(AnyCharacter) => \A r \in Rows : RowFits(r)
<1> SUFFICES ASSUME Rest \in Seq(AnyCharacter), NEW r \in Rows PROVE RowFits(r)
  OBVIOUS
<1>1. CASE r \in RegionRows
  <2>1. PICK q \in (0 .. 99) \X Numbers \X Numbers \X Numbers : r = RegionRow(q[1], q[2], q[3], q[4])
    BY <1>1, Zenon DEF RegionRows
  <2>2. q[1] \in 0 .. 99 /\ q[2] \in Numbers /\ q[3] \in Numbers /\ q[4] \in Numbers
    BY <2>1
  <2> QED
    BY <2>1, <2>2, RegionRowFits, Zenon
<1>2. CASE r \in BlockRows
  <2>1. PICK q \in Numbers \X Numbers \X Numbers : r = BlockRow(q[1], q[2], q[3])
    BY <1>2, Zenon DEF BlockRows
  <2>2. q[1] \in Numbers /\ q[2] \in Numbers /\ q[3] \in Numbers
    BY <2>1
  <2> QED
    BY <2>1, <2>2, BlockRowFits, Zenon
<1> QED
  BY <1>1, <1>2 DEF Rows

\* A region of one of the table's first hundred places has rows of these.
Blocks == Seq([size : Numbers, data : Numbers])
Regions == [used : Numbers, free : Numbers, blocks : Blocks]

LEMMA RowsOfTyped ==
  ASSUME NEW i \in Nat, i >= 1, i <= 100, NEW region \in Regions
  PROVE  RowsOf(i, region) \in Seq(Rows)
<1> DEFINE n == Len(region.blocks)
           At(k) == IF k > n THEN 0 ELSE region.blocks[k].data
           first == <<RegionRow(i - 1, region.used, region.free, At(1))>>
           others == [k \in 1 .. n |-> BlockRow(region.blocks[k].size, At(k), At(k + 1))]
<1>1. /\ n \in Nat /\ region.used \in Numbers /\ region.free \in Numbers
      /\ \A k \in 1 .. n : region.blocks[k].size \in Numbers /\ region.blocks[k].data \in Numbers
  <2>1. region.used \in Numbers /\ region.free \in Numbers /\ region.blocks \in Blocks
    BY DEF Regions
  <2>2. n \in Nat /\ \A k \in 1 .. n : region.blocks[k] \in [size : Numbers, data : Numbers]
    <3> DEFINE b == region.blocks
               R == [size : Numbers, data : Numbers]
    <3>1. b \in Seq(R)
      BY <2>1 DEF Blocks
    <3> HIDE DEF b, R
    <3>2. Len(b) \in Nat /\ \A k \in 1 .. Len(b) : b[k] \in R
      BY <3>1
    <3> QED
      BY <3>2 DEF b, R
  <2> HIDE DEF n
  <2> QED
    BY <2>1, <2>2
<1> HIDE DEF n
<1>2. \A k \in Nat \ {0} : At(k) \in Numbers
  <2>1. 0 \in Numbers
    BY NumberBounds
  <2> QED
    BY <1>1, <2>1
<1>3. \A k \in 1 .. n : k \in Nat \ {0} /\ k + 1 \in Nat \ {0}
  BY <1>1
<1> HIDE DEF At
<1>4. RegionRow(i - 1, region.used, region.free, At(1)) \in Rows
  <2>1. 1 \in Nat \ {0} /\ i - 1 \in 0 .. 99
    BY SMT
  <2> DEFINE q == <<i - 1, region.used, region.free, At(1)>>
  <2>2. q \in (0 .. 99) \X Numbers \X Numbers \X Numbers
    <3>1. At(1) \in Numbers
      BY <1>2, <2>1
    <3> QED
      BY <1>1, <2>1, <3>1
  <2>3. q[1] = i - 1 /\ q[2] = region.used /\ q[3] = region.free /\ q[4] = At(1)
    OBVIOUS
  <2> HIDE DEF q
  <2> QED
    BY <2>2, <2>3, Zenon DEF Rows, RegionRows
<1>5. ASSUME NEW k \in 1 .. n
      PROVE  BlockRow(region.blocks[k].size, At(k), At(k + 1)) \in Rows
  <2> DEFINE q == <<region.blocks[k].size, At(k), At(k + 1)>>
  <2>1. At(k) \in Numbers /\ At(k + 1) \in Numbers
    BY <1>2, <1>3
  <2>2. q \in Numbers \X Numbers \X Numbers
    BY <1>1, <2>1
  <2>3. q[1] = region.blocks[k].size /\ q[2] = At(k) /\ q[3] = At(k + 1)
    OBVIOUS
  <2> HIDE DEF q
  <2> QED
    BY <2>2, <2>3, Zenon DEF Rows, BlockRows
<1>6. first \in Seq(Rows)
  <2> DEFINE r == RegionRow(i - 1, region.used, region.free, At(1))
  <2>1. r \in Rows
    BY <1>4
  <2> HIDE DEF r
  <2>2. <<r>> \in Seq(Rows)
    BY <2>1
  <2> QED
    BY <2>2 DEF r
<1>7. others \in Seq(Rows)
  <2> DEFINE e(k) == BlockRow(region.blocks[k].size, At(k), At(k + 1))
  <2>1. \A k \in 1 .. n : e(k) \in Rows
    BY <1>5
  <2> HIDE DEF e
  <2>2. [k \in 1 .. n |-> e(k)] \in Seq(Rows)
    BY <1>1, <2>1
  <2> QED
    BY <2>2 DEF e
<1>8. RowsOf(i, region) = first \o others
  BY Zenon DEF RowsOf, At, n
<1> HIDE DEF first, others
<1> QED
  BY <1>6, <1>7, <1>8, ConcatProperties

LEMMA ReportTyped ==
  ASSUME HeapsTyped, NEW h \in Heaps
  PROVE  Report(h) \in Seq(Rows)
<1>1. h \in Seq(Regions) /\ Len(h) <= 100
  BY DEF HeapsTyped, Regions, Blocks
<1> DEFINE n == Len(h)
           s == [i \in 1 .. n |-> RowsOf(i, h[i])]
<1>2. n \in Nat /\ n <= 100 /\ \A i \in 1 .. n : h[i] \in Regions
  BY <1>1
<1> HIDE DEF n
<1>3. \A i \in 1 .. n : i \in Nat /\ i >= 1 /\ i <= 100
  BY <1>2
<1>4. \A i \in 1 .. n : RowsOf(i, h[i]) \in Seq(Rows)
  BY <1>2, <1>3, RowsOfTyped
<1>5. s \in Seq(Seq(Rows))
  BY <1>2, <1>4
<1>6. Report(h) = FlattenSeq(s)
  BY Zenon DEF Report, n
<1> HIDE DEF s
<1> QED
  BY <1>5, <1>6, FlattenTyped

-----------------------------------------------------------------------------
(* The lines of the table                                                  *)

\* strlen finds the first NUL.
LEMMA StrlenIs ==
  ASSUME NEW b, NEW n \in Nat, DOMAIN b \subseteq Nat, n \in DOMAIN b, b[n] = NUL,
         \A i \in DOMAIN b : i < n => b[i] # NUL
  PROVE  Strlen(b) = n
<1> DEFINE S == {i \in DOMAIN b : b[i] = NUL}
<1>1. n \in S /\ S \subseteq Nat /\ \A i \in S : n <= i
  OBVIOUS
<1> HIDE DEF S
<1>2. \E m \in S : \A i \in S : m <= i
  BY <1>1
<1>3. Min(S) \in S /\ \A i \in S : Min(S) <= i
  BY <1>2 DEF Min
<1>4. Min(S) = n
  <2>1. Min(S) \in Nat /\ Min(S) <= n /\ n <= Min(S)
    BY <1>1, <1>3
  <2> QED
    BY <2>1
<1> QED
  BY <1>4 DEF Strlen, S

\* The padding makes the line of a row out of its text.
LEMMA PadMakesLine ==
  ASSUME Bounded, CallInv, PadRow, size = RowSize, RowFits(call)
  PROVE  String(buffer') = Line(Text(call)[<<1, 1>>])
<1> DEFINE text == Text(call)[<<1, 1>>]
           n == Len(text)
<1>1. pc = "done" /\ WellFormed(call.fmt) /\ text \in Seq(Characters) /\ n <= 92 /\ n \in Nat
  <2>1. pc = "done"
    BY DEF PadRow
  <2>2. WellFormed(call.fmt) /\ text \in Seq(Characters) /\ n <= 92
    BY DEF RowFits
  <2>3. n \in Nat
    BY <2>2
  <2> QED
    BY <2>1, <2>2, <2>3
<1>2. call.fmt \in Seq(Characters)
  BY DEF CallInv, Typed
<1>3. TextOf(call, Meaning) = text
  BY <1>2, TextRecursion
<1>4. Memory \in Nat /\ 95 <= Memory /\ DOMAIN buffer = 0 .. Memory - 1
  BY FormatAssumption, DebugLogAssumption DEF Bounded, RowSize
<1>5. (\A i \in 1 .. n : buffer[i - 1] = text[i]) /\ buffer[n] = NUL
  <2>1. LET m == IF n < size THEN n ELSE size - 1
        IN  (\A i \in 1 .. m : buffer[i - 1] = text[i]) /\ buffer[m] = NUL
    BY <1>1, <1>3, CallEnds, Zenon DEF Exact
  <2>2. n < size
    BY <1>1 DEF RowSize
  <2> QED
    BY <2>1, <2>2
<1>6. \A i \in 1 .. n : text[i] # NUL
  BY <1>1, CharactersAre
<1> HIDE DEF text, n
<1>7. Strlen(buffer) = n
  <2>1. \A i \in DOMAIN buffer : i < n => i + 1 \in 1 .. n /\ (i + 1) - 1 = i
    BY <1>1, <1>4
  <2>2. \A i \in DOMAIN buffer : i < n => buffer[i] # NUL
    BY <1>5, <1>6, <2>1
  <2>3. n \in DOMAIN buffer /\ DOMAIN buffer \subseteq Nat
    BY <1>1, <1>4
  <2> QED
    BY <1>1, <1>5, <2>2, <2>3, StrlenIs
<1>8. /\ DOMAIN buffer' = 0 .. Memory - 1
      /\ \A i \in Nat : i <= 94 => i \in DOMAIN buffer
      /\ \A i \in DOMAIN buffer : i <= 94 =>
           buffer'[i] = IF i >= 92 THEN Frame(i) ELSE IF i >= n THEN " " ELSE buffer[i]
  <2>1. \A i \in DOMAIN buffer : buffer'[i] = IF i >= RowSize THEN buffer[i]
                                           ELSE IF i >= RowSize - 3 THEN Frame(i)
                                           ELSE IF Padded(i) THEN " " ELSE buffer[i]
    BY DEF PadRow
  <2>2. DOMAIN buffer' = DOMAIN buffer
    BY DEF PadRow
  <2>3. \A i \in DOMAIN buffer : i <= 94 => ~(i >= RowSize) /\ (i >= RowSize - 3 <=> i >= 92)
    BY <1>4 DEF RowSize
  <2>4. \A i \in DOMAIN buffer : Padded(i) <=> i >= n
    BY <1>7 DEF Padded
  <2>5. \A i \in Nat : i <= 94 => i \in DOMAIN buffer
    BY <1>4
  <2> QED
    BY <1>4, <2>1, <2>2, <2>3, <2>4, <2>5
<1>9. Frame(92) = "|" /\ Frame(93) = "newline" /\ Frame(94) = NUL
  BY DEF Frame, RowSize
<1>10. buffer'[92] = "|" /\ buffer'[93] = "newline" /\ buffer'[94] = NUL
  <2>1. 92 \in DOMAIN buffer /\ 93 \in DOMAIN buffer /\ 94 \in DOMAIN buffer
    BY <1>4
  <2>5. \A i \in DOMAIN buffer : i <= 94 /\ i >= 92 => buffer'[i] = Frame(i)
    BY <1>8, Zenon
  <2>6. 92 <= 94 /\ 93 <= 94 /\ 94 <= 94 /\ 92 >= 92 /\ 93 >= 92 /\ 94 >= 92
    OBVIOUS
  <2>2. buffer'[92] = Frame(92)
    BY <2>1, <2>5, <2>6, Zenon
  <2>3. buffer'[93] = Frame(93)
    BY <2>1, <2>5, <2>6, Zenon
  <2>4. buffer'[94] = Frame(94)
    BY <2>1, <2>5, <2>6, Zenon
  <2> QED
    <3>1. buffer'[92] = "|" /\ buffer'[93] = "newline"
      BY <1>9, <2>2, <2>3, Zenon
    <3>2. buffer'[94] = NUL
      BY <1>9, <2>4, Zenon
    <3> QED
      BY <3>1, <3>2
<1>11. ASSUME NEW i \in Nat, i < 92
       PROVE  buffer'[i] = (IF i >= n THEN " " ELSE text[i + 1]) /\ buffer'[i] # NUL
  <2>1. i \in DOMAIN buffer /\ i <= 94 /\ ~(i >= 92)
    BY <1>4, <1>11
  <2>2. buffer'[i] = IF i >= n THEN " " ELSE buffer[i]
    BY <1>8, <2>1
  <2>3. ~(i >= n) => i + 1 \in 1 .. n /\ (i + 1) - 1 = i
    BY <1>1
  <2>4. ~(i >= n) => buffer[i] = text[i + 1] /\ text[i + 1] # NUL
    BY <1>5, <1>6, <2>3
  <2>5. " " # NUL
    BY DEF NUL
  <2> QED
    BY <2>2, <2>4, <2>5
<1>12. Strlen(buffer') = 94
  <2> DEFINE D == DOMAIN buffer'
  <2>5. D = 0 .. Memory - 1
    BY <1>8
  <2> HIDE DEF D
  <2>1. 94 \in Nat /\ D \subseteq Nat /\ 94 \in D
    BY <1>4, <2>5
  <2>2. "|" # NUL /\ "newline" # NUL
    BY DEF NUL
  <2>3. \A i \in D : i < 94 => (i \in Nat /\ i < 92) \/ i = 92 \/ i = 93
    BY <1>4, <2>5
  <2>4. \A i \in D : i < 94 => buffer'[i] # NUL
    <3>1. \A i \in Nat : i < 92 => buffer'[i] # NUL
      BY <1>11
    <3> QED
      BY <1>10, <2>2, <2>3, <3>1
  <2>6. \A k \in Nat : k = 94 => Strlen(buffer') = k
    <3> SUFFICES ASSUME NEW k \in Nat, k = 94 PROVE Strlen(buffer') = k
      OBVIOUS
    <3> DEFINE b == buffer'
    <3>1. DOMAIN b \subseteq Nat /\ k \in DOMAIN b /\ b[k] = NUL /\ \A i \in DOMAIN b : i < k => b[i] # NUL
      BY <1>10, <2>1, <2>4 DEF D
    <3> HIDE DEF b
    <3>2. Strlen(b) = k
      BY <3>1, StrlenIs
    <3> QED
      BY <3>2 DEF b
  <2> QED
    BY <2>1, <2>6
<1>13. String(buffer') = [i \in 1 .. 94 |-> buffer'[i - 1]]
  BY <1>12, Zenon DEF String
<1>14. ASSUME NEW i \in 1 .. 94
       PROVE  buffer'[i - 1] = IF i = 93 THEN "|" ELSE IF i = 94 THEN "newline"
                               ELSE IF i <= n THEN text[i] ELSE " "
  <2>1. i \in Nat /\ (i = 93 \/ i = 94 \/ (i # 93 /\ i # 94 /\ i - 1 \in Nat /\ i - 1 < 92))
    BY SMT
  <2>2. CASE i = 93
    <3>1. i - 1 = 92
      BY <2>2
    <3> QED
      BY <1>10, <2>2, <3>1
  <2>3. CASE i = 94
    <3>1. i - 1 = 93
      BY <2>3
    <3> QED
      BY <1>10, <2>3, <3>1
  <2>4. CASE i # 93 /\ i # 94 /\ i - 1 \in Nat /\ i - 1 < 92
    <3>1. buffer'[i - 1] = (IF i - 1 >= n THEN " " ELSE text[(i - 1) + 1])
      BY <1>11, <2>4
    <3>2. (i - 1) + 1 = i /\ (i - 1 >= n <=> ~(i <= n))
      BY <1>1, <2>1
    <3> QED
      BY <2>4, <3>1, <3>2
  <2> QED
    BY <2>1, <2>2, <2>3, <2>4
<1>15. Line(text) = [i \in 1 .. 94 |-> IF i = 93 THEN "|" ELSE IF i = 94 THEN "newline"
                                       ELSE IF i <= n THEN text[i] ELSE " "]
  BY Zenon DEF Line, n
<1>16. String(buffer') = Line(text)
  <2> DEFINE line == [i \in 1 .. 94 |-> IF i = 93 THEN "|" ELSE IF i = 94 THEN "newline"
                                        ELSE IF i <= n THEN text[i] ELSE " "]
  <2>1. \A i \in 1 .. 94 : buffer'[i - 1] = line[i]
    BY <1>14, Zenon
  <2>2. [i \in 1 .. 94 |-> buffer'[i - 1]] = line
    BY <1>14, Zenon
  <2> QED
    BY <1>13, <1>15, <2>2, Zenon
<1> QED
  BY <1>16 DEF text


\* What reaches the port, and the lines of the first n rows.
Sent == AnyCharacter \cup {"|", " ", "newline"}
RowText(r) == Text(r)[<<1, 1>>]
Lines(rows, n) == FlattenSeq([k \in 1 .. n |-> Line(RowText(rows[k]))])

LEMMA LineTyped ==
  ASSUME NEW text \in Seq(Characters)
  PROVE  Line(text) \in Seq(Sent)
<1> DEFINE e(i) == IF i = 93 THEN "|" ELSE IF i = 94 THEN "newline"
                   ELSE IF i <= Len(text) THEN text[i] ELSE " "
<1>1. ASSUME NEW i \in 1 .. 94 PROVE e(i) \in Sent
  <2>1. i \in Nat /\ i >= 1 /\ Len(text) \in Nat
    BY SMT
  <2>2. i <= Len(text) => text[i] \in Characters
    BY <2>1
  <2> QED
    BY <2>2, CharactersAre, Zenon DEF Sent
<1>2. Line(text) = [i \in 1 .. 94 |-> e(i)]
  BY Zenon DEF Line
<1> HIDE DEF e
<1>3. \A n \in Nat : n = 94 => [i \in 1 .. n |-> e(i)] \in Seq(Sent)
  BY <1>1
<1>4. 94 \in Nat
  OBVIOUS
<1> QED
  BY <1>2, <1>3, <1>4, Zenon

LEMMA BorderTyped == Border \in Seq(Sent) /\ Border # <<>>
<1> DEFINE e(i) == IF i = 1 THEN "|" ELSE IF i > RowSize - 3 THEN Frame(i - 1) ELSE "-"
           n == RowSize - 1
<1>1. n \in Nat /\ n # 0
  BY DEF RowSize
<1>2. \A i : Frame(i) \in Sent
  <2>1. \A i : Frame(i) \in {"|", "newline", NUL}
    BY Zenon DEF Frame
  <2> QED
    BY <2>1 DEF Sent, AnyCharacter
<1>3. \A i \in 1 .. n : e(i) \in Sent
  <2>1. "-" \in Sent /\ "|" \in Sent
    BY CharactersAre DEF Sent
  <2> QED
    BY <1>2, <2>1, Zenon
<1>4. Border = [i \in 1 .. n |-> e(i)]
  BY Zenon DEF Border
<1> HIDE DEF e, n
<1>5. [i \in 1 .. n |-> e(i)] \in Seq(Sent) /\ Len([i \in 1 .. n |-> e(i)]) = n
  BY <1>1, <1>3
<1>6. Len(<<>>) = 0
  OBVIOUS
<1> QED
  BY <1>1, <1>4, <1>5, <1>6, Zenon

\* The lines of the rows up to the n-th.
LEMMA LinesAre ==
  ASSUME Rest \in Seq(AnyCharacter), report \in Seq(Rows), NEW n \in 0 .. Len(report)
  PROVE  /\ Lines(report, n) \in Seq(Sent)
         /\ Lines(report, 0) = <<>>
         /\ n # 0 => Line(RowText(report[n])) \in Seq(Sent) /\ Lines(report, n) = Lines(report, n - 1) \o Line(RowText(report[n]))
<1> DEFINE e(k) == Line(RowText(report[k]))
           s == [k \in 1 .. n |-> e(k)]
<1>1. n \in Nat /\ \A k \in 1 .. n : k \in 1 .. Len(report)
  OBVIOUS
<1>2. \A k \in 1 .. n : e(k) \in Seq(Sent)
  <2>1. \A k \in 1 .. n : report[k] \in Rows
    BY <1>1
  <2>2. \A k \in 1 .. n : RowText(report[k]) \in Seq(Characters)
    BY <2>1, RowsFit DEF RowFits, RowText
  <2> QED
    BY <2>2, LineTyped
<1> HIDE DEF e
<1>3. s \in Seq(Seq(Sent)) /\ s = [k \in 1 .. n |-> s[k]] /\ \A k \in 1 .. n : s[k] = e(k)
  BY <1>1, <1>2
<1>4. Lines(report, n) = FlattenSeq(s)
  BY Zenon DEF Lines, e
<1>5. Lines(report, 0) = <<>>
  <2>1. [k \in 1 .. 0 |-> e(k)] = <<>>
    OBVIOUS
  <2> QED
    BY <2>1, FlattenEmpty, Zenon DEF Lines, e
<1> HIDE DEF s
<1>6. Lines(report, n) \in Seq(Sent)
  BY <1>3, <1>4, FlattenTyped
<1>7. n # 0 => e(n) \in Seq(Sent) /\ Lines(report, n) = Lines(report, n - 1) \o e(n)
  <2> SUFFICES ASSUME n # 0 PROVE e(n) \in Seq(Sent) /\ Lines(report, n) = Lines(report, n - 1) \o e(n)
    OBVIOUS
  <2>1. n \in Nat \ {0} /\ n \in 1 .. n /\ \A k \in 1 .. n - 1 : k \in 1 .. n
    BY <1>1
  <2>2. e(n) \in Seq(Sent) /\ s[n] = e(n)
    BY <1>2, <1>3, <2>1
  <2>3. FlattenSeq(s) = FlattenSeq([k \in 1 .. n - 1 |-> s[k]]) \o s[n]
    BY <1>3, <2>1, <2>2, FlattenLast
  <2>4. [k \in 1 .. n - 1 |-> s[k]] = [k \in 1 .. n - 1 |-> e(k)]
    BY <1>3, <2>1
  <2>5. Lines(report, n - 1) = FlattenSeq([k \in 1 .. n - 1 |-> e(k)])
    BY Zenon DEF Lines, e
  <2> QED
    BY <1>4, <2>2, <2>3, <2>4, <2>5, Zenon
<1> QED
  BY <1>5, <1>6, <1>7 DEF e

-----------------------------------------------------------------------------
(* What is sent                                                            *)

\* A message: what is sent and what is ahead make up its text.
MessageInv ==
    /\ row = NoRow => pc \in {"log", "sent", "scan", "emit", "done"}
    /\ pc = "log" =>
         /\ row = NoRow /\ call \in Messages
         /\ WellFormed(call.fmt) =>
              /\ f \in 1 .. Len(call.fmt) + 1 /\ a \in Nat \ {0}
              /\ WellFormedFrom(call.fmt)[<<f, a>>] /\ SuitsFrom(call)[<<f, a>>]
              /\ IsText(port) /\ port \o LogText(call)[<<f, a>>] = LogText(call)[<<1, 1>>]
    /\ pc = "sent" /\ row = NoRow =>
         call \in Messages /\ (WellFormed(call.fmt) => port = LogText(call)[<<1, 1>>])

\* A table: the line above it and the lines of the rows so far were sent.
TableInv ==
    row # NoRow =>
      /\ report \in Seq(Rows) /\ row \in 0 .. Len(report)
      /\ pc \in {"border", "next", "scan", "emit", "done", "row", "sent"}
      /\ pc = "border" => \/ row = 0 /\ port = <<>>
                          \/ row = Len(report) /\ port = Border \o Lines(report, row)
      /\ pc = "next" => port = Border \o Lines(report, row)
      /\ pc \in {"scan", "emit", "done", "row"} => row >= 1 /\ port = Border \o Lines(report, row - 1)
      /\ pc \in {"scan", "emit", "done"} => call = report[row]
      /\ pc = "row" => String(buffer) = Line(RowText(report[row]))
      /\ pc = "sent" => port = (Border \o Lines(report, Len(report))) \o Border

LogInv ==
    /\ LogBounded
    /\ (row # NoRow \/ CallsTyped) /\ pc \in {"scan", "emit", "done"} => CallInv
    /\ MessageInv
    /\ TableInv

LEMMA LogInvInit == MessagesTyped /\ HeapsTyped /\ LogInit => LogInv
<1> SUFFICES ASSUME MessagesTyped, HeapsTyped, LogInit PROVE LogInv
  OBVIOUS
<1>1. LogBounded
  BY LogBoundedInit
<1>2. Rest \in Seq(AnyCharacter)
  BY DEF MessagesTyped
<1>3. NoRow # 0
  BY DEF NoRow
<1>4. CASE Init /\ row = NoRow
  <2>1. call \in Calls /\ CallStart
    BY <1>4 DEF Init, CallStart
  <2>2. CallsTyped => CallInv
    BY <1>2, <2>1, CallInit DEF CallsTyped
  <2>3. pc = "scan"
    BY <1>4 DEF Init
  <2> QED
    BY <1>1, <1>4, <2>2, <2>3 DEF LogInv, MessageInv, TableInv
<1>5. CASE pc = "log" /\ call \in Messages /\ row = NoRow /\ f = 1 /\ a = 1 /\ port = <<>>
  <2>1. Typed(call)
    BY <1>5 DEF MessagesTyped
  <2>2. WellFormed(call.fmt) =>
              /\ f \in 1 .. Len(call.fmt) + 1 /\ a \in Nat \ {0}
              /\ WellFormedFrom(call.fmt)[<<f, a>>] /\ SuitsFrom(call)[<<f, a>>]
              /\ IsText(port) /\ port \o LogText(call)[<<f, a>>] = LogText(call)[<<1, 1>>]
    <3> SUFFICES ASSUME WellFormed(call.fmt)
                 PROVE  /\ f \in 1 .. Len(call.fmt) + 1 /\ a \in Nat \ {0}
                        /\ WellFormedFrom(call.fmt)[<<f, a>>] /\ SuitsFrom(call)[<<f, a>>]
                        /\ IsText(port) /\ port \o LogText(call)[<<f, a>>] = LogText(call)[<<1, 1>>]
      OBVIOUS
    <3> DEFINE whole == LogText(call)[<<1, 1>>]
    <3>1. /\ WellFormedFrom(call.fmt)[<<1, 1>>] /\ SuitsFrom(call)[<<1, 1>>]
          /\ IsText(whole) /\ 1 \in 1 .. Len(call.fmt) + 1
      BY <1>2, <2>1, CallStarts
    <3> HIDE DEF whole
    <3>2. <<>> \o whole = whole /\ IsText(<<>>)
      BY <3>1, ConcatEmptySeq DEF IsText
    <3>3. 1 \in Nat \ {0}
      OBVIOUS
    <3> QED
      BY <1>5, <3>1, <3>2, <3>3, Zenon DEF whole
  <2>3. MessageInv
    BY <1>5, <2>2 DEF MessageInv
  <2> QED
    BY <1>1, <1>5, <2>3 DEF LogInv, TableInv
<1>6. CASE pc = "border" /\ report \in {Report(h) : h \in Heaps} /\ row = 0 /\ port = <<>>
  <2>1. report \in Seq(Rows)
    BY <1>6, ReportTyped
  <2>2. 0 \in 0 .. Len(report)
    BY <2>1
  <2> QED
    BY <1>1, <1>3, <1>6, <2>1, <2>2 DEF LogInv, MessageInv, TableInv
<1> QED
  BY <1>4, <1>5, <1>6 DEF LogInit

\* What a step of debug_printf sends is what the next piece of the message means.
LEMMA SaidMeans ==
  ASSUME MessagesTyped, LogInv, pc = "log", WellFormed(call.fmt), CharOf(call.fmt, f) # NUL,
         NEW said, NEW u, NEW v,
         After(call.fmt, <<f, a>>) = <<u, v>>, v \in Nat \ {0},
         Suits(CharOf(call.fmt, f + 1), call.args[a]) /\ CharOf(call.fmt, f) = "%"
           => said = LogMeaning(CharOf(call.fmt, f + 1), call.args[a]),
         CharOf(call.fmt, f) # "%" => said = <<CharOf(call.fmt, f)>>
  PROVE  /\ u \in 1 .. Len(call.fmt) + 1
         /\ WellFormedFrom(call.fmt)[<<u, v>>] /\ SuitsFrom(call)[<<u, v>>]
         /\ IsText(port \o said)
         /\ (port \o said) \o LogText(call)[<<u, v>>] = LogText(call)[<<1, 1>>]
<1> DEFINE w == <<f, a>>
           behind == LogText(call)[<<u, v>>]
<1>1. call \in Messages /\ Rest \in Seq(AnyCharacter) /\ call.fmt \in Seq(Characters) /\ Len(call.fmt) \in Nat
  BY DEF MessagesTyped, LogInv, MessageInv, Typed
<1>2. /\ f \in 1 .. Len(call.fmt) + 1 /\ a \in Nat \ {0}
      /\ WellFormedFrom(call.fmt)[w] /\ SuitsFrom(call)[w]
      /\ IsText(port) /\ port \o LogText(call)[w] = LogText(call)[<<1, 1>>]
  BY DEF LogInv, MessageInv
<1>3. f \in Nat \ {0} /\ f \in 1 .. Len(call.fmt) /\ ~(f > Len(call.fmt)) /\ f <= Len(call.fmt)
  <2>1. f \in Nat \ {0} /\ (f <= Len(call.fmt) \/ f = Len(call.fmt) + 1)
    <3>1. \A n \in Nat : \A i \in 1 .. n + 1 : i \in Nat \ {0} /\ (i <= n \/ i = n + 1)
      OBVIOUS
    <3> QED
      BY <1>1, <1>2, <3>1, Zenon
  <2>2. f # Len(call.fmt) + 1
    BY <1>1, <2>1, CharTyped
  <2> QED
    BY <1>1, <2>1, <2>2
<1>4. w \in Walk /\ w[1] = f /\ w[2] = a /\ w[1] \in 1 .. Len(call.fmt)
  BY <1>2, <1>3 DEF Walk
<1>5. /\ WellFormedFrom(call.fmt)[<<u, v>>] /\ SuitsFrom(call)[<<u, v>>]
      /\ u \in 1 .. Len(call.fmt) + 1
      /\ call.fmt[f] = "%" => /\ CharOf(call.fmt, f + 1) = call.fmt[f + 1]
                              /\ Suits(call.fmt[f + 1], call.args[a])
      /\ IsText(LogPiece(call, w))
  BY <1>1, <1>2, <1>3, WalkGoesFrom, Zenon
<1>6. CharOf(call.fmt, f) = call.fmt[f]
  BY <1>1, <1>3, CharTyped
<1>7. said = LogPiece(call, w)
  BY <1>4, <1>5, <1>6 DEF LogPiece
<1>8. LogText(call)[w] = said \o behind
  BY <1>1, <1>3, <1>4, <1>7, LogTextRecursion, Zenon
<1>9. IsText(behind)
  <2>1. u \in Nat /\ u >= 1 /\ u \in 1 .. Len(call.fmt) + 1
    BY <1>1, <1>5
  <2>2. <<u, v>> \in Walk /\ <<u, v>>[1] >= 1
    BY <2>1 DEF Walk
  <2> QED
    BY <1>1, <1>5, <2>2, TextTyped
<1> HIDE DEF behind, w
<1>10. IsText(said) /\ IsText(port)
  BY <1>2, <1>5, <1>7
<1>11. IsText(port \o said) /\ (port \o said) \o behind = port \o (said \o behind)
  <2>1. /\ said \in Seq(AnyCharacter) /\ port \in Seq(AnyCharacter)
        /\ behind \in Seq(AnyCharacter)
    BY <1>9, <1>10 DEF IsText
  <2>2. port \o said \in Seq(AnyCharacter)
    BY <2>1, ConcatProperties
  <2> QED
    BY <2>1, <2>2, ConcatAssociative DEF IsText
<1>12. (port \o said) \o behind = LogText(call)[<<1, 1>>]
  BY <1>2, <1>8, <1>11, Zenon
<1>13. u \in 1 .. Len(call.fmt) + 1
  BY <1>1, <1>5
<1> QED
  BY <1>5, <1>11, <1>12, <1>13 DEF behind


LEMMA SayExact ==
  ASSUME MessagesTyped, LogInv, LogBounded', Say \/ SayDirective
  PROVE  LogInv'
<1> DEFINE c == CharOf(call.fmt, f)
           d == CharOf(call.fmt, f + 1)
           arg == call.args[a]
           said == IF c = "%" THEN Logged(d, arg) ELSE <<c>>
           whole == LogText(call)[<<1, 1>>]
<1>1. pc = "log" /\ pc' = "log" /\ c # NUL /\ call' = call /\ row' = row
  <2>1. "%" # NUL
    BY DEF NUL
  <2> QED
    BY <2>1 DEF Say, SayDirective, Char
<1>2. row = NoRow /\ call \in Messages
  BY <1>1 DEF LogInv, MessageInv
<1>3. /\ Rest \in Seq(AnyCharacter) /\ call.fmt \in Seq(Characters)
  BY <1>2 DEF MessagesTyped, Typed
<1>4. ASSUME WellFormed(call.fmt)
      PROVE  /\ f' \in 1 .. Len(call.fmt) + 1 /\ a' \in Nat \ {0}
             /\ WellFormedFrom(call.fmt)[<<f', a'>>] /\ SuitsFrom(call)[<<f', a'>>]
             /\ IsText(port') /\ port' \o LogText(call)[<<f', a'>>] = whole
  <2>1. f \in 1 .. Len(call.fmt) + 1 /\ a \in Nat \ {0} /\ IsText(port)
    BY <1>1, <1>4 DEF LogInv, MessageInv
  <2>2. f \in Nat \ {0} /\ f + 1 \in Nat \ {0}
    <3>1. \A n \in Nat : \A i \in 1 .. n + 1 : i \in Nat \ {0} /\ i + 1 \in Nat \ {0}
      OBVIOUS
    <3>2. Len(call.fmt) \in Nat
      BY <1>3
    <3> QED
      BY <2>1, <3>1, <3>2, Zenon
  <2>3. c \in AnyCharacter /\ d \in AnyCharacter
    BY <1>3, <2>2, CharTyped
  <2>4. After(call.fmt, <<f, a>>) = <<f', a'>> /\ a' \in Nat \ {0}
    <3>1. /\ c # "%" => f' = f + 1 /\ a' = a
          /\ c = "%" => f' = f + 2 /\ a' = NextArg(d)
      BY DEF Say, SayDirective, Char
    <3>2. f \in Nat /\ a \in Nat /\ a + 1 \in Nat \ {0}
      BY <2>1, <2>2
    <3>3. NextArg(d) = IF d \in TakesArg THEN a + 1 ELSE a
      BY Zenon DEF NextArg
    <3>4. a' \in Nat \ {0}
      BY <2>1, <3>1, <3>2, <3>3, Zenon
    <3>5. CharOf(call.fmt, f) # "%" => f' = f + 1 /\ a' = a
      BY <3>1
    <3>6. CharOf(call.fmt, f) = "%" =>
            f' = f + 2 /\ a' = IF CharOf(call.fmt, f + 1) \in TakesArg THEN a + 1 ELSE a
      BY <3>1, <3>3
    <3> HIDE DEF c, d, arg, said, whole
    <3>7. CASE CharOf(call.fmt, f) # "%"
      <4>1. After(call.fmt, <<f, a>>) = <<f + 1, a>>
        BY <3>2, <3>7, AfterIs
      <4> QED
        BY <3>4, <3>5, <3>7, <4>1
    <3>8. CASE CharOf(call.fmt, f) = "%"
      <4>1. After(call.fmt, <<f, a>>) =
              <<f + 2, IF CharOf(call.fmt, f + 1) \in TakesArg THEN a + 1 ELSE a>>
        BY <3>2, <3>8, AfterIs
      <4> QED
        BY <3>4, <3>6, <3>8, <4>1
    <3> QED
      BY <3>7, <3>8
  <2>5. port' = port \o said
    <3>1. CASE Say
      <4>1. c # "%" /\ port' = Append(port, c)
        BY <3>1 DEF Say, Char
      <4>2. Append(port, c) = port \o <<c>>
        BY <2>1, <2>3, AppendIsConcat DEF IsText
      <4> QED
        BY <4>1, <4>2, Zenon
    <3>2. CASE SayDirective
      <4>1. c = "%" /\ port' = port \o Logged(d, arg)
        BY <3>2 DEF SayDirective, Char
      <4> QED
        BY <4>1, Zenon
    <3> QED
      BY <3>1, <3>2
  <2>6. Suits(d, arg) /\ c = "%" => said = LogMeaning(d, arg)
    BY <2>3, LoggedMeans, Zenon
  <2>7. c # "%" => said = <<c>>
    BY Zenon
  <2> HIDE DEF said
  <2>8. /\ f' \in 1 .. Len(call.fmt) + 1
        /\ WellFormedFrom(call.fmt)[<<f', a'>>] /\ SuitsFrom(call)[<<f', a'>>]
        /\ IsText(port \o said)
        /\ (port \o said) \o LogText(call)[<<f', a'>>] = whole
    BY <1>1, <1>4, <2>4, <2>6, <2>7, SaidMeans, Zenon
  <2> QED
    BY <2>4, <2>5, <2>8, Zenon
<1> HIDE DEF c, d, arg, said
<1>5. MessageInv'
  <2>1. /\ pc' = "log" /\ row' = NoRow /\ call' \in Messages
        /\ WellFormed(call'.fmt) =>
             /\ f' \in 1 .. Len(call'.fmt) + 1 /\ a' \in Nat \ {0}
             /\ WellFormedFrom(call'.fmt)[<<f', a'>>] /\ SuitsFrom(call')[<<f', a'>>]
             /\ IsText(port') /\ port' \o LogText(call')[<<f', a'>>] = LogText(call')[<<1, 1>>]
    BY <1>1, <1>2, <1>4, Zenon
  <2> QED
    BY <2>1 DEF MessageInv
<1>6. TableInv'
  BY <1>1, <1>2 DEF TableInv
<1> QED
  BY <1>1, <1>5, <1>6 DEF LogInv

\* Behind the last character there is nothing left to send.
LEMMA SayEndExact ==
  ASSUME MessagesTyped, LogInv, LogBounded', SayEnd
  PROVE  LogInv'
<1>1. pc = "log" /\ pc' = "sent" /\ CharOf(call.fmt, f) = NUL /\ UNCHANGED <<call, row, port>>
  BY DEF SayEnd, Char
<1>2. row = NoRow /\ call \in Messages
  BY <1>1 DEF LogInv, MessageInv
<1>3. /\ Rest \in Seq(AnyCharacter) /\ call.fmt \in Seq(Characters)
  BY <1>2 DEF MessagesTyped, Typed
<1>4. ASSUME WellFormed(call.fmt)
      PROVE  port = LogText(call)[<<1, 1>>]
  <2>1. /\ f \in 1 .. Len(call.fmt) + 1 /\ a \in Nat \ {0}
        /\ IsText(port) /\ port \o LogText(call)[<<f, a>>] = LogText(call)[<<1, 1>>]
    BY <1>1, <1>4 DEF LogInv, MessageInv
  <2>2. f \in Nat \ {0} /\ (f <= Len(call.fmt) \/ f > Len(call.fmt))
    <3>1. \A n \in Nat : \A i \in 1 .. n + 1 : i \in Nat \ {0} /\ (i <= n \/ i > n)
      OBVIOUS
    <3>2. Len(call.fmt) \in Nat
      BY <1>3
    <3> QED
      BY <2>1, <3>1, <3>2, Zenon
  <2>3. f > Len(call.fmt)
    BY <1>1, <1>3, <2>2, CharTyped
  <2>4. LogText(call)[<<f, a>>] = <<>>
    <3>1. <<f, a>> \in Walk /\ <<f, a>>[1] = f
      BY <2>1, <2>2 DEF Walk
    <3> QED
      BY <1>3, <2>3, <3>1, LogTextRecursion, Zenon
  <2>5. port \o <<>> = port
    BY <2>1, ConcatEmptySeq DEF IsText
  <2> QED
    BY <2>1, <2>4, <2>5, Zenon
<1>5. MessageInv'
  <2>1. /\ pc' = "sent" /\ row' = NoRow /\ call' \in Messages
        /\ WellFormed(call'.fmt) => port' = LogText(call')[<<1, 1>>]
    BY <1>1, <1>2, <1>4, Zenon
  <2> QED
    BY <2>1 DEF MessageInv
<1>6. TableInv'
  BY <1>1, <1>2 DEF TableInv
<1> QED
  BY <1>1, <1>5, <1>6 DEF LogInv


\* A step of snprintf keeps what its own invariant says, and moves nothing else.
LEMMA SnprintfExact ==
  ASSUME LogInv, LogBounded', Snprintf
  PROVE  LogInv'
<1>1. /\ UNCHANGED <<call, report, row, port>>
      /\ pc \in {"scan", "emit"} /\ pc' \in {"scan", "emit", "done"}
  BY DEF Snprintf, Next, Literal, Directive, Emit, EmitDone, Close
<1>2. row' # NoRow \/ CallsTyped => CallInv'
  <2>1. row # NoRow \/ CallsTyped => CallInv
    BY <1>1 DEF LogInv
  <2>2. Bounded /\ [Next]_vars
    BY DEF LogInv, LogBounded, Snprintf
  <2> QED
    BY <1>1, <2>1, <2>2, CallNext
<1>3. MessageInv'
  BY <1>1 DEF LogInv, MessageInv
<1>4. TableInv'
  <2>1. row # NoRow => /\ report \in Seq(Rows) /\ row \in 0 .. Len(report)
                       /\ row >= 1 /\ port = Border \o Lines(report, row - 1)
                       /\ call = report[row]
    BY <1>1 DEF LogInv, TableInv
  <2>2. row' # NoRow => /\ report' \in Seq(Rows) /\ row' \in 0 .. Len(report')
                        /\ row' >= 1 /\ port' = Border \o Lines(report', row' - 1)
                        /\ call' = report'[row']
    BY <1>1, <2>1, Zenon
  <2> QED
    BY <1>1, <2>2 DEF TableInv
<1> QED
  BY <1>2, <1>3, <1>4 DEF LogInv

\* The line above the first row, or the one below the last.
LEMMA BorderExact ==
  ASSUME MessagesTyped, LogInv, LogBounded', SendBorder
  PROVE  LogInv'
<1>1. /\ pc = "border" /\ UNCHANGED <<report, row>> /\ port' = port \o Border
      /\ pc' = IF port = <<>> THEN "next" ELSE "sent"
  BY DEF SendBorder
<1>2. row # NoRow
  BY <1>1 DEF LogInv, MessageInv
<1>3. /\ report \in Seq(Rows) /\ row \in 0 .. Len(report)
      /\ \/ row = 0 /\ port = <<>>
         \/ row = Len(report) /\ port = Border \o Lines(report, row)
  BY <1>1, <1>2 DEF LogInv, TableInv
<1>4. Border \in Seq(Sent) /\ Border # <<>>
  BY BorderTyped
<1>5. Lines(report, row) \in Seq(Sent) /\ Lines(report, 0) = <<>>
  BY <1>3, LinesAre DEF MessagesTyped
<1>6. CASE port = <<>>
  <2>1. row = 0
    <3>1. Border \o Lines(report, row) # <<>>
      BY <1>4, <1>5, ConcatEmptySeq, ConcatProperties
    <3> QED
      BY <1>3, <1>6, <3>1, Zenon
  <2>2. port' = Border \o Lines(report, 0)
    <3>1. <<>> \o Border = Border /\ Border \o <<>> = Border
      BY <1>4, ConcatEmptySeq
    <3> QED
      BY <1>1, <1>5, <1>6, <3>1, Zenon
  <2>3. pc' = "next" /\ row' # NoRow /\ report' \in Seq(Rows) /\ row' \in 0 .. Len(report')
        /\ port' = Border \o Lines(report', row')
    BY <1>1, <1>2, <1>3, <1>6, <2>1, <2>2, Zenon
  <2> QED
    BY <2>3 DEF LogInv, MessageInv, TableInv
<1>7. CASE port # <<>>
  <2>1. row = Len(report) /\ port' = (Border \o Lines(report, Len(report))) \o Border
    BY <1>1, <1>3, <1>7, Zenon
  <2>2. pc' = "sent" /\ row' # NoRow /\ report' \in Seq(Rows) /\ row' \in 0 .. Len(report')
        /\ port' = (Border \o Lines(report', Len(report'))) \o Border
    BY <1>1, <1>2, <1>3, <1>7, <2>1, Zenon
  <2> QED
    BY <2>2 DEF LogInv, MessageInv, TableInv
<1> QED
  BY <1>6, <1>7

\* A call that starts at the next state.
LEMMA CallInitNext == (Rest \in Seq(AnyCharacter) /\ Typed(call) /\ CallStart)' => CallInv'
<1>1. Rest \in Seq(AnyCharacter) /\ Typed(call) /\ CallStart => CallInv
  BY CallInit
<1> QED
  BY <1>1, PTL

\* The next row, or the end of the table.
LEMMA NextRowExact ==
  ASSUME MessagesTyped, LogInv, LogBounded', NextRow \/ LastRow
  PROVE  LogInv'
<1>1. pc = "next" /\ UNCHANGED <<report, port>>
  BY DEF NextRow, LastRow
<1>2. row # NoRow
  BY <1>1 DEF LogInv, MessageInv
<1>3. report \in Seq(Rows) /\ row \in 0 .. Len(report) /\ port = Border \o Lines(report, row)
  BY <1>1, <1>2 DEF LogInv, TableInv
<1>4. Rest \in Seq(AnyCharacter)
  BY DEF MessagesTyped
<1>5. CASE NextRow
  <2>1. /\ row < Len(report) /\ row' = row + 1 /\ call' = report[row + 1]
        /\ f' = 1 /\ a' = 1 /\ written' = 0 /\ pc' = "scan"
    BY <1>5 DEF NextRow
  <2>2. Len(report) \in Nat /\ row \in Nat
    BY <1>3
  <2>3. row' \in 0 .. Len(report) /\ row' \in 1 .. Len(report) /\ row' >= 1 /\ row' - 1 = row /\ row' # NoRow
    BY <2>1, <2>2 DEF NoRow
  <2>4. call' = report[row'] /\ report[row'] \in Rows
    BY <1>3, <2>1, <2>3
  <2>5. Typed(call')
    BY <1>4, <2>4, RowsFit, Zenon DEF RowFits
  <2>6. CallInv'
    BY <1>4, <2>1, <2>5, CallInitNext DEF CallStart
  <2>7. /\ report' \in Seq(Rows) /\ row' \in 0 .. Len(report')
        /\ port' = Border \o Lines(report', row' - 1) /\ call' = report'[row']
    BY <1>1, <1>3, <2>3, <2>4, Zenon
  <2>8. TableInv'
    BY <2>1, <2>3, <2>7 DEF TableInv
  <2> QED
    BY <2>1, <2>3, <2>6, <2>8 DEF LogInv, MessageInv
<1>6. CASE LastRow
  <2>1. row = Len(report) /\ row' = row /\ pc' = "border"
    BY <1>6 DEF LastRow
  <2>2. /\ report' \in Seq(Rows) /\ row' \in 0 .. Len(report') /\ row' = Len(report') /\ row' # NoRow
        /\ port' = Border \o Lines(report', row')
    BY <1>1, <1>2, <1>3, <2>1, Zenon
  <2> QED
    BY <2>1, <2>2 DEF LogInv, MessageInv, TableInv
<1> QED
  BY <1>5, <1>6

\* A row is padded to its line, and the line is sent behind those before it.
LEMMA RowExact ==
  ASSUME MessagesTyped, LogInv, LogBounded', PadRow \/ SendRow
  PROVE  LogInv'
<1>1. UNCHANGED <<report, row>> /\ row # NoRow
  BY DEF PadRow, SendRow, LogInv, MessageInv
<1>2. Rest \in Seq(AnyCharacter)
  BY DEF MessagesTyped
<1>3. /\ report \in Seq(Rows) /\ row \in 0 .. Len(report)
      /\ row >= 1 /\ port = Border \o Lines(report, row - 1)
  BY <1>1 DEF PadRow, SendRow, LogInv, TableInv
<1>4. row \in 1 .. Len(report)
  BY <1>3
<1>5. CASE PadRow
  <2>1. pc = "done" /\ pc' = "row" /\ port' = port
    BY <1>5 DEF PadRow
  <2>2. call = report[row]
    BY <1>1, <2>1 DEF LogInv, TableInv
  <2>3. RowFits(call)
    BY <1>2, <1>3, <1>4, <2>2, RowsFit
  <2>4. Bounded /\ size = RowSize /\ CallInv
    BY <1>1, <2>1 DEF LogInv, LogBounded
  <2>5. String(buffer') = Line(RowText(report[row]))
    BY <1>5, <2>2, <2>3, <2>4, PadMakesLine DEF RowText
  <2>6. /\ report' \in Seq(Rows) /\ row' \in 0 .. Len(report') /\ row' >= 1 /\ row' # NoRow
        /\ port' = Border \o Lines(report', row' - 1)
        /\ String(buffer') = Line(RowText(report'[row']))
    BY <1>1, <1>3, <2>1, <2>5, Zenon
  <2> QED
    BY <2>1, <2>6 DEF LogInv, MessageInv, TableInv
<1>6. CASE SendRow
  <2>1. pc = "row" /\ pc' = "next" /\ port' = port \o String(buffer)
    BY <1>6 DEF SendRow
  <2>2. String(buffer) = Line(RowText(report[row]))
    BY <1>1, <2>1 DEF LogInv, TableInv
  <2>3. row # 0 /\ row \in 0 .. Len(report) /\ row - 1 \in 0 .. Len(report)
    BY <1>3
  <2> DEFINE line == Line(RowText(report[row]))
             before == Lines(report, row - 1)
  <2>4. line \in Seq(Sent) /\ Lines(report, row) = before \o line
    BY <1>2, <1>3, <2>3, LinesAre
  <2>5. before \in Seq(Sent)
    BY <1>2, <1>3, <2>3, LinesAre
  <2>6. Border \in Seq(Sent)
    BY BorderTyped
  <2> HIDE DEF line, before
  <2>7. (Border \o before) \o line = Border \o (before \o line)
    BY <2>4, <2>5, <2>6, ConcatAssociative
  <2>8. port' = Border \o Lines(report, row)
    BY <1>3, <2>1, <2>2, <2>4, <2>7, Zenon DEF line, before
  <2>9. /\ report' \in Seq(Rows) /\ row' \in 0 .. Len(report') /\ row' # NoRow
        /\ port' = Border \o Lines(report', row')
    BY <1>1, <1>3, <2>8, Zenon
  <2> QED
    BY <2>1, <2>9 DEF LogInv, MessageInv, TableInv
<1> QED
  BY <1>5, <1>6


LEMMA LogInvNext == MessagesTyped /\ LogInv /\ [LogNext]_logvars => LogInv'
<1> SUFFICES ASSUME MessagesTyped, LogInv, [LogNext]_logvars PROVE LogInv'
  OBVIOUS
<1>1. LogBounded'
  BY LogBoundedNext DEF LogInv
<1>2. CASE UNCHANGED logvars
  <2>1. UNCHANGED <<pc, call, size, f, a, todo, written, buffer, report, row, port>>
    BY <1>2 DEF logvars, vars
  <2>2. row # NoRow \/ CallsTyped => (pc \in {"scan", "emit", "done"} => CallInv')
    <3>1. CallInv => CallInv'
      BY <1>2, CallNext DEF LogInv, LogBounded, logvars
    <3> QED
      BY <3>1 DEF LogInv
  <2>3. MessageInv' /\ TableInv'
    BY <2>1 DEF LogInv, MessageInv, TableInv
  <2> QED
    BY <1>1, <2>1, <2>2, <2>3 DEF LogInv
<1> QED
  BY <1>1, <1>2, SnprintfExact, SayExact, SayEndExact, BorderExact, NextRowExact, RowExact DEF LogNext

\* What the port has got in the end.
LEMMA LogEnded == MessagesTyped /\ LogInv => PortExact
<1> SUFFICES ASSUME MessagesTyped, LogInv, pc = "sent"
             PROVE  IF row = NoRow THEN WellFormed(call.fmt) => port = TextOf(call, LogMeaning)
                    ELSE LET text == [k \in 1 .. Len(report) |-> TextOf(report[k], Meaning)]
                         IN  /\ \A k \in 1 .. Len(report) : Len(text[k]) <= 92
                             /\ port = Border \o FlattenSeq([k \in 1 .. Len(report) |-> Line(text[k])]) \o Border
  BY DEF PortExact
<1>1. CASE row = NoRow
  <2>1. call \in Messages /\ (WellFormed(call.fmt) => port = LogText(call)[<<1, 1>>])
    BY <1>1 DEF LogInv, MessageInv
  <2>2. call.fmt \in Seq(Characters)
    BY <2>1 DEF MessagesTyped, Typed
  <2>3. TextOf(call, LogMeaning) = LogText(call)[<<1, 1>>]
    BY <2>2, LogTextRecursion
  <2> QED
    BY <1>1, <2>1, <2>3, Zenon
<1>2. CASE row # NoRow
  <2> DEFINE n == Len(report)
             text == [k \in 1 .. n |-> TextOf(report[k], Meaning)]
  <2>1. report \in Seq(Rows) /\ port = (Border \o Lines(report, n)) \o Border
    BY <1>2 DEF LogInv, TableInv
  <2>2. ASSUME NEW k \in 1 .. n
        PROVE  text[k] = RowText(report[k]) /\ Len(text[k]) <= 92
    <3>1. report[k] \in Rows
      BY <2>1
    <3>2. RowFits(report[k])
      BY <3>1, RowsFit DEF MessagesTyped
    <3>3. report[k].fmt \in Seq(Characters)
      BY <3>2 DEF RowFits, Typed
    <3>4. TextOf(report[k], Meaning) = RowText(report[k])
      BY <3>3, TextRecursion DEF RowText
    <3>5. Len(RowText(report[k])) <= 92
      BY <3>2 DEF RowFits, RowText
    <3> QED
      BY <3>4, <3>5, Zenon
  <2> HIDE DEF text
  <2>3. [k \in 1 .. n |-> Line(text[k])] = [k \in 1 .. n |-> Line(RowText(report[k]))]
    BY <2>2, Zenon
  <2>4. port = (Border \o FlattenSeq([k \in 1 .. n |-> Line(text[k])])) \o Border
    BY <2>1, <2>3, Zenon DEF Lines
  <2> QED
    BY <1>2, <2>2, <2>4, Zenon DEF text
<1> QED
  BY <1>1, <1>2

\* What debug_printf sends is the text of its message, and print_memory_allocations
\* sends the table: every row has room for its text, whatever the heap, is padded to
\* one width and sent once, in order (log.c:37-116, alloc.c:182-221).
THEOREM SentIsExact ==
  ASSUME MessagesTyped, HeapsTyped
  PROVE  LogSpec => []PortExact
<1>1. LogInit => LogInv
  BY LogInvInit
<1>2. LogInv /\ [LogNext]_logvars => LogInv'
  BY LogInvNext
<1>3. LogInv => PortExact
  BY LogEnded
<1> QED
  BY <1>1, <1>2, <1>3, PTL DEF LogSpec

\* snprintf writes the right text also in the rows of the table (stdio.c:21-126,
\* alloc.c:195-209).
THEOREM RowsAreExact ==
  ASSUME CallsTyped, MessagesTyped, HeapsTyped
  PROVE  LogSpec => []Exact
<1>1. LogInit => LogInv
  BY LogInvInit
<1>2. LogInv /\ [LogNext]_logvars => LogInv'
  BY LogInvNext
<1>3. LogInv => Exact
  <2>1. LogInv /\ pc = "done" => Bounded /\ CallInv
    BY DEF LogInv, LogBounded
  <2>2. pc # "done" => Exact
    BY DEF Exact
  <2> QED
    BY <2>1, <2>2, CallEnds
<1> QED
  BY <1>1, <1>2, <1>3, PTL DEF LogSpec

-----------------------------------------------------------------------------
(* Every call comes to its end                                             *)

\* The walk over a format ends at the first NUL behind the place it has come to: at
\* the latest behind Rest, where a '%' before it has taken the walk over one.
Top == Len(call.fmt) + Len(Rest) + 3

\* What the walk has still to read and the buffer to take, what a row costs at most,
\* and what is left when a row has been formatted.
CallLeft == (size - written) + (Top - f)
RowCost == Len(Rest) + 159
RowsLeft == RowCost * (Len(report) - row)
BehindCall == IF row = NoRow THEN 0 ELSE RowsLeft + 4

StepsLeft ==
    CASE pc \in {"scan", "emit"} -> CallLeft + 1 + BehindCall
      [] pc = "done"   -> BehindCall
      [] pc = "row"    -> RowsLeft + 3
      [] pc = "next"   -> RowsLeft + 2
      [] pc = "border" -> IF port = <<>> THEN RowsLeft + 3 ELSE 1
      [] pc = "log"    -> Top - f + 1
      [] OTHER         -> 0

Returned == pc = "sent" \/ (pc = "done" /\ row = NoRow)

Walking == pc \in {"log", "scan", "emit", "done"}
Reached == Walking => f \in Nat \ {0} /\ f <= Top /\ (pc = "emit" => f < Top)

\* Of what a table is made.
LEMMA TableParts ==
  ASSUME LogInv, row # NoRow
  PROVE  /\ Len(report) \in Nat /\ row \in Nat /\ row <= Len(report)
         /\ report \in Seq(Rows)
         /\ pc \in {"border", "next", "scan", "emit", "done", "row", "sent"}
<1>1. report \in Seq(Rows) /\ row \in 0 .. Len(report)
      /\ pc \in {"border", "next", "scan", "emit", "done", "row", "sent"}
  BY DEF LogInv, TableInv
<1> QED
  BY <1>1

\* The call at work has a format.
LEMMA TopIsNat ==
  ASSUME CallsTyped, MessagesTyped, LogInv, Walking
  PROVE  /\ call.fmt \in Seq(Characters) /\ Rest \in Seq(AnyCharacter)
         /\ Len(call.fmt) \in Nat /\ Len(Rest) \in Nat /\ Top \in Nat
<1>1. Rest \in Seq(AnyCharacter)
  BY DEF MessagesTyped
<1>2. Typed(call)
  <2>1. CASE pc = "log"
    BY <2>1 DEF LogInv, MessageInv, MessagesTyped
  <2>2. CASE pc \in {"scan", "emit", "done"}
    BY <2>2 DEF LogInv, CallInv
  <2> QED
    BY <2>1, <2>2 DEF Walking
<1>3. call.fmt \in Seq(Characters)
  BY <1>2 DEF Typed
<1> QED
  BY <1>1, <1>3 DEF Top

\* Before a NUL there are at least two places more.
LEMMA ReadsBeforeTop ==
  ASSUME CallsTyped, MessagesTyped, LogInv, Walking, f \in Nat \ {0}, Char(f) # NUL
  PROVE  f + 2 <= Top
<1>1. Len(call.fmt) \in Nat /\ Len(Rest) \in Nat
  BY TopIsNat
<1> DEFINE n == Len(call.fmt)
           m == Len(Rest)
<1>2. f <= n \/ f \in n + 2 .. n + 1 + m
  BY Zenon DEF Char, CharOf
<1> HIDE DEF n, m
<1>3. f <= n + 1 + m
  BY <1>1, <1>2 DEF n, m
<1> QED
  BY <1>1, <1>3 DEF n, m, Top

LEMMA ReachedInit == MessagesTyped /\ CallsTyped /\ LogInit => Reached
<1> SUFFICES ASSUME MessagesTyped, CallsTyped, LogInit, Walking PROVE f \in Nat \ {0} /\ f <= Top /\ pc # "emit"
  BY DEF Reached
<1>1. f = 1 /\ pc # "emit"
  BY DEF LogInit, Init
<1>2. pc \in {"scan", "log"}
  BY DEF LogInit, Init, Walking
<1>3. Typed(call)
  BY <1>2 DEF LogInit, Init, CallsTyped, MessagesTyped
<1>4. Len(call.fmt) \in Nat /\ Len(Rest) \in Nat
  BY <1>3 DEF Typed, MessagesTyped
<1> QED
  BY <1>1, <1>4 DEF Top

\* A step of the walk, with what it does to the place and the bytes written.
LEMMA WalkSteps ==
  ASSUME CallsTyped, MessagesTyped, LogInv, Reached, Next
  PROVE  /\ Walking /\ call' = call /\ size' = size
         /\ f' <= Top /\ (pc' = "emit" => f' < Top) /\ f' \in Nat \ {0}
         /\ \/ /\ pc \in {"scan", "emit"} /\ pc' \in {"scan", "emit"}
               /\ f' >= f /\ written' >= written /\ f' + written' > f + written
               /\ written' <= written + 1
            \/ pc \in {"scan", "emit"} /\ pc' = "done" /\ f' = f /\ written' = written
<1>1. Walking /\ pc \in {"scan", "emit"}
  BY DEF Next, Literal, Directive, Emit, EmitDone, Close, Walking
<1>2. f \in Nat \ {0} /\ f <= Top /\ (pc = "emit" => f < Top) /\ Top \in Nat
  BY <1>1, TopIsNat DEF Reached
<1>3. written \in Nat
  BY DEF LogInv, LogBounded, Bounded
<1>4. CASE Literal
  <2>1. pc = "scan" /\ pc' = pc /\ call' = call /\ size' = size /\ f' = f + 1
        /\ written' = written + 1 /\ Char(f) # NUL
    BY <1>4 DEF Literal, More, Put
  <2>2. f + 2 <= Top
    BY <1>1, <1>2, <2>1, ReadsBeforeTop
  <2> QED
    BY <1>1, <1>2, <1>3, <2>1, <2>2
<1>5. CASE Directive
  <2>1. pc = "scan" /\ pc' = "emit" /\ call' = call /\ size' = size /\ f' = f + 1
        /\ written' = written /\ Char(f) # NUL
    BY <1>5 DEF Directive, More
  <2>2. f + 2 <= Top
    BY <1>1, <1>2, <2>1, ReadsBeforeTop
  <2> QED
    BY <1>1, <1>2, <1>3, <2>1, <2>2
<1>6. CASE Emit
  <2>1. pc = "emit" /\ pc' = pc /\ call' = call /\ size' = size /\ f' = f
        /\ written' = written + 1
    BY <1>6 DEF Emit, Put
  <2> QED
    BY <1>1, <1>2, <1>3, <2>1
<1>7. CASE EmitDone
  <2>1. pc = "emit" /\ pc' = "scan" /\ call' = call /\ size' = size /\ f' = f + 1
        /\ written' = written
    BY <1>7 DEF EmitDone
  <2> QED
    BY <1>1, <1>2, <1>3, <2>1
<1>8. CASE Close
  <2>1. pc = "scan" /\ pc' = "done" /\ call' = call /\ size' = size /\ f' = f
        /\ written' = written
    BY <1>8 DEF Close
  <2> QED
    BY <1>1, <1>2, <1>3, <2>1
<1> QED
  BY <1>4, <1>5, <1>6, <1>7, <1>8 DEF Next

\* Steps outside snprintf leave the walk where it is, or begin one.
LEMMA ReachedNext == CallsTyped /\ MessagesTyped /\ LogInv /\ LogInv' /\ Reached /\ [LogNext]_logvars => Reached'
<1> SUFFICES ASSUME CallsTyped, MessagesTyped, LogInv, LogInv', Reached, [LogNext]_logvars, Walking'
             PROVE  f' \in Nat \ {0} /\ f' <= Top' /\ (pc' = "emit" => f' < Top')
  BY DEF Reached
<1>1. CASE Snprintf
  <2>1. Next /\ Top' = Top
    BY <1>1, WalkSteps DEF Snprintf, Top
  <2> QED
    BY <2>1, WalkSteps
<1>2. CASE Say \/ SayDirective
  <2>1. Walking /\ pc = "log" /\ pc' = "log" /\ call' = call /\ Char(f) # NUL /\ f' \in {f + 1, f + 2}
    BY <1>2 DEF Say, SayDirective, Walking, NUL
  <2>2. f \in Nat \ {0} /\ Top \in Nat /\ Top' = Top
    BY <2>1, TopIsNat DEF Reached, Top
  <2>3. f + 2 <= Top
    BY <2>1, <2>2, ReadsBeforeTop
  <2> QED
    BY <2>1, <2>2, <2>3
<1>3. CASE NextRow
  <2>1. pc' = "scan" /\ f' = 1
    BY <1>3 DEF NextRow
  <2>2. (Len(call.fmt))' \in Nat /\ Len(Rest) \in Nat
    <3>1. Typed(call')
      BY <2>1 DEF LogInv, CallInv
    <3> QED
      BY <3>1 DEF Typed, MessagesTyped
  <2>3. Top' = (Len(call.fmt))' + Len(Rest) + 3
    BY DEF Top
  <2> QED
    BY <2>1, <2>2, <2>3
<1>4. CASE UNCHANGED logvars
  <2>1. UNCHANGED <<pc, call, f>>
    BY <1>4 DEF logvars, vars
  <2> QED
    BY <2>1 DEF Reached, Walking, Top
<1>5. CASE SayEnd \/ SendBorder \/ LastRow \/ PadRow \/ SendRow
  BY <1>5 DEF SayEnd, SendBorder, LastRow, PadRow, SendRow, Walking
<1> QED
  BY <1>1, <1>2, <1>3, <1>4, <1>5 DEF LogNext

\* What is left is a number.
LEMMA CallLeftIsNat ==
  ASSUME CallsTyped, MessagesTyped, LogInv, Reached, pc \in {"scan", "emit"}
  PROVE  CallLeft \in Nat /\ CallLeft >= 1
<1>1. f \in Nat /\ f <= Top /\ Top \in Nat
  BY TopIsNat DEF Reached, Walking
<1>2. size \in Nat /\ written \in Nat /\ written <= size - 1
  BY FormatAssumption DEF LogInv, LogBounded, Bounded
<1> QED
  BY <1>1, <1>2 DEF CallLeft

LEMMA RowsLeftIsNat ==
  ASSUME MessagesTyped, LogInv
  PROVE  /\ RowCost \in Nat /\ RowCost = Len(Rest) + 159 /\ Len(Rest) \in Nat
         /\ row # NoRow => RowsLeft \in Nat
         /\ BehindCall \in Nat
<1>1. Len(Rest) \in Nat
  BY DEF MessagesTyped
<1>2. RowCost \in Nat /\ RowCost = Len(Rest) + 159
  BY <1>1 DEF RowCost
<1>3. ASSUME row # NoRow PROVE RowsLeft \in Nat
  <2>1. Len(report) \in Nat /\ row \in Nat /\ row <= Len(report)
    BY <1>3, TableParts
  <2>2. ASSUME NEW r \in Nat PROVE RowCost * r \in Nat
    BY <1>2, <2>2
  <2>3. Len(report) - row \in Nat
    BY <2>1
  <2> QED
    BY <2>2, <2>3 DEF RowsLeft
<1>4. BehindCall \in Nat
  <2>1. CASE row = NoRow
    BY <2>1 DEF BehindCall
  <2>2. CASE row # NoRow
    <3>1. BehindCall = RowsLeft + 4
      BY <2>2 DEF BehindCall
    <3> QED
      BY <1>3, <2>2, <3>1
  <2> QED
    BY <2>1, <2>2
<1> QED
  BY <1>1, <1>2, <1>3, <1>4

\* A table is at work, or a call of its own.
LEMMA LogPlaces ==
  ASSUME LogInv
  PROVE  /\ pc \in {"log", "sent", "scan", "emit", "done", "border", "next", "row"}
         /\ pc \in {"border", "next", "row"} => row # NoRow
         /\ pc = "log" => row = NoRow
BY DEF LogInv, MessageInv, TableInv

LEMMA StepsLeftIsNat ==
  ASSUME CallsTyped, MessagesTyped, LogInv, Reached
  PROVE  StepsLeft \in Nat /\ (StepsLeft = 0 => Returned)
<1>1. BehindCall \in Nat /\ (row # NoRow => RowsLeft \in Nat)
  BY RowsLeftIsNat
<1>2. CASE pc \in {"scan", "emit"}
  <2>1. CallLeft \in Nat
    BY <1>2, CallLeftIsNat
  <2>2. StepsLeft = CallLeft + 1 + BehindCall
    BY <1>2 DEF StepsLeft
  <2> QED
    BY <1>1, <2>1, <2>2
<1>3. CASE pc = "done"
  <2>1. StepsLeft = BehindCall
    BY <1>3 DEF StepsLeft
  <2>2. row # NoRow => BehindCall = RowsLeft + 4
    BY DEF BehindCall
  <2>3. row # NoRow => StepsLeft # 0
    BY <1>1, <2>1, <2>2
  <2> QED
    BY <1>1, <1>3, <2>1, <2>3 DEF Returned
<1>4. CASE pc \in {"border", "next", "row"}
  <2>1. RowsLeft \in Nat
    BY <1>1, <1>4, LogPlaces
  <2>2. StepsLeft = RowsLeft + 3 \/ StepsLeft = RowsLeft + 2 \/ StepsLeft = 1
    BY <1>4 DEF StepsLeft
  <2> QED
    BY <2>1, <2>2
<1>5. CASE pc = "log"
  <2>1. f \in Nat /\ f <= Top /\ Top \in Nat
    BY <1>5, TopIsNat DEF Reached, Walking
  <2>2. StepsLeft = Top - f + 1
    BY <1>5 DEF StepsLeft
  <2> QED
    BY <2>1, <2>2
<1>6. CASE pc = "sent"
  BY <1>6 DEF StepsLeft, Returned
<1> QED
  BY <1>2, <1>3, <1>4, <1>5, <1>6, LogPlaces

\* No row's format is longer than a region's.
LEMMA RowFormat ==
  ASSUME NEW r \in Rows
  PROVE  Len(r.fmt) \in Nat /\ Len(r.fmt) <= 58
<1>1. CASE r \in RegionRows
  <2>1. PICK q \in (0 .. 99) \X Numbers \X Numbers \X Numbers : r = RegionRow(q[1], q[2], q[3], q[4])
    BY <1>1, Zenon DEF RegionRows
  <2>2. Len(r.fmt) = 58
    BY <2>1, RegionFormat
  <2> QED
    BY <2>2
<1>2. CASE r \in BlockRows
  <2>1. PICK q \in Numbers \X Numbers \X Numbers : r = BlockRow(q[1], q[2], q[3])
    BY <1>2, Zenon DEF BlockRows
  <2>2. Len(r.fmt) = 49
    BY <2>1, BlockFormat
  <2> QED
    BY <2>2
<1> QED
  BY <1>1, <1>2 DEF Rows

\* Where a row is begun, less is left for it and the rows behind it than before.
LEMMA NextRowGoesDown ==
  ASSUME CallsTyped, MessagesTyped, LogInv, LogInv', NextRow
  PROVE  StepsLeft' < StepsLeft
<1>1. /\ pc = "next" /\ row < Len(report) /\ row' = row + 1 /\ call' = report[row + 1]
      /\ size' = RowSize /\ f' = 1 /\ written' = 0 /\ pc' = "scan" /\ report' = report
  BY DEF NextRow
<1>2. row # NoRow
  BY <1>1, LogPlaces
<1>3. Len(report) \in Nat /\ row \in Nat /\ report \in Seq(Rows)
  BY <1>2, TableParts
<1>4. call' \in Rows
  <2>1. row + 1 \in 1 .. Len(report)
    BY <1>1, <1>3
  <2> QED
    BY <1>1, <1>3, <2>1
<1> DEFINE n == Len(call'.fmt)
           m == Len(Rest)
<1>5. n \in Nat /\ n <= 58
  BY <1>4, RowFormat
<1>6. m \in Nat /\ RowCost = m + 159 /\ RowCost \in Nat /\ RowsLeft \in Nat
  BY <1>2, RowsLeftIsNat
<1>7. Top' = n + m + 3
  BY DEF Top
<1> HIDE DEF n, m
<1>8. CallLeft' = (95 - 0) + (Top' - 1)
  BY <1>1 DEF CallLeft, RowSize
<1>9. RowsLeft' = RowsLeft - RowCost
  <2> DEFINE k == Len(report)
  <2>1. RowsLeft = RowCost * (k - row)
    BY DEF RowsLeft
  <2>2. RowsLeft' = RowCost * (k - (row + 1))
    BY <1>1 DEF RowsLeft, RowCost
  <2>3. k \in Nat
    BY <1>3
  <2> HIDE DEF k
  <2>4. k - row \in Int /\ k - (row + 1) = (k - row) - 1
    BY <1>3, <2>3
  <2>5. \A r \in Int : RowCost * (r - 1) = RowCost * r - RowCost
    BY <1>6
  <2> QED
    BY <2>1, <2>2, <2>4, <2>5
<1>10. BehindCall' = RowsLeft' + 4
  <2>1. row' # NoRow
    BY <1>1, <1>3 DEF NoRow
  <2> QED
    BY <2>1 DEF BehindCall
<1>11. StepsLeft = RowsLeft + 2
  BY <1>1 DEF StepsLeft
<1>12. StepsLeft' = CallLeft' + 1 + BehindCall'
  BY <1>1 DEF StepsLeft
<1> QED
  BY <1>5, <1>6, <1>7, <1>8, <1>9, <1>10, <1>11, <1>12

\* The arithmetic of what is left.
LEMMA FewerPlaces ==
  ASSUME NEW t \in Nat, NEW x \in Nat, NEW y \in Nat, y > x
  PROVE  t - y + 1 < t - x + 1
OBVIOUS

LEMMA FewerToGo ==
  ASSUME NEW s \in Nat, NEW t \in Nat, NEW x \in Nat, NEW y \in Nat, NEW v \in Nat, NEW w \in Nat,
         y + w > x + v
  PROVE  (s - w) + (t - y) < (s - v) + (t - x)
OBVIOUS

LEMMA FewerWithMore ==
  ASSUME NEW x \in Nat, NEW y \in Nat, NEW more \in Nat, x < y
  PROVE  x + 1 + more < y + 1 + more
OBVIOUS

LEMMA CallLeftIsNatNext ==
  ASSUME CallsTyped, MessagesTyped
  PROVE  (LogInv /\ Reached /\ pc \in {"scan", "emit"})' => (CallLeft \in Nat)'
<1>1. LogInv /\ Reached /\ pc \in {"scan", "emit"} => CallLeft \in Nat
  BY CallLeftIsNat
<1> QED
  BY <1>1, PTL

\* Each step leaves less of the call, within snprintf, in debug_printf and from row to
\* row of the table.
LEMMA LogGoesDown ==
  ASSUME CallsTyped, MessagesTyped, LogInv, LogInv', Reached, Reached', LogNext
  PROVE  StepsLeft' < StepsLeft
<1>1. BehindCall \in Nat /\ (row # NoRow => RowsLeft \in Nat)
  BY RowsLeftIsNat
<1>2. CASE Snprintf
  <2>1. Next /\ UNCHANGED <<report, row, port>>
    BY <1>2 DEF Snprintf
  <2>2. BehindCall' = BehindCall
    BY <2>1 DEF BehindCall, RowsLeft, RowCost
  <2>3. /\ Walking /\ call' = call /\ size' = size /\ f' \in Nat /\ pc \in {"scan", "emit"}
        /\ \/ /\ pc' \in {"scan", "emit"}
              /\ f' >= f /\ written' >= written /\ f' + written' > f + written
              /\ written' <= written + 1
           \/ pc' = "done" /\ f' = f /\ written' = written
    BY <2>1, WalkSteps
  <2>4. CallLeft \in Nat /\ CallLeft >= 1
    BY <2>3, CallLeftIsNat
  <2>5. StepsLeft = CallLeft + 1 + BehindCall
    BY <2>3 DEF StepsLeft
  <2>6. CASE pc' = "done"
    <3>1. StepsLeft' = BehindCall'
      BY <2>6 DEF StepsLeft
    <3> QED
      BY <1>1, <2>2, <2>4, <2>5, <3>1
  <2>7. CASE pc' \in {"scan", "emit"}
    <3>1. StepsLeft' = CallLeft' + 1 + BehindCall'
      BY <2>7 DEF StepsLeft
    <3>2. Top' = Top
      BY <2>3 DEF Top
    <3>3. Top \in Nat /\ f \in Nat
      BY <2>3, TopIsNat DEF Reached
    <3>4. size \in Nat /\ written \in Nat /\ written' \in Nat
      BY FormatAssumption DEF LogInv, LogBounded, Bounded
    <3>5. f' + written' > f + written
      BY <2>3, <2>7
    <3>6. CallLeft = (size - written) + (Top - f) /\ CallLeft' = (size - written') + (Top - f')
      BY <2>3, <3>2 DEF CallLeft
    <3>7. f' \in Nat
      BY <2>3
    <3>8. (size - written') + (Top - f') < (size - written) + (Top - f)
      BY <3>3, <3>4, <3>5, <3>7, FewerToGo
    <3>9. CallLeft' < CallLeft
      BY <3>6, <3>8, Zenon
    <3>10. CallLeft' \in Nat
      BY <2>7, CallLeftIsNatNext
    <3>11. CallLeft' + 1 + BehindCall < CallLeft + 1 + BehindCall
      BY <1>1, <2>4, <3>9, <3>10, FewerWithMore
    <3> QED
      BY <2>2, <2>5, <3>1, <3>11, Zenon
  <2> QED
    BY <2>3, <2>6, <2>7
<1>3. CASE Say \/ SayDirective
  <2>1. Walking /\ pc = "log" /\ pc' = "log" /\ call' = call /\ f' \in {f + 1, f + 2}
    BY <1>3 DEF Say, SayDirective, Walking
  <2>2. f \in Nat /\ Top \in Nat /\ Top' = Top
    BY <2>1, TopIsNat DEF Reached, Top
  <2>3. StepsLeft = Top - f + 1 /\ StepsLeft' = Top - f' + 1
    BY <2>1, <2>2 DEF StepsLeft
  <2>4. f' \in Nat /\ f' > f
    BY <2>1, <2>2
  <2>5. Top - f' + 1 < Top - f + 1
    BY <2>2, <2>4, FewerPlaces
  <2> QED
    BY <2>3, <2>5, Zenon
<1>4. CASE SayEnd
  <2>1. Walking /\ pc = "log" /\ pc' = "sent"
    BY <1>4 DEF SayEnd, Walking
  <2>2. f \in Nat /\ f <= Top /\ Top \in Nat
    BY <2>1, TopIsNat DEF Reached
  <2>3. StepsLeft = Top - f + 1 /\ StepsLeft' = 0
    BY <2>1 DEF StepsLeft
  <2> QED
    BY <2>2, <2>3
<1>5. CASE NextRow
  BY <1>5, NextRowGoesDown
<1>6. CASE SendBorder
  <2>1. pc = "border" /\ pc' = IF port = <<>> THEN "next" ELSE "sent"
    BY <1>6 DEF SendBorder
  <2>2. RowsLeft \in Nat /\ RowsLeft' = RowsLeft
    BY <1>1, <1>6, <2>1, LogPlaces DEF SendBorder, RowsLeft, RowCost
  <2>3. CASE port = <<>>
    <3>1. StepsLeft = RowsLeft + 3 /\ StepsLeft' = RowsLeft + 2
      BY <2>1, <2>2, <2>3 DEF StepsLeft
    <3> QED
      BY <2>2, <3>1
  <2>4. CASE port # <<>>
    <3>1. StepsLeft = 1 /\ StepsLeft' = 0
      BY <2>1, <2>4 DEF StepsLeft
    <3> QED
      BY <3>1
  <2> QED
    BY <2>3, <2>4
<1>7. CASE LastRow
  <2>1. pc = "next" /\ pc' = "border" /\ port' = port
    BY <1>7 DEF LastRow
  <2>2. RowsLeft \in Nat /\ row # NoRow
    BY <1>1, <2>1, LogPlaces
  <2>3. port # <<>>
    <3>1. report \in Seq(Rows) /\ row \in 0 .. Len(report) /\ port = Border \o Lines(report, row)
      BY <2>1, <2>2 DEF LogInv, TableInv
    <3>2. Lines(report, row) \in Seq(Sent)
      <4>1. Rest \in Seq(AnyCharacter)
        BY DEF MessagesTyped
      <4> QED
        BY <3>1, <4>1, LinesAre
    <3>3. Border \in Seq(Sent) /\ Border # <<>>
      BY BorderTyped
    <3> HIDE DEF Border
    <3> QED
      BY <3>1, <3>2, <3>3
  <2>4. StepsLeft = RowsLeft + 2 /\ StepsLeft' = 1
    BY <2>1, <2>3 DEF StepsLeft
  <2> QED
    BY <2>2, <2>4
<1>8. CASE PadRow
  <2>1. pc = "done" /\ pc' = "row" /\ row # NoRow /\ UNCHANGED <<report, row>>
    BY <1>8 DEF PadRow
  <2>2. RowsLeft \in Nat /\ RowsLeft' = RowsLeft
    BY <1>1, <2>1 DEF RowsLeft, RowCost
  <2>3. StepsLeft = RowsLeft + 4 /\ StepsLeft' = RowsLeft + 3
    BY <2>1, <2>2 DEF StepsLeft, BehindCall
  <2> QED
    BY <2>2, <2>3
<1>9. CASE SendRow
  <2>1. pc = "row" /\ pc' = "next" /\ UNCHANGED <<report, row>>
    BY <1>9 DEF SendRow
  <2>2. RowsLeft \in Nat /\ RowsLeft' = RowsLeft
    BY <1>1, <2>1, LogPlaces DEF RowsLeft, RowCost
  <2>3. StepsLeft = RowsLeft + 3 /\ StepsLeft' = RowsLeft + 2
    BY <2>1, <2>2 DEF StepsLeft
  <2> QED
    BY <2>2, <2>3
<1> QED
  BY <1>2, <1>3, <1>4, <1>5, <1>6, <1>7, <1>8, <1>9 DEF LogNext

LEMMA LogInvAlways ==
  ASSUME CallsTyped, MessagesTyped, HeapsTyped
  PROVE  LogSpec => [](LogInv /\ Reached)
<1>1. LogInit => LogInv /\ Reached
  BY LogInvInit, ReachedInit
<1>2. LogInv /\ Reached /\ [LogNext]_logvars => LogInv' /\ Reached'
  BY LogInvNext, ReachedNext
<1> QED
  BY <1>1, <1>2, PTL DEF LogSpec

\* No loop of snprintf, of debug_printf or of the table goes round without getting on:
\* what is left of the format, of the buffer and of the rows goes down with every
\* step, whatever the format, also one that ends in '%', whatever the arguments and
\* however many rows; and where nothing is left the call has come back
\* (stdio.c:26-124, log.c:37-116, alloc.c:182-221).
THEOREM LogDescends ==
  ASSUME CallsTyped, MessagesTyped, HeapsTyped
  PROVE  LogSpec => /\ [](StepsLeft \in Nat /\ (StepsLeft = 0 => Returned))
                    /\ [][StepsLeft' < StepsLeft]_logvars
<1>1. LogInv /\ Reached => StepsLeft \in Nat /\ (StepsLeft = 0 => Returned)
  BY StepsLeftIsNat
<1>2. LogInv /\ LogInv' /\ Reached /\ Reached' /\ [LogNext]_logvars => [StepsLeft' < StepsLeft]_logvars
  BY LogGoesDown
<1> QED
  BY <1>1, <1>2, LogInvAlways, PTL DEF LogSpec

\* When a call has a next step: the guards of the actions of snprintf, debug_printf and
\* print_memory_allocations.
SnprintfReady ==
    \/ pc = "scan" /\ More /\ Char(f) # "%"
    \/ pc = "scan" /\ More /\ Char(f) = "%"
    \/ pc = "scan" /\ ~More
    \/ pc = "emit" /\ todo # <<>> /\ Room
    \/ pc = "emit" /\ (todo = <<>> \/ ~Room)
Ready ==
    \/ SnprintfReady
    \/ pc = "log" /\ Char(f) \notin {NUL, "%"}
    \/ pc = "log" /\ Char(f) = "%"
    \/ pc = "log" /\ Char(f) = NUL
    \/ pc \in {"border", "row"}
    \/ pc = "next" /\ row < Len(report)
    \/ pc = "next" /\ row = Len(report)
    \/ pc = "done" /\ row # NoRow

\* A table does not go past its last row, and what has not returned has a next step.
LEMMA LogIsReady ==
  ASSUME LogInv, ~Returned
  PROVE  Ready
<1>1. /\ pc \in {"log", "sent", "scan", "emit", "done", "border", "next", "row"}
      /\ pc = "next" => row # NoRow
  BY LogPlaces
<1>2. CASE pc \in {"scan", "emit"}
  BY <1>2 DEF Ready, SnprintfReady
<1>3. CASE pc = "next"
  <2>1. Len(report) \in Nat /\ row \in Nat /\ row <= Len(report)
    BY <1>1, <1>3, TableParts
  <2> QED
    BY <1>3, <2>1 DEF Ready
<1>4. CASE pc \in {"log", "sent", "done", "border", "row"}
  BY <1>4 DEF Ready, Returned
<1> QED
  BY <1>1, <1>2, <1>3, <1>4

\* A step whose guard holds can be taken.
CanGoOn == Ready => ENABLED <<LogNext>>_logvars

\* With n steps of the call left it gets on: it comes back, or comes to where fewer
\* are left.  LogEnds is this for every n, and that no natural number can be left
\* behind for ever (stdio.c:26-124, log.c:37-116, alloc.c:182-221).
THEOREM LogGetsOn ==
  ASSUME CallsTyped, MessagesTyped, HeapsTyped, NEW n \in Nat
  PROVE  LogSpec /\ []CanGoOn => (StepsLeft = n ~> (StepsLeft < n \/ Returned))
<1> DEFINE Inv == LogInv /\ Reached
<1>1. Inv /\ Inv' /\ StepsLeft = n /\ [LogNext]_logvars => (StepsLeft = n)' \/ (StepsLeft < n)'
  <2> SUFFICES ASSUME Inv, Inv', StepsLeft = n, [LogNext]_logvars PROVE StepsLeft' = n \/ StepsLeft' < n
    OBVIOUS
  <2>1. CASE LogNext
    BY <2>1, LogGoesDown
  <2>2. CASE UNCHANGED logvars
    <3>1. UNCHANGED <<pc, call, size, f, written, report, row, port>>
      BY <2>2 DEF logvars, vars
    <3>2. StepsLeft' = StepsLeft
      BY <3>1 DEF StepsLeft, CallLeft, BehindCall, RowsLeft, RowCost, Top
    <3> QED
      BY <3>2
  <2> QED
    BY <2>1, <2>2
<1>2. Inv /\ Inv' /\ StepsLeft = n /\ <<LogNext>>_logvars => (StepsLeft < n)'
  BY LogGoesDown
<1>3. LogSpec => []Inv
  BY LogInvAlways
<1>4. Inv /\ CanGoOn /\ ~Returned => ENABLED <<LogNext>>_logvars
  BY LogIsReady DEF CanGoOn
<1> HIDE DEF Inv
<1> QED
  BY <1>1, <1>2, <1>3, <1>4, PTL DEF LogSpec
=============================================================================
