----------------------------- MODULE MonoFsProofs -----------------------------
(*****************************************************************************)
(* Proofs about MonoFs.                                                      *)
(*                                                                           *)
(* A call is a chain of steps on a record of its memory and locals, so every *)
(* result is carried along the chain, helper by helper: what a step does to  *)
(* the record (...Mem), to the table (...Table), to the text below the heap  *)
(* (...Steps) and to the blocks (...Heap).  The lemmas of HeapProofs about   *)
(* one malloc and one free give the last.  Then:                             *)
(*   FsInv      the live blocks are what callers and debug_alloc hold        *)
(*   TableInv   what a slot that names a literal says is true                *)
(*   Right      a handle gives what it was asked for                         *)
(*****************************************************************************)
EXTENDS MonoFs, TLAPS, WellFoundedInduction

-----------------------------------------------------------------------------
(* A call in progress                                                      *)

\* A call's memory and locals are a record of these fields.
Mem(m) ==
    /\ m = [heap |-> m.heap, text |-> m.text, files |-> m.files, found |-> m.found,
            from |-> m.from, got |-> m.got, ptr |-> m.ptr]
    /\ m.ptr = [x \in Locals |-> m.ptr[x]]

\* n differs from m in the heap, the text and the local x at most.
Same(m, n, x) ==
    /\ n.files = m.files /\ n.found = m.found /\ n.from = m.from /\ n.got = m.got
    /\ \A y \in Locals : y # x => n.ptr[y] = m.ptr[y]

LEMMA CallMem == Mem(Call) /\ Call.files = virtual_file_list /\ Call.heap = heap
                 /\ Call.text = text /\ ~Call.found /\ \A x \in Locals : Call.ptr[x] = Null
  BY DEF Mem, Call

LEMMA GrantedMem ==
  ASSUME NEW m, Mem(m), NEW x \in Locals, NEW s, NEW p
  PROVE  LET n == Granted(m, x, s, p)
         IN  /\ Mem(n) /\ Same(m, n, x) /\ n.ptr[x] = p
             /\ n.heap = AfterFill(AfterAlloc(m.heap, s), p, s)
             /\ n.text = Written(m.text, p - BlockHdr, p + s)
<1> DEFINE n == Granted(m, x, s, p)
<1>1. n = [heap |-> AfterFill(AfterAlloc(m.heap, s), p, s),
           text |-> Written(m.text, p - BlockHdr, p + s),
           files |-> m.files, found |-> m.found, from |-> m.from, got |-> m.got,
           ptr |-> [m.ptr EXCEPT ![x] = p]]
  <2> DEFINE h == AfterFill(AfterAlloc(m.heap, s), p, s)
             t == Written(m.text, p - BlockHdr, p + s)
             q == [m.ptr EXCEPT ![x] = p]
  <2>1. n = [m EXCEPT !.heap = h, !.text = t, !.ptr = q]
    BY DEF Granted, Mem
  <2> HIDE DEF n, h, t, q
  <2>2. m = [heap |-> m.heap, text |-> m.text, files |-> m.files, found |-> m.found,
             from |-> m.from, got |-> m.got, ptr |-> m.ptr]
    BY Zenon DEF Mem
  <2>3. n = [heap |-> h, text |-> t, files |-> m.files, found |-> m.found,
             from |-> m.from, got |-> m.got, ptr |-> q]
    BY <2>1, <2>2
  <2>4. QED
    BY <2>3, Zenon DEF h, t, q
<1>2. /\ n.ptr = [y \in Locals |-> n.ptr[y]] /\ n.ptr[x] = p
      /\ \A y \in Locals : y # x => n.ptr[y] = m.ptr[y]
  BY <1>1 DEF Mem
<1> HIDE DEF n
<1>3. QED
  BY <1>1, <1>2 DEF Mem, Same, n

LEMMA RefusedMem ==
  ASSUME NEW m, Mem(m), NEW x \in Locals, NEW s, ~CanAlloc(m.heap, s)
  PROVE  LET n == Take(m, x, s)
         IN  /\ Mem(n) /\ Same(m, n, x) /\ n.ptr[x] = Null
             /\ n.heap = [m.heap EXCEPT !.intact = FALSE] /\ n.text = m.text
<1> DEFINE n == Take(m, x, s)
<1>1. n = [heap |-> [m.heap EXCEPT !.intact = FALSE], text |-> m.text,
           files |-> m.files, found |-> m.found, from |-> m.from, got |-> m.got,
           ptr |-> [m.ptr EXCEPT ![x] = Null]]
  BY DEF Take, Mem
<1>2. /\ n.ptr = [y \in Locals |-> n.ptr[y]] /\ n.ptr[x] = Null
      /\ \A y \in Locals : y # x => n.ptr[y] = m.ptr[y]
  BY <1>1 DEF Mem
<1> HIDE DEF n
<1>3. QED
  BY <1>1, <1>2 DEF Mem, Same, n

LEMMA TakeMem ==
  ASSUME NEW m, Mem(m), NEW x \in Locals, NEW s
  PROVE  Mem(Take(m, x, s)) /\ Same(m, Take(m, x, s), x)
<1>1. CASE CanAlloc(m.heap, s)
  BY <1>1, GrantedMem DEF Take
<1>2. CASE ~CanAlloc(m.heap, s)
  BY <1>2, RefusedMem
<1>3. QED
  BY <1>1, <1>2

LEMMA GiveMem ==
  ASSUME NEW m, Mem(m), NEW p
  PROVE  LET n == GiveAt(m, p)
         IN  /\ Mem(n) /\ n.heap = AfterFree(m.heap, p) /\ n.text = m.text
             /\ \A x : Same(m, n, x)
             /\ n.ptr = m.ptr
<1> DEFINE n == GiveAt(m, p)
<1>1. n = [heap |-> AfterFree(m.heap, p), text |-> m.text, files |-> m.files,
           found |-> m.found, from |-> m.from, got |-> m.got, ptr |-> m.ptr]
  BY DEF GiveAt, Mem
<1>2. n.ptr = m.ptr
  BY <1>1
<1> HIDE DEF n
<1>3. QED
  BY <1>1, <1>2 DEF Mem, Same, n

LEMMA BorrowMem ==
  ASSUME NEW m, Mem(m), NEW x \in Locals, NEW s
  PROVE  Mem(Borrow(m, x, s)) /\ Same(m, Borrow(m, x, s), x)
<1> DEFINE n == Take(m, x, s)
<1>1. Mem(n) /\ Same(m, n, x)
  BY TakeMem
<1> HIDE DEF n
<1>2. Mem(GiveAt(n, n.ptr[x])) /\ Same(n, GiveAt(n, n.ptr[x]), x)
  BY <1>1, GiveMem
<1>3. QED
  BY <1>1, <1>2 DEF Same, Borrow, Give, n

LEMMA NamedMem ==
  ASSUME NEW m, Mem(m), NEW x, NEW name, NEW n, n = Named(m, x, name)
  PROVE  Mem(n) /\ n.heap = m.heap /\ n.ptr = m.ptr /\ \A y : Same(m, n, y)
<1> DEFINE T == [p \in DOMAIN m.text \cup {m.ptr[x]} |->
                   IF p = m.ptr[x] THEN name ELSE m.text[p]]
           U == n.text
<1>1. m = [heap |-> m.heap, text |-> m.text, files |-> m.files, found |-> m.found,
           from |-> m.from, got |-> m.got, ptr |-> m.ptr]
  BY Zenon DEF Mem
<1>2. n = IF m.ptr[x] < Base THEN m ELSE [m EXCEPT !.text = T]
  BY <1>1 DEF Named
<1> HIDE DEF T
<1>3. n = [heap |-> m.heap, text |-> U, files |-> m.files, found |-> m.found,
           from |-> m.from, got |-> m.got, ptr |-> m.ptr]
  BY <1>1, <1>2
<1> HIDE DEF U
<1> QED
  BY <1>3 DEF Mem, Same

LEMMA NamedText ==
  ASSUME NEW m, Mem(m), NEW x, NEW name
  PROVE  LET n == Named(m, x, name)
         IN  /\ Mem(n) /\ n.heap = m.heap /\ n.ptr = m.ptr /\ (\A y : Same(m, n, y))
             /\ n.text = IF m.ptr[x] < Base THEN m.text
                         ELSE [p \in DOMAIN m.text \cup {m.ptr[x]} |->
                                 IF p = m.ptr[x] THEN name ELSE m.text[p]]
<1> DEFINE T == [p \in DOMAIN m.text \cup {m.ptr[x]} |->
                   IF p = m.ptr[x] THEN name ELSE m.text[p]]
           n == Named(m, x, name)
<1>1. m = [heap |-> m.heap, text |-> m.text, files |-> m.files, found |-> m.found,
           from |-> m.from, got |-> m.got, ptr |-> m.ptr]
  BY Zenon DEF Mem
<1>2. n = IF m.ptr[x] < Base THEN m ELSE [m EXCEPT !.text = T]
  BY <1>1 DEF Named
<1> HIDE DEF n, T
<1>3. CASE m.ptr[x] < Base
  BY <1>2, <1>3 DEF Same, n
<1>4. CASE ~(m.ptr[x] < Base)
  <2>1. n = [heap |-> m.heap, text |-> T, files |-> m.files, found |-> m.found,
             from |-> m.from, got |-> m.got, ptr |-> m.ptr]
    BY <1>1, <1>2, <1>4
  <2> QED
    BY <1>4, <2>1 DEF Mem, Same, n, T
<1> QED
  BY <1>3, <1>4

-----------------------------------------------------------------------------
(* The search                                                              *)

N == Len(Image)

LEMMA Files ==
  /\ N \in Nat /\ DOMAIN Image = 1 .. N
  /\ \A f \in 1 .. N : /\ Image[f].name \in DOMAIN NameLen /\ Image[f].data \in Nat
                       /\ NameLen[Image[f].name] \in Nat
<1>1. Image \in Seq([name: DOMAIN NameLen, data: Nat])
  BY ImageAssumption
<1>2. N \in Nat /\ DOMAIN Image = 1 .. N
  BY <1>1 DEF N
<1>3. ASSUME NEW f \in 1 .. N
      PROVE  Image[f].name \in DOMAIN NameLen /\ Image[f].data \in Nat
  <2> DEFINE R == [name: DOMAIN NameLen, data: Nat]
  <2>1. Image[f] \in R
    <3> HIDE DEF R
    <3>1. Image \in Seq(R)
      BY <1>1 DEF R
    <3>2. f \in 1 .. Len(Image)
      BY <1>3 DEF N
    <3>3. QED
      BY <3>1, <3>2
  <2>2. QED
    BY <2>1
<1>4. \A x \in DOMAIN NameLen : NameLen[x] \in Nat
  BY ImageAssumption
<1>5. QED
  BY <1>2, <1>3, <1>4

LEMMA Least ==
  ASSUME NEW S \in SUBSET Nat, S # {}
  PROVE  \E n \in S : \A x \in S : n <= x
<1>1. PICK n \in S : \A y \in S : ~(<<y, n>> \in OpToRel(<, Nat))
  BY NatLessThanWellFounded, WFMin, Zenon
<1>2. ASSUME NEW y \in S
      PROVE  ~(y < n)
  <2>1. <<y, n>> \in Nat \X Nat /\ <<y, n>>[1] = y /\ <<y, n>>[2] = n
    OBVIOUS
  <2>2. y < n => <<y, n>> \in OpToRel(<, Nat)
    BY <2>1, Zenon DEF OpToRel
  <2>3. QED
    BY <1>1, <2>2, Zenon
<1>3. QED
  BY <1>2

Scans(m, s) == s = [g \in 0 .. N |-> IF g = 0 THEN m ELSE Looked(s[g - 1], g)]

\* The search reads one file after the other, and comes to an end: the recursion of
\* Scan has a solution up to every file.
LEMMA ScanExists ==
  ASSUME NEW m
  PROVE  \E s : Scans(m, s)
<1> DEFINE Solves(n, s) == s = [g \in 0 .. n |-> IF g = 0 THEN m ELSE Looked(s[g - 1], g)]
           Bad == {n \in Nat : ~ \E s : Solves(n, s)}
<1>1. 0 \notin Bad
  <2> DEFINE s == [g \in 0 .. 0 |-> m]
  <2>1. Solves(0, s)
    OBVIOUS
  <2>2. QED
    BY <2>1
<1>2. ASSUME NEW n \in Nat, NEW s, Solves(n, s)
      PROVE  \E t : Solves(n + 1, t)
  <2> DEFINE t == [g \in 0 .. n + 1 |-> IF g = 0 THEN m ELSE Looked(s[g - 1], g)]
  <2>1. ASSUME NEW g \in 0 .. n + 1, g # 0
        PROVE  t[g - 1] = s[g - 1]
    <3>1. g - 1 \in 0 .. n /\ g - 1 \in 0 .. n + 1
      BY <2>1
    <3>2. t[g - 1] = IF g - 1 = 0 THEN m ELSE Looked(s[g - 1 - 1], g - 1)
      BY <3>1
    <3>3. s[g - 1] = IF g - 1 = 0 THEN m ELSE Looked(s[g - 1 - 1], g - 1)
      BY <1>2, <3>1
    <3>4. QED
      BY <3>2, <3>3, Zenon
  <2>2. t = [g \in 0 .. n + 1 |-> IF g = 0 THEN m ELSE Looked(t[g - 1], g)]
    BY <2>1
  <2>3. QED
    BY <2>2
<1>3. Bad = {}
  <2> SUFFICES ASSUME Bad # {} PROVE FALSE
    OBVIOUS
  <2>1. PICK n \in Bad : \A x \in Bad : n <= x
    <3>1. Bad \in SUBSET Nat
      OBVIOUS
    <3> HIDE DEF Bad
    <3>2. QED
      BY <3>1, Least
  <2> HIDE DEF Solves
  <2>2. n \in Nat /\ n # 0
    BY <1>1, <2>1
  <2>3. n - 1 \in Nat /\ n - 1 \notin Bad
    BY <2>1, <2>2
  <2>4. PICK s : Solves(n - 1, s)
    BY <2>3
  <2>5. \E t : Solves(n - 1 + 1, t)
    BY <1>2, <2>3, <2>4
  <2>6. n - 1 + 1 = n
    BY <2>2
  <2>7. QED
    BY <2>1, <2>5, <2>6
<1>4. N \in Nat
  BY Files
<1>5. \E s : Solves(N, s)
  BY <1>3, <1>4
<1>6. QED
  BY <1>5 DEF Scans

LEMMA ScanRule ==
  ASSUME NEW m
  PROVE  /\ Scan(m, 0) = m
         /\ \A g \in 1 .. N : Scan(m, g) = Looked(Scan(m, g - 1), g)
<1> DEFINE s == CHOOSE t : Scans(m, t)
<1>1. Scans(m, s)
  BY ScanExists
<1>2. ASSUME NEW g
      PROVE  Scan(m, g) = s[g]
  BY Zenon DEF Scan, Scans, N
<1> HIDE DEF s
<1>3. ASSUME NEW g \in 0 .. N
      PROVE  s[g] = IF g = 0 THEN m ELSE Looked(s[g - 1], g)
  BY <1>1 DEF Scans
<1>4. N \in Nat
  BY Files
<1>5. Scan(m, 0) = m
  BY <1>2, <1>3, <1>4
<1>6. ASSUME NEW g \in 1 .. N
      PROVE  Scan(m, g) = Looked(Scan(m, g - 1), g)
  <2>1. g \in 0 .. N /\ g # 0
    BY <1>4
  <2>2. s[g] = Looked(s[g - 1], g)
    BY <1>3, <2>1
  <2>3. QED
    BY <1>2, <2>2
<1>7. QED
  BY <1>5, <1>6

\* The name that is written into the buffer is a matter of the text alone.
LEMMA LookedMem ==
  ASSUME NEW m, Mem(m), NEW g
  PROVE  LET n == Looked(m, g)
             b == Borrow(m, "name", NameLen[Image[g].name] + 1)
         IN  Mem(n) /\ Same(m, n, "name") /\ n.heap = b.heap
<1> DEFINE t == Take(m, "name", NameLen[Image[g].name] + 1)
           w == Named(t, "name", Image[g].name)
           n == Looked(m, g)
           b == Borrow(m, "name", NameLen[Image[g].name] + 1)
<1>1. "name" \in Locals
  BY DEF Locals
<1>2. Mem(t) /\ Same(m, t, "name")
  BY <1>1, TakeMem
<1>3. b = GiveAt(t, t.ptr["name"]) /\ n = GiveAt(w, w.ptr["name"])
  BY Zenon DEF Borrow, Give, Looked
<1>4. Mem(w) /\ w.heap = t.heap /\ w.ptr = t.ptr /\ Same(t, w, "name")
  <2> HIDE DEF t
  <2> QED
    BY <1>2, NamedMem
<1> HIDE DEF t, w, n, b
<1>5. b.heap = AfterFree(t.heap, t.ptr["name"])
  BY <1>2, <1>3, GiveMem
<1>6. Mem(n) /\ n.heap = AfterFree(w.heap, w.ptr["name"]) /\ Same(w, n, "name")
  BY <1>3, <1>4, GiveMem
<1> QED
  BY <1>2, <1>4, <1>5, <1>6 DEF Same, n, b

\* Reading the names leaves everything but the heap, the text and that local.
LEMMA ScanMem ==
  ASSUME NEW m, Mem(m)
  PROVE  \A f \in 0 .. N : Mem(Scan(m, f)) /\ Same(m, Scan(m, f), "name")
<1> DEFINE Bad == {f \in 0 .. N : ~(Mem(Scan(m, f)) /\ Same(m, Scan(m, f), "name"))}
<1> SUFFICES ASSUME Bad # {} PROVE FALSE
  OBVIOUS
<1>1. PICK n \in Bad : \A x \in Bad : n <= x
  <2>1. Bad \in SUBSET Nat
    BY Files
  <2> HIDE DEF Bad
  <2>2. QED
    BY <2>1, Least
<1>2. n \in 0 .. N /\ N \in Nat /\ ~(Mem(Scan(m, n)) /\ Same(m, Scan(m, n), "name"))
  BY <1>1, Files
<1>3. n # 0
  <2>1. Scan(m, 0) = m /\ Same(m, m, "name")
    BY ScanRule DEF Same
  <2>2. QED
    BY <1>2, <2>1
<1>4. n - 1 \in 0 .. N /\ n \in 1 .. N /\ ~(n <= n - 1)
  BY <1>2, <1>3
<1>5. Mem(Scan(m, n - 1)) /\ Same(m, Scan(m, n - 1), "name")
  BY <1>1, <1>4
<1>6. Scan(m, n) = Looked(Scan(m, n - 1), n)
  BY <1>4, ScanRule
<1>8. Mem(Scan(m, n)) /\ Same(Scan(m, n - 1), Scan(m, n), "name")
  BY <1>5, <1>6, LookedMem
<1>9. QED
  BY <1>2, <1>5, <1>8 DEF Same

-----------------------------------------------------------------------------
(* The table                                                               *)

\* A slot counts one use from the moment it is filled.
Counts(V) ==
    /\ V = [i \in Slots |-> V[i]]
    /\ \A i \in Slots : V[i].times_accessed = IF Filled(V, i) THEN 1 ELSE 0

\* Of a full table slot 0 goes, of another one an empty slot.
LEMMA VictimIs ==
  ASSUME NEW V, Counts(V)
  PROVE  /\ Victim(V) \in Slots
         /\ Filled(V, Victim(V)) => Victim(V) = 0
<1> DEFINE Fine(b) == b \in Slots /\ (Filled(V, b) => b = 0)
<1>1. ASSUME NEW b, Fine(b), NEW i \in Slots
      PROVE  Fine(Worse(V, b, i))
  <2>1. V[i].times_accessed < V[b].times_accessed => ~Filled(V, i)
    BY <1>1 DEF Counts
  <2>2. QED
    BY <1>1, <2>1, Zenon DEF Worse
<1>2. Fine(0) /\ 1 \in Slots /\ 2 \in Slots /\ 3 \in Slots /\ 4 \in Slots
  BY DEF Slots
<1> HIDE DEF Fine
<1>3. Fine(Worse(V, 0, 1))
  BY <1>1, <1>2
<1>4. Fine(Worse(V, Worse(V, 0, 1), 2))
  BY <1>1, <1>2, <1>3
<1>5. Fine(Worse(V, Worse(V, Worse(V, 0, 1), 2), 3))
  BY <1>1, <1>2, <1>4
<1>6. Fine(Victim(V))
  BY <1>1, <1>2, <1>5 DEF Victim
<1>7. QED
  BY <1>6 DEF Fine

LEMMA EvictMem ==
  ASSUME NEW m, Mem(m), NEW file
  PROVE  LET n == Evict(m, file)
         IN  Mem(n) /\ (\A x : Same(m, n, x)) /\ n.text = m.text /\ n.ptr = m.ptr
<1> DEFINE a == GiveAt(m, file.file_header)
           b == GiveAt(a, file.file_name)
           c == GiveAt(b, file.file_data)
<1>1. Mem(a) /\ (\A x : Same(m, a, x)) /\ a.text = m.text /\ a.ptr = m.ptr
  BY GiveMem
<1>2. Mem(b) /\ (\A x : Same(a, b, x)) /\ b.text = a.text /\ b.ptr = a.ptr
  <2> HIDE DEF a
  <2>1. QED
    BY <1>1, GiveMem
<1>3. Mem(c) /\ (\A x : Same(b, c, x)) /\ c.text = b.text /\ c.ptr = b.ptr
  <2> HIDE DEF b
  <2>1. QED
    BY <1>2, GiveMem
<1>4. Evict(m, file) = IF file.file_header = Null THEN m ELSE c
  BY Zenon DEF Evict
<1> HIDE DEF a, b, c
<1>5. Mem(c) /\ (\A x : Same(m, c, x)) /\ c.text = m.text /\ c.ptr = m.ptr
  BY <1>1, <1>2, <1>3 DEF Same
<1>6. \A x : Same(m, m, x)
  BY DEF Same
<1>7. QED
  BY <1>4, <1>5, <1>6, Zenon

Put(V, i, s) == [V EXCEPT ![i] = s]

LEMMA ReplaceMem ==
  ASSUME NEW m, Mem(m), NEW i, NEW f, NEW p
  PROVE  /\ Mem(Replace(m, i, f, p))
         /\ Replace(m, i, f, p).files = Put(m.files, i, NewSlot(f, p))
         /\ Replace(m, i, f, p).heap = Evict(m, m.files[i]).heap
         /\ Replace(m, i, f, p).text = m.text
         /\ Replace(m, i, f, p).ptr = m.ptr
         /\ Replace(m, i, f, p).found = m.found
         /\ Replace(m, i, f, p).from = m.from
<1> DEFINE e == Evict(m, m.files[i])
           n == Replace(m, i, f, p)
           s == NewSlot(f, p)
<1>1. Mem(e) /\ Same(m, e, "name") /\ e.text = m.text /\ e.ptr = m.ptr
  BY EvictMem
<1>2. n = [e EXCEPT !.files[i] = s]
  BY Zenon DEF Replace
<1> HIDE DEF e, s
<1>3. e = [heap |-> e.heap, text |-> e.text, files |-> e.files, found |-> e.found,
           from |-> e.from, got |-> e.got, ptr |-> e.ptr]
  BY <1>1, Zenon DEF Mem
<1>4. n = [heap |-> e.heap, text |-> e.text, files |-> Put(e.files, i, s),
           found |-> e.found, from |-> e.from, got |-> e.got, ptr |-> e.ptr]
  BY <1>2, <1>3 DEF Put
<1> HIDE DEF n
<1>5. /\ Mem(n) /\ n.files = Put(m.files, i, s) /\ n.heap = e.heap /\ n.text = m.text
      /\ n.ptr = m.ptr /\ n.found = m.found /\ n.from = m.from
  BY <1>1, <1>4 DEF Mem, Same
<1>6. QED
  BY <1>5, Zenon DEF n, e, s

LEMMA AnswerMem ==
  ASSUME NEW m, Mem(m), NEW d
  PROVE  LET n == Answer(m, d)
             t == Take(m, "addr", DiskAddressSize)
         IN  /\ Mem(n) /\ n.heap = t.heap /\ n.text = t.text /\ n.ptr = t.ptr
             /\ n.files = m.files /\ n.found /\ n.from = d /\ n.got = m.got
<1> DEFINE t == Take(m, "addr", DiskAddressSize)
           n == Answer(m, d)
<1>1. "addr" \in Locals
  BY DEF Locals
<1>2. Mem(t) /\ Same(m, t, "addr")
  BY <1>1, TakeMem
<1>3. n = [t EXCEPT !.found = TRUE, !.from = d]
  BY Zenon DEF Answer
<1> HIDE DEF t
<1>4. t = [heap |-> t.heap, text |-> t.text, files |-> t.files, found |-> t.found,
           from |-> t.from, got |-> t.got, ptr |-> t.ptr]
  BY <1>2, Zenon DEF Mem
<1>5. n = [heap |-> t.heap, text |-> t.text, files |-> t.files, found |-> TRUE,
           from |-> d, got |-> t.got, ptr |-> t.ptr]
  BY <1>3, <1>4
<1> HIDE DEF n
<1>6. QED
  BY <1>2, <1>5 DEF Mem, Same, n, t

\* The call keeps its locals but those of X.
Kept(m, n, X) == \A y \in Locals : y \notin X => n.ptr[y] = m.ptr[y]

\* A file that is not in the table is searched for, answered and put there.
Missed(m, f, p) == Replace(Answer(Scan(m, f), DiskAddress(f)), Victim(m.files), f, p)

LEMMA MissedMem ==
  ASSUME NEW m, Mem(m), NEW f \in 1 .. N, NEW p
  PROVE  LET n == Missed(m, f, p)
         IN  /\ Mem(n) /\ Kept(m, n, {"name", "addr"}) /\ n.found /\ n.from = DiskAddress(f)
             /\ n.files = Put(m.files, Victim(m.files), NewSlot(f, p))
<1> DEFINE s == Scan(m, f)
           a == Answer(s, DiskAddress(f))
           v == Victim(m.files)
           n == Missed(m, f, p)
<1>1. Mem(s) /\ Same(m, s, "name")
  BY Files, ScanMem
<1>2. "addr" \in Locals
  BY DEF Locals
<1>3. Mem(a) /\ a.files = s.files /\ a.found /\ a.from = DiskAddress(f) /\ Kept(s, a, {"name", "addr"})
  <2> HIDE DEF s
  <2>1. Same(s, Take(s, "addr", DiskAddressSize), "addr")
    BY <1>1, <1>2, TakeMem
  <2>2. Mem(a) /\ a.files = s.files /\ a.found /\ a.from = DiskAddress(f)
        /\ a.ptr = Take(s, "addr", DiskAddressSize).ptr
    BY <1>1, AnswerMem
  <2> HIDE DEF a
  <2>3. QED
    BY <2>1, <2>2 DEF Same, Kept
<1>4. n = Replace(a, v, f, p)
  BY Zenon DEF Missed
<1> HIDE DEF s, a, v, n
<1>5. Mem(a)
  BY <1>3
<1>6. /\ Mem(n) /\ n.files = Put(a.files, v, NewSlot(f, p)) /\ n.ptr = a.ptr
      /\ n.found = a.found /\ n.from = a.from
  BY <1>4, <1>5, ReplaceMem
<1>7. a.files = m.files
  BY <1>1, <1>3 DEF Same
<1>8. Kept(m, n, {"name", "addr"})
  BY <1>1, <1>3, <1>6 DEF Same, Kept
<1>9. QED
  BY <1>3, <1>6, <1>7, <1>8, Zenon DEF n, v

\* dumb_file_search finds the name in the table, finds it in the image, or does not.
LEMMA SearchCases ==
  ASSUME NEW m, NEW name, NEW p
  PROVE  LET n == SearchFor(m, name, p)
         IN  \/ \E i \in Hits(m, name) : n = Answer(m, m.files[i].disk_address)
             \/ \E f \in 1 .. N : Image[f].name = name /\ n = Missed(m, f, p)
             \/ n = m
             \/ n = Scan(m, N)
<1> DEFINE n == SearchFor(m, name, p)
<1>1. CASE Hits(m, name) # {}
  <2> DEFINE i == Min(Hits(m, name))
  <2>1. i \in Hits(m, name)
    <3>1. Hits(m, name) \in SUBSET Nat
      BY DEF Hits, Slots
    <3>2. \E j \in Hits(m, name) : \A x \in Hits(m, name) : j <= x
      BY <1>1, <3>1, Least
    <3>3. QED
      BY <3>2 DEF Min
  <2>2. n = Answer(m, m.files[i].disk_address)
    BY <1>1, Zenon DEF SearchFor, Hit
  <2>3. QED
    BY <2>1, <2>2, Zenon
<1>2. CASE Hits(m, name) = {} /\ Position(name) # 0
  <2>1. Position(name) \in 1 .. N /\ Image[Position(name)].name = name
    BY <1>2, Files DEF Position
  <2>2. n = Missed(m, Position(name), p)
    BY <1>2, Zenon DEF SearchFor, Miss, Missed
  <2>3. QED
    BY <2>1, <2>2, Zenon
<1>3. CASE Hits(m, name) = {} /\ Position(name) = 0
  <2>1. n = IF mounted THEN Scan(m, N) ELSE m
    BY <1>3, Zenon DEF SearchFor, Absent, N
  <2>2. QED
    BY <2>1, Zenon
<1>4. QED
  BY <1>1, <1>2, <1>3, Zenon

\* The search leaves the table alone or replaces one entry.
LEMMA SearchTable ==
  ASSUME NEW m, Mem(m), NEW name, NEW p
  PROVE  LET n == SearchFor(m, name, p)
         IN  /\ Mem(n) /\ Kept(m, n, {"name", "addr"})
             /\ \/ n.files = m.files
                \/ \E f \in 1 .. N : /\ Image[f].name = name
                                     /\ n.files = Put(m.files, Victim(m.files), NewSlot(f, p))
<1> DEFINE n == SearchFor(m, name, p)
<1>1. ASSUME NEW i, n = Answer(m, m.files[i].disk_address)
      PROVE  Mem(n) /\ Kept(m, n, {"name", "addr"}) /\ n.files = m.files
  <2>1. "addr" \in Locals
    BY DEF Locals
  <2> DEFINE t == Take(m, "addr", DiskAddressSize)
  <2>2. Same(m, t, "addr")
    BY <2>1, TakeMem
  <2> HIDE DEF n, t
  <2>3. Mem(n) /\ n.files = m.files /\ n.ptr = t.ptr
    BY <1>1, AnswerMem DEF t
  <2>4. QED
    BY <2>2, <2>3 DEF Same, Kept
<1>2. ASSUME NEW f \in 1 .. N, n = Missed(m, f, p)
      PROVE  /\ Mem(n) /\ Kept(m, n, {"name", "addr"})
             /\ n.files = Put(m.files, Victim(m.files), NewSlot(f, p))
  <2> HIDE DEF n
  <2>1. QED
    BY <1>2, MissedMem
<1>3. CASE n = m
  BY <1>3 DEF Kept
<1>4. CASE n = Scan(m, N)
  <2>1. Mem(Scan(m, N)) /\ Same(m, Scan(m, N), "name")
    BY Files, ScanMem
  <2> HIDE DEF n
  <2>2. Mem(n) /\ Kept(m, n, {"name", "addr"}) /\ n.files = m.files
    BY <1>4, <2>1 DEF Same, Kept
  <2>3. QED
    BY <2>2 DEF n
<1>5. QED
  BY <1>1, <1>2, <1>3, <1>4, SearchCases

LEMMA CopiedMem ==
  ASSUME NEW m, Mem(m), NEW f
  PROVE  LET n == Copied(m, f)
         IN  /\ Mem(n) /\ n.files = m.files /\ n.found = m.found
             /\ Kept(m, n, {"buffer", "raw"})
<1> DEFINE t == Take(m, "buffer", Lbas(f) * LBA_SIZE)
           u == Take(t, "raw", Image[f].data)
           n == Copied(m, f)
<1>1. "buffer" \in Locals /\ "raw" \in Locals
  BY DEF Locals
<1>2. Mem(t) /\ Same(m, t, "buffer")
  BY <1>1, TakeMem
<1>3. Mem(u) /\ Same(t, u, "raw")
  <2> HIDE DEF t
  <2>1. QED
    BY <1>1, <1>2, TakeMem
<1>4. n = GiveAt(u, u.ptr["buffer"])
  BY Zenon DEF Copied, Discard, Give
<1> HIDE DEF u, t, n
<1>5. Mem(n) /\ Same(u, n, "raw") /\ n.ptr = u.ptr
  BY <1>3, <1>4, GiveMem
<1>6. n.files = m.files /\ n.found = m.found /\ Kept(m, n, {"buffer", "raw"})
  BY <1>2, <1>3, <1>5 DEF Same, Kept
<1>7. QED
  BY <1>5, <1>6 DEF n

LEMMA FetchMem ==
  ASSUME NEW m, Mem(m), NEW f
  PROVE  LET t == Take(Copied(m, f), "content", FileContentSize)
             n == Fetch(m, f)
         IN  /\ Mem(n) /\ n.files = m.files /\ n.text = t.text /\ n.ptr = t.ptr
             /\ n.heap = AfterFree(t.heap, t.ptr["addr"])
             /\ n.got = Image[f].name /\ n.found = m.found
             /\ Kept(m, n, {"buffer", "raw", "content"})
<1> DEFINE c == Copied(m, f)
           t == Take(c, "content", FileContentSize)
           g == GiveAt(t, t.ptr["addr"])
           n == Fetch(m, f)
           name == Image[f].name
<1>1. Mem(c) /\ c.files = m.files /\ c.found = m.found /\ Kept(m, c, {"buffer", "raw"})
  BY CopiedMem
<1>2. Mem(t) /\ Same(c, t, "content")
  <2>1. "content" \in Locals
    BY DEF Locals
  <2> HIDE DEF c
  <2>2. QED
    BY <1>1, <2>1, TakeMem
<1>3. /\ Mem(g) /\ g.files = t.files /\ g.text = t.text /\ g.ptr = t.ptr
      /\ g.heap = AfterFree(t.heap, t.ptr["addr"]) /\ g.found = t.found
  <2> HIDE DEF t
  <2>1. /\ Mem(g) /\ Same(t, g, "addr") /\ g.text = t.text /\ g.ptr = t.ptr
        /\ g.heap = AfterFree(t.heap, t.ptr["addr"])
    BY <1>2, GiveMem
  <2> HIDE DEF g
  <2>2. QED
    BY <2>1 DEF Same
<1>4. n = [g EXCEPT !.got = name]
  BY Zenon DEF Fetch, Give
<1> HIDE DEF g, name
<1>5. g = [heap |-> g.heap, text |-> g.text, files |-> g.files, found |-> g.found,
           from |-> g.from, got |-> g.got, ptr |-> g.ptr]
  BY <1>3, Zenon DEF Mem
<1>6. n = [heap |-> g.heap, text |-> g.text, files |-> g.files, found |-> g.found,
           from |-> g.from, got |-> name, ptr |-> g.ptr]
  BY <1>4, <1>5
<1> HIDE DEF n, t, c
<1>7. n.files = m.files /\ n.found = m.found /\ Kept(m, n, {"buffer", "raw", "content"})
  BY <1>1, <1>2, <1>3, <1>6 DEF Same, Kept
<1>8. QED
  BY <1>3, <1>6, <1>7 DEF Mem, n, t, c, name

\* So does get_file_content.
LEMMA ContentTable ==
  ASSUME NEW m, Mem(m), NEW p
  PROVE  LET n == Content(m, p)
         IN  /\ Mem(n) /\ Kept(m, n, {"name", "addr", "buffer", "raw", "content"})
             /\ \/ n.files = m.files
                \/ \E f \in 1 .. N : /\ Image[f].name = NameAt(m.text, p)
                                     /\ n.files = Put(m.files, Victim(m.files), NewSlot(f, p))
<1> DEFINE s == Search(m, p)
           n == Content(m, p)
<1>1. /\ Mem(s) /\ Kept(m, s, {"name", "addr"})
      /\ \/ s.files = m.files
         \/ \E f \in 1 .. N : /\ Image[f].name = NameAt(m.text, p)
                              /\ s.files = Put(m.files, Victim(m.files), NewSlot(f, p))
  BY SearchTable DEF Search
<1>2. n = IF s.found THEN Fetch(s, FileAt(s.from)) ELSE s
  BY Zenon DEF Content, Deliver
<1> HIDE DEF s, n
<1>3. CASE s.found
  <2> DEFINE d == Fetch(s, FileAt(s.from))
  <2>1. Mem(d) /\ d.files = s.files /\ Kept(s, d, {"buffer", "raw", "content"})
    BY <1>1, FetchMem
  <2>2. n = d
    BY <1>2, <1>3
  <2> HIDE DEF d
  <2>3. QED
    BY <1>1, <2>1, <2>2 DEF n, Kept
<1>4. CASE ~s.found
  <2>1. n = s
    BY <1>2, <1>4
  <2>2. QED
    BY <1>1, <2>1 DEF n, Kept
<1>5. QED
  BY <1>3, <1>4

LEMMA PathBufferMem ==
  ASSUME NEW m, Mem(m), NEW name
  PROVE  LET n == PathBuffer(m, name)
         IN  Mem(n) /\ n.files = m.files /\ n.found = m.found
<1> DEFINE a == Take(m, "node", NodeSize)
           b == Take(a, "note", NoteSize)
           n == PathBuffer(m, name)
<1>1. "node" \in Locals /\ "note" \in Locals /\ "path" \in Locals
  BY DEF Locals
<1>2. Mem(a) /\ Same(m, a, "node")
  BY <1>1, TakeMem
<1>3. Mem(b) /\ Same(a, b, "note")
  <2> HIDE DEF a
  <2>1. QED
    BY <1>1, <1>2, TakeMem
<1>4. n = Take(b, "path", NameLen[name] + 1)
  BY DEF PathBuffer
<1> HIDE DEF a, b, n
<1>5. Mem(n) /\ Same(b, n, "path")
  BY <1>1, <1>3, <1>4, TakeMem
<1>6. QED
  BY <1>2, <1>3, <1>5 DEF Same, n

\* What one call does to the table.
OneSlot(V, U) == U = V \/ \E f \in 1 .. N : \E p : U = Put(V, Victim(V), NewSlot(f, p))

LEMMA StepTable ==
  ASSUME Counts(virtual_file_list), [Next]_vars
  PROVE  OneSlot(virtual_file_list, virtual_file_list')
<1> DEFINE V == virtual_file_list
<1>1. Mem(Call) /\ Call.files = V
  BY CallMem
<1>2. CASE Mount
  <2> DEFINE m == Borrow(Call, "buffer", LBA_SIZE)
  <2>1. "buffer" \in Locals
    BY DEF Locals
  <2>2. Same(Call, m, "buffer")
    BY <1>1, <2>1, BorrowMem
  <2>3. V' = m.files
    BY <1>2 DEF Mount, Leaves
  <2> HIDE DEF m
  <2>4. QED
    BY <1>1, <2>2, <2>3 DEF Same, OneSlot
<1>3. ASSUME NEW name \in Literals, OpenLiteral(name)
      PROVE  OneSlot(V, V')
  <2> DEFINE m == Content(Call, LiteralAt(name))
  <2>1. V' = m.files
    BY <1>3 DEF OpenLiteral, Leaves
  <2>2. OneSlot(V, m.files)
    BY <1>1, ContentTable DEF OneSlot
  <2> HIDE DEF m
  <2>3. QED
    BY <2>1, <2>2
<1>4. CASE \E c \in Lent : Close(c)
  BY <1>4 DEF Close, OneSlot
<1>5. ASSUME NEW c \in Lent, Import(c)
      PROVE  OneSlot(V, V')
  <2> DEFINE name == Dll[open[c].asked]
             b == PathBuffer(Call, name)
             d == Named(b, "path", name)
             p == d.ptr["path"]
             e == Content(d, p)
             m == ParseDll(d)
  <2>1. V' = m.files
    BY <1>5 DEF Import, Leaves
  <2>2. Mem(b) /\ b.files = V
    BY <1>1, PathBufferMem
  <2>3. Mem(d) /\ d.files = V
    <3> HIDE DEF b, name
    <3>1. Mem(d) /\ Same(b, d, "path")
      BY <2>2, NamedMem
    <3>2. QED
      BY <2>2, <3>1 DEF Same
  <2>4. m = GiveAt(e, e.ptr["path"])
    BY Zenon DEF ParseDll, Return, Give
  <2> HIDE DEF d, m
  <2>5. Mem(e) /\ OneSlot(V, e.files)
    BY <2>3, ContentTable DEF OneSlot
  <2> HIDE DEF e
  <2>6. m.files = e.files
    <3>1. Same(e, GiveAt(e, e.ptr["path"]), "path")
      BY <2>5, GiveMem
    <3>2. QED
      BY <2>4, <3>1 DEF Same
  <2>7. QED
    BY <2>1, <2>5, <2>6
<1>6. CASE UNCHANGED vars
  BY <1>6 DEF vars, OneSlot
<1>7. QED
  BY <1>2, <1>3, <1>4, <1>5, <1>6 DEF Next

LEMMA CountsKeep ==
  ASSUME NEW V, Counts(V), NEW U, OneSlot(V, U)
  PROVE  /\ Counts(U)
         /\ \A i \in 1 .. 4 : Filled(V, i) => U[i] = V[i]
<1>1. CASE U = V
  BY <1>1
<1>2. ASSUME NEW f, NEW p, U = Put(V, Victim(V), NewSlot(f, p))
      PROVE  /\ Counts(U)
             /\ \A i \in 1 .. 4 : Filled(V, i) => U[i] = V[i]
  <2> DEFINE v == Victim(V)
             s == NewSlot(f, p)
  <2>1. v \in Slots /\ (Filled(V, v) => v = 0)
    BY VictimIs
  <2>2. s.times_accessed = 1 /\ s.file_header # Null
    BY DEF NewSlot, Slot, StackLocal, Null
  <2> HIDE DEF v, s
  <2>3. DOMAIN V = Slots /\ U = [V EXCEPT ![v] = s]
    BY <1>2 DEF Counts, Put, v, s
  <2>4. U = [i \in Slots |-> U[i]] /\ \A i \in Slots : U[i] = IF i = v THEN s ELSE V[i]
    BY <2>1, <2>3
  <2>5. Counts(U)
    BY <2>2, <2>4 DEF Counts, Filled
  <2>6. ASSUME NEW i \in 1 .. 4, Filled(V, i)
        PROVE  U[i] = V[i]
    <3>1. i \in Slots /\ i # 0
      BY DEF Slots
    <3>2. i # v
      BY <2>1, <2>6, <3>1
    <3>3. QED
      BY <2>4, <3>1, <3>2
  <2>7. QED
    BY <2>5, <2>6
<1>3. QED
  BY <1>1, <1>2 DEF OneSlot

-----------------------------------------------------------------------------
(* The image                                                               *)

FollowsTo(n, s) == s = [f \in 0 .. n |-> IF f = 0 THEN FsHeaderSize ELSE s[f - 1] + Total(f)]

\* The files lie one behind the other: the recursion of Ends has a solution.
LEMMA EndsExist == \E s : FollowsTo(N, s)
<1> DEFINE Bad == {n \in Nat : ~ \E s : FollowsTo(n, s)}
<1>1. 0 \notin Bad
  <2> DEFINE s == [f \in 0 .. 0 |-> FsHeaderSize]
  <2>1. FollowsTo(0, s)
    BY DEF FollowsTo
  <2>2. QED
    BY <2>1
<1>2. ASSUME NEW n \in Nat, NEW s, FollowsTo(n, s)
      PROVE  \E t : FollowsTo(n + 1, t)
  <2> DEFINE t == [f \in 0 .. n + 1 |-> IF f = 0 THEN FsHeaderSize ELSE s[f - 1] + Total(f)]
  <2>1. ASSUME NEW f \in 0 .. n + 1, f # 0
        PROVE  t[f - 1] = s[f - 1]
    <3>1. f - 1 \in 0 .. n /\ f - 1 \in 0 .. n + 1
      BY <2>1
    <3>2. t[f - 1] = IF f - 1 = 0 THEN FsHeaderSize ELSE s[f - 1 - 1] + Total(f - 1)
      BY <3>1
    <3>3. s[f - 1] = IF f - 1 = 0 THEN FsHeaderSize ELSE s[f - 1 - 1] + Total(f - 1)
      BY <1>2, <3>1 DEF FollowsTo
    <3>4. QED
      BY <3>2, <3>3, Zenon
  <2>2. t = [f \in 0 .. n + 1 |-> IF f = 0 THEN FsHeaderSize ELSE t[f - 1] + Total(f)]
    BY <2>1
  <2>3. QED
    BY <2>2 DEF FollowsTo
<1>3. Bad = {}
  <2> SUFFICES ASSUME Bad # {} PROVE FALSE
    OBVIOUS
  <2>1. PICK n \in Bad : \A x \in Bad : n <= x
    <3>1. Bad \in SUBSET Nat
      OBVIOUS
    <3> HIDE DEF Bad
    <3>2. QED
      BY <3>1, Least
  <2>2. n \in Nat /\ n # 0
    BY <1>1, <2>1
  <2>3. n - 1 \in Nat /\ n - 1 \notin Bad
    BY <2>1, <2>2
  <2>4. PICK s : FollowsTo(n - 1, s)
    BY <2>3
  <2>5. \E t : FollowsTo(n - 1 + 1, t)
    BY <1>2, <2>3, <2>4
  <2>6. n - 1 + 1 = n
    BY <2>2
  <2>7. QED
    BY <2>1, <2>5, <2>6
<1>4. N \in Nat
  BY Files
<1>5. QED
  BY <1>3, <1>4

LEMMA EndsRule ==
  /\ Ends[0] = FsHeaderSize
  /\ \A f \in 1 .. N : Ends[f] = Ends[f - 1] + Total(f)
<1>1. Ends = CHOOSE s : FollowsTo(N, s)
  BY Zenon DEF Ends, FollowsTo, N
<1>2. FollowsTo(N, Ends)
  BY <1>1, EndsExist
<1>3. Ends = [f \in 0 .. N |-> IF f = 0 THEN FsHeaderSize ELSE Ends[f - 1] + Total(f)]
  BY <1>2, Zenon DEF FollowsTo
<1> DEFINE E == Ends
<1>4. E = [f \in 0 .. N |-> IF f = 0 THEN FsHeaderSize ELSE E[f - 1] + Total(f)]
  BY <1>3, Zenon
<1> HIDE DEF E
<1>5. N \in Nat
  BY Files
<1>6. E[0] = FsHeaderSize
  BY <1>4, <1>5
<1>7. ASSUME NEW f \in 1 .. N
      PROVE  E[f] = E[f - 1] + Total(f)
  <2>1. f \in 0 .. N /\ f # 0
    BY <1>5
  <2>2. QED
    BY <1>4, <2>1
<1>8. QED
  BY <1>6, <1>7, Zenon DEF E

LEMMA TotalNat ==
  ASSUME NEW f \in 1 .. N
  PROVE  Total(f) \in Nat /\ Total(f) >= FileHeaderSize + NameLen[Image[f].name]
  BY Files DEF Total, FileHeaderSize

LEMMA EndsNat == \A f \in 0 .. N : Ends[f] \in Nat
<1> DEFINE Bad == {f \in 0 .. N : Ends[f] \notin Nat}
<1> SUFFICES ASSUME Bad # {} PROVE FALSE
  OBVIOUS
<1>1. N \in Nat
  BY Files
<1>2. PICK n \in Bad : \A x \in Bad : n <= x
  <2>1. Bad \in SUBSET Nat
    BY <1>1
  <2> HIDE DEF Bad
  <2>2. QED
    BY <2>1, Least
<1>3. n \in 0 .. N /\ Ends[n] \notin Nat
  BY <1>2
<1>4. n # 0
  BY <1>3, EndsRule DEF FsHeaderSize
<1>5. n - 1 \in 0 .. N /\ n \in 1 .. N /\ ~(n <= n - 1)
  BY <1>1, <1>3, <1>4
<1>6. Ends[n - 1] \in Nat
  BY <1>2, <1>5
<1>7. Ends[n] = Ends[n - 1] + Total(n) /\ Total(n) \in Nat
  BY <1>5, EndsRule, TotalNat
<1>8. QED
  BY <1>3, <1>6, <1>7

\* A file's data starts before the file ends.
LEMMA OffsetNat ==
  ASSUME NEW f \in 1 .. N
  PROVE  /\ Offset(f) \in Nat
         /\ Offset(f) + FileHeaderSize + NameLen[Image[f].name] <= Ends[f]
<1>1. f - 1 \in 0 .. N
  BY Files
<1>2. Ends[f - 1] \in Nat /\ Ends[f] = Ends[f - 1] + Total(f)
  BY <1>1, EndsNat, EndsRule
<1>3. NameLen[Image[f].name] \in Nat
  BY Files
<1>4. QED
  BY <1>2, <1>3, TotalNat DEF Offset, FileHeaderSize

\* No two files start at the same place.
LEMMA OffsetsRise ==
  ASSUME NEW f \in 1 .. N, NEW g \in 1 .. N, f < g
  PROVE  Offset(f) < Offset(g)
<1> DEFINE Bad == {h \in f .. N : Ends[h] <= Offset(f)}
<1>1. N \in Nat
  BY Files
<1>2. Bad = {}
  <2> SUFFICES ASSUME Bad # {} PROVE FALSE
    OBVIOUS
  <2>1. PICK n \in Bad : \A x \in Bad : n <= x
    <3>1. Bad \in SUBSET Nat
      BY <1>1
    <3> HIDE DEF Bad
    <3>2. QED
      BY <3>1, Least
  <2>2. n \in f .. N /\ n \in 1 .. N /\ Ends[n] <= Offset(f)
    BY <1>1, <2>1
  <2>3. Ends[n] = Ends[n - 1] + Total(n) /\ Total(n) \in Nat /\ Total(n) > 0
    <3>1. Total(n) >= FileHeaderSize + NameLen[Image[n].name]
      BY <2>2, TotalNat
    <3>2. NameLen[Image[n].name] \in Nat
      BY <2>2, Files
    <3>3. QED
      BY <2>2, <3>1, <3>2, EndsRule, TotalNat DEF FileHeaderSize
  <2>4. Ends[n - 1] \in Nat /\ Offset(f) \in Nat
    <3>1. n - 1 \in 0 .. N
      BY <1>1, <2>2
    <3>2. QED
      BY <3>1, EndsNat, OffsetNat
  <2>5. n # f
    BY <2>2, <2>3, <2>4 DEF Offset
  <2>6. n - 1 \in f .. N /\ ~(n <= n - 1)
    BY <1>1, <2>2, <2>5
  <2>7. ~(Ends[n - 1] <= Offset(f))
    BY <2>1, <2>6
  <2>8. QED
    BY <2>2, <2>3, <2>4, <2>7
<1>3. g - 1 \in f .. N
  BY <1>1
<1>4. ~(Ends[g - 1] <= Offset(f)) /\ Offset(f) \in Nat /\ Offset(g) \in Nat
  BY <1>2, <1>3, OffsetNat
<1>5. QED
  BY <1>4 DEF Offset

\* An lba and an offset in the sector name one byte of the disk.
LEMMA AddressExact ==
  ASSUME NEW x \in Nat, NEW y \in Nat, x < 65536 * LBA_SIZE, y < 65536 * LBA_SIZE,
         (x \div LBA_SIZE) % 65536 = (y \div LBA_SIZE) % 65536, x % LBA_SIZE = y % LBA_SIZE
  PROVE  x = y
<1>1. ASSUME NEW z \in Nat, z < 65536 * LBA_SIZE
      PROVE  /\ (z \div LBA_SIZE) % 65536 = z \div LBA_SIZE /\ z \div LBA_SIZE \in Nat
             /\ z = LBA_SIZE * (z \div LBA_SIZE) + (z % LBA_SIZE)
  BY <1>1 DEF LBA_SIZE
<1>2. QED
  BY <1>1 DEF LBA_SIZE

LEMMA AddressNames ==
  ASSUME NEW f \in 1 .. N
  PROVE  FileAt(DiskAddress(f)) = f
<1>1. ASSUME NEW g \in 1 .. N, DiskAddress(g) = DiskAddress(f)
      PROVE  g = f
  <2>1. Offset(f) \in Nat /\ Offset(g) \in Nat
    BY OffsetNat
  <2>2. START + Offset(f) < 65536 * LBA_SIZE /\ START + Offset(g) < 65536 * LBA_SIZE
    BY ImageAssumption, Files
  <2> DEFINE x == START + Offset(f)
             y == START + Offset(g)
  <2>3. x \in Nat /\ y \in Nat
    BY <2>1 DEF START
  <2>4. /\ (x \div LBA_SIZE) % 65536 = (y \div LBA_SIZE) % 65536
        /\ x % LBA_SIZE = y % LBA_SIZE
    BY <1>1 DEF DiskAddress
  <2> HIDE DEF x, y
  <2>5. x = y
    BY <2>2, <2>3, <2>4, AddressExact DEF x, y
  <2>6. Offset(f) = Offset(g)
    BY <2>1, <2>5 DEF x, y, START
  <2>7. ~(f < g) /\ ~(g < f)
    BY <2>1, <2>6, OffsetsRise
  <2>8. QED
    BY <2>7
<1>2. f \in DOMAIN Image /\ DOMAIN Image = 1 .. N
  BY Files
<1>3. QED
  BY <1>1, <1>2 DEF FileAt

-----------------------------------------------------------------------------
(* The heap under a call                                                   *)

H == INSTANCE HeapProofs WITH held <- open, Sizes <- Asked, Strays <- {}

LEMMA AskedNat == Asked \subseteq Nat
<1>1. \A n \in DOMAIN NameLen : NameLen[n] + 1 \in Nat
  BY ImageAssumption
<1>2. DOMAIN Image = 1 .. N /\ \A f \in 1 .. N : Image[f].data \in Nat
  BY Files
<1>3. ASSUME NEW f \in 1 .. N
      PROVE  Lbas(f) * LBA_SIZE \in Nat
  <2>1. Offset(f) \in Nat /\ Total(f) \in Nat
    BY OffsetNat, TotalNat
  <2>2. DiskAddress(f)[2] \in Nat
    BY <2>1 DEF DiskAddress, START, LBA_SIZE
  <2> DEFINE d == DiskAddress(f)[2]
             t == Total(f)
  <2>3. d \in Nat /\ t \in Nat /\ Lbas(f) = (t + d + LBA_SIZE - 1) \div LBA_SIZE
    BY <2>1, <2>2, Zenon DEF Lbas
  <2> HIDE DEF d, t
  <2>4. QED
    BY <2>3 DEF LBA_SIZE
<1>4. {LBA_SIZE, DiskAddressSize, FileContentSize, NodeSize, NoteSize} \subseteq Nat
  BY DEF LBA_SIZE, DiskAddressSize, FileContentSize, NodeSize, NoteSize
<1>5. QED
  BY <1>1, <1>2, <1>3, <1>4 DEF Asked

LEMMA HeapFacts == H!HeapAssumption /\ H!SizesAssumption
  BY HeapAssumption, AskedNat DEF H!HeapAssumption, H!SizesAssumption

LEMMA HeapSizes == SizesFit => H!NoWrap /\ H!Fitting
  BY Zenon DEF SizesFit, H!NoWrap, H!Fitting, RegionEnd, H!RegionEnd

\* The operators of the heap are those of HeapOps, instance or not.
LEMMA SameAlloc ==
  ASSUME NEW h, NEW s
  PROVE  /\ CanAlloc(h, s) <=> H!CanAlloc(h, s)
         /\ AllocPtr(h, s) = H!AllocPtr(h, s)
         /\ AfterAlloc(h, s) = H!AfterAlloc(h, s)
<1>1. Spots(h, s) = H!Spots(h, s) /\ (FitsFresh(h, s) <=> H!FitsFresh(h, s))
  BY Zenon DEF Spots, H!Spots, Live, H!Live, NextOf, H!NextOf, Size, H!Size, Null, H!Null,
     FitsGap, H!FitsGap, FitsTail, H!FitsTail, FitsFresh, H!FitsFresh, W, H!W, Data, H!Data,
     End, H!End, RegionEnd, H!RegionEnd
<1>2. CanAlloc(h, s) <=> H!CanAlloc(h, s)
  BY <1>1, Zenon DEF CanAlloc, H!CanAlloc, Null, H!Null
<1>3. Pred(h, s) = H!Pred(h, s)
  <2>1. \A S : Min(S) = H!Min(S)
    BY Zenon DEF Min, H!Min
  <2>2. Min(Spots(h, s)) = H!Min(H!Spots(h, s))
    BY <1>1, <2>1, Zenon
  <2>3. QED
    BY <2>2 DEF Pred, H!Pred, Null, H!Null
<1>4. Place(h, s) = H!Place(h, s)
  BY <1>3, Zenon DEF Place, H!Place, Null, H!Null, End, H!End, W, H!W, Data, H!Data,
     Size, H!Size, FirstBlock, H!FirstBlock
<1>5. \A cur, a : Insert(h, cur, a, s) = H!Insert(h, cur, a, s)
  BY Zenon DEF Insert, H!Insert, Null, H!Null, W, H!W, Live, H!Live, NewNode, H!NewNode,
     NextOf, H!NextOf, Size, H!Size, HeaderFree, H!HeaderFree, FirstBlock, H!FirstBlock,
     Apart, H!Apart
<1>6. QED
  BY <1>2, <1>3, <1>4, <1>5, Zenon DEF AllocPtr, H!AllocPtr, AfterAlloc, H!AfterAlloc, W, H!W, Data, H!Data,
     Null, H!Null

LEMMA SameFree ==
  ASSUME NEW h, NEW p
  PROVE  AfterFree(h, p) = H!AfterFree(h, p)
  BY Zenon DEF AfterFree, H!AfterFree, IsPointing, H!IsPointing, Live, H!Live, Data, H!Data,
     Unlink, H!Unlink, NextOf, H!NextOf, Size, H!Size, UsedWithout, H!UsedWithout,
     FreeWith, H!FreeWith, W, H!W, Relink, H!Relink

\* The addresses of the live blocks' data.
Areas(h) == {Data(a) : a \in Live(h)}

LEMMA SameAreas ==
  ASSUME NEW h
  PROVE  Areas(h) = H!Areas(h)
  BY Zenon DEF Areas, H!Areas, Data, H!Data, Live, H!Live

Sane(h) == h.intact /\ H!HeapType(h) /\ H!Ordered(h) /\ H!Placed(h)

\* Every area lies past the heap's first address.
LEMMA AreasAbove ==
  ASSUME NEW h, Sane(h), NEW p \in Areas(h)
  PROVE  p \in Nat /\ Base <= p
<1>1. PICK a \in Live(h) : p = Data(a)
  BY DEF Areas
<1>2. a \in H!Live(h)
  BY <1>1 DEF Live, H!Live
<1>3. a \in Nat /\ Base + EntryHdr <= a
  BY <1>2 DEF Sane, H!Placed, H!HeapType, H!FirstBlock
<1>4. QED
  BY <1>1, <1>3, HeapAssumption DEF Data

LEMMA GrantAdds ==
  ASSUME SizesFit, NEW h, Sane(h), NEW s \in Asked, CanAlloc(h, s), NEW p, p = AllocPtr(h, s),
         AfterFill(AfterAlloc(h, s), p, s).intact
  PROVE  LET g == AfterFill(AfterAlloc(h, s), p, s)
         IN  /\ Sane(g) /\ p \in Nat /\ Base <= p
             /\ p \notin Areas(h) /\ Areas(g) = Areas(h) \cup {p}
<1> DEFINE b == AfterAlloc(h, s)
           g == AfterFill(b, p, s)
<1>1. \E i \in BOOLEAN : g = [b EXCEPT !.intact = i]
  <2> DEFINE i == b.intact /\ (s > 0 => \A c \in Live(b) : Apart(p, s, c, BlockHdr))
  <2>1. g = [b EXCEPT !.intact = i] /\ i \in BOOLEAN
    BY Zenon DEF AfterFill
  <2>2. QED
    BY <2>1
<1>2. g.intact => b.intact
  BY DEF AfterFill, AfterAlloc, Insert
<1>3. b = H!AfterAlloc(h, s) /\ p = H!AllocPtr(h, s) /\ H!CanAlloc(h, s)
  BY SameAlloc
<1> HIDE DEF b
<1>4. /\ H!HeapType(b) /\ H!Ordered(b) /\ H!Placed(b)
      /\ p \in Nat /\ Base <= p - BlockHdr
      /\ p \notin H!Areas(h) /\ H!Areas(b) = H!Areas(h) \cup {p}
  <2>1. H!AfterAlloc(h, s).intact
    BY <1>2, <1>3 DEF b
  <2>2. H!HeapType(h) /\ H!Ordered(h) /\ H!Placed(h)
    BY DEF Sane
  <2>3. H!NoWrap /\ H!Fitting
    BY HeapSizes
  <2>4. LET f == H!AfterAlloc(h, s)
             q == H!AllocPtr(h, s)
         IN  /\ H!HeapType(f) /\ H!Ordered(f) /\ H!Placed(f)
             /\ q \in Nat /\ Base <= q - BlockHdr
             /\ q \notin H!Areas(h) /\ H!Areas(f) = H!Areas(h) \cup {q}
    BY <1>3, <2>1, <2>2, <2>3, HeapFacts, H!AllocAdds, Zenon
  <2>5. QED
    BY <1>3, <2>4, Zenon
<1>5. H!HeapType(g) /\ H!Ordered(g) /\ H!Placed(g) /\ H!Areas(g) = H!Areas(b)
  <2>1. PICK i \in BOOLEAN : g = [b EXCEPT !.intact = i]
    BY <1>1
  <2>2. QED
    BY <1>4, <2>1, HeapFacts, H!BreakKeeps, Zenon
<1>6. Sane(g)
  BY <1>5 DEF Sane, b
<1>7. Base <= p
  BY <1>4, HeapAssumption
<1>8. Areas(h) = H!Areas(h) /\ Areas(g) = H!Areas(g)
  BY SameAreas
<1>9. QED
  BY <1>4, <1>5, <1>6, <1>7, <1>8, Zenon DEF b

-----------------------------------------------------------------------------
(* What every step of a call leaves behind it                             *)

\* The text below the heap is the same.
LowSame(T, U) == \A p \in 0 .. Base - 1 : NameAt(U, p) = NameAt(T, p)

\* From m the call went on to n: no broken heap is whole again, and no write reaches the
\* text below the heap.
Steps(m, n) ==
  /\ "intact" \in DOMAIN m.heap =>
       "intact" \in DOMAIN n.heap /\ (n.heap.intact => m.heap.intact)
  /\ LowSame(m.text, n.text)

LEMMA StepsOn ==
  ASSUME NEW m, NEW n, NEW o, Steps(m, n), Steps(n, o)
  PROVE  Steps(m, o)
  BY DEF Steps, LowSame

LEMMA StepsNone ==
  ASSUME NEW m
  PROVE  Steps(m, m)
  BY DEF Steps, LowSame

LEMMA WrittenLow ==
  ASSUME NEW T, NEW a, NEW b
  PROVE  LowSame(T, Written(T, a, b))
<1> SUFFICES ASSUME NEW p \in 0 .. Base - 1
             PROVE  NameAt(Written(T, a, b), p) = NameAt(T, p)
  BY DEF LowSame
<1> DEFINE U == Written(T, a, b)
<1>1. p < Base
  BY HeapAssumption
<1>2. p \in DOMAIN U <=> p \in DOMAIN T
  BY <1>1, Zenon DEF Written
<1>3. p \in DOMAIN U => U[p] = T[p]
  BY Zenon DEF Written
<1> HIDE DEF U
<1>4. QED
  BY <1>2, <1>3 DEF NameAt, U

LEMMA GrantSteps ==
  ASSUME NEW h, NEW s, CanAlloc(h, s), NEW p
  PROVE  LET g == AfterFill(AfterAlloc(h, s), p, s)
         IN  "intact" \in DOMAIN g /\ (g.intact => h.intact)
<1> DEFINE b == AfterAlloc(h, s)
<1>1. "intact" \in DOMAIN b /\ (b.intact => h.intact)
  BY DEF AfterAlloc, Insert
<1> HIDE DEF b
<1>2. QED
  BY <1>1 DEF AfterFill, b

LEMMA TakeSteps ==
  ASSUME NEW m, Mem(m), NEW x \in Locals, NEW s
  PROVE  Steps(m, Take(m, x, s))
<1> DEFINE n == Take(m, x, s)
           p == AllocPtr(m.heap, s)
<1>1. CASE CanAlloc(m.heap, s)
  <2>1. /\ n.heap = AfterFill(AfterAlloc(m.heap, s), p, s)
        /\ n.text = Written(m.text, p - BlockHdr, p + s)
    BY <1>1, GrantedMem DEF Take
  <2> HIDE DEF n, p
  <2>2. "intact" \in DOMAIN n.heap /\ (n.heap.intact => m.heap.intact)
    BY <1>1, <2>1, GrantSteps
  <2>3. LowSame(m.text, n.text)
    BY <2>1, WrittenLow
  <2>4. QED
    BY <2>2, <2>3 DEF Steps, n
<1>2. CASE ~CanAlloc(m.heap, s)
  <2>1. n.heap = [m.heap EXCEPT !.intact = FALSE] /\ n.text = m.text
    BY <1>2, RefusedMem
  <2> HIDE DEF n
  <2>2. QED
    BY <2>1 DEF Steps, LowSame, n
<1>3. QED
  BY <1>1, <1>2

LEMMA GiveSteps ==
  ASSUME NEW m, Mem(m), NEW p
  PROVE  Steps(m, GiveAt(m, p))
<1> DEFINE n == GiveAt(m, p)
<1>1. n.heap = AfterFree(m.heap, p) /\ n.text = m.text
  BY GiveMem
<1> HIDE DEF n
<1>2. QED
  BY <1>1 DEF Steps, LowSame, AfterFree, Unlink, n

LEMMA NamedSteps ==
  ASSUME NEW m, Mem(m), NEW x, NEW name
  PROVE  Steps(m, Named(m, x, name))
<1> DEFINE n == Named(m, x, name)
           q == m.ptr[x]
<1>1. /\ n.heap = m.heap
      /\ n.text = IF q < Base THEN m.text
                  ELSE [p \in DOMAIN m.text \cup {q} |-> IF p = q THEN name ELSE m.text[p]]
  BY NamedText
<1> HIDE DEF n, q
<1>2. ASSUME NEW p \in 0 .. Base - 1
      PROVE  NameAt(n.text, p) = NameAt(m.text, p)
  <2>1. CASE q < Base
    BY <1>1, <2>1
  <2>2. CASE ~(q < Base)
    <3>1. p # q
      BY <2>2, HeapAssumption
    <3> QED
      BY <1>1, <2>2, <3>1 DEF NameAt
  <2> QED
    BY <2>1, <2>2
<1> QED
  BY <1>1, <1>2 DEF Steps, LowSame, n

LEMMA BorrowSteps ==
  ASSUME NEW m, Mem(m), NEW x \in Locals, NEW s
  PROVE  Steps(m, Borrow(m, x, s))
<1> DEFINE n == Take(m, x, s)
<1>1. Mem(n) /\ Steps(m, n)
  BY TakeMem, TakeSteps
<1> HIDE DEF n
<1>2. Steps(n, GiveAt(n, n.ptr[x]))
  BY <1>1, GiveSteps
<1>3. Steps(m, GiveAt(n, n.ptr[x]))
  BY <1>1, <1>2, StepsOn
<1>4. QED
  BY <1>3 DEF Borrow, Give, n

LEMMA LookedSteps ==
  ASSUME NEW m, Mem(m), NEW g
  PROVE  Steps(m, Looked(m, g))
<1> DEFINE t == Take(m, "name", NameLen[Image[g].name] + 1)
           w == Named(t, "name", Image[g].name)
<1>1. "name" \in Locals
  BY DEF Locals
<1>2. Mem(t) /\ Steps(m, t)
  BY <1>1, TakeMem, TakeSteps
<1>3. Looked(m, g) = GiveAt(w, w.ptr["name"])
  BY Zenon DEF Give, Looked
<1> HIDE DEF t
<1>4. Mem(w) /\ Steps(t, w)
  BY <1>2, NamedMem, NamedSteps
<1> HIDE DEF w
<1>5. Steps(w, GiveAt(w, w.ptr["name"]))
  BY <1>4, GiveSteps
<1>6. Steps(m, w)
  BY <1>2, <1>4, StepsOn
<1> QED
  BY <1>3, <1>5, <1>6, StepsOn

LEMMA ScanSteps ==
  ASSUME NEW m, Mem(m)
  PROVE  \A f \in 0 .. N : Steps(m, Scan(m, f))
<1> DEFINE Bad == {f \in 0 .. N : ~Steps(m, Scan(m, f))}
<1> SUFFICES ASSUME Bad # {} PROVE FALSE
  OBVIOUS
<1>1. PICK n \in Bad : \A x \in Bad : n <= x
  <2>1. Bad \in SUBSET Nat
    BY Files
  <2> HIDE DEF Bad
  <2>2. QED
    BY <2>1, Least
<1>2. n \in 0 .. N /\ N \in Nat /\ ~Steps(m, Scan(m, n))
  BY <1>1, Files
<1>3. n # 0
  BY <1>2, ScanRule, StepsNone
<1>4. n - 1 \in 0 .. N /\ n \in 1 .. N /\ ~(n <= n - 1)
  BY <1>2, <1>3
<1> DEFINE s == Scan(m, n - 1)
<1>5. Steps(m, s) /\ Mem(s)
  BY <1>1, <1>4, ScanMem
<1>6. Scan(m, n) = Looked(s, n)
  BY <1>4, ScanRule
<1> HIDE DEF s
<1>7. Steps(s, Scan(m, n))
  BY <1>5, <1>6, LookedSteps
<1> QED
  BY <1>2, <1>5, <1>7, StepsOn

LEMMA EvictSteps ==
  ASSUME NEW m, Mem(m), NEW file
  PROVE  Steps(m, Evict(m, file))
<1> DEFINE a == GiveAt(m, file.file_header)
           b == GiveAt(a, file.file_name)
           c == GiveAt(b, file.file_data)
<1>1. Mem(a) /\ Steps(m, a)
  BY GiveMem, GiveSteps
<1>2. Mem(b) /\ Steps(a, b)
  <2> HIDE DEF a
  <2>1. QED
    BY <1>1, GiveMem, GiveSteps
<1>3. Steps(b, c)
  <2> HIDE DEF b
  <2>1. QED
    BY <1>2, GiveSteps
<1>4. Evict(m, file) = IF file.file_header = Null THEN m ELSE c
  BY Zenon DEF Evict
<1> HIDE DEF a, b, c
<1>5. Steps(m, c)
  BY <1>1, <1>2, <1>3, StepsOn
<1>6. QED
  BY <1>4, <1>5, StepsNone, Zenon

LEMMA ReplaceSteps ==
  ASSUME NEW m, Mem(m), NEW i, NEW f, NEW p
  PROVE  Steps(m, Replace(m, i, f, p))
<1> DEFINE e == Evict(m, m.files[i])
           n == Replace(m, i, f, p)
<1>1. Steps(m, e)
  BY EvictSteps
<1>2. n.heap = e.heap /\ n.text = m.text
  <2> HIDE DEF e, n
  <2>1. Replace(m, i, f, p).heap = Evict(m, m.files[i]).heap /\ Replace(m, i, f, p).text = m.text
    BY ReplaceMem
  <2>2. QED
    BY <2>1 DEF e, n
<1> HIDE DEF e, n
<1>3. Steps(m, n)
  BY <1>1, <1>2 DEF Steps, LowSame
<1>4. QED
  BY <1>3 DEF n

LEMMA AnswerSteps ==
  ASSUME NEW m, Mem(m), NEW d
  PROVE  Steps(m, Answer(m, d))
<1> DEFINE t == Take(m, "addr", DiskAddressSize)
           n == Answer(m, d)
<1>1. Steps(m, t)
  BY TakeSteps DEF Locals
<1>2. n.heap = t.heap /\ n.text = t.text
  BY AnswerMem
<1> HIDE DEF t, n
<1>3. Steps(m, n)
  BY <1>1, <1>2 DEF Steps
<1>4. QED
  BY <1>3 DEF n

LEMMA MissedSteps ==
  ASSUME NEW m, Mem(m), NEW f \in 1 .. N, NEW p
  PROVE  Steps(m, Missed(m, f, p))
<1> DEFINE s == Scan(m, f)
           a == Answer(s, DiskAddress(f))
<1>1. Mem(s) /\ Steps(m, s)
  BY Files, ScanMem, ScanSteps
<1>2. Mem(a) /\ Steps(s, a)
  <2> HIDE DEF s
  <2>1. QED
    BY <1>1, AnswerMem, AnswerSteps
<1> HIDE DEF a
<1>3. Mem(a)
  BY <1>2
<1>4. Steps(a, Replace(a, Victim(m.files), f, p))
  BY <1>3, ReplaceSteps
<1> HIDE DEF s
<1>5. Steps(m, Replace(a, Victim(m.files), f, p))
  BY <1>1, <1>2, <1>4, StepsOn
<1>6. QED
  BY <1>5, Zenon DEF Missed, a, s

LEMMA SearchSteps ==
  ASSUME NEW m, Mem(m), NEW name, NEW p
  PROVE  Steps(m, SearchFor(m, name, p))
<1>1. \A d : Steps(m, Answer(m, d))
  BY AnswerSteps
<1>2. \A f \in 1 .. N : Steps(m, Missed(m, f, p))
  BY MissedSteps
<1>3. Steps(m, m) /\ Steps(m, Scan(m, N))
  BY Files, StepsNone, ScanSteps
<1>4. QED
  BY <1>1, <1>2, <1>3, SearchCases, Zenon

\* get_file_content's own part, step by step.
Bought(m, f) == Take(m, "buffer", Lbas(f) * LBA_SIZE)
Read(m, f) == Take(Bought(m, f), "raw", Image[f].data)
Wrapped(m, f) == Take(Copied(m, f), "content", FileContentSize)

LEMMA CopiedSteps ==
  ASSUME NEW m, Mem(m), NEW f
  PROVE  /\ Mem(Bought(m, f)) /\ Steps(m, Bought(m, f)) /\ Same(m, Bought(m, f), "buffer")
         /\ Mem(Read(m, f)) /\ Steps(Bought(m, f), Read(m, f))
         /\ Same(Bought(m, f), Read(m, f), "raw")
         /\ Copied(m, f) = GiveAt(Read(m, f), Read(m, f).ptr["buffer"])
         /\ Steps(Read(m, f), Copied(m, f)) /\ Steps(m, Copied(m, f))
<1> DEFINE t == Bought(m, f)
           u == Read(m, f)
<1>1. "buffer" \in Locals /\ "raw" \in Locals
  BY DEF Locals
<1>2. Mem(t) /\ Steps(m, t) /\ Same(m, t, "buffer")
  BY <1>1, TakeMem, TakeSteps DEF Bought
<1>3. Mem(u) /\ Steps(t, u) /\ Same(t, u, "raw")
  <2>1. u = Take(t, "raw", Image[f].data)
    BY DEF Read
  <2> HIDE DEF t, u
  <2>2. QED
    BY <1>1, <1>2, <2>1, TakeMem, TakeSteps
<1>4. Copied(m, f) = GiveAt(u, u.ptr["buffer"])
  BY Zenon DEF Copied, Discard, Give, Read, Bought
<1> HIDE DEF t, u
<1>5. Steps(u, Copied(m, f))
  BY <1>3, <1>4, GiveSteps
<1>6. Steps(m, Copied(m, f))
  BY <1>2, <1>3, <1>5, StepsOn
<1>7. QED
  BY <1>2, <1>3, <1>4, <1>5, <1>6 DEF t, u

LEMMA FetchSteps ==
  ASSUME NEW m, Mem(m), NEW f
  PROVE  /\ Mem(Wrapped(m, f)) /\ Steps(Copied(m, f), Wrapped(m, f))
         /\ Same(Copied(m, f), Wrapped(m, f), "content")
         /\ Fetch(m, f).heap = AfterFree(Wrapped(m, f).heap, Wrapped(m, f).ptr["addr"])
         /\ Steps(Wrapped(m, f), Fetch(m, f)) /\ Steps(m, Fetch(m, f))
<1> DEFINE c == Copied(m, f)
           t == Wrapped(m, f)
           n == Fetch(m, f)
<1>1. Mem(c) /\ Steps(m, c)
  BY CopiedMem, CopiedSteps
<1>2. Mem(t) /\ Steps(c, t) /\ Same(c, t, "content")
  <2>1. "content" \in Locals
    BY DEF Locals
  <2>2. t = Take(c, "content", FileContentSize)
    BY DEF Wrapped
  <2> HIDE DEF c, t
  <2>3. QED
    BY <1>1, <2>1, <2>2, TakeMem, TakeSteps
<1>3. n.heap = AfterFree(t.heap, t.ptr["addr"]) /\ n.text = t.text
  BY FetchMem DEF Wrapped
<1>4. Steps(t, n)
  <2> DEFINE g == GiveAt(t, t.ptr["addr"])
  <2> HIDE DEF t, n
  <2>1. Steps(t, g) /\ g.heap = AfterFree(t.heap, t.ptr["addr"]) /\ g.text = t.text
    BY <1>2, GiveMem, GiveSteps
  <2> HIDE DEF g
  <2>2. QED
    BY <1>3, <2>1 DEF Steps
<1> HIDE DEF c, t, n
<1>5. Steps(m, n)
  BY <1>1, <1>2, <1>4, StepsOn
<1>6. QED
  BY <1>2, <1>3, <1>4, <1>5 DEF c, t, n

LEMMA ContentSteps ==
  ASSUME NEW m, Mem(m), NEW p
  PROVE  LET s == Search(m, p)
             n == Content(m, p)
         IN  /\ Mem(s) /\ Steps(m, s) /\ Steps(s, n) /\ Steps(m, n)
             /\ n = IF s.found THEN Fetch(s, FileAt(s.from)) ELSE s
<1> DEFINE s == Search(m, p)
           n == Content(m, p)
<1>1. Mem(s) /\ Steps(m, s)
  BY SearchTable, SearchSteps DEF Search
<1>2. n = IF s.found THEN Fetch(s, FileAt(s.from)) ELSE s
  BY Zenon DEF Content, Deliver
<1> HIDE DEF s, n
<1>3. Steps(s, n)
  <2>1. Steps(s, Fetch(s, FileAt(s.from))) /\ Steps(s, s)
    BY <1>1, FetchSteps, StepsNone
  <2>2. QED
    BY <1>2, <2>1
<1>4. Steps(m, n)
  BY <1>1, <1>3, StepsOn
<1>5. QED
  BY <1>1, <1>2, <1>3, <1>4 DEF s, n

LEMMA PathBufferSteps ==
  ASSUME NEW m, Mem(m), NEW name
  PROVE  LET a == Take(m, "node", NodeSize)
             b == Take(a, "note", NoteSize)
             n == PathBuffer(m, name)
         IN  /\ Mem(a) /\ Mem(b) /\ Mem(n) /\ Steps(m, a) /\ Steps(a, b) /\ Steps(b, n)
             /\ Steps(m, n) /\ Same(m, a, "node") /\ Same(a, b, "note") /\ Same(b, n, "path")
             /\ n = Take(b, "path", NameLen[name] + 1)
<1> DEFINE a == Take(m, "node", NodeSize)
           b == Take(a, "note", NoteSize)
           n == PathBuffer(m, name)
<1>1. "node" \in Locals /\ "note" \in Locals /\ "path" \in Locals
  BY DEF Locals
<1>2. Mem(a) /\ Same(m, a, "node") /\ Steps(m, a)
  BY <1>1, TakeMem, TakeSteps
<1>3. Mem(b) /\ Same(a, b, "note") /\ Steps(a, b)
  <2> HIDE DEF a
  <2>1. QED
    BY <1>1, <1>2, TakeMem, TakeSteps
<1>4. n = Take(b, "path", NameLen[name] + 1)
  BY DEF PathBuffer
<1> HIDE DEF a, b, n
<1>5. Mem(n) /\ Same(b, n, "path") /\ Steps(b, n)
  BY <1>1, <1>3, <1>4, TakeMem, TakeSteps
<1>6. Steps(m, n)
  BY <1>2, <1>3, <1>5, StepsOn
<1>7. QED
  BY <1>2, <1>3, <1>4, <1>5, <1>6 DEF a, b, n

-----------------------------------------------------------------------------
(* The areas a call takes and gives back                                   *)

\* From m to n, which left the heap whole: the areas of A came in, all of them new.
Adds(m, n, A) ==
  /\ Sane(n.heap) /\ Areas(n.heap) = Areas(m.heap) \cup A
  /\ A \cap Areas(m.heap) = {} /\ \A p \in A : p \in Nat /\ Base <= p

LEMMA Wholeness ==
  ASSUME NEW m, NEW n, Steps(m, n), Sane(m.heap)
  PROVE  "intact" \in DOMAIN n.heap /\ (n.heap.intact => m.heap.intact)
  BY DEF Steps, Sane, H!HeapType

LEMMA TakeHeap ==
  ASSUME SizesFit, NEW m, Mem(m), Sane(m.heap), NEW x \in Locals, NEW s \in Asked,
         Take(m, x, s).heap.intact
  PROVE  Adds(m, Take(m, x, s), {Take(m, x, s).ptr[x]})
<1> DEFINE n == Take(m, x, s)
           p == AllocPtr(m.heap, s)
<1>1. CASE CanAlloc(m.heap, s)
  <2>1. /\ n.heap = AfterFill(AfterAlloc(m.heap, s), p, s) /\ n.ptr[x] = p
    BY <1>1, GrantedMem DEF Take
  <2> DEFINE g == AfterFill(AfterAlloc(m.heap, s), p, s)
  <2>2. g.intact
    BY <2>1
  <2>3. /\ Sane(g) /\ p \in Nat /\ Base <= p
        /\ p \notin Areas(m.heap) /\ Areas(g) = Areas(m.heap) \cup {p}
    BY <1>1, <2>2, GrantAdds
  <2> HIDE DEF g, n, p
  <2>4. Adds(m, n, {n.ptr[x]})
    BY <2>1, <2>3 DEF Adds, g
  <2>5. QED
    BY <2>4 DEF n
<1>2. CASE ~CanAlloc(m.heap, s)
  <2>1. n.heap = [m.heap EXCEPT !.intact = FALSE]
    BY <1>2, RefusedMem
  <2> HIDE DEF n
  <2>2. ~n.heap.intact
    BY <2>1 DEF Sane, H!HeapType
  <2>3. QED
    BY <2>2 DEF n
<1>3. QED
  BY <1>1, <1>2

LEMMA GiveHeap ==
  ASSUME NEW m, Mem(m), Sane(m.heap), NEW p
  PROVE  LET n == GiveAt(m, p)
         IN  Sane(n.heap) /\ Areas(n.heap) = Areas(m.heap) \ {p}
<1> DEFINE h == m.heap
           g == AfterFree(h, p)
<1>1. GiveAt(m, p).heap = g
  BY GiveMem
<1>2. g = H!AfterFree(h, p)
  BY SameFree
<1>3. LET f == H!AfterFree(h, p)
      IN  /\ H!HeapType(f) /\ H!Ordered(f) /\ H!Placed(f) /\ f.intact = h.intact
          /\ H!Areas(f) = H!Areas(h) \ {p}
  BY HeapFacts, H!FreeRemoves, Zenon DEF Sane
<1>4. Areas(h) = H!Areas(h) /\ Areas(g) = H!Areas(g)
  BY SameAreas
<1> HIDE DEF g
<1>5. Sane(g) /\ Areas(g) = Areas(h) \ {p}
  BY <1>2, <1>3, <1>4 DEF Sane
<1> HIDE DEF h
<1>6. QED
  BY <1>1, <1>5 DEF h

LEMMA BorrowHeap ==
  ASSUME SizesFit, NEW m, Mem(m), Sane(m.heap), NEW x \in Locals, NEW s \in Asked,
         Borrow(m, x, s).heap.intact
  PROVE  Adds(m, Borrow(m, x, s), {})
<1> DEFINE t == Take(m, x, s)
           n == Borrow(m, x, s)
<1>1. Mem(t) /\ Steps(m, t)
  BY TakeMem, TakeSteps
<1>2. n = GiveAt(t, t.ptr[x])
  BY Zenon DEF Borrow, Give
<1>3. "intact" \in DOMAIN t.heap
  BY <1>1, Wholeness
<1> HIDE DEF t
<1>4. t.heap.intact
  <2> HIDE DEF n
  <2>1. Steps(t, n)
    BY <1>1, <1>2, GiveSteps
  <2>2. QED
    BY <1>3, <2>1 DEF Steps, n
<1>5. Adds(m, t, {t.ptr[x]})
  BY <1>4, TakeHeap DEF t
<1> HIDE DEF n
<1>6. Sane(n.heap) /\ Areas(n.heap) = Areas(t.heap) \ {t.ptr[x]}
  BY <1>1, <1>2, <1>5, GiveHeap DEF Adds
<1>7. QED
  BY <1>5, <1>6 DEF Adds, n

LEMMA ScanHeap ==
  ASSUME SizesFit, NEW m, Mem(m), Sane(m.heap)
  PROVE  \A f \in 0 .. N : Scan(m, f).heap.intact => Adds(m, Scan(m, f), {})
<1> DEFINE Bad == {f \in 0 .. N : Scan(m, f).heap.intact /\ ~Adds(m, Scan(m, f), {})}
<1> SUFFICES ASSUME Bad # {} PROVE FALSE
  OBVIOUS
<1>1. PICK n \in Bad : \A x \in Bad : n <= x
  <2>1. Bad \in SUBSET Nat
    BY Files
  <2> HIDE DEF Bad
  <2>2. QED
    BY <2>1, Least
<1>2. n \in 0 .. N /\ N \in Nat /\ Scan(m, n).heap.intact /\ ~Adds(m, Scan(m, n), {})
  BY <1>1, Files
<1>3. n # 0
  BY <1>2, ScanRule DEF Adds
<1>4. n - 1 \in 0 .. N /\ n \in 1 .. N /\ ~(n <= n - 1)
  BY <1>2, <1>3
<1> DEFINE s == Scan(m, n - 1)
           l == NameLen[Image[n].name] + 1
<1>5. Mem(s) /\ Steps(m, s) /\ (s.heap.intact => Adds(m, s, {}))
  BY <1>1, <1>4, ScanMem, ScanSteps
<1>6. Scan(m, n) = Looked(s, n)
  BY <1>4, ScanRule
<1>7. l \in Asked
  BY <1>4, Files DEF Asked
<1>8. "name" \in Locals
  BY DEF Locals
<1> HIDE DEF s
<1>9. Steps(s, Scan(m, n)) /\ Scan(m, n).heap = Borrow(s, "name", l).heap
  BY <1>5, <1>6, LookedSteps, LookedMem
<1> HIDE DEF l
<1>10. s.heap.intact
  <2>1. "intact" \in DOMAIN s.heap
    BY <1>5, Wholeness
  <2>2. QED
    BY <1>2, <1>9, <2>1 DEF Steps
<1>11. Adds(m, s, {})
  BY <1>5, <1>10
<1>12. Adds(s, Scan(m, n), {})
  BY <1>2, <1>5, <1>7, <1>8, <1>9, <1>11, BorrowHeap DEF Adds
<1>13. QED
  BY <1>2, <1>11, <1>12 DEF Adds

\* No pointer of a table entry is into the heap.
LowEntry(file) ==
  file.file_header # Null =>
    file.file_header < Base /\ file.file_name < Base /\ file.file_data < Base

\* Then the three frees of an eviction do nothing.
LEMMA EvictHeap ==
  ASSUME NEW m, Mem(m), Sane(m.heap), NEW file, LowEntry(file)
  PROVE  Sane(Evict(m, file).heap) /\ Areas(Evict(m, file).heap) = Areas(m.heap)
<1> DEFINE a == GiveAt(m, file.file_header)
           b == GiveAt(a, file.file_name)
           c == GiveAt(b, file.file_data)
<1>1. Mem(a) /\ Sane(a.heap) /\ Areas(a.heap) = Areas(m.heap) \ {file.file_header}
  BY GiveMem, GiveHeap
<1>2. Mem(b) /\ Sane(b.heap) /\ Areas(b.heap) = Areas(a.heap) \ {file.file_name}
  <2> HIDE DEF a
  <2>1. QED
    BY <1>1, GiveMem, GiveHeap
<1>3. Sane(c.heap) /\ Areas(c.heap) = Areas(b.heap) \ {file.file_data}
  <2> HIDE DEF b
  <2>1. QED
    BY <1>2, GiveHeap
<1>4. Evict(m, file) = IF file.file_header = Null THEN m ELSE c
  BY Zenon DEF Evict
<1> HIDE DEF a, b, c
<1>5. CASE file.file_header = Null
  BY <1>4, <1>5
<1>6. CASE file.file_header # Null
  <2>1. \A p \in Areas(m.heap) : p \in Nat /\ Base <= p
    BY AreasAbove
  <2>2. /\ file.file_header \notin Areas(m.heap) /\ file.file_name \notin Areas(m.heap)
        /\ file.file_data \notin Areas(m.heap)
    BY <1>6, <2>1, HeapAssumption DEF LowEntry
  <2>3. Areas(c.heap) = Areas(m.heap)
    BY <1>1, <1>2, <1>3, <2>2
  <2>4. QED
    BY <1>3, <1>4, <1>6, <2>3
<1>7. QED
  BY <1>5, <1>6

LEMMA AnswerHeap ==
  ASSUME SizesFit, NEW m, Mem(m), Sane(m.heap), NEW d, Answer(m, d).heap.intact
  PROVE  Adds(m, Answer(m, d), {Answer(m, d).ptr["addr"]}) /\ Answer(m, d).found
<1> DEFINE t == Take(m, "addr", DiskAddressSize)
           n == Answer(m, d)
<1>1. n.heap = t.heap /\ n.ptr = t.ptr /\ n.found
  BY AnswerMem
<1>2. "addr" \in Locals /\ DiskAddressSize \in Asked
  BY DEF Locals, Asked
<1>3. t.heap.intact
  BY <1>1
<1>4. Adds(m, t, {t.ptr["addr"]})
  BY <1>2, <1>3, TakeHeap
<1> HIDE DEF t, n
<1>5. Adds(m, n, {n.ptr["addr"]})
  BY <1>1, <1>4 DEF Adds
<1>6. QED
  BY <1>1, <1>5 DEF n

LEMMA MissedHeap ==
  ASSUME SizesFit, NEW m, Mem(m), Sane(m.heap), LowEntry(m.files[Victim(m.files)]),
         NEW f \in 1 .. N, NEW p, Missed(m, f, p).heap.intact
  PROVE  Adds(m, Missed(m, f, p), {Missed(m, f, p).ptr["addr"]})
<1> DEFINE s == Scan(m, f)
           a == Answer(s, DiskAddress(f))
           v == Victim(m.files)
           n == Missed(m, f, p)
<1>1. Mem(s) /\ Same(m, s, "name") /\ Steps(m, s)
  BY Files, ScanMem, ScanSteps
<1>2. f \in 0 .. N
  BY Files
<1>3. n = Replace(a, v, f, p)
  BY Zenon DEF Missed
<1> HIDE DEF n, v
<1>4. s.heap.intact => Adds(m, s, {})
  BY <1>2, ScanHeap
<1> HIDE DEF s
<1>5. Mem(a) /\ Steps(s, a) /\ a.files = s.files
  BY <1>1, AnswerMem, AnswerSteps
<1>6. a.heap.intact /\ Sane(s.heap) => Adds(s, a, {a.ptr["addr"]})
  BY <1>1, AnswerHeap
<1> HIDE DEF a
<1>7. Mem(a)
  BY <1>5
<1>8. Steps(a, n) /\ n.heap = Evict(a, a.files[v]).heap /\ n.ptr = a.ptr
  BY <1>3, <1>7, ReplaceMem, ReplaceSteps
<1>9. a.heap.intact /\ s.heap.intact
  <2>1. "intact" \in DOMAIN s.heap
    BY <1>1, Wholeness
  <2>2. "intact" \in DOMAIN a.heap /\ (a.heap.intact => s.heap.intact)
    BY <1>5, <2>1 DEF Steps
  <2>3. a.heap.intact
    BY <1>8, <2>2 DEF Steps, n
  <2>4. QED
    BY <2>2, <2>3
<1>10. Adds(m, s, {}) /\ Adds(s, a, {a.ptr["addr"]})
  BY <1>4, <1>6, <1>9 DEF Adds
<1>11. Adds(m, a, {a.ptr["addr"]})
  BY <1>10 DEF Adds
<1>12. LowEntry(a.files[v])
  BY <1>1, <1>5 DEF Same, v
<1>13. Sane(n.heap) /\ Areas(n.heap) = Areas(a.heap)
  <2>1. Sane(a.heap)
    BY <1>11 DEF Adds
  <2>2. QED
    BY <1>7, <1>8, <1>12, <2>1, EvictHeap
<1>14. Adds(m, n, {n.ptr["addr"]})
  BY <1>8, <1>11, <1>13 DEF Adds
<1>15. QED
  BY <1>14 DEF n

\* dumb_file_search takes the disk address it answers with, and nothing else.
LEMMA SearchHeap ==
  ASSUME SizesFit, NEW m, Mem(m), Sane(m.heap), LowEntry(m.files[Victim(m.files)]), ~m.found,
         NEW name, NEW p, SearchFor(m, name, p).heap.intact
  PROVE  LET n == SearchFor(m, name, p)
         IN  Adds(m, n, IF n.found THEN {n.ptr["addr"]} ELSE {})
<1> DEFINE n == SearchFor(m, name, p)
<1>1. ASSUME NEW d, n = Answer(m, d)
      PROVE  n.found /\ Adds(m, n, {n.ptr["addr"]})
  BY <1>1, AnswerHeap
<1>2. ASSUME NEW f \in 1 .. N, n = Missed(m, f, p)
      PROVE  n.found /\ Adds(m, n, {n.ptr["addr"]})
  <2>1. Missed(m, f, p).heap.intact
    BY <1>2
  <2>2. Missed(m, f, p).found
    BY MissedMem
  <2>3. Adds(m, Missed(m, f, p), {Missed(m, f, p).ptr["addr"]})
    BY <2>1, MissedHeap
  <2>4. QED
    BY <1>2, <2>2, <2>3, Zenon
<1>3. \/ \E d : n = Answer(m, d)
      \/ \E f \in 1 .. N : n = Missed(m, f, p)
      \/ n = m
      \/ n = Scan(m, N)
  BY SearchCases, Zenon
<1> HIDE DEF n
<1>4. \/ n.found /\ Adds(m, n, {n.ptr["addr"]})
      \/ ~n.found /\ Adds(m, n, {})
  <2>1. CASE n = m
    BY <1>3, <2>1 DEF Adds
  <2>2. CASE n = Scan(m, N)
    <3>1. Same(m, Scan(m, N), "name") /\ (Scan(m, N).heap.intact => Adds(m, Scan(m, N), {}))
      BY Files, ScanMem, ScanHeap
    <3>2. ~n.found /\ n.heap.intact
      BY <2>2, <3>1 DEF Same, n
    <3>3. QED
      BY <2>2, <3>1, <3>2
  <2>3. QED
    BY <1>1, <1>2, <1>3, <2>1, <2>2
<1>5. QED
  BY <1>4 DEF n

LEMMA CopiedHeap ==
  ASSUME SizesFit, NEW m, Mem(m), Sane(m.heap), NEW f \in 1 .. N, Copied(m, f).heap.intact
  PROVE  Adds(m, Copied(m, f), {Copied(m, f).ptr["raw"]})
<1> DEFINE t == Bought(m, f)
           u == Read(m, f)
           n == Copied(m, f)
<1>1. /\ Mem(t) /\ Steps(m, t)
      /\ Mem(u) /\ Steps(t, u) /\ Same(t, u, "raw")
      /\ n = GiveAt(u, u.ptr["buffer"]) /\ Steps(u, n)
  BY CopiedSteps
<1>2. t = Take(m, "buffer", Lbas(f) * LBA_SIZE) /\ u = Take(t, "raw", Image[f].data)
  BY DEF Bought, Read
<1>3. /\ "buffer" \in Locals /\ "raw" \in Locals /\ "buffer" # "raw"
      /\ Lbas(f) * LBA_SIZE \in Asked /\ Image[f].data \in Asked
  BY Files DEF Locals, Asked
<1> DEFINE x == Lbas(f) * LBA_SIZE
           y == Image[f].data
<1>4. n.heap.intact
  OBVIOUS
<1> HIDE DEF t, u, n, x, y
<1>5. t.heap.intact /\ u.heap.intact
  <2>1. "intact" \in DOMAIN t.heap
    BY <1>1, Wholeness
  <2>2. "intact" \in DOMAIN u.heap /\ (u.heap.intact => t.heap.intact)
    BY <1>1, <2>1 DEF Steps
  <2>3. QED
    BY <1>1, <1>4, <2>2 DEF Steps
<1>6. Adds(m, t, {t.ptr["buffer"]})
  BY <1>2, <1>3, <1>5, TakeHeap DEF x
<1>7. Adds(t, u, {u.ptr["raw"]})
  <2>1. Sane(t.heap)
    BY <1>6 DEF Adds
  <2>2. QED
    BY <1>1, <1>2, <1>3, <1>5, <2>1, TakeHeap DEF y
<1>8. u.ptr["buffer"] = t.ptr["buffer"]
  BY <1>1, <1>3 DEF Same
<1>9. Sane(n.heap) /\ Areas(n.heap) = Areas(u.heap) \ {u.ptr["buffer"]} /\ n.ptr = u.ptr
  <2>1. Sane(u.heap)
    BY <1>7 DEF Adds
  <2>2. QED
    BY <1>1, <2>1, GiveHeap, GiveMem
<1>10. Adds(m, n, {n.ptr["raw"]})
  BY <1>6, <1>7, <1>8, <1>9 DEF Adds
<1>11. QED
  BY <1>10 DEF n

\* get_file_content's own part takes the two blocks of the answer and gives back
\* the disk address.
LEMMA FetchHeap ==
  ASSUME SizesFit, NEW m, Mem(m), Sane(m.heap), NEW f \in 1 .. N, Fetch(m, f).heap.intact,
         m.ptr["addr"] \in Areas(m.heap)
  PROVE  LET n == Fetch(m, f)
         IN  /\ Sane(n.heap) /\ n.ptr["raw"] # n.ptr["content"]
             /\ n.ptr["raw"] \notin Areas(m.heap) /\ n.ptr["content"] \notin Areas(m.heap)
             /\ Areas(n.heap) = (Areas(m.heap) \ {m.ptr["addr"]})
                                  \cup {n.ptr["raw"], n.ptr["content"]}
<1> DEFINE c == Copied(m, f)
           t == Wrapped(m, f)
           n == Fetch(m, f)
<1>1. /\ Steps(m, c) /\ Mem(t) /\ Steps(c, t) /\ Same(c, t, "content")
      /\ n.heap = AfterFree(t.heap, t.ptr["addr"]) /\ Steps(t, n)
  BY CopiedSteps, FetchSteps
<1>2. Mem(c) /\ Kept(m, c, {"buffer", "raw"})
  BY CopiedMem
<1>3. n.ptr = t.ptr
  BY FetchMem DEF Wrapped
<1>4. t = Take(c, "content", FileContentSize)
  BY DEF Wrapped
<1>5. /\ "content" \in Locals /\ "raw" \in Locals /\ "addr" \in Locals
      /\ "raw" # "content" /\ "addr" # "content" /\ "addr" \notin {"buffer", "raw"}
      /\ FileContentSize \in Asked
  BY DEF Locals, Asked
<1>6. n.heap.intact
  OBVIOUS
<1>7. c.heap.intact => Adds(m, c, {c.ptr["raw"]})
  BY CopiedHeap
<1> HIDE DEF c, t, n
<1>8. c.heap.intact /\ t.heap.intact
  <2>1. "intact" \in DOMAIN c.heap
    BY <1>1, Wholeness
  <2>2. "intact" \in DOMAIN t.heap /\ (t.heap.intact => c.heap.intact)
    BY <1>1, <2>1 DEF Steps
  <2>3. QED
    BY <1>1, <1>6, <2>2 DEF Steps
<1>9. Adds(m, c, {c.ptr["raw"]})
  BY <1>7, <1>8
<1>10. Adds(c, t, {t.ptr["content"]})
  <2>1. Sane(c.heap)
    BY <1>9 DEF Adds
  <2>2. QED
    BY <1>2, <1>4, <1>5, <1>8, <2>1, TakeHeap
<1>11. t.ptr["raw"] = c.ptr["raw"] /\ t.ptr["addr"] = m.ptr["addr"]
  BY <1>1, <1>2, <1>5 DEF Same, Kept
<1>12. Sane(n.heap) /\ Areas(n.heap) = Areas(t.heap) \ {t.ptr["addr"]}
  <2>1. Sane(t.heap)
    BY <1>10 DEF Adds
  <2>2. GiveAt(t, t.ptr["addr"]).heap = n.heap
    BY <1>1, GiveMem
  <2>3. QED
    BY <1>1, <2>1, <2>2, GiveHeap
<1>13. QED
  BY <1>3, <1>9, <1>10, <1>11, <1>12 DEF Adds, n

\* Every filled slot names the place of a file of the image.
Entries(V) ==
  /\ Counts(V)
  /\ \A i \in Slots : Filled(V, i) =>
       /\ V[i].file_header = StackLocal
       /\ \E f \in 1 .. N :
            /\ V[i].disk_address = DiskAddress(f)
            /\ V[i].file_data = Offset(f) + FileHeaderSize + NameLen[Image[f].name]

LEMMA VictimLow ==
  ASSUME BelowHeap, NEW V, Entries(V), V[0].file_name < Base
  PROVE  LowEntry(V[Victim(V)])
<1> DEFINE v == Victim(V)
<1>1. v \in Slots /\ (Filled(V, v) => v = 0)
  BY VictimIs DEF Entries
<1> HIDE DEF v
<1>2. CASE ~Filled(V, v)
  BY <1>2 DEF LowEntry, Filled, v
<1>3. CASE Filled(V, v)
  <2>1. V[v].file_header < Base /\ V[v].file_name < Base
    BY <1>1, <1>3 DEF Entries, BelowHeap
  <2>2. PICK f \in 1 .. N :
          V[v].file_data = Offset(f) + FileHeaderSize + NameLen[Image[f].name]
    BY <1>1, <1>3 DEF Entries
  <2>3. Offset(f) + FileHeaderSize + NameLen[Image[f].name] <= Ends[f] /\ Ends[f] < Base
    BY OffsetNat, Files DEF BelowHeap
  <2>4. /\ Offset(f) + FileHeaderSize + NameLen[Image[f].name] \in Nat /\ Ends[f] \in Nat
    <3>1. f \in 0 .. N /\ NameLen[Image[f].name] \in Nat
      BY Files
    <3>2. QED
      BY <3>1, OffsetNat, EndsNat DEF FileHeaderSize
  <2>5. V[v].file_data < Base
    BY <2>2, <2>3, <2>4, HeapAssumption
  <2>6. QED
    BY <2>1, <2>5 DEF LowEntry, v
<1>4. QED
  BY <1>2, <1>3

\* What a search answers is the address of a file.
LEMMA SearchFinds ==
  ASSUME NEW m, Mem(m), Entries(m.files), ~m.found, NEW name, NEW p
  PROVE  LET n == SearchFor(m, name, p)
         IN  n.found => \E f \in 1 .. N : n.from = DiskAddress(f)
<1> DEFINE n == SearchFor(m, name, p)
<1>1. ASSUME NEW i \in Hits(m, name), n = Answer(m, m.files[i].disk_address)
      PROVE  \E f \in 1 .. N : n.from = DiskAddress(f)
  <2>1. n.from = m.files[i].disk_address
    BY <1>1, AnswerMem
  <2>2. i \in Slots /\ Filled(m.files, i)
    BY DEF Hits
  <2> HIDE DEF n
  <2>3. QED
    BY <2>1, <2>2 DEF Entries
<1>2. ASSUME NEW f \in 1 .. N, n = Missed(m, f, p)
      PROVE  n.from = DiskAddress(f)
  <2>1. Missed(m, f, p).from = DiskAddress(f)
    BY MissedMem
  <2>2. QED
    BY <1>2, <2>1, Zenon
<1>3. CASE n = m
  BY <1>3
<1>4. CASE n = Scan(m, N)
  <2>1. Same(m, Scan(m, N), "name")
    BY Files, ScanMem
  <2> HIDE DEF n
  <2>2. ~n.found
    BY <1>4, <2>1 DEF Same
  <2>3. QED
    BY <2>2 DEF n
<1>5. \/ \E i \in Hits(m, name) : n = Answer(m, m.files[i].disk_address)
      \/ \E f \in 1 .. N : n = Missed(m, f, p)
      \/ n = m
      \/ n = Scan(m, N)
  BY SearchCases, Zenon
<1>6. QED
  BY <1>1, <1>2, <1>3, <1>4, <1>5

\* get_file_content takes the two blocks of its answer, or nothing.
LEMMA ContentHeap ==
  ASSUME SizesFit, BelowHeap, NEW m, Mem(m), Sane(m.heap), Entries(m.files),
         m.files[0].file_name < Base, ~m.found, NEW p, Content(m, p).heap.intact
  PROVE  LET n == Content(m, p)
             r == n.ptr["raw"]
             c == n.ptr["content"]
         IN  /\ Sane(n.heap)
             /\ n.found => /\ r # c /\ r \notin Areas(m.heap) /\ c \notin Areas(m.heap)
                           /\ Areas(n.heap) = Areas(m.heap) \cup {r, c}
             /\ ~n.found => Areas(n.heap) = Areas(m.heap)
<1> DEFINE s == Search(m, p)
           n == Content(m, p)
<1>1. /\ Mem(s) /\ Steps(m, s) /\ Steps(s, n)
      /\ n = IF s.found THEN Fetch(s, FileAt(s.from)) ELSE s
  BY ContentSteps
<1>2. n.heap.intact
  OBVIOUS
<1>3. s.heap.intact => Adds(m, s, IF s.found THEN {s.ptr["addr"]} ELSE {})
  BY VictimLow, SearchHeap DEF Search
<1>4. s.found => \E f \in 1 .. N : s.from = DiskAddress(f)
  BY SearchFinds DEF Search
<1> HIDE DEF s, n
<1>5. s.heap.intact
  <2>1. "intact" \in DOMAIN s.heap
    BY <1>1, Wholeness
  <2>2. QED
    BY <1>1, <1>2, <2>1 DEF Steps
<1>6. CASE s.found
  <2>1. PICK f \in 1 .. N : s.from = DiskAddress(f)
    BY <1>4, <1>6
  <2>2. n = Fetch(s, f)
    BY <1>1, <1>6, <2>1, AddressNames
  <2>3. Adds(m, s, {s.ptr["addr"]})
    BY <1>3, <1>5, <1>6
  <2>4. Sane(s.heap) /\ s.ptr["addr"] \in Areas(s.heap)
    BY <2>3 DEF Adds
  <2>5. Fetch(s, f).heap.intact
    BY <1>2, <2>2
  <2>6. /\ Sane(n.heap) /\ n.ptr["raw"] # n.ptr["content"]
        /\ n.ptr["raw"] \notin Areas(s.heap) /\ n.ptr["content"] \notin Areas(s.heap)
        /\ Areas(n.heap) = (Areas(s.heap) \ {s.ptr["addr"]})
                             \cup {n.ptr["raw"], n.ptr["content"]}
    BY <1>1, <2>2, <2>4, <2>5, FetchHeap
  <2>7. Fetch(s, f).found = s.found
    BY <1>1, FetchMem
  <2>8. n.found
    BY <1>6, <2>2, <2>7
  <2>9. QED
    BY <2>3, <2>6, <2>8 DEF Adds, n
<1>7. CASE ~s.found
  <2>1. n = s /\ Adds(m, s, {})
    BY <1>1, <1>3, <1>5, <1>7
  <2>2. QED
    BY <1>7, <2>1 DEF Adds, n
<1>8. QED
  BY <1>6, <1>7

\* debug_alloc takes three.
LEMMA PathBufferHeap ==
  ASSUME SizesFit, NEW m, Mem(m), Sane(m.heap), NEW name \in DOMAIN NameLen,
         PathBuffer(m, name).heap.intact
  PROVE  LET n == PathBuffer(m, name)
         IN  /\ Adds(m, n, {n.ptr["node"], n.ptr["note"], n.ptr["path"]})
             /\ n.ptr["node"] # n.ptr["path"] /\ n.ptr["note"] # n.ptr["path"]
<1> DEFINE a == Take(m, "node", NodeSize)
           b == Take(a, "note", NoteSize)
           n == PathBuffer(m, name)
           l == NameLen[name] + 1
<1>1. /\ Mem(a) /\ Mem(b) /\ Mem(n) /\ Steps(m, a) /\ Steps(a, b) /\ Steps(b, n)
      /\ Same(a, b, "note") /\ Same(b, n, "path") /\ n = Take(b, "path", l)
  BY PathBufferSteps
<1>2. /\ "node" \in Locals /\ "note" \in Locals /\ "path" \in Locals
      /\ "node" # "note" /\ "node" # "path" /\ "note" # "path"
  BY DEF Locals
<1>3. NodeSize \in Asked /\ NoteSize \in Asked /\ l \in Asked
  BY DEF Asked
<1>4. n.heap.intact
  OBVIOUS
<1>5. a.heap.intact => Adds(m, a, {a.ptr["node"]})
  BY <1>2, <1>3, TakeHeap
<1> HIDE DEF a
<1>6. b.heap.intact /\ Sane(a.heap) => Adds(a, b, {b.ptr["note"]})
  BY <1>1, <1>2, <1>3, TakeHeap
<1> HIDE DEF b, n, l
<1>7. n.heap.intact /\ Sane(b.heap) => Adds(b, n, {n.ptr["path"]})
  BY <1>1, <1>2, <1>3, TakeHeap
<1>8. a.heap.intact /\ b.heap.intact
  <2>1. "intact" \in DOMAIN a.heap
    BY <1>1, Wholeness
  <2>2. "intact" \in DOMAIN b.heap /\ (b.heap.intact => a.heap.intact)
    BY <1>1, <2>1 DEF Steps
  <2>3. QED
    BY <1>1, <1>4, <2>2 DEF Steps
<1>9. Adds(m, a, {a.ptr["node"]}) /\ Adds(a, b, {b.ptr["note"]})
  BY <1>5, <1>6, <1>8 DEF Adds
<1>10. Adds(b, n, {n.ptr["path"]})
  BY <1>4, <1>7, <1>9 DEF Adds
<1>11. n.ptr["node"] = a.ptr["node"] /\ n.ptr["note"] = b.ptr["note"]
  BY <1>1, <1>2 DEF Same
<1>12. QED
  BY <1>9, <1>10, <1>11 DEF Adds, n

-----------------------------------------------------------------------------
(* What callers hold                                                       *)

\* The areas of A are the callers' handles, their contents and debug_alloc's blocks,
\* each of them once.
Holds(O, D, A) ==
  /\ A = DOMAIN O \cup {O[c].raw : c \in DOMAIN O} \cup D
  /\ DOMAIN O \cap D = {}
  /\ \A c \in DOMAIN O : O[c].raw \notin DOMAIN O /\ O[c].raw \notin D
  /\ \A c, d \in DOMAIN O : O[c].raw = O[d].raw => c = d

LEMMA HoldsMore ==
  ASSUME NEW O, NEW D, NEW A, Holds(O, D, A), NEW E, A \cap E = {}
  PROVE  Holds(O, D \cup E, A \cup E)
  BY DEF Holds

LEMMA HoldsNew ==
  ASSUME NEW O, NEW D, NEW A, Holds(O, D, A), NEW c, NEW r, c # r, c \notin A, r \notin A,
         NEW e, e.raw = r
  PROVE  Holds([d \in DOMAIN O \cup {c} |-> IF d = c THEN e ELSE O[d]], D, A \cup {r, c})
<1> DEFINE U == [d \in DOMAIN O \cup {c} |-> IF d = c THEN e ELSE O[d]]
<1>1. DOMAIN U = DOMAIN O \cup {c} /\ U[c].raw = r /\ \A d \in DOMAIN O : U[d].raw = O[d].raw
  BY DEF Holds
<1> HIDE DEF U
<1>2. Holds(U, D, A \cup {r, c})
  BY <1>1 DEF Holds
<1>3. QED
  BY <1>2 DEF U

LEMMA HoldsLess ==
  ASSUME NEW O, NEW D, NEW A, Holds(O, D, A), NEW c \in DOMAIN O
  PROVE  Holds([d \in DOMAIN O \ {c} |-> O[d]], D, (A \ {O[c].raw}) \ {c})
<1> DEFINE U == [d \in DOMAIN O \ {c} |-> O[d]]
<1>1. DOMAIN U = DOMAIN O \ {c} /\ \A d \in DOMAIN U : U[d].raw = O[d].raw
  OBVIOUS
<1> HIDE DEF U
<1>2. Holds(U, D, (A \ {O[c].raw}) \ {c})
  BY <1>1 DEF Holds
<1>3. QED
  BY <1>2 DEF U

\* Callers hold what they held, or one more handle, for the name asked for.
Extended(O, k, e) == [x \in DOMAIN O \cup {k} |-> IF x = k THEN e ELSE O[x]]
OneMore(O, U, name) ==
  U = O \/ \E k, e : k \notin DOMAIN O /\ e.asked = name /\ U = Extended(O, k, e)

FsInv ==
  /\ Entries(virtual_file_list)
  /\ heap.intact => Sane(heap) /\ Holds(open, notes, Areas(heap))

LEMMA EntriesKeep ==
  ASSUME NEW V, Entries(V), NEW U, OneSlot(V, U)
  PROVE  Entries(U)
<1>1. CASE U = V
  BY <1>1
<1>2. ASSUME NEW f \in 1 .. N, NEW p, U = Put(V, Victim(V), NewSlot(f, p))
      PROVE  Entries(U)
  <2> DEFINE v == Victim(V)
             s == NewSlot(f, p)
  <2>1. Counts(V) /\ Counts(U)
    BY <1>2, CountsKeep DEF Entries, OneSlot
  <2>2. /\ s.file_header = StackLocal /\ s.disk_address = DiskAddress(f)
        /\ s.file_data = Offset(f) + FileHeaderSize + NameLen[Image[f].name]
    BY DEF NewSlot, Slot
  <2> HIDE DEF v, s
  <2>3. \A i \in Slots : U[i] = s \/ U[i] = V[i]
    BY <1>2, <2>1 DEF Put, Counts, v, s
  <2>4. QED
    BY <2>1, <2>2, <2>3 DEF Entries, Filled
<1>3. QED
  BY <1>1, <1>2 DEF OneSlot

LEMMA FsStart ==
  ASSUME Init
  PROVE  FsInv
<1>1. Entries(virtual_file_list)
  BY DEF Init, Entries, Counts, NoFile, Filled, Null
<1>2. H!HeapType(heap) /\ Live(heap) = {} /\ heap.first = Null /\ H!Live(heap) = {}
  BY HeapAssumption DEF Init, EmptyHeap, H!HeapType, H!Live, Live, Null
<1>3. Sane(heap)
  BY <1>2 DEF Init, EmptyHeap, Sane, H!Ordered, H!Placed, H!Null, Null
<1>4. Holds(open, notes, Areas(heap))
  BY <1>2 DEF Init, Holds, Areas
<1>5. QED
  BY <1>1, <1>3, <1>4 DEF FsInv

LEMMA MountKeeps ==
  ASSUME SizesFit, FsInv, Mount, heap'.intact
  PROVE  Sane(heap') /\ Holds(open', notes', Areas(heap'))
<1> DEFINE m == Borrow(Call, "buffer", LBA_SIZE)
<1>1. Mem(Call) /\ Call.heap = heap /\ Sane(heap)
  BY CallMem DEF FsInv, Mount
<1>2. heap' = m.heap /\ open' = open /\ notes' = notes
  BY DEF Mount, Leaves
<1>3. "buffer" \in Locals /\ LBA_SIZE \in Asked
  BY DEF Locals, Asked
<1>4. Adds(Call, m, {})
  BY <1>1, <1>2, <1>3, BorrowHeap
<1> HIDE DEF m
<1>5. QED
  BY <1>1, <1>2, <1>4 DEF Adds, FsInv, Mount

LEMMA OpenKeeps ==
  ASSUME SizesFit, BelowHeap, FsInv, NothingToLose, NEW name, OpenLiteral(name), heap'.intact
  PROVE  /\ Sane(heap') /\ Holds(open', notes', Areas(heap'))
         /\ OneMore(open, open', name)
<1> DEFINE m == Content(Call, LiteralAt(name))
           r == m.ptr["raw"]
           c == m.ptr["content"]
<1>1. /\ Mem(Call) /\ Call.heap = heap /\ Call.files = virtual_file_list /\ ~Call.found
      /\ Sane(heap) /\ Holds(open, notes, Areas(heap))
  BY CallMem DEF FsInv, OpenLiteral
<1>2. heap' = m.heap /\ open' = Opened(m, name, TRUE) /\ notes' = notes
  BY DEF OpenLiteral, Leaves
<1>3. /\ Sane(m.heap)
      /\ m.found => /\ r # c /\ r \notin Areas(Call.heap) /\ c \notin Areas(Call.heap)
                    /\ Areas(m.heap) = Areas(Call.heap) \cup {r, c}
      /\ ~m.found => Areas(m.heap) = Areas(Call.heap)
  <2>1. Sane(Call.heap) /\ Entries(Call.files) /\ Call.files[0].file_name < Base
    BY <1>1 DEF FsInv, NothingToLose
  <2>2. m.heap.intact
    BY <1>2
  <2>3. QED
    BY <1>1, <2>1, <2>2, ContentHeap
<1> HIDE DEF m
<1>4. CASE m.found
  <2> DEFINE e == [raw |-> r, asked |-> name, got |-> m.got, lent |-> TRUE]
  <2>1. open' = [d \in DOMAIN open \cup {c} |-> IF d = c THEN e ELSE open[d]]
    BY <1>2, <1>4 DEF Opened
  <2>2. e.raw = r /\ e.asked = name
    OBVIOUS
  <2> HIDE DEF e, r, c
  <2>3. Holds(open', notes, Areas(heap) \cup {r, c})
    BY <1>1, <1>3, <1>4, <2>1, <2>2, HoldsNew
  <2>4. c \notin DOMAIN open
    BY <1>1, <1>3, <1>4 DEF Holds
  <2>5. OneMore(open, open', name)
    BY <2>1, <2>2, <2>4 DEF OneMore, Extended
  <2>6. QED
    BY <1>1, <1>2, <1>3, <1>4, <2>3, <2>5
<1>5. CASE ~m.found
  BY <1>1, <1>2, <1>3, <1>5 DEF Opened, OneMore
<1>6. QED
  BY <1>4, <1>5

LEMMA CloseKeeps ==
  ASSUME FsInv, NEW c \in Lent, Close(c), heap'.intact
  PROVE  Sane(heap') /\ Holds(open', notes', Areas(heap'))
<1>1. Mem(Call) /\ Call.heap = heap /\ Sane(heap) /\ Holds(open, notes, Areas(heap))
  BY CallMem DEF FsInv, Close
<1> DEFINE a == GiveAt(Call, open[c].raw)
           b == GiveAt(a, c)
<1>2. Mem(a) /\ Sane(a.heap) /\ Areas(a.heap) = Areas(heap) \ {open[c].raw}
      /\ a.heap = AfterFree(heap, open[c].raw)
  BY <1>1, GiveMem, GiveHeap
<1>3. Sane(b.heap) /\ Areas(b.heap) = Areas(a.heap) \ {c} /\ b.heap = AfterFree(a.heap, c)
  <2> HIDE DEF a
  <2>1. QED
    BY <1>2, GiveMem, GiveHeap
<1> HIDE DEF a, b
<1>4. heap' = b.heap /\ notes' = notes /\ open' = [d \in DOMAIN open \ {c} |-> open[d]]
  BY <1>2, <1>3 DEF Close
<1>5. c \in DOMAIN open
  BY DEF Lent
<1>6. Holds(open', notes, (Areas(heap) \ {open[c].raw}) \ {c})
  BY <1>1, <1>4, <1>5, HoldsLess
<1>7. QED
  BY <1>2, <1>3, <1>4, <1>6

LEMMA ImportKeeps ==
  ASSUME SizesFit, BelowHeap, FsInv, NothingToLose, NEW c \in Lent, Import(c), heap'.intact
  PROVE  /\ Sane(heap') /\ Holds(open', notes', Areas(heap'))
         /\ OneMore(open, open', Dll[open[c].asked])
<1> DEFINE name == Dll[open[c].asked]
           b == PathBuffer(Call, name)
           d == Named(b, "path", name)
           p == d.ptr["path"]
           e == Content(d, p)
           m == ParseDll(d)
<1>1. /\ Mem(Call) /\ Call.heap = heap /\ Call.files = virtual_file_list /\ ~Call.found
      /\ Sane(heap) /\ Holds(open, notes, Areas(heap)) /\ Entries(Call.files)
      /\ Call.files[0].file_name < Base
  BY CallMem DEF FsInv, Import, NothingToLose
<1>2. name \in DOMAIN NameLen
  BY ImageAssumption DEF Import
<1>3. /\ heap' = m.heap /\ open' = Opened(m, name, FALSE)
      /\ notes' = notes \cup {m.ptr["node"], m.ptr["note"]}
  BY DEF Import, Leaves
<1> HIDE DEF name
<1>4. Mem(b) /\ b.files = Call.files /\ b.found = Call.found /\ Steps(Call, b)
  BY <1>1, PathBufferMem, PathBufferSteps
<1>5. b.heap.intact =>
        /\ Adds(Call, b, {b.ptr["node"], b.ptr["note"], b.ptr["path"]})
        /\ b.ptr["node"] # b.ptr["path"] /\ b.ptr["note"] # b.ptr["path"]
  BY <1>1, <1>2, PathBufferHeap
<1> HIDE DEF b
<1>6. Mem(d) /\ d.heap = b.heap /\ d.ptr = b.ptr /\ d.files = b.files /\ d.found = b.found
  <2>1. Mem(d) /\ d.heap = b.heap /\ d.ptr = b.ptr /\ Same(b, d, "path")
    BY <1>4, NamedMem
  <2> HIDE DEF d
  <2>2. QED
    BY <2>1 DEF Same
<1>7. m = GiveAt(e, e.ptr["path"])
  BY Zenon DEF ParseDll, Return, Give
<1> HIDE DEF d, m
<1>8. /\ Mem(e) /\ Steps(d, e)
      /\ Kept(d, e, {"name", "addr", "buffer", "raw", "content"})
  BY <1>6, ContentTable, ContentSteps
<1>9. /\ d.heap.intact => "intact" \in DOMAIN e.heap /\ (e.heap.intact => d.heap.intact)
      /\ "intact" \in DOMAIN d.heap
      /\ e.heap.intact => d.heap.intact
  <2>1. "intact" \in DOMAIN b.heap
    BY <1>1, <1>4, Wholeness
  <2>2. QED
    BY <1>6, <1>8, <2>1 DEF Steps
<1>10. e.heap.intact /\ Sane(d.heap) =>
         /\ Sane(e.heap)
         /\ e.found =>
              /\ e.ptr["raw"] # e.ptr["content"]
              /\ e.ptr["raw"] \notin Areas(d.heap) /\ e.ptr["content"] \notin Areas(d.heap)
              /\ Areas(e.heap) = Areas(d.heap) \cup {e.ptr["raw"], e.ptr["content"]}
         /\ ~e.found => Areas(e.heap) = Areas(d.heap)
  <2>1. Entries(d.files) /\ d.files[0].file_name < Base /\ ~d.found
    BY <1>1, <1>4, <1>6
  <2>2. QED
    BY <1>6, <2>1, ContentHeap
<1> HIDE DEF e, p
<1>11. Mem(m) /\ m.heap = AfterFree(e.heap, e.ptr["path"]) /\ m.ptr = e.ptr /\ Steps(e, m)
       /\ m.found = e.found /\ m.got = e.got
  <2>1. Same(e, m, "path")
    BY <1>7, <1>8, GiveMem
  <2>2. QED
    BY <1>7, <1>8, <2>1, GiveMem, GiveSteps DEF Same
<1>12. e.heap.intact
  BY <1>3, <1>9, <1>11 DEF AfterFree, Unlink
<1>13. /\ Adds(Call, b, {b.ptr["node"], b.ptr["note"], b.ptr["path"]})
       /\ b.ptr["node"] # b.ptr["path"] /\ b.ptr["note"] # b.ptr["path"] /\ Sane(d.heap)
  BY <1>5, <1>6, <1>9, <1>12 DEF Adds
<1>14. Sane(m.heap) /\ Areas(m.heap) = Areas(e.heap) \ {e.ptr["path"]}
  BY <1>7, <1>8, <1>10, <1>12, <1>13, GiveHeap
<1> DEFINE node == b.ptr["node"]
           note == b.ptr["note"]
           path == b.ptr["path"]
           A == Areas(heap)
<1>15. m.ptr["node"] = node /\ m.ptr["note"] = note /\ e.ptr["path"] = path
  <2>1. "node" \in Locals /\ "note" \in Locals /\ "path" \in Locals
    BY DEF Locals
  <2>2. QED
    BY <1>6, <1>8, <1>11, <2>1 DEF Kept
<1>16. /\ Areas(d.heap) = A \cup {node, note, path}
       /\ node \notin A /\ note \notin A /\ path \notin A /\ path # node /\ path # note
  BY <1>1, <1>6, <1>13 DEF Adds
<1> HIDE DEF node, note, path, A
<1>17. Holds(open, notes \cup {node, note}, A \cup {node, note})
  <2> DEFINE D == {node, note}
  <2>1. Holds(open, notes, A)
    BY <1>1 DEF A
  <2>2. A \cap D = {}
    BY <1>16
  <2> HIDE DEF D
  <2>3. Holds(open, notes \cup D, A \cup D)
    BY <2>1, <2>2, HoldsMore
  <2>4. QED
    BY <2>3 DEF D
<1>18. CASE m.found
  <2> DEFINE r == e.ptr["raw"]
             k == e.ptr["content"]
             f == [raw |-> m.ptr["raw"], asked |-> name, got |-> m.got, lent |-> FALSE]
  <2>1. open' = [x \in DOMAIN open \cup {k} |-> IF x = k THEN f ELSE open[x]]
    BY <1>3, <1>11, <1>18 DEF Opened
  <2>2. f.raw = r /\ f.asked = name
    BY <1>11
  <2>3. /\ r # k /\ r \notin Areas(d.heap) /\ k \notin Areas(d.heap)
        /\ Areas(e.heap) = Areas(d.heap) \cup {r, k}
    BY <1>10, <1>11, <1>12, <1>13, <1>18
  <2> HIDE DEF f, r, k
  <2>4. r \notin A \cup {node, note} /\ k \notin A \cup {node, note}
    BY <1>16, <2>3
  <2>5. Holds(open', notes \cup {node, note}, (A \cup {node, note}) \cup {r, k})
    BY <1>17, <2>1, <2>2, <2>3, <2>4, HoldsNew
  <2>6. Areas(m.heap) = (A \cup {node, note}) \cup {r, k}
    BY <1>14, <1>15, <1>16, <2>3
  <2>7. k \notin DOMAIN open
    BY <1>17, <2>4 DEF Holds
  <2>8. OneMore(open, open', name)
    BY <2>1, <2>2, <2>7 DEF OneMore, Extended
  <2>9. QED
    BY <1>3, <1>14, <1>15, <2>5, <2>6, <2>8 DEF name
<1>19. CASE ~m.found
  <2>1. open' = open
    BY <1>3, <1>19 DEF Opened
  <2>2. Areas(m.heap) = A \cup {node, note}
    BY <1>10, <1>11, <1>12, <1>13, <1>14, <1>15, <1>16, <1>19
  <2>3. OneMore(open, open', name)
    BY <2>1 DEF OneMore
  <2>4. QED
    BY <1>3, <1>14, <1>15, <1>17, <2>2, <2>1, <2>3 DEF name
<1>20. QED
  BY <1>18, <1>19

LEMMA FsStep ==
  ASSUME SizesFit, BelowHeap, FsInv, NothingToLose, [Next]_vars
  PROVE  FsInv'
<1>1. Entries(virtual_file_list')
  BY StepTable, EntriesKeep DEF FsInv, Entries
<1>2. ASSUME heap'.intact
      PROVE  Sane(heap') /\ Holds(open', notes', Areas(heap'))
  <2>1. CASE Mount
    BY <1>2, <2>1, MountKeeps
  <2>2. CASE \E name \in Literals : OpenLiteral(name)
    BY <1>2, <2>2, OpenKeeps
  <2>3. CASE \E c \in Lent : Close(c)
    BY <1>2, <2>3, CloseKeeps
  <2>4. ASSUME NEW c \in Lent, Import(c)
        PROVE  Sane(heap') /\ Holds(open', notes', Areas(heap'))
    BY <1>2, <2>4, ImportKeeps
  <2>5. CASE UNCHANGED vars
    BY <1>2, <2>5 DEF vars, FsInv
  <2>6. QED
    BY <2>1, <2>2, <2>3, <2>4, <2>5 DEF Next
<1>3. QED
  BY <1>1, <1>2 DEF FsInv, Areas, Data, Live, Sane, Entries

\* Whatever the image and the order of the calls, the live blocks are what callers and
\* debug_alloc hold, as long as the slot that is evicted names its file by a literal:
\* free then ignores all three pointers of an old entry (mono_fs.c:60-62).
THEOREM NothingLeaks ==
  ASSUME SizesFit, BelowHeap
  PROVE  Spec /\ []NothingToLose => []NoLeak
<1>1. Init => FsInv
  BY FsStart
<1>2. FsInv /\ NothingToLose /\ [Next]_vars => FsInv'
  BY FsStep
<1>3. FsInv => NoLeak
  BY DEF FsInv, NoLeak, Holds, Areas
<1>4. QED
  BY <1>1, <1>2, <1>3, PTL DEF Spec

-----------------------------------------------------------------------------
(* What the table says                                                     *)

\* A heap that is sound but for the header another block may have been written over.
Shaped(h) == H!HeapType(h) /\ H!Ordered(h) /\ H!Placed(h)

\* p is past the heap's first address, or NULL and the heap broken by a write through it.
Returned(h, p) == (p = Null /\ ~h.intact) \/ (p \in Nat /\ Base <= p)

\* malloc of at least a byte returns NULL or a place past the heap's first address.
LEMMA TakeShaped ==
  ASSUME SizesFit, NEW m, Mem(m), Shaped(m.heap), NEW x \in Locals, NEW s \in Asked, s # 0
  PROVE  LET n == Take(m, x, s)
         IN  Shaped(n.heap) /\ Returned(n.heap, n.ptr[x])
<1> DEFINE h == m.heap
           n == Take(m, x, s)
           p == AllocPtr(h, s)
           b == AfterAlloc(h, s)
<1>1. CASE CanAlloc(h, s)
  <2>1. n.heap = AfterFill(b, p, s) /\ n.ptr[x] = p
    BY <1>1, GrantedMem DEF Take
  <2>2. \E i \in BOOLEAN : n.heap = [b EXCEPT !.intact = i]
    <3> DEFINE i == b.intact /\ (s > 0 => \A c \in Live(b) : Apart(p, s, c, BlockHdr))
    <3>1. AfterFill(b, p, s) = [b EXCEPT !.intact = i] /\ i \in BOOLEAN
      BY Zenon DEF AfterFill
    <3> HIDE DEF i, n, p, b
    <3>2. QED
      BY <2>1, <3>1
  <2>3. b = H!AfterAlloc(h, s) /\ p = H!AllocPtr(h, s) /\ H!CanAlloc(h, s)
    BY <1>1, SameAlloc
  <2>4. H!HeapType(h) /\ H!Ordered(h) /\ H!Placed(h) /\ H!NoWrap /\ H!Fitting
    BY HeapSizes DEF Shaped
  <2> HIDE DEF n, b, p
  <2>5. LET f == H!AfterAlloc(h, s)
             q == H!AllocPtr(h, s)
         IN  /\ H!HeapType(f) /\ H!Ordered(f) /\ H!Placed(f)
             /\ q \in Nat /\ Base <= q - BlockHdr
    BY <2>3, <2>4, HeapFacts, H!AllocAdds, Zenon
  <2>6. H!HeapType(b) /\ H!Ordered(b) /\ H!Placed(b) /\ p \in Nat /\ Base <= p - BlockHdr
    BY <2>3, <2>5, Zenon
  <2>7. Shaped(n.heap)
    BY <2>2, <2>6, HeapFacts, H!BreakKeeps, Zenon DEF Shaped
  <2>8. QED
    BY <2>1, <2>6, <2>7, HeapAssumption DEF n, Returned
<1>2. CASE ~CanAlloc(h, s)
  <2>1. n.heap = [h EXCEPT !.intact = FALSE] /\ n.ptr[x] = Null
    BY <1>2, RefusedMem
  <2> HIDE DEF n
  <2>2. Shaped(n.heap)
    <3>1. FALSE \in BOOLEAN
      OBVIOUS
    <3>2. H!HeapType(h) /\ H!Ordered(h) /\ H!Placed(h)
      BY DEF Shaped
    <3> DEFINE g == [h EXCEPT !.intact = FALSE]
    <3>3. H!HeapType(g) /\ H!Ordered(g) /\ H!Placed(g)
      BY <3>1, <3>2, HeapFacts, H!BreakKeeps, Zenon
    <3> HIDE DEF h
    <3>4. QED
      BY <2>1, <3>3, Zenon DEF Shaped
  <2>3. ~n.heap.intact
    BY <2>1 DEF Shaped, H!HeapType
  <2>4. QED
    BY <2>1, <2>2, <2>3 DEF n, Returned
<1>3. QED
  BY <1>1, <1>2

LEMMA PathPlace ==
  ASSUME SizesFit, NEW m, Mem(m), Sane(m.heap), NEW name \in DOMAIN NameLen
  PROVE  LET n == PathBuffer(m, name)
         IN  Returned(n.heap, n.ptr["path"])
<1> DEFINE a == Take(m, "node", NodeSize)
           b == Take(a, "note", NoteSize)
           n == PathBuffer(m, name)
           l == NameLen[name] + 1
<1>1. Mem(a) /\ Mem(b) /\ n = Take(b, "path", l)
  BY PathBufferSteps
<1>2. "node" \in Locals /\ "note" \in Locals /\ "path" \in Locals
  BY DEF Locals
<1>3. /\ NodeSize \in Asked /\ NoteSize \in Asked /\ l \in Asked
      /\ NodeSize # 0 /\ NoteSize # 0 /\ l # 0
  <2>1. NameLen[name] \in Nat
    BY ImageAssumption
  <2>2. QED
    BY <2>1 DEF Asked, NodeSize, NoteSize
<1>4. Shaped(a.heap)
  BY <1>2, <1>3, TakeShaped DEF Shaped, Sane
<1> HIDE DEF a
<1>5. Shaped(b.heap)
  BY <1>1, <1>2, <1>3, <1>4, TakeShaped
<1> HIDE DEF b, n, l
<1>6. Returned(n.heap, n.ptr["path"])
  BY <1>1, <1>2, <1>3, <1>5, TakeShaped
<1>7. QED
  BY <1>6 DEF n

\* Each slot whose name is text below the heap has the disk address of that file.
Coherent(V, T) ==
  \A i \in Slots : Filled(V, i) /\ V[i].file_name \in 0 .. Base - 1 =>
    \E f \in 1 .. N : /\ Image[f].name = NameAt(T, V[i].file_name)
                      /\ DiskAddress(f) = V[i].disk_address

LEMMA CoherentSame ==
  ASSUME NEW V, NEW T, Coherent(V, T), NEW U, LowSame(T, U)
  PROVE  Coherent(V, U)
  BY DEF Coherent, LowSame

LEMMA ContentCoherent ==
  ASSUME NEW m, Mem(m), Counts(m.files), Coherent(m.files, m.text), NEW p
  PROVE  Coherent(Content(m, p).files, Content(m, p).text)
<1> DEFINE n == Content(m, p)
           V == m.files
           v == Victim(V)
<1>1. LowSame(m.text, n.text)
  BY ContentSteps DEF Steps
<1>2. \/ n.files = V
      \/ \E f \in 1 .. N : Image[f].name = NameAt(m.text, p) /\ n.files = Put(V, v, NewSlot(f, p))
  BY ContentTable
<1>3. Coherent(V, n.text)
  BY <1>1, CoherentSame
<1>4. v \in Slots
  BY VictimIs
<1> HIDE DEF n, v
<1>5. ASSUME NEW f \in 1 .. N, Image[f].name = NameAt(m.text, p),
             n.files = Put(V, v, NewSlot(f, p))
      PROVE  Coherent(n.files, n.text)
  <2> DEFINE s == NewSlot(f, p)
  <2>1. s.file_name = p /\ s.disk_address = DiskAddress(f)
    BY DEF NewSlot, Slot
  <2> HIDE DEF s
  <2>2. \A i \in Slots : n.files[i] = IF i = v THEN s ELSE V[i]
    BY <1>4, <1>5 DEF Put, Counts, s
  <2>3. p \in 0 .. Base - 1 => NameAt(n.text, p) = Image[f].name
    BY <1>1, <1>5 DEF LowSame
  <2>4. QED
    BY <1>3, <2>1, <2>2, <2>3 DEF Coherent, Filled
<1>6. CASE n.files = V
  BY <1>3, <1>6 DEF n
<1>7. QED
  BY <1>2, <1>5, <1>6 DEF n

\* A search is right, or answers from a slot whose name is not below the heap.
LEMMA SearchAnswers ==
  ASSUME NEW m, Mem(m), Coherent(m.files, m.text), ~m.found, NEW p
  PROVE  Search(m, p).found =>
           \/ \E f \in 1 .. N : /\ Image[f].name = NameAt(m.text, p)
                                /\ Search(m, p).from = DiskAddress(f)
           \/ \E i \in Slots : /\ Filled(m.files, i) /\ m.files[i].file_name \notin 0 .. Base - 1
                               /\ Search(m, p).from = m.files[i].disk_address
<1> DEFINE s == Search(m, p)
           name == NameAt(m.text, p)
           Told == \E f \in 1 .. N : Image[f].name = name /\ s.from = DiskAddress(f)
           Misled == \E i \in Slots : /\ Filled(m.files, i) /\ m.files[i].file_name \notin 0 .. Base - 1
                                      /\ s.from = m.files[i].disk_address
<1>1. s = SearchFor(m, name, p)
  BY DEF Search
<1>2. \/ \E i \in Hits(m, name) : s = Answer(m, m.files[i].disk_address)
      \/ \E f \in 1 .. N : Image[f].name = name /\ s = Missed(m, f, p)
      \/ s = m
      \/ s = Scan(m, N)
  BY <1>1, SearchCases
<1> HIDE DEF s
<1>3. ASSUME NEW i \in Hits(m, name), s = Answer(m, m.files[i].disk_address)
      PROVE  Told \/ Misled
  <2>1. s.from = m.files[i].disk_address
    BY <1>3, AnswerMem
  <2>2. i \in Slots /\ Filled(m.files, i) /\ NameAt(m.text, m.files[i].file_name) = name
    BY DEF Hits
  <2> HIDE DEF name
  <2>3. QED
    BY <2>1, <2>2 DEF Coherent
<1>4. ASSUME NEW f \in 1 .. N, Image[f].name = name, s = Missed(m, f, p)
      PROVE  Told
  <2>1. s.from = DiskAddress(f)
    BY <1>4, MissedMem
  <2> QED
    BY <1>4, <2>1
<1>5. CASE s = m
  BY <1>5 DEF s
<1>6. CASE s = Scan(m, N)
  <2>1. Same(m, Scan(m, N), "name")
    BY Files, ScanMem
  <2>2. ~s.found
    BY <1>6, <2>1 DEF Same
  <2> QED
    BY <2>2 DEF s
<1>7. QED
  BY <1>2, <1>3, <1>4, <1>5, <1>6 DEF s

\* And so is what a caller is given.
LEMMA ContentAnswers ==
  ASSUME NEW m, Mem(m), Entries(m.files), Coherent(m.files, m.text), ~m.found, NEW p
  PROVE  Content(m, p).found =>
           \/ /\ Content(m, p).got = NameAt(m.text, p)
              /\ \E f \in 1 .. N : Image[f].name = NameAt(m.text, p)
           \/ \E i \in Slots, f \in 1 .. N :
                /\ Filled(m.files, i) /\ m.files[i].file_name \notin 0 .. Base - 1
                /\ DiskAddress(f) = m.files[i].disk_address /\ Image[f].name = Content(m, p).got
<1> DEFINE s == Search(m, p)
           n == Content(m, p)
           name == NameAt(m.text, p)
<1>1. Mem(s) /\ n = IF s.found THEN Fetch(s, FileAt(s.from)) ELSE s
  BY ContentSteps
<1>2. s.found =>
        \/ \E f \in 1 .. N : Image[f].name = name /\ s.from = DiskAddress(f)
        \/ \E i \in Slots : /\ Filled(m.files, i) /\ m.files[i].file_name \notin 0 .. Base - 1
                            /\ s.from = m.files[i].disk_address
  BY SearchAnswers
<1> HIDE DEF n, s, name
<1>3. ASSUME s.found, NEW f \in 1 .. N, s.from = DiskAddress(f)
      PROVE  n.got = Image[f].name
  <2>1. n = Fetch(s, f)
    BY <1>1, <1>3, AddressNames
  <2>2. Fetch(s, f).got = Image[f].name
    BY <1>1, FetchMem
  <2>3. QED
    BY <2>1, <2>2
<1>4. ASSUME s.found, NEW i \in Slots, Filled(m.files, i), s.from = m.files[i].disk_address
      PROVE  \E f \in 1 .. N : DiskAddress(f) = m.files[i].disk_address /\ Image[f].name = n.got
  <2>1. PICK f \in 1 .. N : m.files[i].disk_address = DiskAddress(f)
    BY <1>4 DEF Entries
  <2> QED
    BY <1>3, <1>4, <2>1
<1>5. s.found =>
        \/ n.got = name /\ \E f \in 1 .. N : Image[f].name = name
        \/ \E i \in Slots, f \in 1 .. N :
             /\ Filled(m.files, i) /\ m.files[i].file_name \notin 0 .. Base - 1
             /\ DiskAddress(f) = m.files[i].disk_address /\ Image[f].name = n.got
  BY <1>2, <1>3, <1>4
<1>6. n.found => s.found
  BY <1>1
<1>7. QED
  BY <1>5, <1>6 DEF n, name

\* While every slot's name is below the heap, the caller is given what it asked for.
LEMMA ContentRight ==
  ASSUME NEW m, Mem(m), Entries(m.files), Coherent(m.files, m.text), ~m.found, NEW p,
         \A i \in Slots : Filled(m.files, i) => m.files[i].file_name \in 0 .. Base - 1
  PROVE  Content(m, p).found =>
           /\ Content(m, p).got = NameAt(m.text, p)
           /\ \E f \in 1 .. N : Image[f].name = NameAt(m.text, p)
<1> DEFINE n == Content(m, p)
<1>1. n.found =>
        \/ n.got = NameAt(m.text, p) /\ \E f \in 1 .. N : Image[f].name = NameAt(m.text, p)
        \/ \E i \in Slots : Filled(m.files, i) /\ m.files[i].file_name \notin 0 .. Base - 1
  BY ContentAnswers
<1> HIDE DEF n
<1> QED
  BY <1>1 DEF n

LEMMA LiteralPlace ==
  ASSUME BelowHeap, NEW n \in Literals
  PROVE  /\ LiteralAt(n) \in 1001 .. Base - 1 /\ LiteralAt(n) \in 0 .. Base - 1
         /\ LiteralAt(n) \in Nat \ {Null} /\ LiteralAt(n) < Base
         /\ Image[LiteralAt(n) - 1000].name = n
<1>1. PICK g \in DOMAIN Image : LiteralAt(n) = 1000 + g /\ Image[g].name = n
  <2>1. \E g \in DOMAIN Image : Image[g].name = n
    BY ImageAssumption
  <2>2. QED
    BY <2>1 DEF LiteralAt
<1>2. g \in 1 .. N
  BY Files
<1>3. 1000 + g < Base
  BY DEF BelowHeap
<1>4. 1000 + g - 1000 = g
  BY <1>2
<1>5. QED
  BY <1>1, <1>2, <1>3, <1>4, HeapAssumption DEF Null

\* The literals are where they were, and the table is coherent.
Sure(V, T) ==
  /\ \A n \in Literals : NameAt(T, LiteralAt(n)) = n
  /\ Coherent(V, T)
  /\ \A i \in Slots : Filled(V, i) => V[i].file_name \in Nat

\* No slot was filled through NULL.
NoneNull(V) == \A i \in Slots : Filled(V, i) => V[i].file_name # Null

TableInv ==
  /\ Sure(virtual_file_list, text)
  /\ heap.intact => NoneNull(virtual_file_list)

LEMMA SureSame ==
  ASSUME BelowHeap, NEW V, NEW T, Sure(V, T), NEW U, LowSame(T, U)
  PROVE  Sure(V, U)
<1>1. Coherent(V, U)
  BY CoherentSame DEF Sure
<1>2. ASSUME NEW n \in Literals
      PROVE  NameAt(U, LiteralAt(n)) = n
  <2>1. NameAt(U, LiteralAt(n)) = NameAt(T, LiteralAt(n))
    BY LiteralPlace DEF LowSame
  <2>2. QED
    BY <2>1 DEF Sure
<1>3. QED
  BY <1>1, <1>2 DEF Sure

LEMMA ContentSure ==
  ASSUME BelowHeap, NEW m, Mem(m), Counts(m.files), Sure(m.files, m.text), NEW p \in Nat
  PROVE  LET n == Content(m, p)
         IN  /\ Sure(n.files, n.text)
             /\ NoneNull(m.files) /\ p # Null => NoneNull(n.files)
<1> DEFINE n == Content(m, p)
           V == m.files
           v == Victim(V)
<1>1. Coherent(n.files, n.text)
  BY ContentCoherent DEF Sure
<1>2. Sure(V, n.text)
  <2>1. LowSame(m.text, n.text)
    BY ContentSteps DEF Steps
  <2> HIDE DEF n
  <2>2. QED
    BY <2>1, SureSame
<1>3. n.files = V \/ \E f \in 1 .. N : n.files = Put(V, v, NewSlot(f, p))
  BY ContentTable
<1>4. v \in Slots
  BY VictimIs
<1> HIDE DEF n, v
<1>5. ASSUME NEW f \in 1 .. N, n.files = Put(V, v, NewSlot(f, p)), NEW i \in Slots
      PROVE  n.files[i] = V[i] \/ n.files[i].file_name = p
  <2> DEFINE s == NewSlot(f, p)
  <2>1. s.file_name = p
    BY DEF NewSlot, Slot
  <2> HIDE DEF s
  <2>2. n.files[i] = IF i = v THEN s ELSE V[i]
    BY <1>4, <1>5 DEF Put, Counts, s
  <2>3. QED
    BY <2>1, <2>2
<1>6. \A i \in Slots : n.files[i] = V[i] \/ n.files[i].file_name = p
  BY <1>3, <1>5
<1>7. Sure(n.files, n.text) /\ (NoneNull(V) /\ p # Null => NoneNull(n.files))
  BY <1>1, <1>2, <1>6 DEF Sure, NoneNull, Filled
<1>8. QED
  BY <1>7 DEF n

\* load_driver's call for one import, as far as the DLL's path is in its buffer.
PathGiven(name) == Named(PathBuffer(Call, name), "path", name)

LEMMA PathSure ==
  ASSUME SizesFit, BelowHeap, FsInv, TableInv, heap.intact, NEW name \in DOMAIN NameLen
  PROVE  LET d == PathGiven(name)
             p == d.ptr["path"]
         IN  /\ Mem(d) /\ d.files = virtual_file_list /\ ~d.found
             /\ Sure(d.files, d.text) /\ Returned(d.heap, p)
             /\ Base <= p => NameAt(d.text, p) = name
             /\ "intact" \in DOMAIN d.heap
<1> DEFINE b == PathBuffer(Call, name)
           d == PathGiven(name)
<1>1. /\ Mem(Call) /\ Call.files = virtual_file_list /\ Call.heap = heap /\ Call.text = text
      /\ ~Call.found
  BY CallMem
<1>2. Mem(b) /\ b.files = virtual_file_list /\ ~b.found /\ Steps(Call, b)
  BY <1>1, PathBufferMem, PathBufferSteps
<1>3. Returned(b.heap, b.ptr["path"])
  BY <1>1, PathPlace DEF FsInv
<1> HIDE DEF b
<1>4. Sure(b.files, b.text) /\ NoneNull(b.files)
  BY <1>1, <1>2, SureSame DEF Steps, TableInv
<1>5. d = Named(b, "path", name)
  BY DEF PathGiven, b
<1> HIDE DEF d
<1>6. Mem(d) /\ d.heap = b.heap /\ d.ptr = b.ptr /\ Same(b, d, "path")
  BY <1>2, <1>5, NamedMem
<1>7. Sure(d.files, d.text) /\ (Base <= d.ptr["path"] => NameAt(d.text, d.ptr["path"]) = name)
  <2>1. Sure(d.files, d.text)
    <3>1. LowSame(b.text, d.text)
      BY <1>2, <1>5, NamedSteps DEF Steps
    <3>2. d.files = b.files
      BY <1>6 DEF Same
    <3> QED
      BY <1>4, <3>1, <3>2, SureSame
  <2>2. ASSUME Base <= d.ptr["path"]
        PROVE  NameAt(d.text, d.ptr["path"]) = name
    <3>1. ~(b.ptr["path"] < Base)
      BY <1>3, <1>6, <2>2, HeapAssumption DEF Returned, Null
    <3>2. d.text = [q \in DOMAIN b.text \cup {b.ptr["path"]} |->
                      IF q = b.ptr["path"] THEN name ELSE b.text[q]]
      BY <1>2, <1>5, <3>1, NamedText
    <3> QED
      BY <1>6, <3>2 DEF NameAt
  <2> QED
    BY <2>1, <2>2
<1>8. "intact" \in DOMAIN d.heap
  BY <1>1, <1>2, <1>6, Wholeness DEF FsInv
<1>9. QED
  BY <1>2, <1>3, <1>6, <1>7, <1>8 DEF Same, d

LEMMA TableStart ==
  ASSUME BelowHeap, Init
  PROVE  TableInv
<1>1. \A i \in Slots : ~Filled(virtual_file_list, i)
  BY DEF Init, Filled, NoFile, Null
<1>2. ASSUME NEW n \in Literals
      PROVE  NameAt(text, LiteralAt(n)) = n
  <2>1. LiteralAt(n) \in DOMAIN text /\ text[LiteralAt(n)] = Image[LiteralAt(n) - 1000].name
    BY DEF Init
  <2>2. QED
    BY <2>1, LiteralPlace DEF NameAt
<1>3. QED
  BY <1>1, <1>2 DEF TableInv, Sure, Coherent, NoneNull

\* The call of an import, after its path is in its buffer.
LEMMA ImportCall ==
  ASSUME NEW c, Import(c), NEW name, name = Dll[open[c].asked]
  PROVE  LET d == PathGiven(name)
             e == Content(d, d.ptr["path"])
             m == GiveAt(e, e.ptr["path"])
         IN  /\ heap' = m.heap /\ text' = m.text /\ virtual_file_list' = m.files
             /\ open' = Opened(m, name, FALSE)
<1>1. ParseDll(PathGiven(name)) = LET d == PathGiven(name)
                                      e == Content(d, d.ptr["path"])
                                  IN  GiveAt(e, e.ptr["path"])
  BY Zenon DEF ParseDll, Return, Give
<1>2. \E m \in {ParseDll(PathGiven(name))} : Leaves(m) /\ open' = Opened(m, name, FALSE)
  BY DEF Import, PathGiven
<1>3. QED
  BY <1>1, <1>2, Zenon DEF Leaves

LEMMA ImportTable ==
  ASSUME SizesFit, BelowHeap, FsInv, TableInv, NEW c, Import(c)
  PROVE  TableInv'
<1> DEFINE name == Dll[open[c].asked]
           d == PathGiven(name)
           p == d.ptr["path"]
           e == Content(d, p)
           m == GiveAt(e, e.ptr["path"])
<1>1. heap.intact /\ name \in DOMAIN NameLen
  BY ImageAssumption DEF Import
<1>2. heap' = m.heap /\ text' = m.text /\ virtual_file_list' = m.files
  BY ImportCall
<1> HIDE DEF name
<1>3. /\ Mem(d) /\ d.files = virtual_file_list /\ Sure(d.files, d.text)
      /\ Returned(d.heap, p) /\ "intact" \in DOMAIN d.heap
  BY <1>1, PathSure
<1> HIDE DEF d
<1>4. p \in Nat
  BY <1>3, HeapAssumption DEF Returned, Null
<1>5. Counts(d.files) /\ NoneNull(d.files)
  BY <1>1, <1>3 DEF FsInv, Entries, TableInv
<1> HIDE DEF p
<1>6. Mem(e) /\ Steps(d, e) /\ Sure(e.files, e.text) /\ (p # Null => NoneNull(e.files))
  BY <1>3, <1>4, <1>5, ContentTable, ContentSteps, ContentSure
<1> HIDE DEF e
<1>7. m.heap = AfterFree(e.heap, e.ptr["path"]) /\ m.text = e.text /\ Same(e, m, "path")
  BY <1>6, GiveMem
<1> HIDE DEF m
<1>8. m.heap.intact => d.heap.intact
  BY <1>3, <1>6, <1>7 DEF Steps, AfterFree, Unlink
<1>9. m.heap.intact => p # Null
  BY <1>3, <1>8, HeapAssumption DEF Returned, Null
<1>10. Sure(virtual_file_list', text') /\ (heap'.intact => NoneNull(virtual_file_list'))
  BY <1>2, <1>6, <1>7, <1>9 DEF Same
<1>11. QED
  BY <1>10 DEF TableInv, Sure, Coherent, NoneNull, NameAt, Filled

LEMMA TableStep ==
  ASSUME SizesFit, BelowHeap, FsInv, TableInv, [Next]_vars
  PROVE  TableInv'
<1>1. /\ Mem(Call) /\ Call.files = virtual_file_list /\ Call.heap = heap /\ Call.text = text
  BY CallMem
<1> SUFFICES /\ Sure(virtual_file_list', text')
             /\ heap'.intact => NoneNull(virtual_file_list')
  BY DEF TableInv, Sure, Coherent, NoneNull, NameAt, Filled
<1>2. CASE Mount
  <2> DEFINE m == Borrow(Call, "buffer", LBA_SIZE)
  <2>1. "buffer" \in Locals
    BY DEF Locals
  <2>2. Same(Call, m, "buffer") /\ Steps(Call, m)
    BY <1>1, <2>1, BorrowMem, BorrowSteps
  <2>3. virtual_file_list' = m.files /\ text' = m.text /\ heap.intact
    BY <1>2 DEF Mount, Leaves
  <2> HIDE DEF m
  <2>4. QED
    BY <1>1, <2>2, <2>3, SureSame DEF Same, Steps, TableInv
<1>3. ASSUME NEW name \in Literals, OpenLiteral(name)
      PROVE  /\ Sure(virtual_file_list', text')
             /\ heap'.intact => NoneNull(virtual_file_list')
  <2> DEFINE m == Content(Call, LiteralAt(name))
  <2>1. virtual_file_list' = m.files /\ text' = m.text /\ heap.intact
    BY <1>3 DEF OpenLiteral, Leaves
  <2>2. LiteralAt(name) \in Nat /\ LiteralAt(name) # Null
    BY LiteralPlace
  <2>3. Sure(m.files, m.text) /\ NoneNull(m.files)
    BY <1>1, <2>1, <2>2, ContentSure DEF TableInv, FsInv, Entries
  <2> HIDE DEF m
  <2>4. QED
    BY <2>1, <2>3
<1>4. CASE \E c \in Lent : Close(c)
  BY <1>4 DEF Close, TableInv
<1>5. CASE \E c \in Lent : Import(c)
  BY <1>5, ImportTable DEF TableInv
<1>6. CASE UNCHANGED vars
  BY <1>6 DEF vars, TableInv
<1>7. QED
  BY <1>2, <1>3, <1>4, <1>5, <1>6 DEF Next

LEMMA NamesLow ==
  ASSUME TableInv, NamesStay
  PROVE  \A i \in Slots : Filled(virtual_file_list, i) =>
           virtual_file_list[i].file_name \in 0 .. Base - 1
  BY HeapAssumption DEF TableInv, Sure, NamesStay

\* What the table says about a name is what the image says, as long as every slot names
\* its file by a literal: no write reaches a literal, whatever the heap does
\* (mono_fs.c:66, 99-109).
THEOREM TableTellsTruth ==
  ASSUME SizesFit, BelowHeap
  PROVE  Spec /\ []NamesStay => []CacheCoherent
<1>1. Init => FsInv /\ TableInv
  BY FsStart, TableStart
<1>2. FsInv /\ TableInv /\ NamesStay /\ [Next]_vars => FsInv' /\ TableInv'
  <2>1. NamesStay => NothingToLose
    BY DEF NamesStay, NothingToLose, Slots
  <2>2. QED
    BY <2>1, FsStep, TableStep
<1>3. TableInv /\ NamesStay => CacheCoherent
  <2> SUFFICES ASSUME TableInv, NamesStay, NEW i \in Slots, Filled(virtual_file_list, i)
               PROVE  \E f \in DOMAIN Image :
                        /\ Image[f].name = NameAt(text, virtual_file_list[i].file_name)
                        /\ DiskAddress(f) = virtual_file_list[i].disk_address
    BY DEF CacheCoherent
  <2>1. virtual_file_list[i].file_name \in 0 .. Base - 1
    BY NamesLow
  <2>2. QED
    BY <2>1, Files DEF TableInv, Sure, Coherent
<1>4. QED
  BY <1>1, <1>2, <1>3, PTL DEF Spec

Stored == {Image[f].name : f \in DOMAIN Image}
AllRight(O) == \A c \in DOMAIN O : O[c].asked = O[c].got
Right == heap.intact => AllRight(open)

LEMMA OpenedRight ==
  ASSUME AllRight(open), NEW m, NEW name, NEW lent \in BOOLEAN, m.found => m.got = name
  PROVE  AllRight(Opened(m, name, lent))
<1> DEFINE k == m.ptr["content"]
           e == [raw |-> m.ptr["raw"], asked |-> name, got |-> m.got, lent |-> lent]
           O == Opened(m, name, lent)
<1>1. O = IF m.found THEN [c \in DOMAIN open \cup {k} |-> IF c = k THEN e ELSE open[c]]
                     ELSE open
  BY Zenon DEF Opened
<1>2. m.found => e.asked = e.got
  OBVIOUS
<1> HIDE DEF O, e, k
<1>3. AllRight(O)
  BY <1>1, <1>2 DEF AllRight
<1>4. QED
  BY <1>3 DEF O

LEMMA OpenRight ==
  ASSUME SizesFit, BelowHeap, FsInv, TableInv, NamesStay, Right,
         NEW name \in Literals, OpenLiteral(name)
  PROVE  Right' /\ (open' # open => name \in Stored)
<1> DEFINE m == Content(Call, LiteralAt(name))
<1>1. /\ Mem(Call) /\ Call.files = virtual_file_list /\ Call.text = text /\ ~Call.found
  BY CallMem
<1>2. open' = Opened(m, name, TRUE)
  BY DEF OpenLiteral
<1>3. NameAt(Call.text, LiteralAt(name)) = name
  BY <1>1 DEF TableInv, Sure
<1>4. Entries(Call.files) /\ Coherent(Call.files, Call.text)
  BY <1>1 DEF FsInv, TableInv, Sure
<1>5. \A i \in Slots : Filled(Call.files, i) => Call.files[i].file_name \in 0 .. Base - 1
  BY <1>1, NamesLow
<1>6. m.found => m.got = name /\ \E f \in 1 .. N : Image[f].name = name
  BY <1>1, <1>3, <1>4, <1>5, ContentRight
<1> HIDE DEF m
<1>7. m.found => name \in Stored
  BY <1>6, Files DEF Stored
<1>8. open' # open => m.found
  BY <1>2 DEF Opened
<1>9. AllRight(open)
  BY DEF Right, OpenLiteral
<1>10. AllRight(open')
  BY <1>2, <1>6, <1>9, OpenedRight
<1> QED
  BY <1>7, <1>8, <1>10 DEF Right, AllRight

LEMMA ImportRight ==
  ASSUME SizesFit, BelowHeap, FsInv, TableInv, NamesStay, Right, NEW c, Import(c)
  PROVE  Right' /\ (heap'.intact /\ open' # open => Dll[open[c].asked] \in Stored)
<1> DEFINE name == Dll[open[c].asked]
           d == PathGiven(name)
           e == Content(d, d.ptr["path"])
           m == GiveAt(e, e.ptr["path"])
<1>1. heap.intact /\ name \in DOMAIN NameLen
  BY ImageAssumption DEF Import
<1>2. open' = Opened(m, name, FALSE) /\ heap' = m.heap
  BY ImportCall
<1> HIDE DEF name
<1>3. /\ Mem(d) /\ d.files = virtual_file_list /\ ~d.found /\ Sure(d.files, d.text)
      /\ (Base <= d.ptr["path"] => NameAt(d.text, d.ptr["path"]) = name)
      /\ Returned(d.heap, d.ptr["path"]) /\ "intact" \in DOMAIN d.heap
  BY <1>1, PathSure
<1> HIDE DEF d
<1>4. Entries(d.files) /\ Coherent(d.files, d.text)
  BY <1>3 DEF FsInv, Sure
<1>5. \A i \in Slots : Filled(d.files, i) => d.files[i].file_name \in 0 .. Base - 1
  BY <1>3, NamesLow
<1>6. /\ Mem(e) /\ Steps(d, e)
      /\ d.heap.intact /\ e.found => e.got = name /\ \E f \in 1 .. N : Image[f].name = name
  BY <1>3, <1>4, <1>5, ContentRight, ContentTable, ContentSteps DEF Returned
<1> HIDE DEF e
<1>7. Same(e, m, "path") /\ m.heap = AfterFree(e.heap, e.ptr["path"])
  BY <1>6, GiveMem
<1> HIDE DEF m
<1>8. m.heap.intact => d.heap.intact
  BY <1>3, <1>6, <1>7 DEF Steps, AfterFree, Unlink
<1>9. heap'.intact /\ m.found => m.got = name /\ name \in Stored
  BY <1>2, <1>6, <1>7, <1>8, Files DEF Same, Stored
<1>10. open' # open => m.found
  BY <1>2 DEF Opened
<1>11. AllRight(open)
  BY <1>1 DEF Right
<1>12. ASSUME heap'.intact
       PROVE  AllRight(open')
  BY <1>2, <1>9, <1>11, <1>12, OpenedRight
<1> QED
  BY <1>9, <1>10, <1>12 DEF Right, AllRight, name

LEMMA RightStart ==
  ASSUME BelowHeap, Init
  PROVE  FsInv /\ TableInv /\ Right
BY FsStart, TableStart DEF Init, Right, AllRight

LEMMA RightStep ==
  ASSUME SizesFit, BelowHeap, FsInv, TableInv, Right, NamesStay, [Next]_vars
  PROVE  FsInv' /\ TableInv' /\ Right'
<1>1. FsInv' /\ TableInv'
  BY FsStep, TableStep DEF NamesStay, NothingToLose, Slots
<1>2. Right'
  <2>1. CASE Mount
    BY <2>1 DEF Mount, Right, AllRight
  <2>2. CASE \E name \in Literals : OpenLiteral(name)
    BY <2>2, OpenRight
  <2>3. CASE \E c \in Lent : Close(c)
    BY <2>3 DEF Close, Right, AllRight
  <2>4. CASE \E c \in Lent : Import(c)
    BY <2>4, ImportRight
  <2>5. CASE UNCHANGED vars
    BY <2>5 DEF vars, Right, AllRight
  <2>6. QED
    BY <2>1, <2>2, <2>3, <2>4, <2>5 DEF Next
<1>3. QED
  BY <1>1, <1>2

\* And a caller is given the file it asked for.
THEOREM RightAsLongAsNamesStay ==
  ASSUME SizesFit, BelowHeap
  PROVE  Spec /\ []NamesStay => []RightFile
<1>1. Init => FsInv /\ TableInv /\ Right
  BY RightStart
<1>2. FsInv /\ TableInv /\ Right /\ NamesStay /\ [Next]_vars => FsInv' /\ TableInv' /\ Right'
  BY RightStep
<1>3. Right => RightFile
  BY DEF Right, AllRight, RightFile
<1>4. QED
  BY <1>1, <1>2, <1>3, PTL DEF Spec

\* What an import is given, where it is not what it asked for.
LEMMA ImportAnswers ==
  ASSUME SizesFit, BelowHeap, FsInv, TableInv, NEW c, Import(c), heap'.intact,
         NEW k \in DOMAIN open' \ DOMAIN open
  PROVE  \/ open'[k].asked = open'[k].got
         \/ \E i \in Slots, f \in 1 .. N :
              /\ Filled(virtual_file_list, i) /\ virtual_file_list[i].file_name \notin 0 .. Base - 1
              /\ DiskAddress(f) = virtual_file_list[i].disk_address
              /\ Image[f].name = open'[k].got
<1> DEFINE name == Dll[open[c].asked]
           d == PathGiven(name)
           e == Content(d, d.ptr["path"])
           m == GiveAt(e, e.ptr["path"])
<1>1. heap.intact /\ name \in DOMAIN NameLen
  BY ImageAssumption DEF Import
<1>2. open' = Opened(m, name, FALSE) /\ heap' = m.heap
  BY ImportCall
<1> HIDE DEF name
<1>3. /\ Mem(d) /\ d.files = virtual_file_list /\ ~d.found /\ Sure(d.files, d.text)
      /\ (Base <= d.ptr["path"] => NameAt(d.text, d.ptr["path"]) = name)
      /\ Returned(d.heap, d.ptr["path"]) /\ "intact" \in DOMAIN d.heap
  BY <1>1, PathSure
<1> HIDE DEF d
<1>4. Entries(d.files) /\ Coherent(d.files, d.text)
  BY <1>3 DEF FsInv, Sure
<1>5. Mem(e) /\ Steps(d, e)
  BY <1>3, ContentSteps, ContentTable
<1>6. e.found =>
        \/ e.got = NameAt(d.text, d.ptr["path"])
        \/ \E i \in Slots, f \in 1 .. N :
             /\ Filled(d.files, i) /\ d.files[i].file_name \notin 0 .. Base - 1
             /\ DiskAddress(f) = d.files[i].disk_address /\ Image[f].name = e.got
  BY <1>3, <1>4, ContentAnswers
<1> HIDE DEF e
<1>7. Same(e, m, "path") /\ m.heap = AfterFree(e.heap, e.ptr["path"])
  BY <1>5, GiveMem
<1> HIDE DEF m
<1>8. d.heap.intact
  BY <1>2, <1>3, <1>5, <1>7 DEF Steps, AfterFree, Unlink
<1>9. NameAt(d.text, d.ptr["path"]) = name
  BY <1>3, <1>8 DEF Returned
<1>10. m.found /\ open'[k].asked = name /\ open'[k].got = m.got
  BY <1>2 DEF Opened
<1>11. QED
  BY <1>3, <1>6, <1>7, <1>9, <1>10 DEF Same

LEMMA OpenAnswers ==
  ASSUME SizesFit, BelowHeap, FsInv, TableInv, NEW name \in Literals, OpenLiteral(name),
         NEW k \in DOMAIN open' \ DOMAIN open
  PROVE  \/ open'[k].asked = open'[k].got
         \/ \E i \in Slots, f \in 1 .. N :
              /\ Filled(virtual_file_list, i) /\ virtual_file_list[i].file_name \notin 0 .. Base - 1
              /\ DiskAddress(f) = virtual_file_list[i].disk_address
              /\ Image[f].name = open'[k].got
<1> DEFINE m == Content(Call, LiteralAt(name))
<1>1. /\ Mem(Call) /\ Call.files = virtual_file_list /\ Call.text = text /\ ~Call.found
  BY CallMem
<1>2. open' = Opened(m, name, TRUE)
  BY DEF OpenLiteral
<1>3. NameAt(Call.text, LiteralAt(name)) = name
  BY <1>1 DEF TableInv, Sure
<1>4. Entries(Call.files) /\ Coherent(Call.files, Call.text)
  BY <1>1 DEF FsInv, TableInv, Sure
<1>5. m.found =>
        \/ m.got = name
        \/ \E i \in Slots, f \in 1 .. N :
             /\ Filled(Call.files, i) /\ Call.files[i].file_name \notin 0 .. Base - 1
             /\ DiskAddress(f) = Call.files[i].disk_address /\ Image[f].name = m.got
  BY <1>1, <1>3, <1>4, ContentAnswers
<1> HIDE DEF m
<1>6. m.found /\ open'[k].asked = name /\ open'[k].got = m.got
  BY <1>2 DEF Opened
<1>7. QED
  BY <1>1, <1>5, <1>6

\* Whoever is given another file than it asked for was misled by a slot whose name is in
\* the heap: a literal's slot never is, and the disk search never errs. As long as slot 0,
\* the one slot that is evicted, holds no such name (mono_fs.c:34-44, 66, 74-109).
THEOREM OnlyHeapNamesEverMislead ==
  ASSUME SizesFit, BelowHeap
  PROVE  Spec /\ []NothingToLose => OnlyHeapNamesMislead
<1> DEFINE Guarded ==
             \A c \in DOMAIN open' :
               heap'.intact /\ c \notin DOMAIN open /\ open'[c].asked # open'[c].got =>
                 \E i \in Slots, f \in DOMAIN Image :
                   /\ Filled(virtual_file_list, i) /\ virtual_file_list[i].file_name >= Base
                   /\ DiskAddress(f) = virtual_file_list[i].disk_address /\ Image[f].name = open'[c].got
<1>1. Init => FsInv /\ TableInv
  BY FsStart, TableStart
<1>2. FsInv /\ TableInv /\ NothingToLose /\ [Next]_vars => FsInv' /\ TableInv'
  BY FsStep, TableStep
<1>3. FsInv /\ TableInv /\ [Next]_vars => [Guarded]_vars
  <2> SUFFICES ASSUME FsInv, TableInv, [Next]_vars,
                      NEW k \in DOMAIN open', heap'.intact, k \notin DOMAIN open,
                      open'[k].asked # open'[k].got
               PROVE  \E i \in Slots, f \in DOMAIN Image :
                        /\ Filled(virtual_file_list, i) /\ virtual_file_list[i].file_name >= Base
                        /\ DiskAddress(f) = virtual_file_list[i].disk_address
                        /\ Image[f].name = open'[k].got
    OBVIOUS
  <2>1. \/ \E name \in Literals : OpenLiteral(name)
        \/ \E c : Import(c)
    BY DEF Next, Mount, Close, vars
  <2>2. PICK i \in Slots, f \in 1 .. N :
          /\ Filled(virtual_file_list, i) /\ virtual_file_list[i].file_name \notin 0 .. Base - 1
          /\ DiskAddress(f) = virtual_file_list[i].disk_address /\ Image[f].name = open'[k].got
    <3>1. CASE \E name \in Literals : OpenLiteral(name)
      BY <3>1, OpenAnswers
    <3>2. CASE \E c : Import(c)
      BY <3>2, ImportAnswers
    <3> QED
      BY <2>1, <3>1, <3>2
  <2>3. virtual_file_list[i].file_name >= Base
    BY <2>2, HeapAssumption DEF TableInv, Sure
  <2> QED
    BY <2>2, <2>3, Files
<1> HIDE DEF Guarded
<1>4. Spec /\ []NothingToLose => [][Guarded]_vars
  BY <1>1, <1>2, <1>3, PTL DEF Spec
<1>5. QED
  BY <1>4 DEF Guarded, OnlyHeapNamesMislead

LEMMA PutLow ==
  ASSUME Counts(virtual_file_list), NamesStay, NEW U, NEW p, p < Base,
         U = virtual_file_list
         \/ \E f \in 1 .. N : U = Put(virtual_file_list, Victim(virtual_file_list), NewSlot(f, p))
  PROVE  \A i \in Slots : U[i].file_name < Base
<1> DEFINE V == virtual_file_list
           v == Victim(V)
<1>1. v \in Slots
  BY VictimIs
<1> HIDE DEF v
<1>2. ASSUME NEW f \in 1 .. N, U = Put(V, v, NewSlot(f, p))
      PROVE  \A i \in Slots : U[i].file_name < Base
  <2> DEFINE s == NewSlot(f, p)
  <2>1. s.file_name = p
    BY DEF NewSlot, Slot
  <2> HIDE DEF s
  <2>2. \A i \in Slots : U[i] = IF i = v THEN s ELSE V[i]
    BY <1>1, <1>2 DEF Put, Counts, s
  <2>3. QED
    BY <2>1, <2>2 DEF NamesStay
<1>3. QED
  BY <1>2 DEF NamesStay, v

\* Where no import names a file of the image, every slot names its file by a literal.
THEOREM OnlyLiteralsCached ==
  ASSUME SizesFit, BelowHeap, DllsMissing
  PROVE  Spec => []NamesStay
<1>1. Init => FsInv /\ TableInv /\ NamesStay
  <2>1. Init => NamesStay
    BY HeapAssumption DEF Init, NamesStay, NoFile, Null
  <2>2. QED
    BY <2>1, FsStart, TableStart
<1>2. FsInv /\ TableInv /\ NamesStay /\ [Next]_vars => FsInv' /\ TableInv' /\ NamesStay'
  <2> SUFFICES ASSUME FsInv, TableInv, NamesStay, [Next]_vars
               PROVE  FsInv' /\ TableInv' /\ NamesStay'
    OBVIOUS
  <2>1. FsInv' /\ TableInv'
    BY FsStep, TableStep DEF NamesStay, NothingToLose, Slots
  <2>2. Counts(virtual_file_list) /\ Mem(Call) /\ Call.files = virtual_file_list
    BY CallMem DEF FsInv, Entries
  <2>3. ASSUME NEW name \in Literals, OpenLiteral(name)
        PROVE  \A i \in Slots : virtual_file_list'[i].file_name < Base
    <3> DEFINE m == Content(Call, LiteralAt(name))
    <3>1. virtual_file_list' = m.files
      BY <2>3 DEF OpenLiteral, Leaves
    <3>2. \/ m.files = virtual_file_list
          \/ \E f \in 1 .. N : m.files = Put(virtual_file_list, Victim(virtual_file_list),
                                             NewSlot(f, LiteralAt(name)))
      BY <2>2, ContentTable
    <3>3. LiteralAt(name) < Base
      BY LiteralPlace
    <3> HIDE DEF m
    <3>4. QED
      BY <2>2, <3>1, <3>2, <3>3, PutLow
  <2>4. ASSUME NEW c, Import(c)
        PROVE  \A i \in Slots : virtual_file_list'[i].file_name < Base
    <3> DEFINE name == Dll[open[c].asked]
               d == PathGiven(name)
               p == d.ptr["path"]
               e == Content(d, p)
               m == GiveAt(e, e.ptr["path"])
    <3>1. heap.intact /\ name \in DOMAIN NameLen
      BY <2>4, ImageAssumption DEF Import
    <3>2. \A f \in 1 .. N : Image[f].name # name
      BY <2>4, Files DEF DllsMissing, Import
    <3>3. virtual_file_list' = m.files
      BY <2>4, ImportCall
    <3> HIDE DEF name
    <3>4. /\ Mem(d) /\ d.files = virtual_file_list /\ Returned(d.heap, p)
          /\ (Base <= p => NameAt(d.text, p) = name)
      BY <3>1, PathSure
    <3> HIDE DEF d, p
    <3>5. /\ Mem(e)
          /\ \/ e.files = d.files
             \/ \E f \in 1 .. N : /\ Image[f].name = NameAt(d.text, p)
                                  /\ e.files = Put(d.files, Victim(d.files), NewSlot(f, p))
      BY <3>4, ContentTable
    <3> HIDE DEF e
    <3>6. Same(e, m, "path")
      BY <3>5, GiveMem
    <3> HIDE DEF m
    <3>7. CASE Base <= p
      BY <3>2, <3>3, <3>4, <3>5, <3>6, <3>7 DEF Same, NamesStay
    <3>8. CASE p = Null
      <4>1. p < Base
        BY <3>8, HeapAssumption DEF Null
      <4> QED
        BY <2>2, <3>3, <3>4, <3>5, <3>6, <4>1, PutLow DEF Same
    <3> QED
      BY <3>4, <3>7, <3>8 DEF Returned
  <2>5. \A i \in Slots : virtual_file_list'[i].file_name < Base
    <3>1. CASE \E name \in Literals : OpenLiteral(name)
      BY <2>3, <3>1
    <3>2. CASE \E c \in Lent : Import(c)
      BY <2>4, <3>2
    <3>3. CASE \E c \in Lent : Close(c)
      BY <3>3 DEF Close, NamesStay
    <3>4. CASE Mount
      <4> DEFINE m == Borrow(Call, "buffer", LBA_SIZE)
      <4>1. "buffer" \in Locals
        BY DEF Locals
      <4>2. Same(Call, m, "buffer")
        BY <2>2, <4>1, BorrowMem
      <4>3. virtual_file_list' = m.files
        BY <3>4 DEF Mount, Leaves
      <4> HIDE DEF m
      <4>4. QED
        BY <2>2, <4>2, <4>3 DEF Same, NamesStay
    <3>5. CASE UNCHANGED vars
      BY <3>5 DEF vars, NamesStay
    <3>6. QED
      BY <3>1, <3>2, <3>3, <3>4, <3>5 DEF Next
  <2>6. QED
    BY <2>1, <2>5 DEF NamesStay
<1>3. QED
  BY <1>1, <1>2, PTL DEF Spec

-----------------------------------------------------------------------------
(* A file store                                                            *)

\* What the handles of O give in a heap h, and what they were asked for.
Given(h, O) ==
  [c \in DOMAIN O |-> [asked |-> O[c].asked,
                       gives |-> IF IsPointing(h, c) /\ IsPointing(h, O[c].raw)
                                   THEN O[c].got ELSE Junk]]
Promised(O) == [c \in DOMAIN O |-> [asked |-> O[c].asked, gives |-> O[c].asked]]

LEMMA GivenIsPromised ==
  ASSUME NEW h, NEW O, NEW D, Holds(O, D, Areas(h)), \A c \in DOMAIN O : O[c].asked = O[c].got
  PROVE  Given(h, O) = Promised(O)
<1>1. ASSUME NEW c \in DOMAIN O
      PROVE  IsPointing(h, c) /\ IsPointing(h, O[c].raw)
  <2>1. c \in Areas(h) /\ O[c].raw \in Areas(h)
    BY DEF Holds
  <2>2. QED
    BY <2>1 DEF Areas, IsPointing
<1>2. QED
  BY <1>1 DEF Given, Promised

LEMMA PromisedMore ==
  ASSUME NEW O, NEW k, k \notin DOMAIN O, NEW e, NEW U, U = Extended(O, k, e)
  PROVE  /\ k \in DOMAIN Promised(U) \ DOMAIN Promised(O)
         /\ Promised(U) = Extended(Promised(O), k, [asked |-> e.asked, gives |-> e.asked])
<1>1. DOMAIN U = DOMAIN O \cup {k} /\ U[k] = e /\ \A g \in DOMAIN O : U[g] = O[g]
  BY DEF Extended
<1>2. QED
  BY <1>1 DEF Promised, Extended

LEMMA PromisedLess ==
  ASSUME NEW O, NEW c \in DOMAIN O, NEW U, U = [d \in DOMAIN O \ {c} |-> O[d]]
  PROVE  Promised(U) = [g \in DOMAIN Promised(O) \ {c} |-> Promised(O)[g]]
<1>1. DOMAIN U = DOMAIN O \ {c} /\ \A g \in DOMAIN U : U[g] = O[g]
  OBVIOUS
<1>2. QED
  BY <1>1 DEF Promised

\* What the refinement maps the handles to.
Handed == [c \in DOMAIN open |-> [asked |-> open[c].asked, gives |-> Gives(c)]]

LEMMA HandedIs == Handed = Given(heap, open) /\ Handed' = Given(heap', open')
  BY Zenon DEF Handed, Given, Gives, IsPointing, Live, Data

LEMMA StoreOpens ==
  ASSUME NEW name \in Stored, OneMore(open, open', name),
         Handed = Promised(open), Handed' = Promised(open')
  PROVE  Store!Next \/ Handed' = Handed
<1>1. CASE open' = open
  BY <1>1
<1>2. ASSUME NEW k, NEW e, k \notin DOMAIN open, e.asked = name, open' = Extended(open, k, e)
      PROVE  Store!Next
  <2>1. /\ k \in DOMAIN Handed' \ DOMAIN Handed
        /\ Handed' = [g \in DOMAIN Handed \cup {k} |->
                        IF g = k THEN [asked |-> name, gives |-> name] ELSE Handed[g]]
    <3>1. /\ k \in DOMAIN Promised(open') \ DOMAIN Promised(open)
          /\ Promised(open') = Extended(Promised(open), k, [asked |-> e.asked, gives |-> e.asked])
      BY <1>2, PromisedMore
    <3>2. QED
      BY <1>2, <3>1, Zenon DEF Extended
  <2>2. Store!Open(name)
    BY <2>1 DEF Store!Open, Handed
  <2>3. QED
    BY <2>2 DEF Store!Next, Stored
<1>3. QED
  BY <1>1, <1>2 DEF OneMore

LEMMA StoreCloses ==
  ASSUME NEW c \in DOMAIN open, Close(c), Handed = Promised(open), Handed' = Promised(open')
  PROVE  Store!Next
<1>1. open' = [d \in DOMAIN open \ {c} |-> open[d]]
  BY DEF Close
<1>2. Handed' = [g \in DOMAIN Handed \ {c} |-> Handed[g]]
  <2>1. Promised(open') = [g \in DOMAIN Promised(open) \ {c} |-> Promised(open)[g]]
    BY <1>1, PromisedLess
  <2>2. QED
    BY <2>1, Zenon
<1>3. Store!Close(c)
  BY <1>2 DEF Store!Close, Handed
<1>4. c \in DOMAIN Handed
  BY DEF Handed
<1>5. QED
  BY <1>3, <1>4 DEF Store!Next, Handed

LEMMA StoreStep ==
  ASSUME SizesFit, BelowHeap, FsInv, TableInv, NamesStay, Right, HeapIntact, HeapIntact',
         FsInv', Right', [Next]_vars
  PROVE  Store!Next \/ Handed' = Handed
<1>1. Handed = Promised(open) /\ Handed' = Promised(open')
  <2>1. Holds(open, notes, Areas(heap)) /\ Holds(open', notes', Areas(heap'))
    BY DEF FsInv, HeapIntact, Areas, Live, Data
  <2>2. /\ \A c \in DOMAIN open : open[c].asked = open[c].got
        /\ \A c \in DOMAIN open' : open'[c].asked = open'[c].got
    BY DEF Right, AllRight, HeapIntact
  <2>3. QED
    BY <2>1, <2>2, HandedIs, GivenIsPromised
<1>2. NothingToLose /\ heap.intact /\ heap'.intact
  BY DEF NamesStay, NothingToLose, Slots, HeapIntact
<1>3. ASSUME NEW name \in Literals, OpenLiteral(name)
      PROVE  Store!Next \/ Handed' = Handed
  <2>1. OneMore(open, open', name) /\ (open' # open => name \in Stored)
    BY <1>2, <1>3, OpenKeeps, OpenRight
  <2>2. QED
    BY <1>1, <2>1, StoreOpens
<1>4. ASSUME NEW c \in Lent, Import(c)
      PROVE  Store!Next \/ Handed' = Handed
  <2>1. /\ OneMore(open, open', Dll[open[c].asked])
        /\ open' # open => Dll[open[c].asked] \in Stored
    BY <1>2, <1>4, ImportKeeps, ImportRight
  <2>2. QED
    BY <1>1, <2>1, StoreOpens
<1>5. ASSUME NEW c \in Lent, Close(c)
      PROVE  Store!Next \/ Handed' = Handed
  <2>1. c \in DOMAIN open
    BY DEF Lent
  <2>2. QED
    BY <1>1, <1>5, <2>1, StoreCloses
<1>6. CASE Mount \/ UNCHANGED vars
  <2>1. open' = open
    BY <1>6 DEF Mount, vars
  <2>2. QED
    BY <1>1, <2>1
<1>7. QED
  BY <1>3, <1>4, <1>5, <1>6 DEF Next

\* Whatever the table caches and evicts and whatever is imported, callers have the file
\* store of FileStore: a handle that is nobody else's and gives the file that was asked
\* for until it is freed (mono_fs.c:46-151).
THEOREM ImplementsFileStore ==
  ASSUME SizesFit, BelowHeap
  PROVE  Spec /\ []NamesStay /\ []HeapIntact => StoreSpec
<1> DEFINE Inv == FsInv /\ TableInv /\ Right
<1>1. Init => Inv
  BY RightStart
<1>2. Inv /\ NamesStay /\ [Next]_vars => Inv'
  BY RightStep
<1>3. Init => Store!Init
  BY DEF Init, Store!Init
<1>4. Inv /\ Inv' /\ NamesStay /\ HeapIntact /\ HeapIntact' /\ [Next]_vars
        => [Store!Next]_Handed
  BY StoreStep
<1>5. QED
  BY <1>1, <1>2, <1>3, <1>4, PTL DEF Spec, StoreSpec, Store!Spec, Handed

\* All of it without a condition on the run: with no DLL in the image no block is lost,
\* the table never lies and every caller gets its file.
THEOREM NothingGoesStale ==
  ASSUME SizesFit, BelowHeap, DllsMissing
  PROVE  Spec => [](NoLeak /\ CacheCoherent /\ RightFile)
<1>1. NamesStay => NothingToLose
  BY DEF NamesStay, NothingToLose, Slots
<1>2. QED
  BY <1>1, OnlyLiteralsCached, NothingLeaks, TableTellsTruth, RightAsLongAsNamesStay, PTL
-----------------------------------------------------------------------------
(* A file at a time                                                        *)
(*                                                                         *)
(* Between two calls the heap has no block or those of the one open file,  *)
(* and during a call at most three, so that each step has its one outcome. *)

LEMMA WordExact ==
  ASSUME NEW x \in Nat, x < Word
  PROVE  W(x) = x
BY HeapAssumption DEF W

\* What malloc and its caller's write leave, field by field.
LEMMA GrantFields ==
  ASSUME NEW h, NEW s, CanAlloc(h, s), NEW p
  PROVE  LET g == AfterFill(AfterAlloc(h, s), p, s)
             cur == Pred(h, s)
             a == Place(h, s)
         IN  /\ g.first = IF cur = Null THEN a ELSE h.first
             /\ g.free = W(h.free - (s + BlockHdr))
             /\ Live(g) = Live(h) \cup {a}
             /\ Size(g, a) = s /\ NextOf(g, a) = IF cur = Null THEN Null ELSE NextOf(h, cur)
             /\ \A b \in Live(h) : b # a =>
                  /\ Size(g, b) = Size(h, b)
                  /\ NextOf(g, b) = IF b = cur THEN a ELSE NextOf(h, b)
             /\ h.intact /\ HeaderFree(h, a)
                  /\ (s > 0 => \A b \in Live(h) \cup {a} : Apart(p, s, b, BlockHdr)) => g.intact
<1> DEFINE cur == Pred(h, s)
           a == Place(h, s)
           blocks == [b \in Live(h) \cup {a} |->
                        IF b = a THEN NewNode(h, cur, s)
                        ELSE IF b = cur THEN [size |-> Size(h, b), next |-> a]
                        ELSE h.block[b]]
           i == h.intact /\ HeaderFree(h, a)
           f == [first |-> IF cur = Null THEN a ELSE h.first, used |-> W(h.used + s + BlockHdr),
                 free |-> W(h.free - (s + BlockHdr)), block |-> blocks, intact |-> i]
           j == f.intact /\ (s > 0 => \A b \in Live(f) : Apart(p, s, b, BlockHdr))
           g == [f EXCEPT !.intact = j]
<1>1. AfterAlloc(h, s) = f /\ AfterFill(f, p, s) = g
  BY Zenon DEF AfterAlloc, Insert, AfterFill
<1>2. /\ f.first = (IF cur = Null THEN a ELSE h.first) /\ f.free = W(h.free - (s + BlockHdr))
      /\ f.block = blocks /\ f.intact = i
  BY Zenon
<1>3. g.first = f.first /\ g.free = f.free /\ g.block = blocks /\ g.intact = j
  <2> HIDE DEF blocks, i, a, cur, j
  <2>1. QED
    OBVIOUS
<1>4. /\ DOMAIN blocks = Live(h) \cup {a} /\ blocks[a] = NewNode(h, cur, s)
      /\ \A b \in Live(h) : b # a =>
           blocks[b] = IF b = cur THEN [size |-> Size(h, b), next |-> a] ELSE h.block[b]
  <2> HIDE DEF a, cur
  <2>1. QED
    BY Zenon
<1> HIDE DEF blocks
<1>5. Live(g) = Live(h) \cup {a} /\ Live(f) = Live(h) \cup {a}
  BY <1>2, <1>3, <1>4, Zenon DEF Live
<1>6. Size(g, a) = s /\ NextOf(g, a) = IF cur = Null THEN Null ELSE NextOf(h, cur)
  <2> HIDE DEF cur, a, g
  <2>1. g.block[a] = NewNode(h, cur, s)
    BY <1>3, <1>4
  <2>2. QED
    BY <2>1 DEF Size, NextOf, NewNode
<1>7. ASSUME NEW b \in Live(h), b # a
      PROVE  Size(g, b) = Size(h, b) /\ NextOf(g, b) = IF b = cur THEN a ELSE NextOf(h, b)
  <2> HIDE DEF cur, a, g
  <2>1. g.block[b] = IF b = cur THEN [size |-> Size(h, b), next |-> a] ELSE h.block[b]
    BY <1>3, <1>4, <1>7
  <2>2. QED
    BY <2>1 DEF Size, NextOf
<1>8. i /\ (s > 0 => \A b \in Live(h) \cup {a} : Apart(p, s, b, BlockHdr)) => g.intact
  <2>1. f.intact <=> i
    BY <1>2
  <2>2. g.intact <=> j
    BY <1>3
  <2> HIDE DEF i, f, g
  <2>3. QED
    BY <1>5, <2>1, <2>2, Zenon
<1> HIDE DEF g, f, cur, a
<1>9. /\ g.first = (IF cur = Null THEN a ELSE h.first)
      /\ g.free = W(h.free - (s + BlockHdr))
  BY <1>2, <1>3
<1>10. g = AfterFill(AfterAlloc(h, s), p, s)
  BY <1>1, Zenon
<1>11. QED
  BY <1>5, <1>6, <1>7, <1>8, <1>9, <1>10, Zenon DEF cur, a

LEMMA FreeFields ==
  ASSUME NEW h, NEW a \in Live(h), a \in Nat
  PROVE  LET g == AfterFree(h, Data(a))
         IN  /\ g.first = IF h.first = a THEN NextOf(h, a) ELSE h.first
             /\ g.free = W(h.free + Size(h, a) + BlockHdr)
             /\ Live(g) = Live(h) \ {a}
             /\ \A b \in Live(h) : b # a =>
                  /\ Size(g, b) = Size(h, b)
                  /\ NextOf(g, b) = IF NextOf(h, b) = a THEN NextOf(h, a) ELSE NextOf(h, b)
             /\ h.intact => g.intact
<1> DEFINE g == Unlink(h, a)
           blocks == [b \in Live(h) \ {a} |-> Relink(h, a, b)]
<1>1. Data(a) - BlockHdr = a
  BY HeapAssumption DEF Data
<1>2. AfterFree(h, Data(a)) = g
  BY <1>1, Zenon DEF AfterFree, IsPointing
<1>3. /\ g.first = (IF h.first = a THEN NextOf(h, a) ELSE h.first)
      /\ g.free = W(h.free + Size(h, a) + BlockHdr)
      /\ g.block = blocks /\ g.intact = h.intact
  BY DEF Unlink, FreeWith
<1> HIDE DEF g
<1>4. Live(g) = Live(h) \ {a}
  BY <1>3 DEF Live
<1>5. ASSUME NEW b \in Live(h), b # a
      PROVE  /\ Size(g, b) = Size(h, b)
             /\ NextOf(g, b) = IF NextOf(h, b) = a THEN NextOf(h, a) ELSE NextOf(h, b)
  <2>1. g.block[b] = Relink(h, a, b)
    BY <1>3, <1>5
  <2>2. QED
    BY <2>1 DEF Relink, Size, NextOf
<1>6. QED
  BY <1>2, <1>3, <1>4, <1>5

LEMMA LeastIsMin ==
  ASSUME NEW S \in SUBSET Nat, NEW a \in S, \A x \in S : a <= x
  PROVE  Min(S) = a
<1>1. \A y \in S : (\A x \in S : y <= x) => y = a
  OBVIOUS
<1>2. QED
  BY <1>1, Zenon DEF Min

\* The heap without a block, and with one, two and three in list order.
Vacant(h) == h.intact /\ h.first = Null /\ Live(h) = {} /\ h.free = Length

Single(h, a, s) ==
  /\ h.intact /\ h.first = a /\ Live(h) = {a}
  /\ Size(h, a) = s /\ NextOf(h, a) = Null
  /\ h.free = Length - (s + BlockHdr)

Double(h, a, s, b, t) ==
  /\ h.intact /\ h.first = a /\ Live(h) = {a, b}
  /\ Size(h, a) = s /\ NextOf(h, a) = b
  /\ Size(h, b) = t /\ NextOf(h, b) = Null
  /\ h.free = Length - (s + t + 2 * BlockHdr)

Triple(h, a, s, b, t, c, u) ==
  /\ h.intact /\ h.first = a /\ Live(h) = {a, b, c}
  /\ Size(h, a) = s /\ NextOf(h, a) = b
  /\ Size(h, b) = t /\ NextOf(h, b) = c
  /\ Size(h, c) = u /\ NextOf(h, c) = Null
  /\ h.free = Length - (s + t + u + 3 * BlockHdr)


\* The heap after malloc and its caller's write.
Grown(h, s) == AfterFill(AfterAlloc(h, s), AllocPtr(h, s), s)

LEMMA FirstBlockTaken ==
  ASSUME NEW h, Vacant(h), NEW s \in Nat, EntryHdr + BlockHdr + s <= Length
  PROVE  /\ CanAlloc(h, s) /\ AllocPtr(h, s) = Data(FirstBlock)
         /\ Single(Grown(h, s), FirstBlock, s)
<1> DEFINE g == Grown(h, s)
<1>0. /\ Base \in Nat /\ Length \in Nat /\ EntryHdr \in Nat /\ BlockHdr \in Nat \ {0}
      /\ Base + Length < Word /\ Word \in Nat /\ Base # 0
  BY HeapAssumption
<1>1. W(s + BlockHdr) = s + BlockHdr
  BY <1>0, WordExact
<1>2. CanAlloc(h, s) /\ Pred(h, s) = Null /\ Place(h, s) = FirstBlock
  BY <1>0, <1>1 DEF CanAlloc, Pred, Place, FitsFresh, Vacant
<1>3. FirstBlock \in Nat /\ Data(FirstBlock) \in Nat /\ W(Data(FirstBlock)) = Data(FirstBlock)
  BY <1>0, WordExact DEF FirstBlock, Data
<1>4. AllocPtr(h, s) = Data(FirstBlock)
  BY <1>2, <1>3 DEF AllocPtr
<1>5. W(h.free - (s + BlockHdr)) = Length - (s + BlockHdr)
  BY <1>0, WordExact DEF Vacant
<1>6. HeaderFree(h, FirstBlock)
  BY <1>3 DEF HeaderFree, Vacant
<1>7. \A b \in {FirstBlock} : Apart(Data(FirstBlock), s, b, BlockHdr)
  BY <1>0, <1>3 DEF Apart, Data
<1>8. /\ g.first = FirstBlock /\ g.free = W(h.free - (s + BlockHdr))
      /\ Live(g) = Live(h) \cup {FirstBlock}
      /\ Size(g, FirstBlock) = s /\ NextOf(g, FirstBlock) = Null
      /\ h.intact /\ HeaderFree(h, FirstBlock)
           /\ (s > 0 => \A b \in Live(h) \cup {FirstBlock} : Apart(Data(FirstBlock), s, b, BlockHdr))
         => g.intact
  BY <1>2, <1>4, GrantFields DEF Grown
<1> HIDE DEF g
<1>9. QED
  BY <1>2, <1>4, <1>5, <1>6, <1>7, <1>8 DEF Vacant, Single, g

\* Behind the one block.
LEMMA SecondBlockTaken ==
  ASSUME NEW h, NEW a \in Nat, NEW s \in Nat, Single(h, a, s), FirstBlock <= a,
         NEW e \in Nat, e = Data(a) + s, NEW t \in Nat, Data(e) + t <= RegionEnd
  PROVE  /\ CanAlloc(h, t) /\ AllocPtr(h, t) = Data(e)
         /\ Double(Grown(h, t), a, s, e, t)
<1> DEFINE g == Grown(h, t)
<1>0. /\ Base \in Nat /\ Length \in Nat /\ EntryHdr \in Nat /\ BlockHdr \in Nat \ {0}
      /\ Base + Length < Word /\ Word \in Nat /\ Base # 0
  BY HeapAssumption
<1>1. /\ W(Data(a) + s) = e /\ W(e + BlockHdr + t) = Data(e) + t /\ W(RegionEnd) = RegionEnd
      /\ W(Data(e)) = Data(e) /\ a # Null /\ a < e /\ FirstBlock <= e
  BY <1>0, WordExact DEF Data, RegionEnd, FirstBlock, Null
<1>2. End(h, a) = e
  BY <1>1 DEF End, Single
<1>3. Spots(h, t) = {a}
  BY <1>1, <1>2 DEF Spots, FitsTail, Single
<1>4. Min({a}) = a
  BY LeastIsMin
<1>5. CanAlloc(h, t) /\ Pred(h, t) = a /\ Place(h, t) = e
  BY <1>1, <1>2, <1>3, <1>4 DEF CanAlloc, Pred, Place, Single
<1>6. AllocPtr(h, t) = Data(e)
  BY <1>1, <1>5 DEF AllocPtr
<1>7. W(h.free - (t + BlockHdr)) = Length - (s + t + 2 * BlockHdr)
  BY <1>0, WordExact DEF Single, Data, RegionEnd, FirstBlock
<1>8. HeaderFree(h, e)
  BY <1>0, <1>1 DEF HeaderFree, Single, Apart, Data
<1>9. \A b \in {a, e} : Apart(Data(e), t, b, BlockHdr)
  BY <1>0, <1>1 DEF Apart, Data
<1>10. /\ g.first = h.first /\ g.free = W(h.free - (t + BlockHdr))
       /\ Live(g) = Live(h) \cup {e}
       /\ Size(g, e) = t /\ NextOf(g, e) = NextOf(h, a)
       /\ \A b \in Live(h) : b # e =>
            /\ Size(g, b) = Size(h, b)
            /\ NextOf(g, b) = IF b = a THEN e ELSE NextOf(h, b)
       /\ h.intact /\ HeaderFree(h, e)
            /\ (t > 0 => \A b \in Live(h) \cup {e} : Apart(Data(e), t, b, BlockHdr)) => g.intact
  BY <1>1, <1>5, <1>6, GrantFields DEF Grown
<1> HIDE DEF g
<1>11. Live(g) = {a, e} /\ a \in Live(h)
  BY <1>10 DEF Single
<1>12. g.intact
  BY <1>8, <1>9, <1>10, <1>11 DEF Single
<1>13. Double(g, a, s, e, t)
  BY <1>1, <1>7, <1>10, <1>11, <1>12 DEF Single, Double
<1>14. QED
  BY <1>5, <1>6, <1>13 DEF g

\* Behind two blocks with no room between them, unless nothing is asked for: then the gap
\* test lets the new header be written over the second one.
LEMMA ThirdBlockTaken ==
  ASSUME NEW h, NEW a \in Nat, NEW s \in Nat, NEW b \in Nat, NEW t \in Nat,
         Double(h, a, s, b, t), FirstBlock <= a, b = Data(a) + s,
         NEW e \in Nat, e = Data(b) + t, NEW u \in Nat, u > 0, Data(e) + u <= RegionEnd
  PROVE  /\ CanAlloc(h, u) /\ AllocPtr(h, u) = Data(e)
         /\ Triple(Grown(h, u), a, s, b, t, e, u)
<1> DEFINE g == Grown(h, u)
<1>0. /\ Base \in Nat /\ Length \in Nat /\ EntryHdr \in Nat /\ BlockHdr \in Nat \ {0}
      /\ Base + Length < Word /\ Word \in Nat /\ Base # 0
  BY HeapAssumption
<1>1. /\ W(Data(b) + t) = e /\ W(e + BlockHdr + u) = Data(e) + u /\ W(RegionEnd) = RegionEnd
      /\ W(Data(e)) = Data(e) /\ a # Null /\ b # Null /\ a < b /\ b < e /\ FirstBlock <= e
      /\ W(b + BlockHdr + u) = b + BlockHdr + u
  BY <1>0, WordExact DEF Data, RegionEnd, FirstBlock, Null
<1>2. End(h, b) = e
  BY <1>1 DEF End, Double
<1>3. ~FitsGap(h, a, u)
  BY <1>0, <1>1 DEF FitsGap, Double, Data
<1>4. FitsTail(h, b, u)
  BY <1>1, <1>2 DEF FitsTail
<1>5. Spots(h, u) = {b}
  BY <1>1, <1>3, <1>4 DEF Spots, Double
<1>6. Min({b}) = b
  BY LeastIsMin
<1>7. CanAlloc(h, u) /\ Pred(h, u) = b /\ Place(h, u) = e
  BY <1>1, <1>2, <1>5, <1>6 DEF CanAlloc, Pred, Place, Double
<1>8. AllocPtr(h, u) = Data(e)
  BY <1>1, <1>7 DEF AllocPtr
<1>9. W(h.free - (u + BlockHdr)) = Length - (s + t + u + 3 * BlockHdr)
  BY <1>0, WordExact DEF Double, Data, RegionEnd, FirstBlock
<1>10. HeaderFree(h, e)
  BY <1>0, <1>1 DEF HeaderFree, Double, Apart, Data
<1>11. \A x \in {a, b, e} : Apart(Data(e), u, x, BlockHdr)
  BY <1>0, <1>1 DEF Apart, Data
<1>12. /\ g.first = h.first /\ g.free = W(h.free - (u + BlockHdr))
       /\ Live(g) = Live(h) \cup {e}
       /\ Size(g, e) = u /\ NextOf(g, e) = NextOf(h, b)
       /\ \A x \in Live(h) : x # e =>
            /\ Size(g, x) = Size(h, x)
            /\ NextOf(g, x) = IF x = b THEN e ELSE NextOf(h, x)
       /\ h.intact /\ HeaderFree(h, e)
            /\ (u > 0 => \A x \in Live(h) \cup {e} : Apart(Data(e), u, x, BlockHdr)) => g.intact
  BY <1>1, <1>7, <1>8, GrantFields DEF Grown
<1> HIDE DEF g
<1>13. Live(g) = {a, b, e} /\ a \in Live(h) /\ b \in Live(h)
  BY <1>12 DEF Double
<1>14. g.intact
  BY <1>10, <1>11, <1>12, <1>13 DEF Double
<1>15. Triple(g, a, s, b, t, e, u)
  BY <1>1, <1>9, <1>12, <1>13, <1>14 DEF Double, Triple
<1>16. QED
  BY <1>7, <1>8, <1>15 DEF g

\* Between two blocks, well before the second one's header.
LEMMA GapTaken ==
  ASSUME NEW h, NEW a \in Nat, NEW s \in Nat, NEW c \in Nat, NEW u \in Nat,
         Double(h, a, s, c, u), FirstBlock <= a, Data(c) + u <= RegionEnd,
         NEW e \in Nat, e = Data(a) + s, NEW t \in Nat, Data(e) + t <= c
  PROVE  /\ CanAlloc(h, t) /\ AllocPtr(h, t) = Data(e)
         /\ Triple(Grown(h, t), a, s, e, t, c, u)
<1> DEFINE g == Grown(h, t)
<1>0. /\ Base \in Nat /\ Length \in Nat /\ EntryHdr \in Nat /\ BlockHdr \in Nat \ {0}
      /\ Base + Length < Word /\ Word \in Nat /\ Base # 0
  BY HeapAssumption
<1>1. /\ W(Data(a) + s) = e /\ W(Data(a) + s + BlockHdr + t) = Data(e) + t
      /\ W(Data(e)) = Data(e) /\ a # Null /\ c # Null /\ a < e /\ e < c /\ FirstBlock <= e
  BY <1>0, WordExact DEF Data, RegionEnd, FirstBlock, Null
<1>2. End(h, a) = e
  BY <1>1 DEF End, Double
<1>3. FitsGap(h, a, t)
  BY <1>0, <1>1 DEF FitsGap, Double, Data
<1>4. a \in Spots(h, t) /\ Spots(h, t) \subseteq {a, c}
  BY <1>1, <1>3 DEF Spots, Double
<1>5. Min(Spots(h, t)) = a
  BY <1>1, <1>4, LeastIsMin
<1>6. CanAlloc(h, t) /\ Pred(h, t) = a /\ Place(h, t) = e
  BY <1>1, <1>2, <1>4, <1>5 DEF CanAlloc, Pred, Place, Double
<1>7. AllocPtr(h, t) = Data(e)
  BY <1>1, <1>6 DEF AllocPtr
<1>8. W(h.free - (t + BlockHdr)) = Length - (s + t + u + 3 * BlockHdr)
  BY <1>0, WordExact DEF Double, Data, RegionEnd, FirstBlock
<1>9. HeaderFree(h, e)
  BY <1>0, <1>1 DEF HeaderFree, Double, Apart, Data
<1>10. \A x \in {a, c, e} : Apart(Data(e), t, x, BlockHdr)
  BY <1>0, <1>1 DEF Apart, Data
<1>11. /\ g.first = h.first /\ g.free = W(h.free - (t + BlockHdr))
       /\ Live(g) = Live(h) \cup {e}
       /\ Size(g, e) = t /\ NextOf(g, e) = NextOf(h, a)
       /\ \A x \in Live(h) : x # e =>
            /\ Size(g, x) = Size(h, x)
            /\ NextOf(g, x) = IF x = a THEN e ELSE NextOf(h, x)
       /\ h.intact /\ HeaderFree(h, e)
            /\ (t > 0 => \A x \in Live(h) \cup {e} : Apart(Data(e), t, x, BlockHdr)) => g.intact
  BY <1>1, <1>6, <1>7, GrantFields DEF Grown
<1> HIDE DEF g
<1>12. Live(g) = {a, e, c} /\ a \in Live(h) /\ c \in Live(h)
  BY <1>11 DEF Double
<1>13. g.intact
  BY <1>9, <1>10, <1>11, <1>12 DEF Double
<1>14. Triple(g, a, s, e, t, c, u)
  BY <1>1, <1>8, <1>11, <1>12, <1>13 DEF Double, Triple
<1>15. QED
  BY <1>6, <1>7, <1>14 DEF g

LEMMA OnlyBlockFreed ==
  ASSUME NEW h, NEW a \in Nat, NEW s \in Nat, Single(h, a, s), s + BlockHdr <= Length
  PROVE  Vacant(AfterFree(h, Data(a)))
<1> DEFINE g == AfterFree(h, Data(a))
<1>1. W(h.free + s + BlockHdr) = Length
  BY HeapAssumption, WordExact DEF Single
<1>2. /\ g.first = IF h.first = a THEN NextOf(h, a) ELSE h.first
      /\ g.free = W(h.free + Size(h, a) + BlockHdr)
      /\ Live(g) = Live(h) \ {a} /\ (h.intact => g.intact)
  BY FreeFields DEF Single
<1> HIDE DEF g
<1>3. QED
  BY <1>1, <1>2 DEF Single, Vacant, g

LEMMA SecondBlockFreed ==
  ASSUME NEW h, NEW a \in Nat, NEW s \in Nat, NEW b \in Nat, NEW t \in Nat,
         Double(h, a, s, b, t), a < b, s + t + 2 * BlockHdr <= Length
  PROVE  Single(AfterFree(h, Data(b)), a, s)
<1> DEFINE g == AfterFree(h, Data(b))
<1>1. W(h.free + t + BlockHdr) = Length - (s + BlockHdr)
  BY HeapAssumption, WordExact DEF Double
<1>2. /\ g.first = IF h.first = b THEN NextOf(h, b) ELSE h.first
      /\ g.free = W(h.free + Size(h, b) + BlockHdr)
      /\ Live(g) = Live(h) \ {b} /\ (h.intact => g.intact)
      /\ \A x \in Live(h) : x # b =>
           /\ Size(g, x) = Size(h, x)
           /\ NextOf(g, x) = IF NextOf(h, x) = b THEN NextOf(h, b) ELSE NextOf(h, x)
  BY FreeFields DEF Double
<1> HIDE DEF g
<1>3. a \in Live(h) /\ a # b /\ Live(g) = {a}
  BY <1>2 DEF Double
<1>4. QED
  BY <1>1, <1>2, <1>3 DEF Single, Double, g

LEMMA MiddleBlockFreed ==
  ASSUME NEW h, NEW a \in Nat, NEW s \in Nat, NEW b \in Nat, NEW t \in Nat,
         NEW c \in Nat, NEW u \in Nat,
         Triple(h, a, s, b, t, c, u), a < b, b < c, s + t + u + 3 * BlockHdr <= Length
  PROVE  Double(AfterFree(h, Data(b)), a, s, c, u)
<1> DEFINE g == AfterFree(h, Data(b))
<1>1. W(h.free + t + BlockHdr) = Length - (s + u + 2 * BlockHdr)
  BY HeapAssumption, WordExact DEF Triple
<1>2. /\ g.first = IF h.first = b THEN NextOf(h, b) ELSE h.first
      /\ g.free = W(h.free + Size(h, b) + BlockHdr)
      /\ Live(g) = Live(h) \ {b} /\ (h.intact => g.intact)
      /\ \A x \in Live(h) : x # b =>
           /\ Size(g, x) = Size(h, x)
           /\ NextOf(g, x) = IF NextOf(h, x) = b THEN NextOf(h, b) ELSE NextOf(h, x)
  BY FreeFields DEF Triple
<1> HIDE DEF g
<1>3. a \in Live(h) /\ c \in Live(h) /\ a # b /\ c # b /\ a # c /\ Live(g) = {a, c}
  BY <1>2 DEF Triple
<1>4. b # Null
  BY DEF Null
<1>5. QED
  BY <1>1, <1>2, <1>3, <1>4 DEF Double, Triple, g

LEMMA FirstBlockFreed ==
  ASSUME NEW h, NEW a \in Nat, NEW s \in Nat, NEW b \in Nat, NEW t \in Nat,
         NEW c \in Nat, NEW u \in Nat, a # Null,
         Triple(h, a, s, b, t, c, u), a < b, b < c, s + t + u + 3 * BlockHdr <= Length
  PROVE  Double(AfterFree(h, Data(a)), b, t, c, u)
<1> DEFINE g == AfterFree(h, Data(a))
<1>1. W(h.free + s + BlockHdr) = Length - (t + u + 2 * BlockHdr)
  BY HeapAssumption, WordExact DEF Triple
<1>2. /\ g.first = IF h.first = a THEN NextOf(h, a) ELSE h.first
      /\ g.free = W(h.free + Size(h, a) + BlockHdr)
      /\ Live(g) = Live(h) \ {a} /\ (h.intact => g.intact)
      /\ \A x \in Live(h) : x # a =>
           /\ Size(g, x) = Size(h, x)
           /\ NextOf(g, x) = IF NextOf(h, x) = a THEN NextOf(h, a) ELSE NextOf(h, x)
  BY FreeFields DEF Triple
<1> HIDE DEF g
<1>3. b \in Live(h) /\ c \in Live(h) /\ b # a /\ c # b /\ a # c /\ Live(g) = {b, c}
  BY <1>2 DEF Triple
<1>4. QED
  BY <1>1, <1>2, <1>3 DEF Double, Triple, g

\* A pointer below the heap is no block's.
LEMMA NothingFreed ==
  ASSUME NEW h, Live(h) \subseteq Nat, \A a \in Live(h) : Base <= a, NEW p, p < Base
  PROVE  AfterFree(h, p) = h
<1>1. ~IsPointing(h, p)
  <2> SUFFICES ASSUME NEW a \in Live(h), p = Data(a) PROVE FALSE
    BY DEF IsPointing
  <2>1. a \in Nat /\ Base <= a
    OBVIOUS
  <2>2. QED
    BY <2>1, HeapAssumption DEF Data
<1>2. QED
  BY <1>1 DEF AfterFree

-----------------------------------------------------------------------------
(* A call in the vacant heap                                               *)

LEMMA GrantedTake ==
  ASSUME NEW m, Mem(m), NEW x \in Locals, NEW s, CanAlloc(m.heap, s)
  PROVE  LET n == Take(m, x, s)
         IN  /\ Mem(n) /\ Same(m, n, x) /\ n.ptr[x] = AllocPtr(m.heap, s)
             /\ n.heap = Grown(m.heap, s)
BY GrantedMem DEF Take, Grown

\* A size that is asked for fits in the empty region.
LEMMA AskedFits ==
  ASSUME SizesFit, NEW s \in Asked
  PROVE  s \in Nat /\ EntryHdr + BlockHdr + s <= Length
BY AskedNat DEF SizesFit

LEMMA BorrowVacant ==
  ASSUME SizesFit, NEW m, Mem(m), Vacant(m.heap), NEW x \in Locals, NEW s \in Asked
  PROVE  Vacant(Borrow(m, x, s).heap)
<1> DEFINE t == Take(m, x, s)
           n == Borrow(m, x, s)
<1>1. s \in Nat /\ EntryHdr + BlockHdr + s <= Length
  BY AskedFits
<1>2. /\ CanAlloc(m.heap, s) /\ AllocPtr(m.heap, s) = Data(FirstBlock)
      /\ Single(Grown(m.heap, s), FirstBlock, s)
  BY <1>1, FirstBlockTaken
<1>3. Mem(t) /\ t.ptr[x] = Data(FirstBlock) /\ Single(t.heap, FirstBlock, s)
  BY <1>2, GrantedTake
<1>4. n = GiveAt(t, t.ptr[x])
  BY Zenon DEF Borrow, Give
<1> HIDE DEF t, n
<1>5. n.heap = AfterFree(t.heap, Data(FirstBlock))
  BY <1>3, <1>4, GiveMem
<1>6. FirstBlock \in Nat /\ s + BlockHdr <= Length
  BY <1>1, HeapAssumption DEF FirstBlock
<1>7. Vacant(n.heap)
  BY <1>1, <1>3, <1>5, <1>6, OnlyBlockFreed
<1>8. QED
  BY <1>7 DEF n

\* A search leaves the vacant heap vacant up to its answer.
LEMMA ScanVacant ==
  ASSUME SizesFit, NEW m, Mem(m), Vacant(m.heap)
  PROVE  \A f \in 0 .. N : Vacant(Scan(m, f).heap)
<1> DEFINE Bad == {f \in 0 .. N : ~Vacant(Scan(m, f).heap)}
<1> SUFFICES ASSUME Bad # {} PROVE FALSE
  OBVIOUS
<1>1. PICK n \in Bad : \A x \in Bad : n <= x
  <2>1. Bad \in SUBSET Nat
    BY Files
  <2> HIDE DEF Bad
  <2>2. QED
    BY <2>1, Least
<1>2. n \in 0 .. N /\ N \in Nat /\ ~Vacant(Scan(m, n).heap)
  BY <1>1, Files
<1>3. n # 0
  BY <1>2, ScanRule
<1>4. n - 1 \in 0 .. N /\ n \in 1 .. N /\ ~(n <= n - 1)
  BY <1>2, <1>3
<1>5. Vacant(Scan(m, n - 1).heap)
  BY <1>1, <1>4
<1>6. Scan(m, n) = Looked(Scan(m, n - 1), n) /\ Mem(Scan(m, n - 1))
  BY <1>4, ScanRule, ScanMem
<1>7. "name" \in Locals /\ NameLen[Image[n].name] + 1 \in Asked
  BY <1>4, Files DEF Locals, Asked
<1> DEFINE s == Scan(m, n - 1)
           b == Borrow(s, "name", NameLen[Image[n].name] + 1)
<1>8. Vacant(b.heap)
  BY <1>5, <1>6, <1>7, BorrowVacant
<1>9. Scan(m, n).heap = b.heap
  BY <1>6, LookedMem
<1> HIDE DEF b
<1> QED
  BY <1>2, <1>8, <1>9

\* The answer is the first block.
Answered(n) == /\ Mem(n) /\ n.ptr["addr"] = Data(FirstBlock)
               /\ Single(n.heap, FirstBlock, DiskAddressSize)

LEMMA AnswerVacant ==
  ASSUME SizesFit, NEW m, Mem(m), Vacant(m.heap), NEW d
  PROVE  Answered(Answer(m, d))
<1> DEFINE t == Take(m, "addr", DiskAddressSize)
           n == Answer(m, d)
<1>1. n.heap = t.heap /\ n.ptr = t.ptr /\ Mem(n)
  BY AnswerMem
<1>2. "addr" \in Locals /\ DiskAddressSize \in Asked
  BY DEF Locals, Asked
<1>3. /\ CanAlloc(m.heap, DiskAddressSize) /\ AllocPtr(m.heap, DiskAddressSize) = Data(FirstBlock)
      /\ Single(Grown(m.heap, DiskAddressSize), FirstBlock, DiskAddressSize)
  BY <1>2, AskedFits, FirstBlockTaken
<1>4. t.ptr["addr"] = Data(FirstBlock) /\ t.heap = Grown(m.heap, DiskAddressSize)
  BY <1>2, <1>3, GrantedTake
<1> HIDE DEF t, n
<1>5. Answered(n)
  BY <1>1, <1>3, <1>4 DEF Answered
<1>6. QED
  BY <1>5 DEF n

LEMMA EvictNothing ==
  ASSUME NEW m, Mem(m), Live(m.heap) \subseteq Nat, \A a \in Live(m.heap) : Base <= a,
         NEW file, LowEntry(file)
  PROVE  Evict(m, file).heap = m.heap
<1> DEFINE a == GiveAt(m, file.file_header)
           b == GiveAt(a, file.file_name)
           c == GiveAt(b, file.file_data)
<1>1. CASE file.file_header = Null
  BY <1>1 DEF Evict
<1>2. CASE file.file_header # Null
  <2>1. file.file_header < Base /\ file.file_name < Base /\ file.file_data < Base
    BY <1>2 DEF LowEntry
  <2>2. Mem(a) /\ a.heap = m.heap
    BY <2>1, GiveMem, NothingFreed
  <2> HIDE DEF a
  <2>3. Mem(b) /\ b.heap = m.heap
    BY <2>1, <2>2, GiveMem, NothingFreed
  <2> HIDE DEF b
  <2>4. c.heap = m.heap
    BY <2>1, <2>3, GiveMem, NothingFreed
  <2>5. Evict(m, file) = c
    BY <1>2, Zenon DEF Evict, a, b
  <2> HIDE DEF c
  <2>6. QED
    BY <2>4, <2>5
<1>3. QED
  BY <1>1, <1>2

LEMMA MissedVacant ==
  ASSUME SizesFit, NEW m, Mem(m), Vacant(m.heap), LowEntry(m.files[Victim(m.files)]),
         NEW f \in 1 .. N, NEW p
  PROVE  Answered(Missed(m, f, p))
<1> DEFINE s == Scan(m, f)
           a == Answer(s, DiskAddress(f))
           v == Victim(m.files)
           n == Missed(m, f, p)
<1>1. Mem(s) /\ Same(m, s, "name") /\ Vacant(s.heap)
  BY Files, ScanMem, ScanVacant
<1>2. n = Replace(a, v, f, p)
  BY Zenon DEF Missed
<1> HIDE DEF s, n, v
<1>3. Answered(a) /\ Mem(a) /\ a.files = s.files
  BY <1>1, AnswerVacant, AnswerMem
<1> HIDE DEF a
<1>4. Mem(n) /\ n.heap = Evict(a, a.files[v]).heap /\ n.ptr = a.ptr
  BY <1>2, <1>3, ReplaceMem
<1>5. a.files[v] = m.files[v]
  BY <1>1, <1>3 DEF Same
<1>6. FirstBlock \in Nat /\ Base <= FirstBlock
  BY HeapAssumption DEF FirstBlock
<1>7. Live(a.heap) = {FirstBlock}
  BY <1>3 DEF Answered, Single
<1>8. n.heap = a.heap
  BY <1>3, <1>4, <1>5, <1>6, <1>7, EvictNothing DEF v
<1>9. Answered(n)
  BY <1>3, <1>4, <1>8 DEF Answered
<1>10. QED
  BY <1>9 DEF n

LEMMA SearchVacant ==
  ASSUME SizesFit, NEW m, Mem(m), Vacant(m.heap), LowEntry(m.files[Victim(m.files)]), ~m.found,
         NEW name, NEW p
  PROVE  LET n == SearchFor(m, name, p)
         IN  Mem(n) /\ IF n.found THEN Answered(n) ELSE Vacant(n.heap)
<1> DEFINE n == SearchFor(m, name, p)
<1>1. ASSUME NEW d, n = Answer(m, d)
      PROVE  n.found /\ Answered(n)
  BY <1>1, AnswerMem, AnswerVacant
<1>2. ASSUME NEW f \in 1 .. N, n = Missed(m, f, p)
      PROVE  n.found /\ Answered(n)
  <2>1. Missed(m, f, p).found /\ Answered(Missed(m, f, p))
    BY MissedMem, MissedVacant
  <2>2. QED
    BY <1>2, <2>1, Zenon
<1>3. \/ \E d : n = Answer(m, d)
      \/ \E f \in 1 .. N : n = Missed(m, f, p)
      \/ n = m
      \/ n = Scan(m, N)
  BY SearchCases, Zenon
<1>4. Mem(Scan(m, N)) /\ Same(m, Scan(m, N), "name") /\ Vacant(Scan(m, N).heap)
  BY Files, ScanMem, ScanVacant
<1> HIDE DEF n
<1>5. CASE n = m \/ n = Scan(m, N)
  <2>1. Mem(n) /\ ~n.found /\ Vacant(n.heap)
    BY <1>4, <1>5 DEF Same
  <2>2. QED
    BY <2>1 DEF n
<1>6. CASE n.found /\ Answered(n)
  BY <1>6 DEF Answered, n
<1>7. QED
  BY <1>1, <1>2, <1>3, <1>5, <1>6

-----------------------------------------------------------------------------
(* The open file's blocks: its content, where the sector buffer was, and    *)
(* behind the rest of the buffer its data.                                  *)

SecondBlock == Data(FirstBlock) + DiskAddressSize
ThirdBlock(f) == Data(SecondBlock) + Lbas(f) * LBA_SIZE

LEMMA PlacesOf ==
  ASSUME RoomToOpen, NEW f \in 1 .. N, Image[f].name \in Literals
  PROVE  /\ FirstBlock \in Nat /\ FirstBlock # Null /\ Base <= FirstBlock
         /\ SecondBlock \in Nat /\ ThirdBlock(f) \in Nat
         /\ FirstBlock < SecondBlock /\ SecondBlock < ThirdBlock(f)
         /\ Data(SecondBlock) + FileContentSize <= ThirdBlock(f)
         /\ Lbas(f) * LBA_SIZE \in Nat /\ FileContentSize <= Lbas(f) * LBA_SIZE
         /\ Image[f].data \in Nat /\ Image[f].data > 0
         /\ Data(ThirdBlock(f)) + Image[f].data <= RegionEnd
         /\ DiskAddressSize + FileContentSize + Image[f].data + 3 * BlockHdr <= Length
         /\ DiskAddressSize + Lbas(f) * LBA_SIZE + Image[f].data + 3 * BlockHdr <= Length
<1>1. Offset(f) \in Nat /\ Total(f) \in Nat /\ Total(f) >= FileHeaderSize
  <2>1. Total(f) = FileHeaderSize + NameLen[Image[f].name] + Image[f].data
    BY DEF Total
  <2>2. NameLen[Image[f].name] \in Nat /\ Image[f].data \in Nat
    BY Files
  <2>3. QED
    BY <2>1, <2>2, OffsetNat DEF FileHeaderSize
<1>2. DiskAddress(f)[2] \in Nat
  BY <1>1 DEF DiskAddress, START, LBA_SIZE
<1> DEFINE d == DiskAddress(f)[2]
           t == Total(f)
           l == Lbas(f)
           x == Image[f].data
<1>3. l = (t + d + 511) \div 512 /\ t \in Nat /\ d \in Nat /\ t >= 11
  BY <1>1, <1>2 DEF Lbas, LBA_SIZE, FileHeaderSize
<1>4. x \in Nat /\ x > 0 /\ EntryHdr + 3 * BlockHdr + 8 + l * 512 + x <= Length
  BY Files DEF RoomToOpen, LBA_SIZE, DiskAddressSize
<1> HIDE DEF d, t, l, x
<1>5. l \in Nat /\ l >= 1
  BY <1>3
<1>6. l * 512 \in Nat /\ 8 <= l * 512
  BY <1>5
<1> DEFINE y == l * 512
<1> HIDE DEF y
<1>7. /\ Base \in Nat \ {0} /\ Length \in Nat /\ EntryHdr \in Nat /\ BlockHdr \in Nat \ {0}
      /\ y \in Nat /\ 8 <= y /\ x \in Nat /\ x > 0
      /\ EntryHdr + 3 * BlockHdr + 8 + y + x <= Length
  BY <1>4, <1>6, HeapAssumption DEF y
<1>8. /\ FirstBlock = Base + EntryHdr /\ SecondBlock = Base + EntryHdr + BlockHdr + 8
      /\ ThirdBlock(f) = Base + EntryHdr + BlockHdr + 8 + BlockHdr + y
      /\ Data(SecondBlock) = Base + EntryHdr + BlockHdr + 8 + BlockHdr
      /\ Data(ThirdBlock(f)) = Base + EntryHdr + BlockHdr + 8 + BlockHdr + y + BlockHdr
      /\ RegionEnd = Base + Length
  BY DEF FirstBlock, SecondBlock, ThirdBlock, Data, DiskAddressSize, LBA_SIZE, RegionEnd, y, l
<1>9. /\ Lbas(f) * LBA_SIZE = y /\ Image[f].data = x /\ FileContentSize = 8 /\ DiskAddressSize = 8
      /\ Null = 0
  BY DEF y, l, x, LBA_SIZE, FileContentSize, DiskAddressSize, Null
<1>10. QED
  BY <1>7, <1>8, <1>9

\* What get_file_content leaves of the answer's heap: content and data of the file.
Holding(h, f) == Double(h, SecondBlock, FileContentSize, ThirdBlock(f), Image[f].data)

LEMMA FetchVacant ==
  ASSUME RoomToOpen, NEW m, Answered(m), NEW f \in 1 .. N, Image[f].name \in Literals
  PROVE  LET n == Fetch(m, f)
         IN  /\ Holding(n.heap, f)
             /\ n.ptr["content"] = Data(SecondBlock) /\ n.ptr["raw"] = Data(ThirdBlock(f))
<1> DEFINE a == FirstBlock
           b == SecondBlock
           c == ThirdBlock(f)
           s == DiskAddressSize
           y == Lbas(f) * LBA_SIZE
           x == Image[f].data
           k == FileContentSize
           t == Bought(m, f)
           u == Read(m, f)
           v == Copied(m, f)
           w == Wrapped(m, f)
           n == Fetch(m, f)
<1>1. /\ a \in Nat /\ a # Null /\ b \in Nat /\ c \in Nat /\ a < b /\ b < c
      /\ Data(b) + k <= c /\ y \in Nat /\ x \in Nat /\ x > 0 /\ k <= y
      /\ Data(c) + x <= RegionEnd /\ s + k + x + 3 * BlockHdr <= Length
      /\ s + y + x + 3 * BlockHdr <= Length
      /\ b = Data(a) + s /\ c = Data(b) + y /\ FirstBlock <= a /\ s \in Nat /\ k \in Nat
  BY PlacesOf DEF SecondBlock, ThirdBlock, DiskAddressSize, FileContentSize
<1>2. /\ Mem(m) /\ m.ptr["addr"] = Data(a) /\ Single(m.heap, a, s)
  BY DEF Answered
<1>3. /\ "buffer" \in Locals /\ "raw" \in Locals /\ "content" \in Locals /\ "addr" \in Locals
      /\ "buffer" # "raw" /\ "addr" # "buffer" /\ "addr" # "raw" /\ "addr" # "content"
      /\ "raw" # "content"
  BY DEF Locals
<1>4. /\ t = Take(m, "buffer", y) /\ u = Take(t, "raw", x) /\ v = GiveAt(u, u.ptr["buffer"])
      /\ w = Take(v, "content", k) /\ n.heap = AfterFree(w.heap, w.ptr["addr"])
      /\ n.ptr = w.ptr /\ Mem(v)
  BY <1>2, CopiedSteps, CopiedMem, FetchMem DEF Bought, Read, Wrapped
<1> HIDE DEF a, b, c, s, y, x, k, t, u, v, w, n
<1>5. Data(b) + y <= RegionEnd
  <2>1. Data(c) = Data(b) + y + BlockHdr
    BY <1>1 DEF Data
  <2> DEFINE e == Data(b) + y
             r == RegionEnd
  <2>2. e \in Nat /\ r \in Nat
    BY <1>1, HeapAssumption DEF Data, RegionEnd
  <2>3. e + BlockHdr + x <= r
    BY <1>1, <2>1
  <2> HIDE DEF e, r
  <2>4. e <= r
    BY <1>1, <2>2, <2>3, HeapAssumption
  <2>5. QED
    BY <2>4 DEF e, r
<1>6. Mem(t) /\ Same(m, t, "buffer") /\ t.ptr["buffer"] = Data(b) /\ Double(t.heap, a, s, b, y)
  <2>1. /\ CanAlloc(m.heap, y) /\ AllocPtr(m.heap, y) = Data(b)
        /\ Double(Grown(m.heap, y), a, s, b, y)
    BY <1>1, <1>2, <1>5, SecondBlockTaken
  <2>2. QED
    BY <1>2, <1>3, <1>4, <2>1, GrantedTake
<1>7. Mem(u) /\ Same(t, u, "raw") /\ u.ptr["raw"] = Data(c) /\ Triple(u.heap, a, s, b, y, c, x)
  <2> DEFINE h == t.heap
  <2>1. Double(h, a, s, b, y)
    BY <1>6
  <2>2. a \in Nat /\ s \in Nat /\ b \in Nat /\ y \in Nat /\ c \in Nat /\ x \in Nat
    BY <1>1
  <2>3. FirstBlock <= a /\ b = Data(a) + s /\ c = Data(b) + y /\ x > 0 /\ Data(c) + x <= RegionEnd
    BY <1>1
  <2> HIDE DEF h
  <2>4. CanAlloc(h, x) /\ AllocPtr(h, x) = Data(c) /\ Triple(Grown(h, x), a, s, b, y, c, x)
    BY <2>1, <2>2, <2>3, ThirdBlockTaken
  <2>5. QED
    BY <1>3, <1>4, <1>6, <2>4, GrantedTake DEF h
<1>8. u.ptr["buffer"] = Data(b) /\ u.ptr["addr"] = Data(a)
  BY <1>2, <1>3, <1>6, <1>7 DEF Same
<1>9. v.ptr = u.ptr /\ v.heap = AfterFree(u.heap, Data(b))
  BY <1>4, <1>7, <1>8, GiveMem
<1>10. Double(v.heap, a, s, c, x)
  BY <1>1, <1>7, <1>9, MiddleBlockFreed
<1>11. /\ Mem(w) /\ Same(v, w, "content") /\ w.ptr["content"] = Data(b)
       /\ Triple(w.heap, a, s, b, k, c, x)
  <2> DEFINE h == v.heap
  <2>1. Double(h, a, s, c, x)
    BY <1>10
  <2>2. a \in Nat /\ s \in Nat /\ b \in Nat /\ k \in Nat /\ c \in Nat /\ x \in Nat
    BY <1>1
  <2>3. FirstBlock <= a /\ Data(c) + x <= RegionEnd /\ b = Data(a) + s /\ Data(b) + k <= c
    BY <1>1
  <2> HIDE DEF h
  <2>4. CanAlloc(h, k) /\ AllocPtr(h, k) = Data(b) /\ Triple(Grown(h, k), a, s, b, k, c, x)
    BY <2>1, <2>2, <2>3, GapTaken
  <2>5. QED
    BY <1>3, <1>4, <2>4, GrantedTake DEF h
<1>12. w.ptr["addr"] = Data(a) /\ w.ptr["raw"] = Data(c)
  BY <1>3, <1>7, <1>8, <1>9, <1>11 DEF Same
<1>13. Double(n.heap, b, k, c, x)
  <2> DEFINE h == w.heap
  <2>1. Triple(h, a, s, b, k, c, x) /\ n.heap = AfterFree(h, Data(a))
    BY <1>4, <1>11, <1>12
  <2>2. a \in Nat /\ s \in Nat /\ b \in Nat /\ k \in Nat /\ c \in Nat /\ x \in Nat
    BY <1>1
  <2>3. a # Null /\ a < b /\ b < c /\ s + k + x + 3 * BlockHdr <= Length
    BY <1>1
  <2> HIDE DEF h
  <2>4. Double(AfterFree(h, Data(a)), b, k, c, x)
    BY <2>1, <2>2, <2>3, FirstBlockFreed
  <2>5. QED
    BY <2>1, <2>4
<1>14. n.ptr["content"] = Data(b) /\ n.ptr["raw"] = Data(c)
  BY <1>4, <1>11, <1>12
<1>15. QED
  BY <1>13, <1>14 DEF Holding, n, b, c, k, x

\* A call for a literal in the vacant heap, while the table holds literals only.
LEMMA ContentVacant ==
  ASSUME SizesFit, BelowHeap, RoomToOpen, NEW m, Mem(m), Vacant(m.heap), Entries(m.files),
         Coherent(m.files, m.text), m.files[0].file_name < Base, ~m.found,
         \A i \in Slots : Filled(m.files, i) => m.files[i].file_name \in 0 .. Base - 1,
         NEW p, NameAt(m.text, p) \in Literals
  PROVE  LET n == Content(m, p)
         IN  \/ ~n.found /\ Vacant(n.heap)
             \/ /\ n.found
                /\ \E f \in 1 .. N : /\ Image[f].name \in Literals /\ Holding(n.heap, f)
                                     /\ n.ptr["content"] = Data(SecondBlock)
                                     /\ n.ptr["raw"] = Data(ThirdBlock(f))
<1> DEFINE s == Search(m, p)
           n == Content(m, p)
<1>1. Mem(s) /\ n = IF s.found THEN Fetch(s, FileAt(s.from)) ELSE s
  BY ContentSteps
<1>2. IF s.found THEN Answered(s) ELSE Vacant(s.heap)
  BY VictimLow, SearchVacant DEF Search
<1>3. s.found => \E f \in 1 .. N : Image[f].name \in Literals /\ s.from = DiskAddress(f)
  BY SearchAnswers
<1> HIDE DEF s, n
<1>4. CASE s.found
  <2>1. PICK f \in 1 .. N : Image[f].name \in Literals /\ s.from = DiskAddress(f)
    BY <1>3, <1>4
  <2>2. n = Fetch(s, f)
    BY <1>1, <1>4, <2>1, AddressNames
  <2>3. n.found
    BY <1>1, <1>4, <2>2, FetchMem
  <2>4. /\ Holding(n.heap, f)
        /\ n.ptr["content"] = Data(SecondBlock) /\ n.ptr["raw"] = Data(ThirdBlock(f))
    BY <1>2, <1>4, <2>1, <2>2, FetchVacant
  <2>5. QED
    BY <2>1, <2>3, <2>4 DEF n
<1>5. CASE ~s.found
  BY <1>1, <1>2, <1>5 DEF n
<1>6. QED
  BY <1>4, <1>5

-----------------------------------------------------------------------------
(* Without imports                                                         *)

\* The names are literals, and the heap has no block or those of the one file that is
\* lent.
OneAtATime ==
  /\ NamesStay
  /\ \/ DOMAIN open = {} /\ Vacant(heap)
     \/ mounted /\ \E f \in 1 .. N :
          /\ Image[f].name \in Literals
          /\ DOMAIN open = {Data(SecondBlock)}
          /\ open[Data(SecondBlock)].lent
          /\ open[Data(SecondBlock)].raw = Data(ThirdBlock(f))
          /\ Holding(heap, f)

LEMMA NothingHeld == Init => OneAtATime
<1> SUFFICES ASSUME Init PROVE OneAtATime
  OBVIOUS
<1>1. NamesStay
  BY HeapAssumption DEF Init, NamesStay, NoFile, Null
<1>2. DOMAIN open = {} /\ Vacant(heap)
  BY DEF Init, Vacant, EmptyHeap, Live
<1>3. QED
  BY <1>1, <1>2 DEF OneAtATime

LEMMA MountVacant ==
  ASSUME SizesFit, OneAtATime, Mount
  PROVE  OneAtATime'
<1> DEFINE m == Borrow(Call, "buffer", LBA_SIZE)
<1>1. Mem(Call) /\ Call.heap = heap /\ Call.files = virtual_file_list
  BY CallMem
<1>2. "buffer" \in Locals /\ LBA_SIZE \in Asked
  BY DEF Locals, Asked
<1>0. DOMAIN open = {} /\ Vacant(heap)
  BY DEF OneAtATime, Mount
<1>3. Vacant(m.heap) /\ Same(Call, m, "buffer")
  BY <1>0, <1>1, <1>2, BorrowVacant, BorrowMem
<1>4. heap' = m.heap /\ virtual_file_list' = m.files /\ open' = open
  BY DEF Mount, Leaves
<1> HIDE DEF m
<1>5. NamesStay' /\ DOMAIN open' = {} /\ Vacant(heap')
  BY <1>0, <1>1, <1>3, <1>4 DEF Same, NamesStay, OneAtATime, Vacant, Live
<1>6. QED
  BY <1>5 DEF OneAtATime

LEMMA OpenVacant ==
  ASSUME SizesFit, BelowHeap, RoomToOpen, FsInv, TableInv, OneAtATime,
         NEW name \in Literals, OpenLiteral(name)
  PROVE  OneAtATime'
<1> DEFINE m == Content(Call, LiteralAt(name))
           c == Data(SecondBlock)
<1>1. /\ Mem(Call) /\ Call.heap = heap /\ Call.files = virtual_file_list /\ ~Call.found
      /\ Entries(virtual_file_list) /\ NamesStay /\ Call.text = text
  BY CallMem DEF FsInv, OneAtATime
<1>2. DOMAIN open = {} /\ Vacant(heap)
  <2>1. Lent = {}
    BY DEF OpenLiteral
  <2>2. QED
    BY <2>1 DEF OneAtATime, Lent
<1>3. heap' = m.heap /\ virtual_file_list' = m.files /\ open' = Opened(m, name, TRUE) /\ mounted'
  BY DEF OpenLiteral, Leaves
<1>4. \/ ~m.found /\ Vacant(m.heap)
      \/ /\ m.found
         /\ \E f \in 1 .. N : /\ Image[f].name \in Literals /\ Holding(m.heap, f)
                              /\ m.ptr["content"] = c
                              /\ m.ptr["raw"] = Data(ThirdBlock(f))
  <2>1. virtual_file_list[0].file_name < Base
    BY <1>1 DEF NamesStay, Slots
  <2>2. NameAt(text, LiteralAt(name)) = name /\ Coherent(virtual_file_list, text)
    BY DEF TableInv, Sure
  <2>3. \A i \in Slots : Filled(virtual_file_list, i) =>
          virtual_file_list[i].file_name \in 0 .. Base - 1
    BY <1>1, NamesLow
  <2>4. QED
    BY <1>1, <1>2, <2>1, <2>2, <2>3, ContentVacant
<1>5. NamesStay'
  <2>1. LiteralAt(name) < Base
    BY LiteralPlace
  <2>2. \/ m.files = virtual_file_list
        \/ \E f \in 1 .. N : m.files = Put(virtual_file_list, Victim(virtual_file_list),
                                           NewSlot(f, LiteralAt(name)))
    BY <1>1, ContentTable
  <2>3. Counts(virtual_file_list)
    BY <1>1 DEF Entries
  <2> HIDE DEF m
  <2>4. \A i \in Slots : m.files[i].file_name < Base
    BY <1>1, <2>1, <2>2, <2>3, PutLow
  <2>5. QED
    BY <1>3, <2>4 DEF NamesStay
<1> HIDE DEF m
<1>6. CASE ~m.found
  <2>1. open' = open /\ Vacant(heap')
    BY <1>3, <1>4, <1>6 DEF Opened, Vacant, Live
  <2>2. QED
    BY <1>2, <1>5, <2>1 DEF OneAtATime
<1>7. CASE m.found
  <2>1. PICK f \in 1 .. N : /\ Image[f].name \in Literals
                            /\ Holding(m.heap, f) /\ m.ptr["content"] = c
                            /\ m.ptr["raw"] = Data(ThirdBlock(f))
    BY <1>4, <1>7
  <2> DEFINE e == [raw |-> m.ptr["raw"], asked |-> name, got |-> m.got, lent |-> TRUE]
  <2>2. e.lent /\ e.raw = Data(ThirdBlock(f))
    BY <2>1
  <2>3. open' = [d \in DOMAIN open \cup {c} |-> IF d = c THEN e ELSE open[d]]
    BY <1>3, <1>7, <2>1 DEF Opened
  <2> HIDE DEF e, c
  <2>4. DOMAIN open' = {c} /\ open'[c] = e
    BY <1>2, <2>3
  <2>5. Holding(heap', f)
    BY <1>3, <2>1
  <2>6. QED
    BY <1>3, <1>5, <2>1, <2>2, <2>4, <2>5 DEF OneAtATime, c, Holding, Double, Live, Size, NextOf
<1>8. QED
  BY <1>6, <1>7

LEMMA CloseVacant ==
  ASSUME RoomToOpen, OneAtATime, NEW c \in Lent, Close(c)
  PROVE  OneAtATime'
<1>1. c \in DOMAIN open
  BY DEF Lent
<1>2. PICK f \in 1 .. N : /\ Image[f].name \in Literals
                          /\ DOMAIN open = {Data(SecondBlock)} /\ Holding(heap, f)
                          /\ open[Data(SecondBlock)].raw = Data(ThirdBlock(f))
  BY <1>1 DEF OneAtATime
<1>3. c = Data(SecondBlock) /\ open[c].raw = Data(ThirdBlock(f))
  BY <1>1, <1>2
<1> DEFINE b == SecondBlock
           d == ThirdBlock(f)
           k == FileContentSize
           x == Image[f].data
           h == AfterFree(heap, Data(d))
<1>4. b \in Nat /\ d \in Nat /\ b < d /\ k \in Nat /\ x \in Nat
  BY <1>2, PlacesOf DEF FileContentSize
<1>5. k + x + 2 * BlockHdr <= Length /\ k + BlockHdr <= Length
  <2>1. 8 + k + x + 3 * BlockHdr <= Length
    BY <1>2, PlacesOf DEF DiskAddressSize
  <2> HIDE DEF k, x
  <2>2. QED
    BY <1>4, <2>1, HeapAssumption
<1>6. heap' = AfterFree(h, Data(b)) /\ DOMAIN open' = {} /\ virtual_file_list' = virtual_file_list
  <2>1. /\ heap' = AfterFree(AfterFree(heap, open[c].raw), c)
        /\ open' = [e \in DOMAIN open \ {c} |-> open[e]]
        /\ virtual_file_list' = virtual_file_list
    BY DEF Close
  <2>2. DOMAIN open' = {}
    BY <1>2, <1>3, <2>1
  <2>3. QED
    BY <1>3, <2>1, <2>2, Zenon
<1>7. Double(heap, b, k, d, x)
  BY <1>2 DEF Holding
<1> HIDE DEF b, d, k, x
<1>8. Single(h, b, k)
  BY <1>4, <1>5, <1>7, SecondBlockFreed
<1> HIDE DEF h
<1>9. Vacant(AfterFree(h, Data(b)))
  BY <1>4, <1>5, <1>8, OnlyBlockFreed
<1>10. Vacant(heap')
  BY <1>6, <1>9
<1>11. QED
  BY <1>6, <1>10 DEF OneAtATime, NamesStay, Vacant, Live

\* Nothing but an import leaves notes, and they are never freed.
LEMMA NoImportYet ==
  ASSUME [Next]_vars, notes' = {}
  PROVE  /\ notes = {}
         /\ \/ Mount \/ UNCHANGED vars
            \/ \E name \in Literals : OpenLiteral(name)
            \/ \E c \in Lent : Close(c)
<1>1. ASSUME NEW c \in Lent, Import(c)
      PROVE  FALSE
  <2>1. PICK name, m : notes' = notes \cup {m.ptr["node"], m.ptr["note"]}
    BY <1>1 DEF Import
  <2>2. m.ptr["node"] \in notes'
    BY <2>1
  <2>3. QED
    BY <2>2
<1>2. \/ Mount \/ UNCHANGED vars
      \/ \E name \in Literals : OpenLiteral(name)
      \/ \E c \in Lent : Close(c)
  BY <1>1 DEF Next
<1>3. notes = {}
  BY <1>2 DEF Mount, OpenLiteral, Close, vars
<1>4. QED
  BY <1>2, <1>3

QuietInv == notes = {} => FsInv /\ TableInv /\ OneAtATime

LEMMA QuietStep ==
  ASSUME SizesFit, BelowHeap, RoomToOpen, QuietInv, [Next]_vars
  PROVE  QuietInv'
<1> SUFFICES ASSUME notes' = {} PROVE FsInv' /\ TableInv' /\ OneAtATime'
  BY DEF QuietInv
<1>1. FsInv /\ TableInv /\ OneAtATime
  BY NoImportYet DEF QuietInv
<1>2. FsInv' /\ TableInv'
  <2>1. NothingToLose
    BY <1>1 DEF OneAtATime, NamesStay, NothingToLose, Slots
  <2>2. QED
    BY <1>1, <2>1, FsStep, TableStep
<1>3. ASSUME NEW name \in Literals, OpenLiteral(name)
      PROVE  OneAtATime'
  BY <1>1, <1>3, OpenVacant
<1>4. ASSUME NEW c \in Lent, Close(c)
      PROVE  OneAtATime'
  BY <1>1, <1>4, CloseVacant
<1>5. ASSUME Mount PROVE OneAtATime'
  BY <1>1, <1>5, MountVacant
<1>6. ASSUME UNCHANGED vars PROVE OneAtATime'
  BY <1>1, <1>6 DEF vars, OneAtATime, NamesStay, Vacant, Holding, Double, Live, Size, NextOf
<1>7. OneAtATime'
  BY <1>3, <1>4, <1>5, <1>6, NoImportYet
<1>8. QED
  BY <1>2, <1>7

LEMMA QuietInvariant ==
  ASSUME SizesFit, BelowHeap, RoomToOpen
  PROVE  Spec => []QuietInv
<1>1. Init => QuietInv
  BY FsStart, TableStart, NothingHeld DEF QuietInv
<1>2. QuietInv /\ [Next]_vars => QuietInv'
  BY QuietStep
<1>3. QED
  BY <1>1, <1>2, PTL DEF Spec

\* As long as nothing is imported no block is ever written over a header, however
\* often and in whatever order files are opened and closed.  The gap test would allow
\* it (alloc.c:47-48), but a call finds either no gap or one with room for header and
\* data, if no file asked for by a literal is empty; the empty boot.cfg and the directory
\* entries of build.py:70-81 are never asked for (mono_fs.c:73-151).
THEOREM HeapStaysIntact ==
  ASSUME SizesFit, BelowHeap, RoomToOpen
  PROVE  Spec => [](notes = {} => HeapIntact)
<1>1. QuietInv => (notes = {} => HeapIntact)
  BY DEF QuietInv, OneAtATime, Vacant, Holding, Double, HeapIntact
<1>2. QED
  BY <1>1, QuietInvariant, PTL

\* So with drivers that import nothing callers have the file store of FileStore, without
\* any other condition on the run.
THEOREM FileStoreWithoutImports ==
  ASSUME SizesFit, BelowHeap, RoomToOpen
  PROVE  Spec /\ [](notes = {}) => StoreSpec
<1>1. QuietInv => (notes = {} => NamesStay)
  BY DEF QuietInv, OneAtATime
<1>2. QED
  BY <1>1, QuietInvariant, HeapStaysIntact, ImplementsFileStore, PTL
=============================================================================
