---------------------------- MODULE FsDiskProofs ----------------------------
(***************************************************************************)
(* Proofs about Ata and FsDisk, for every sector size, every disk and every *)
(* image: reads and writes through the driver, and files through both.      *)
(***************************************************************************)
EXTENDS FsDisk, SequenceTheorems, TLAPS, WellFoundedInduction

-----------------------------------------------------------------------------
(* Arithmetic                                                              *)

\* A set of naturals that is not empty has a least element.
LEMMA Least ==
  ASSUME NEW S \in SUBSET Nat, S # {}
  PROVE  \E m \in S : \A x \in S : m <= x
<1>1. PICK m \in S : \A y \in S : ~(<<y, m>> \in OpToRel(<, Nat))
  BY NatLessThanWellFounded, WFMin, Zenon
<1>2. ASSUME NEW y \in S
      PROVE  ~(y < m)
  <2>1. <<y, m>> \in Nat \X Nat /\ <<y, m>>[1] = y /\ <<y, m>>[2] = m
    OBVIOUS
  <2>2. y < m => <<y, m>> \in OpToRel(<, Nat)
    BY <2>1, Zenon DEF OpToRel
  <2> QED
    BY <1>1, <2>2, Zenon
<1> QED
  BY <1>2

\* A quotient times the divisor is the last multiple not above the dividend.
LEMMA DivBound ==
  ASSUME NEW x \in Nat, NEW m \in Nat \ {0}
  PROVE  /\ x \div m \in Nat /\ x % m \in 0 .. m - 1
         /\ x = (x \div m) * m + (x % m)
<1>1. x \div m \in Int /\ x \div m >= 0
  OBVIOUS
<1>2. x = m * (x \div m) + (x % m) /\ (x % m) \in 0 .. m - 1
  OBVIOUS
<1>3. m * (x \div m) = (x \div m) * m
  BY <1>1
<1> QED
  BY <1>1, <1>2, <1>3

\* Word k of row i is in the rows there are.
LEMMA CellPlace ==
  ASSUME NEW m \in Nat \ {0}, NEW n \in Nat, NEW i \in 0 .. n - 1, NEW k \in 0 .. m - 1
  PROVE  i * m + k \in 0 .. n * m - 1
<1>1. i * m + m = (i + 1) * m /\ i * m \in Nat /\ n * m \in Nat
  OBVIOUS
<1>2. i + 1 = n \/ n - (i + 1) \in Nat
  OBVIOUS
<1>3. (n - (i + 1)) * m = n * m - (i + 1) * m
  OBVIOUS
<1>4. n - (i + 1) \in Nat => (n - (i + 1)) * m \in Nat
  OBVIOUS
<1>5. (i + 1) * m <= n * m
  BY <1>1, <1>2, <1>3, <1>4
<1> QED
  BY <1>1, <1>5

\* Different rows or words are different places.
LEMMA CellsApart ==
  ASSUME NEW m \in Nat \ {0}, NEW i \in Nat, NEW j \in Nat,
         NEW k \in 0 .. m - 1, NEW l \in 0 .. m - 1, i * m + k = j * m + l
  PROVE  i = j /\ k = l
<1>1. ASSUME NEW a \in Nat, NEW b \in Nat, NEW c \in 0 .. m - 1, NEW d \in 0 .. m - 1,
             a * m + c = b * m + d
      PROVE  ~(a < b)
  <2>1. SUFFICES ASSUME a + 1 <= b PROVE FALSE
    OBVIOUS
  <2>2. a \in 0 .. b - 1
    BY <2>1
  <2>3. a * m + (m - 1) \in 0 .. b * m - 1
    BY <2>2, CellPlace
  <2>4. a * m \in Nat /\ b * m \in Nat
    OBVIOUS
  <2> QED
    BY <1>1, <2>3, <2>4
<1>2. ~(i < j) /\ ~(j < i)
  BY <1>1
<1>3. i = j
  BY <1>2
<1>4. i * m \in Nat
  OBVIOUS
<1> QED
  BY <1>3, <1>4

\* Adding rows adds to the quotient and leaves the rest.
LEMMA DivRows ==
  ASSUME NEW m \in Nat \ {0}, NEW q \in Nat, NEW x \in Nat
  PROVE  q * m + x \in Nat /\ (q * m + x) \div m = q + (x \div m) /\ (q * m + x) % m = x % m
<1> DEFINE y == q * m + x
<1>1. q * m \in Nat /\ y \in Nat
  OBVIOUS
<1> HIDE DEF y
<1>2. /\ x \div m \in Nat /\ x % m \in 0 .. m - 1 /\ x = (x \div m) * m + (x % m)
      /\ y \div m \in Nat /\ y % m \in 0 .. m - 1 /\ y = (y \div m) * m + (y % m)
  BY <1>1, DivBound
<1>3. (q + (x \div m)) * m = q * m + (x \div m) * m /\ q + (x \div m) \in Nat
  BY <1>2
<1>4. (x \div m) * m \in Nat /\ (y \div m) * m \in Nat
  <2>1. \A a \in Nat : a * m \in Nat
    OBVIOUS
  <2> QED
    BY <1>2, <2>1
<1>5. (q + (x \div m)) * m + (x % m) = (y \div m) * m + (y % m)
  BY <1>1, <1>2, <1>3, <1>4 DEF y
<1> DEFINE a == q + (x \div m)
           b == y \div m
           c == x % m
           d == y % m
<1>6. a \in Nat /\ b \in Nat /\ c \in 0 .. m - 1 /\ d \in 0 .. m - 1 /\ a * m + c = b * m + d
  BY <1>2, <1>3, <1>5
<1> HIDE DEF a, b, c, d
<1>7. a = b /\ c = d
  BY <1>6, CellsApart
<1> QED
  BY <1>1, <1>7 DEF a, b, c, d, y

\* A larger dividend has no smaller quotient.
LEMMA DivMono ==
  ASSUME NEW m \in Nat \ {0}, NEW x \in Nat, NEW y \in Nat, x <= y
  PROVE  x \div m <= y \div m
<1>1. /\ x \div m \in Nat /\ x % m \in 0 .. m - 1 /\ x = (x \div m) * m + (x % m)
      /\ y \div m \in Nat /\ y % m \in 0 .. m - 1 /\ y = (y \div m) * m + (y % m)
  BY DivBound
<1>2. SUFFICES ASSUME (y \div m) + 1 <= x \div m PROVE FALSE
  BY <1>1
<1>3. y \div m \in 0 .. (x \div m) - 1
  BY <1>1, <1>2
<1>4. (y \div m) * m + (y % m) \in 0 .. (x \div m) * m - 1
  BY <1>1, <1>3, CellPlace
<1>5. (x \div m) * m \in Nat
  BY <1>1
<1> QED
  BY <1>1, <1>4, <1>5

-----------------------------------------------------------------------------
(* Driver and drive: their inductive invariant                             *)

Ops == {"none", "read", "write"}
DriverAt == {"idle", "ready", "command", "busy", "drq", "data", "flush"}
Calls == [op: Ops, lba: Nat, count: Nat, value: Values, i: Nat]
Drives == [bsy: BOOLEAN, drq: BOOLEAN, failed: BOOLEAN, cmd: Ops,
           lba: 0 .. Reach - 1, word: 0 .. Words]
WordSet == {Junk} \cup (Int \X Values \X Int)

AtaTypeInv == /\ pc \in DriverAt /\ call \in Calls /\ word \in 0 .. Words
              /\ buffer \in [0 .. MaxCount * Words - 1 -> WordSet]
              /\ dev \in Drives /\ disk \in [0 .. Reach - 1 -> Values]

\* Which call is being served, and how far.
CallInv ==
    /\ pc # "idle" => call.op \in {"read", "write"}
    /\ pc = "flush" => call.op = "write"
    /\ call.op = "write" => call.i = 0
    /\ call.op = "read" =>
         /\ call.lba + call.count <= Reach /\ call.count \in 1 .. MaxCount
         /\ call.i \in 0 .. call.count - (IF pc = "idle" THEN 0 ELSE 1)
         /\ pc = "idle" => call.i = call.count

\* A drive with nothing to do, and one that has the driver's command.
Quiet == dev.cmd = "none" /\ ~dev.bsy /\ ~dev.drq
Serving == dev.cmd = call.op /\ dev.lba = Lba28(call.lba + call.i)

Landed == dev.failed \/ disk[Lba28(call.lba)] = call.value

\* What the drive is doing, at each place of the driver.
DriveInv ==
    /\ pc \in {"idle", "ready", "command"} => Quiet
    /\ pc = "idle" /\ call.op = "write" => Landed
    /\ pc \in {"busy", "drq"} =>
         word = 0 /\ (Quiet \/ (Serving /\ dev.word = 0 /\ ~(dev.bsy /\ dev.drq)))
    /\ pc = "data" /\ word < Words => Serving /\ dev.word = word /\ dev.drq /\ ~dev.bsy
    /\ pc = "data" /\ word = Words /\ call.op = "read" => Quiet
    /\ pc = "flush" \/ (pc = "data" /\ word = Words /\ call.op = "write") =>
         \/ Serving /\ dev.word = Words /\ dev.bsy /\ ~dev.drq
         \/ Quiet /\ Landed

\* The words read so far, each in its place.
Taken(i, k) == buffer[i * Words + k] = Word(call.lba + i, disk[call.lba + i], k)
BufferInv ==
    call.op = "read" =>
      /\ \A i \in 0 .. call.i - 1, k \in 0 .. Words - 1 : Taken(i, k)
      /\ pc = "data" => \A k \in 0 .. word - 1 : Taken(call.i, k)

AtaInv == AtaTypeInv /\ CallInv /\ DriveInv /\ BufferInv

-----------------------------------------------------------------------------
(* The steps of driver and drive                                           *)

LEMMA Sizes ==
  /\ Reach \in Nat \ {0} /\ Words \in Nat \ {0} /\ MaxCount \in Nat \ {0}
  /\ MaxCount * Words \in Nat /\ 0 \in Values
  /\ \A lba \in Nat : Lba28(lba) \in 0 .. Reach - 1 /\ (lba < Reach => Lba28(lba) = lba)
<1>1. Reach \in Nat \ {0} /\ Words \in Nat \ {0} /\ MaxCount \in Nat \ {0} /\ 0 \in Values
  BY AtaAssumption, FsDiskAssumption
<1>2. ASSUME NEW lba \in Nat
      PROVE  Lba28(lba) \in 0 .. Reach - 1 /\ (lba < Reach => Lba28(lba) = lba)
  BY <1>1 DEF Lba28
<1>3. MaxCount * Words \in Nat
  BY <1>1
<1> QED
  BY <1>1, <1>2, <1>3

\* What its own steps leave of the drive.
LEMMA DriveFields ==
  ASSUME NEW d \in Drives
  PROVE  /\ LET e == [d EXCEPT !.bsy = TRUE]
            IN  /\ e \in Drives /\ e.bsy /\ e.drq = d.drq /\ e.cmd = d.cmd /\ e.lba = d.lba
                /\ e.word = d.word /\ e.failed = d.failed
         /\ LET e == [d EXCEPT !.bsy = FALSE, !.drq = TRUE]
            IN  /\ e \in Drives /\ ~e.bsy /\ e.drq /\ e.cmd = d.cmd /\ e.lba = d.lba
                /\ e.word = d.word /\ e.failed = d.failed
         /\ LET e == [d EXCEPT !.bsy = FALSE, !.cmd = "none"]
            IN  /\ e \in Drives /\ ~e.bsy /\ e.drq = d.drq /\ e.cmd = "none"
                /\ e.word = d.word /\ e.failed = d.failed
         /\ LET e == [d EXCEPT !.bsy = FALSE, !.failed = TRUE, !.cmd = "none"]
            IN  e \in Drives /\ ~e.bsy /\ e.drq = d.drq /\ e.cmd = "none" /\ e.failed
<1>3. LET e == [d EXCEPT !.bsy = TRUE]
      IN  /\ e \in Drives /\ e.bsy /\ e.drq = d.drq /\ e.cmd = d.cmd /\ e.lba = d.lba
          /\ e.word = d.word /\ e.failed = d.failed
  BY Zenon DEF Drives
<1>4. LET e == [d EXCEPT !.bsy = FALSE, !.drq = TRUE]
      IN  /\ e \in Drives /\ ~e.bsy /\ e.drq /\ e.cmd = d.cmd /\ e.lba = d.lba
          /\ e.word = d.word /\ e.failed = d.failed
  BY Zenon DEF Drives
<1>5. "none" \in Ops
  BY DEF Ops
<1>6. LET e == [d EXCEPT !.bsy = FALSE, !.cmd = "none"]
      IN  /\ e \in Drives /\ ~e.bsy /\ e.drq = d.drq /\ e.cmd = "none"
          /\ e.word = d.word /\ e.failed = d.failed
  BY <1>5, Zenon DEF Drives
<1>7. LET e == [d EXCEPT !.bsy = FALSE, !.failed = TRUE, !.cmd = "none"]
      IN  e \in Drives /\ ~e.bsy /\ e.drq = d.drq /\ e.cmd = "none" /\ e.failed
  BY <1>5, Zenon DEF Drives
<1> QED
  BY <1>3, <1>4, <1>6, <1>7, Zenon

\* One word moved by a drive that has it to move.
LEMMA MovedFields ==
  ASSUME dev \in Drives, dev.drq, ~dev.bsy, dev.cmd \in {"read", "write"}, dev.word < Words
  PROVE  /\ Moved \in Drives /\ Moved.word = dev.word + 1
         /\ Moved.failed = dev.failed /\ Moved.lba = dev.lba
         /\ Moved.drq = (dev.word + 1 < Words)
         /\ dev.word + 1 < Words => ~Moved.bsy /\ Moved.cmd = dev.cmd
         /\ dev.word + 1 = Words /\ dev.cmd = "read" => ~Moved.bsy /\ Moved.cmd = "none"
         /\ dev.word + 1 = Words /\ dev.cmd = "write" => Moved.bsy /\ Moved.cmd = "write"
<1> DEFINE n == dev.word + 1
           q == n < Words
           b == dev.cmd = "write" /\ n = Words
           c == IF dev.cmd = "read" /\ n = Words THEN "none" ELSE dev.cmd
           e == [dev EXCEPT !.word = n, !.drq = q, !.bsy = b, !.cmd = c]
<1>1. Moved = e
  BY DEF Moved
<1>2. n \in 0 .. Words /\ q \in BOOLEAN /\ b \in BOOLEAN /\ c \in Ops
  BY Sizes DEF Drives, Ops
<1> HIDE DEF n, q, b, c
<1>3. /\ e \in Drives /\ e.word = n /\ e.drq = q /\ e.bsy = b /\ e.cmd = c
      /\ e.failed = dev.failed /\ e.lba = dev.lba
  BY <1>2, Zenon DEF Drives
<1> HIDE DEF e
<1>4. n # Words => ~b /\ c = dev.cmd
  BY DEF b, c
<1>5. n = Words => (b <=> dev.cmd = "write")
                   /\ c = (IF dev.cmd = "read" THEN "none" ELSE dev.cmd)
  BY DEF b, c
<1>6. n < Words => n # Words
  BY <1>2, Sizes
<1> QED
  BY <1>1, <1>3, <1>4, <1>5, <1>6 DEF n, q

\* A call begins.
LEMMA ReadStarts ==
  ASSUME AtaInv, NEW lba \in Nat, NEW n \in 1 .. MaxCount, ReadLbas(lba, n), lba + n <= Reach
  PROVE  AtaInv'
<1>1. /\ pc = "idle" /\ pc' = "ready"
      /\ call' = [op |-> "read", lba |-> lba, count |-> n, value |-> 0, i |-> 0]
      /\ buffer' = [k \in DOMAIN buffer |-> Junk]
      /\ word' = word /\ dev' = dev /\ disk' = disk
  BY DEF ReadLbas
<1>2. call' \in Calls /\ n \in Nat
  BY <1>1, Sizes DEF Calls, Ops
<1>3. buffer' \in [0 .. MaxCount * Words - 1 -> WordSet]
  <2>1. DOMAIN buffer = 0 .. MaxCount * Words - 1 /\ Junk \in WordSet
    BY DEF AtaInv, AtaTypeInv, WordSet
  <2> QED
    BY <1>1, <2>1
<1>4. AtaTypeInv'
  BY <1>1, <1>2, <1>3 DEF AtaInv, AtaTypeInv, DriverAt
<1>5. CallInv'
  BY <1>1, <1>2 DEF CallInv
<1>6. DriveInv'
  BY <1>1 DEF AtaInv, DriveInv, Quiet
<1>7. BufferInv'
  BY <1>1 DEF BufferInv
<1> QED
  BY <1>4, <1>5, <1>6, <1>7 DEF AtaInv

LEMMA WriteStarts ==
  ASSUME AtaInv, NEW lba \in Nat, NEW v \in Values, Write28(lba, v)
  PROVE  AtaInv'
<1>1. /\ pc = "idle" /\ pc' = "ready"
      /\ call' = [op |-> "write", lba |-> lba, count |-> 1, value |-> v, i |-> 0]
      /\ buffer' = buffer /\ word' = word /\ dev' = dev /\ disk' = disk
  BY DEF Write28
<1>2. call' \in Calls
  BY <1>1 DEF Calls, Ops
<1>3. AtaTypeInv'
  BY <1>1, <1>2 DEF AtaInv, AtaTypeInv, DriverAt
<1>4. CallInv'
  BY <1>1 DEF CallInv
<1>5. DriveInv'
  BY <1>1 DEF AtaInv, DriveInv, Quiet
<1>6. BufferInv'
  BY <1>1 DEF BufferInv
<1> QED
  BY <1>3, <1>4, <1>5, <1>6 DEF AtaInv

\* The sector the driver is at has a number, and for a read it is the one meant.
LEMMA SectorNamed ==
  ASSUME AtaInv
  PROVE  /\ call.lba + call.i \in Nat /\ Lba28(call.lba + call.i) \in 0 .. Reach - 1
         /\ call.op = "read" /\ pc # "idle" =>
              /\ call.i \in 0 .. call.count - 1 /\ call.i \in 0 .. MaxCount - 1
              /\ Lba28(call.lba + call.i) = call.lba + call.i
         /\ call.op = "write" => Lba28(call.lba + call.i) = Lba28(call.lba)
<1>1. call.lba \in Nat /\ call.count \in Nat /\ call.i \in Nat
  BY DEF AtaInv, AtaTypeInv, Calls
<1>2. Lba28(call.lba + call.i) \in 0 .. Reach - 1
  BY <1>1, Sizes
<1>3. ASSUME call.op = "read", pc # "idle"
      PROVE  /\ call.i \in 0 .. call.count - 1 /\ call.i \in 0 .. MaxCount - 1
             /\ Lba28(call.lba + call.i) = call.lba + call.i
  <2>1. call.lba + call.count <= Reach /\ call.count \in 1 .. MaxCount /\ call.i \in 0 .. call.count - 1
    BY <1>3 DEF AtaInv, CallInv
  <2>2. call.lba + call.i \in Nat /\ call.lba + call.i < Reach
    BY <1>1, <2>1, Sizes
  <2> QED
    BY <1>1, <2>1, <2>2, Sizes
<1>4. call.op = "write" => call.i = 0
  BY DEF AtaInv, CallInv
<1> QED
  BY <1>1, <1>2, <1>3, <1>4

\* Polls and the command leave the words that were read.
LEMMA PollsKeep ==
  ASSUME AtaInv, WaitReady \/ Command \/ WaitBusy \/ WaitDrq \/ Flush \/ WaitFlush
  PROVE  AtaInv'
<1>1. /\ AtaTypeInv /\ CallInv /\ DriveInv /\ BufferInv
      /\ call' = call /\ buffer' = buffer /\ disk' = disk /\ pc # "idle"
      /\ call.op \in {"read", "write"}
  BY DEF AtaInv, CallInv, WaitReady, Command, WaitBusy, WaitDrq, Flush, WaitFlush
<1>2. CASE Command
  <2>1. pc = "command" /\ pc' = "busy" /\ word' = 0 /\ ~dev.bsy
    BY <1>1, <1>2 DEF Command, DriveInv, Quiet
  <2>2. /\ dev' \in Drives /\ ~dev'.drq /\ ~dev'.bsy /\ dev'.word = 0
        /\ dev'.cmd = call.op /\ dev'.lba = Lba28(call.lba + call.i)
    <3> DEFINE o == call.op
               l == Lba28(call.lba + call.i)
    <3>1. dev' = [dev EXCEPT !.drq = FALSE, !.failed = FALSE, !.word = 0, !.cmd = o, !.lba = l]
      BY <1>2, <2>1 DEF Command
    <3>2. o \in Ops /\ l \in 0 .. Reach - 1 /\ dev \in Drives
      BY <1>1, SectorNamed DEF AtaTypeInv, Ops
    <3> HIDE DEF o, l
    <3> DEFINE e == [dev EXCEPT !.drq = FALSE, !.failed = FALSE, !.word = 0, !.cmd = o, !.lba = l]
    <3>3. e \in Drives /\ ~e.drq /\ e.bsy = dev.bsy /\ e.word = 0 /\ e.cmd = o /\ e.lba = l
      <4>1. 0 \in 0 .. Words
        BY Sizes
      <4> QED
        BY <3>2, <4>1, Zenon DEF Drives
    <3>4. dev' = e
      BY <3>1
    <3> HIDE DEF e
    <3> QED
      BY <2>1, <3>3, <3>4 DEF o, l
  <2>3. AtaTypeInv'
    BY <1>1, <2>1, <2>2, Sizes DEF AtaTypeInv, DriverAt
  <2>4. CallInv'
    BY <1>1, <2>1 DEF CallInv
  <2>5. DriveInv'
    BY <1>1, <2>1, <2>2 DEF DriveInv, Serving
  <2>6. BufferInv'
    BY <1>1, <2>1 DEF BufferInv, Taken
  <2> QED
    BY <2>3, <2>4, <2>5, <2>6 DEF AtaInv
<1>3. CASE WaitReady \/ WaitBusy \/ WaitDrq \/ Flush \/ WaitFlush
  <2>1. /\ dev' = dev /\ word' = word
        /\ \/ pc = "ready" /\ pc' = "command"
           \/ pc = "busy" /\ pc' = "drq"
           \/ pc = "drq" /\ pc' = "data" /\ dev.drq
           \/ pc = "data" /\ pc' = "flush" /\ call.op = "write" /\ word = Words
           \/ pc = "flush" /\ pc' = "idle" /\ ~dev.bsy
    BY <1>3 DEF WaitReady, WaitBusy, WaitDrq, Flush, WaitFlush, NotBusy, SeesDrq
  <2>2. AtaTypeInv'
    BY <1>1, <2>1 DEF AtaTypeInv, DriverAt
  <2>3. CallInv'
    BY <1>1, <2>1 DEF CallInv
  <2>4. DriveInv'
    BY <1>1, <2>1, Sizes DEF DriveInv, Serving, Quiet, Landed
  <2>5. BufferInv'
    BY <1>1, <2>1, Sizes DEF BufferInv, Taken, DriveInv
  <2> QED
    BY <2>2, <2>3, <2>4, <2>5 DEF AtaInv
<1> QED
  BY <1>2, <1>3

\* A word of a write.
LEMMA OutWordKeeps ==
  ASSUME AtaInv, OutWord
  PROVE  AtaInv'
<1>1. /\ AtaTypeInv /\ CallInv /\ DriveInv /\ BufferInv
      /\ call' = call /\ buffer' = buffer /\ disk' = disk /\ pc = "data" /\ pc' = pc
      /\ call.op = "write" /\ word < Words /\ word' = word + 1 /\ dev' = Moved
  BY DEF AtaInv, OutWord
<1>2. Serving /\ dev.word = word /\ dev.drq /\ ~dev.bsy /\ dev.cmd = "write" /\ dev \in Drives
  BY <1>1 DEF DriveInv, Serving, AtaTypeInv
<1>3. /\ dev' \in Drives /\ dev'.word = word + 1 /\ dev'.lba = dev.lba
      /\ dev'.drq = (word + 1 < Words)
      /\ word + 1 < Words => ~dev'.bsy /\ dev'.cmd = "write"
      /\ word + 1 = Words => dev'.bsy /\ dev'.cmd = "write"
  BY <1>1, <1>2, MovedFields
<1>4. word' \in 0 .. Words
  BY <1>1, Sizes DEF AtaTypeInv
<1>5. AtaTypeInv'
  BY <1>1, <1>3, <1>4 DEF AtaTypeInv
<1>6. CallInv'
  BY <1>1 DEF CallInv
<1>7. DriveInv'
  BY <1>1, <1>2, <1>3, <1>4, Sizes DEF DriveInv, Serving
<1>8. BufferInv'
  BY <1>1 DEF BufferInv
<1> QED
  BY <1>5, <1>6, <1>7, <1>8 DEF AtaInv

\* A word of a read goes to its place, and to no other's.
LEMMA InWordKeeps ==
  ASSUME AtaInv, InWord
  PROVE  AtaInv'
<1>1. /\ AtaTypeInv /\ CallInv /\ DriveInv /\ BufferInv
      /\ call' = call /\ disk' = disk /\ pc = "data" /\ pc' = pc
      /\ call.op = "read" /\ word < Words /\ word' = word + 1 /\ dev' = Moved
  BY DEF AtaInv, InWord
<1>2. Serving /\ dev.word = word /\ dev.drq /\ ~dev.bsy /\ dev.cmd = "read" /\ dev \in Drives
  BY <1>1 DEF DriveInv, Serving, AtaTypeInv
<1>3. /\ dev' \in Drives /\ dev'.word = word + 1 /\ dev'.lba = dev.lba
      /\ dev'.drq = (word + 1 < Words)
      /\ word + 1 < Words => ~dev'.bsy /\ dev'.cmd = "read"
      /\ word + 1 = Words => ~dev'.bsy /\ dev'.cmd = "none"
  BY <1>1, <1>2, MovedFields
<1>4. word \in 0 .. Words - 1 /\ word' \in 0 .. Words
  BY <1>1, Sizes DEF AtaTypeInv
<1>5. /\ call.i \in 0 .. MaxCount - 1 /\ dev.lba = call.lba + call.i
      /\ call.i \in Nat /\ dev.lba \in 0 .. Reach - 1
  BY <1>1, <1>2, SectorNamed, Sizes DEF Serving, Drives
<1> DEFINE place == call.i * Words + word
           value == Word(call.lba + call.i, disk[call.lba + call.i], word)
<1>6. place \in 0 .. MaxCount * Words - 1
  BY <1>4, <1>5, Sizes, CellPlace
<1>7. value \in WordSet
  BY <1>1, <1>4, <1>5 DEF WordSet, Word, AtaTypeInv
<1>8. buffer' = [buffer EXCEPT ![place] = value]
  BY <1>2, <1>5 DEF InWord, At
<1>9. AtaTypeInv'
  BY <1>1, <1>3, <1>4, <1>6, <1>7, <1>8 DEF AtaTypeInv
<1>10. CallInv'
  BY <1>1 DEF CallInv
<1>11. DriveInv'
  BY <1>1, <1>2, <1>3, <1>4, Sizes DEF DriveInv, Serving, Quiet
<1>12. buffer'[place] = value /\ \A x \in 0 .. MaxCount * Words - 1 : x # place => buffer'[x] = buffer[x]
  BY <1>1, <1>6, <1>8 DEF AtaTypeInv
<1>13. ASSUME NEW i \in 0 .. call.i, NEW k \in 0 .. Words - 1, i # call.i \/ k # word, Taken(i, k)
       PROVE  Taken(i, k)'
  <2>1. i \in 0 .. MaxCount - 1 /\ i \in Nat
    BY <1>5, Sizes
  <2>2. i * Words + k \in 0 .. MaxCount * Words - 1
    BY <2>1, Sizes, CellPlace
  <2>3. i * Words + k # place
    BY <1>4, <1>5, <1>13, <2>1, Sizes, CellsApart
  <2> QED
    BY <1>1, <1>12, <1>13, <2>2, <2>3 DEF Taken
<1>14. ASSUME NEW i \in Nat, NEW k \in Nat, i = call.i, k = word
       PROVE  Taken(i, k)'
  BY <1>1, <1>12, <1>14 DEF Taken
<1>15. ASSUME NEW i \in 0 .. call.i - 1, NEW k \in 0 .. Words - 1
       PROVE  Taken(i, k)'
  <2>1. Taken(i, k) /\ i \in 0 .. call.i /\ i # call.i
    BY <1>1, <1>5 DEF BufferInv
  <2> QED
    BY <1>13, <2>1
<1>16. ASSUME NEW i \in Nat, i = call.i, NEW k \in 0 .. word
       PROVE  Taken(i, k)'
  <2>1. CASE k = word
    BY <1>4, <1>14, <1>16, <2>1
  <2>2. CASE k # word
    <3>1. k \in 0 .. word - 1 /\ k \in 0 .. Words - 1 /\ i \in 0 .. call.i
      BY <1>4, <1>16, <2>2, Sizes
    <3>2. Taken(i, k)
      BY <1>1, <1>16, <3>1 DEF BufferInv
    <3> QED
      BY <1>13, <2>2, <3>1, <3>2
  <2> QED
    BY <2>1, <2>2
<1>17. word' - 1 = word
  BY <1>1, <1>4
<1>18. BufferInv'
  <2>1. \A k \in 0 .. word' - 1 : Taken(call.i, k)'
    BY <1>1, <1>5, <1>16, <1>17
  <2> QED
    BY <1>1, <1>15, <2>1 DEF BufferInv
<1> QED
  BY <1>9, <1>10, <1>11, <1>18 DEF AtaInv

\* The end of a sector.
LEMMA SectorKeeps ==
  ASSUME AtaInv, SectorRead
  PROVE  AtaInv'
<1>1. /\ AtaTypeInv /\ CallInv /\ DriveInv /\ BufferInv
      /\ pc = "data" /\ call.op = "read" /\ word = Words
      /\ call' = [call EXCEPT !.i = @ + 1]
      /\ pc' = (IF call.i + 1 < call.count THEN "ready" ELSE "idle")
      /\ word' = word /\ buffer' = buffer /\ dev' = dev /\ disk' = disk
  BY DEF AtaInv, SectorRead
<1>2. /\ call.i \in 0 .. call.count - 1 /\ call.i \in Nat /\ call.i + 1 \in Nat /\ call.count \in Nat
      /\ call \in Calls
  BY <1>1, SectorNamed DEF AtaTypeInv, Calls
<1> DEFINE n == call.i + 1
<1>3. call' \in Calls /\ call'.i = n /\ call'.op = "read" /\ call'.lba = call.lba
      /\ call'.count = call.count
  <2>1. call' = [call EXCEPT !.i = n] /\ n \in Nat
    BY <1>1, <1>2
  <2> HIDE DEF n
  <2>2. call' \in Calls /\ call'.i = n /\ call'.op = call.op /\ call'.lba = call.lba
        /\ call'.count = call.count
    BY <1>2, <2>1, Zenon DEF Calls
  <2> QED
    BY <1>1, <2>2
<1>4. AtaTypeInv'
  BY <1>1, <1>3 DEF AtaTypeInv, DriverAt
<1>5. CallInv'
  BY <1>1, <1>2, <1>3 DEF CallInv
<1>6. DriveInv'
  BY <1>1, <1>3 DEF DriveInv, Quiet
<1>7. ASSUME NEW i \in 0 .. n - 1, NEW k \in 0 .. Words - 1
      PROVE  Taken(i, k)
  <2>1. CASE i = call.i
    BY <1>1, <2>1 DEF BufferInv
  <2>2. CASE i # call.i
    <3>1. i \in 0 .. call.i - 1
      BY <1>2, <2>2
    <3> QED
      BY <1>1, <3>1 DEF BufferInv
  <2> QED
    BY <2>1, <2>2
<1>8. BufferInv'
  BY <1>1, <1>3, <1>7 DEF BufferInv, Taken
<1> QED
  BY <1>4, <1>5, <1>6, <1>8 DEF AtaInv

LEMMA DriverKeeps == AtaInv /\ Driver => AtaInv'
BY PollsKeep, OutWordKeeps, InWordKeeps, SectorKeeps DEF Driver

\* The drive's own steps.
LEMMA DriveKeeps ==
  ASSUME AtaInv, Drive
  PROVE  AtaInv'
<1>1. /\ AtaTypeInv /\ CallInv /\ DriveInv /\ BufferInv /\ dev \in Drives
      /\ pc' = pc /\ call' = call /\ word' = word /\ buffer' = buffer
  BY DEF AtaInv, AtaTypeInv, Drive, DevStarts, DevReady, DevWritten, DevFails
<1>2. CallInv'
  BY <1>1 DEF CallInv
<1>3. CASE DevStarts
  <2>1. /\ ~dev.bsy /\ ~dev.drq /\ dev.cmd # "none" /\ disk' = disk
        /\ dev' \in Drives /\ dev'.bsy /\ dev'.drq = dev.drq /\ dev'.cmd = dev.cmd
        /\ dev'.lba = dev.lba /\ dev'.word = dev.word /\ dev'.failed = dev.failed
    BY <1>1, <1>3, DriveFields DEF DevStarts
  <2>2. AtaTypeInv' /\ BufferInv'
    BY <1>1, <2>1 DEF AtaTypeInv, BufferInv, Taken
  <2>3. DriveInv'
    BY <1>1, <2>1 DEF DriveInv, Quiet, Serving, Landed
  <2> QED
    BY <1>2, <2>2, <2>3 DEF AtaInv
<1>4. CASE DevReady
  <2>1. /\ dev.bsy /\ dev.word = 0 /\ dev.cmd \in {"read", "write"} /\ disk' = disk
        /\ dev' \in Drives /\ ~dev'.bsy /\ dev'.drq /\ dev'.cmd = dev.cmd
        /\ dev'.lba = dev.lba /\ dev'.word = dev.word /\ dev'.failed = dev.failed
    BY <1>1, <1>4, DriveFields DEF DevReady
  <2>2. AtaTypeInv' /\ BufferInv'
    BY <1>1, <2>1 DEF AtaTypeInv, BufferInv, Taken
  <2>3. DriveInv'
    BY <1>1, <2>1, Sizes DEF DriveInv, Quiet, Serving, Landed
  <2> QED
    BY <1>2, <2>2, <2>3 DEF AtaInv
<1>5. CASE DevWritten
  <2>1. /\ dev.bsy /\ dev.word = Words /\ dev.cmd = "write"
        /\ disk' = [disk EXCEPT ![dev.lba] = call.value]
        /\ dev' \in Drives /\ ~dev'.bsy /\ dev'.drq = dev.drq /\ dev'.cmd = "none"
        /\ dev'.failed = dev.failed
    BY <1>1, <1>5, DriveFields DEF DevWritten
  <2>2. pc = "flush" \/ (pc = "data" /\ word = Words)
    BY <1>1, <2>1, Sizes DEF DriveInv, Quiet, AtaTypeInv, DriverAt
  <2>3. ~(pc = "data" /\ call.op = "read") /\ call.op \in {"read", "write"}
    BY <1>1, <2>1, <2>2 DEF DriveInv, Quiet, CallInv
  <2>4. call.op = "write" /\ Serving /\ ~dev.drq
    BY <1>1, <2>1, <2>2, <2>3 DEF DriveInv, Quiet, CallInv
  <2>5. call.op = "write" /\ dev.lba = Lba28(call.lba) /\ dev.lba \in 0 .. Reach - 1
        /\ call.value \in Values
    BY <1>1, <2>4, SectorNamed DEF Serving, CallInv, Drives, AtaTypeInv, Calls
  <2>6. disk' \in [0 .. Reach - 1 -> Values] /\ disk'[Lba28(call.lba)] = call.value
    BY <1>1, <2>1, <2>5 DEF AtaTypeInv
  <2>7. AtaTypeInv' /\ BufferInv'
    BY <1>1, <2>1, <2>5, <2>6 DEF AtaTypeInv, BufferInv
  <2>8. DriveInv'
    BY <1>1, <2>1, <2>4, <2>5, <2>6 DEF DriveInv, Quiet, Serving, Landed
  <2> QED
    BY <1>2, <2>7, <2>8 DEF AtaInv
<1>6. CASE DevFails
  <2>1. /\ dev.bsy /\ disk' = disk
        /\ dev' \in Drives /\ ~dev'.bsy /\ dev'.drq = dev.drq /\ dev'.cmd = "none" /\ dev'.failed
    BY <1>1, <1>6, DriveFields DEF DevFails
  <2>2. AtaTypeInv' /\ BufferInv'
    BY <1>1, <2>1 DEF AtaTypeInv, BufferInv, Taken
  <2>3. DriveInv'
    BY <1>1, <2>1 DEF DriveInv, Quiet, Serving, Landed
  <2> QED
    BY <1>2, <2>2, <2>3 DEF AtaInv
<1> QED
  BY <1>3, <1>4, <1>5, <1>6 DEF Drive

LEMMA AtaStays == AtaInv /\ UNCHANGED vars => AtaInv'
BY DEF AtaInv, AtaTypeInv, CallInv, DriveInv, BufferInv, Quiet, Serving, Landed, Taken, vars

LEMMA AtaStarts == FsInit => AtaInv
<1> SUFFICES ASSUME FsInit PROVE AtaInv
  OBVIOUS
<1>1. /\ pc = "idle" /\ word = 0
      /\ call = [op |-> "none", lba |-> 0, count |-> 0, value |-> 0, i |-> 0]
      /\ buffer = [k \in 0 .. MaxCount * Words - 1 |-> Junk]
      /\ dev = [bsy |-> FALSE, drq |-> FALSE, failed |-> FALSE,
                cmd |-> "none", lba |-> 0, word |-> 0]
      /\ disk = [s \in 0 .. Reach - 1 |-> 0]
  BY DEF FsInit, Init
<1>2. call \in Calls
  BY <1>1, Sizes DEF Calls, Ops
<1>3. dev \in Drives
  <2>1. 0 \in 0 .. Reach - 1 /\ 0 \in 0 .. Words /\ "none" \in Ops
    BY Sizes DEF Ops
  <2> QED
    BY <1>1, <2>1 DEF Drives
<1>4. buffer \in [0 .. MaxCount * Words - 1 -> WordSet] /\ disk \in [0 .. Reach - 1 -> Values]
  BY <1>1, Sizes DEF WordSet
<1>5. AtaTypeInv
  <2>1. pc \in DriverAt /\ word \in 0 .. Words
    BY <1>1, Sizes DEF DriverAt
  <2> QED
    BY <1>2, <1>3, <1>4, <2>1 DEF AtaTypeInv
<1> QED
  BY <1>1, <1>5 DEF AtaInv, CallInv, DriveInv, BufferInv, Quiet

-----------------------------------------------------------------------------
(* The image                                                               *)

N == Len(Files)

\* The sizes of a file's parts.
LEMMA FileSizes ==
  /\ N \in Nat /\ FsHdr \in Nat /\ FsHdr >= 1 /\ FileHdr \in Nat /\ FileHdr >= 1
  /\ \A f \in 1 .. N : /\ Files[f].name \in Nat /\ Files[f].name >= 1 /\ Files[f].data \in Nat
                       /\ Total(f) = FileHdr + Files[f].name + Files[f].data
                       /\ Total(f) \in Nat /\ Total(f) >= FileHdr + Files[f].name
<1>1. Files \in Seq([name: Nat \ {0}, data: Nat]) /\ N \in Nat
  BY FsDiskAssumption, LenProperties DEF N
<1>2. FsHdr \in Nat /\ FsHdr >= 1 /\ FileHdr \in Nat /\ FileHdr >= 1
  BY FsDiskAssumption, Sizes DEF LBA_SIZE
<1>3. ASSUME NEW f \in 1 .. N
      PROVE  Files[f].name \in Nat /\ Files[f].name >= 1 /\ Files[f].data \in Nat
  <2>1. Files[f] \in [name: Nat \ {0}, data: Nat]
    BY <1>1, ElementOfSeq DEF N
  <2> QED
    BY <2>1
<1>4. ASSUME NEW f \in 1 .. N
      PROVE  /\ Total(f) = FileHdr + Files[f].name + Files[f].data
             /\ Total(f) \in Nat /\ Total(f) >= FileHdr + Files[f].name
  BY <1>2, <1>3 DEF Total
<1> QED
  BY <1>1, <1>2, <1>3, <1>4

\* The ends of the files are what their recursion says: there is such a function,
\* by a least number of files for which there were none.
LEMMA EndsExist ==
  /\ Ends = [f \in 0 .. N |-> IF f = 0 THEN FsHdr ELSE Ends[f - 1] + Total(f)]
  /\ Ends \in [0 .. N -> Nat]
<1> DEFINE Upto(n) == {g \in [0 .. n -> Nat] :
                         \A f \in 0 .. n : g[f] = IF f = 0 THEN FsHdr ELSE g[f - 1] + Total(f)}
           Bad == {n \in 0 .. N : Upto(n) = {}}
<1>1. Bad = {}
  <2>1. SUFFICES ASSUME Bad # {} PROVE FALSE
    OBVIOUS
  <2>2. Bad \in SUBSET Nat
    BY FileSizes
  <2>3. PICK n \in Bad : \A x \in Bad : n <= x
    BY <2>1, <2>2, Least
  <2>4. n \in 0 .. N /\ n \in Nat /\ Upto(n) = {}
    BY <2>2, <2>3
  <2>5. CASE n = 0
    <3> DEFINE g == [f \in 0 .. n |-> FsHdr]
    <3>1. g \in Upto(n)
      BY <2>5, FileSizes
    <3> QED
      BY <2>4, <3>1
  <2>6. CASE n # 0
    <3>1. n - 1 \in 0 .. N /\ n - 1 \in Nat /\ ~(n <= n - 1) /\ n \in 1 .. N
      BY <2>4, <2>6, FileSizes
    <3>2. n - 1 \notin Bad
      BY <2>3, <3>1
    <3>3. PICK g : g \in Upto(n - 1)
      BY <3>1, <3>2
    <3> DEFINE h == [f \in 0 .. n |-> IF f = n THEN g[n - 1] + Total(n) ELSE g[f]]
    <3>4. g \in [0 .. n - 1 -> Nat]
          /\ \A f \in 0 .. n - 1 : g[f] = IF f = 0 THEN FsHdr ELSE g[f - 1] + Total(f)
      BY <3>3
    <3>5. h \in [0 .. n -> Nat]
      BY <3>1, <3>4, FileSizes
    <3>6. ASSUME NEW f \in 0 .. n
          PROVE  h[f] = IF f = 0 THEN FsHdr ELSE h[f - 1] + Total(f)
      <4>1. CASE f = n
        <5>1. h[n - 1] = g[n - 1]
          BY <3>1
        <5> QED
          BY <2>6, <4>1, <5>1
      <4>2. CASE f # n
        <5>1. f \in 0 .. n - 1 /\ h[f] = g[f]
          BY <2>4, <4>2
        <5>2. f # 0 => f - 1 \in 0 .. n /\ f - 1 # n
          BY <2>4, <5>1
        <5>3. f # 0 => h[f - 1] = g[f - 1]
          BY <5>2
        <5> QED
          BY <3>4, <5>1, <5>3
      <4> QED
        BY <4>1, <4>2
    <3>7. h \in Upto(n)
      BY <3>5, <3>6
    <3> QED
      BY <2>4, <3>7
  <2> QED
    BY <2>5, <2>6
<1>2. N \in 0 .. N
  BY FileSizes
<1>3. PICK g : g \in Upto(N)
  BY <1>1, <1>2
<1>4. g = [f \in 0 .. N |-> IF f = 0 THEN FsHdr ELSE g[f - 1] + Total(f)]
  BY <1>3
<1> HIDE DEF Bad
<1>5. Ends = [f \in 0 .. N |-> IF f = 0 THEN FsHdr ELSE Ends[f - 1] + Total(f)]
  BY <1>4, Zenon DEF Ends, N
<1>6. \A f \in 0 .. N : Ends[f] \in Nat
  <2> DEFINE Odd == {f \in 0 .. N : Ends[f] \notin Nat}
  <2>1. SUFFICES ASSUME Odd # {} PROVE FALSE
    OBVIOUS
  <2>2. Odd \in SUBSET Nat
    BY FileSizes
  <2>3. PICK n \in Odd : \A x \in Odd : n <= x
    BY <2>1, <2>2, Least
  <2>4. Ends[n] = IF n = 0 THEN FsHdr ELSE Ends[n - 1] + Total(n)
    BY <1>5, <2>3
  <2>5. n # 0
    BY <2>3, <2>4, FileSizes
  <2>6. n - 1 \in 0 .. N /\ n \in 1 .. N /\ ~(n <= n - 1)
    BY <2>2, <2>3, <2>5, FileSizes
  <2>7. Ends[n - 1] \in Nat
    BY <2>3, <2>6
  <2> QED
    BY <2>3, <2>4, <2>5, <2>6, <2>7, FileSizes
<1> QED
  BY <1>5, <1>6

\* Each file begins where the one in front of it ends, and the last ends the image.
LEMMA Layout ==
  /\ Ends[0] = FsHdr /\ End = Ends[N] /\ \A f \in 0 .. N : Ends[f] \in Nat
  /\ \A f \in 1 .. N : Offset(f) = Ends[f - 1] /\ Ends[f] = Offset(f) + Total(f)
<1>1. \A f \in 0 .. N : Ends[f] = IF f = 0 THEN FsHdr ELSE Ends[f - 1] + Total(f)
  BY EndsExist
<1>2. 0 \in 0 .. N /\ \A f \in 1 .. N : f \in 0 .. N /\ f # 0
  BY FileSizes
<1> QED
  BY <1>1, <1>2, EndsExist DEF Offset, End, N

\* Files lie in their order.
LEMMA EndsGrow ==
  ASSUME NEW f \in 0 .. N, NEW g \in f .. N
  PROVE  Ends[f] <= Ends[g]
<1> DEFINE Bad == {n \in f .. N : ~(Ends[f] <= Ends[n])}
<1>1. SUFFICES ASSUME Bad # {} PROVE FALSE
  OBVIOUS
<1>2. Bad \in SUBSET Nat
  BY FileSizes
<1>3. PICK n \in Bad : \A x \in Bad : n <= x
  BY <1>1, <1>2, Least
<1>4. n \in f .. N /\ ~(Ends[f] <= Ends[n]) /\ n \in Nat
  BY <1>2, <1>3
<1>5. n # f
  BY <1>4, Layout
<1>6. n - 1 \in f .. N /\ n - 1 \in 0 .. N /\ n \in 1 .. N /\ ~(n <= n - 1)
  BY <1>4, <1>5, FileSizes
<1>7. Ends[f] <= Ends[n - 1]
  BY <1>3, <1>6
<1>8. Ends[n] = Ends[n - 1] + Total(n) /\ Ends[n - 1] \in Nat /\ Total(n) \in Nat /\ Ends[f] \in Nat
  BY <1>6, Layout, FileSizes
<1> QED
  BY <1>4, <1>7, <1>8

\* What lies at each place of a file.
LEMMA CellInFile ==
  ASSUME NEW f \in 1 .. N, NEW r \in Nat, r < Total(f)
  PROVE  /\ Offset(f) + r < End
         /\ CellAt(Offset(f) + r) =
              IF r < FileHdr THEN <<"header", f, r>>
              ELSE IF r < FileHdr + Files[f].name THEN <<"name", f, r - FileHdr>>
              ELSE <<"data", f, r - FileHdr - Files[f].name>>
<1> DEFINE o == Offset(f) + r
           In(g) == Offset(g) <= o /\ o < Offset(g) + Total(g)
<1>1. /\ Offset(f) \in Nat /\ Total(f) \in Nat /\ Offset(f) >= FsHdr
      /\ Ends[f] = Offset(f) + Total(f) /\ Ends[f] <= End /\ End \in Nat
  <2>1. f \in 0 .. N /\ f - 1 \in 0 .. N /\ 0 \in 0 .. N /\ f - 1 \in 0 .. N /\ N \in f .. N
    BY FileSizes
  <2>2. Ends[0] <= Ends[f - 1] /\ Ends[f] <= Ends[N]
    BY <2>1, EndsGrow
  <2> QED
    BY <2>1, <2>2, Layout, FileSizes
<1>2. o \in Nat /\ o < End /\ ~(o < FsHdr) /\ In(f)
  BY <1>1, FileSizes
<1>3. ASSUME NEW g \in 1 .. N, In(g)
      PROVE  g = f
  <2>1. g - 1 \in 0 .. N /\ g \in 0 .. N /\ f - 1 \in 0 .. N /\ f \in 0 .. N
    BY FileSizes
  <2>2. /\ Offset(g) = Ends[g - 1] /\ Ends[g] = Offset(g) + Total(g)
        /\ Offset(f) = Ends[f - 1] /\ Ends[f] = Offset(f) + Total(f)
        /\ Ends[g] \in Nat /\ Ends[g - 1] \in Nat /\ Ends[f] \in Nat /\ Ends[f - 1] \in Nat
    BY <2>1, Layout
  <2>3. CASE g < f
    <3>1. f - 1 \in g .. N
      BY <2>1, <2>3
    <3>2. Ends[g] <= Ends[f - 1]
      BY <2>1, <3>1, EndsGrow
    <3> QED
      BY <1>2, <1>3, <2>2, <3>2
  <2>4. CASE f < g
    <3>1. g - 1 \in f .. N
      BY <2>1, <2>4
    <3>2. Ends[f] <= Ends[g - 1]
      BY <2>1, <3>1, EndsGrow
    <3> QED
      BY <1>2, <1>3, <2>2, <3>2
  <2> QED
    BY <2>3, <2>4
<1>4. FileAt(o) = f
  BY <1>2, <1>3 DEF FileAt, N
<1>5. o - Offset(f) = r
  BY <1>1
<1> HIDE DEF o
<1>6. CellAt(o) = IF o - Offset(f) < FileHdr THEN <<"header", f, o - Offset(f)>>
                  ELSE IF o - Offset(f) < FileHdr + Files[f].name
                       THEN <<"name", f, o - Offset(f) - FileHdr>>
                       ELSE <<"data", f, o - Offset(f) - FileHdr - Files[f].name>>
  <2>1. ~(o < 0 \/ o >= End) /\ ~(o < FsHdr)
    BY <1>1, <1>2, FileSizes
  <2> QED
    BY <1>4, <2>1 DEF CellAt
<1> QED
  BY <1>2, <1>5, <1>6 DEF o

\* And in the image's own header.
LEMMA CellInHeader ==
  ASSUME NEW r \in 0 .. FsHdr - 1
  PROVE  r < End /\ CellAt(r) = <<"fs", 0, r>>
<1>1. 0 \in 0 .. N /\ N \in 0 .. N
  BY FileSizes
<1>2. FsHdr <= End /\ End \in Nat
  BY <1>1, EndsGrow, Layout
<1> QED
  BY <1>2, FileSizes DEF CellAt

CellsOf(base, n) == [k \in 1 .. n |-> CellAt(base + k - 1)]

\* A file's header, name and data, as they lie in the image, and the image's header.
LEMMA PartsOf ==
  /\ CellsOf(0, FsHdr) = Part("fs", 0, FsHdr)
  /\ \A f \in 1 .. N :
       /\ CellsOf(Offset(f), FileHdr) = Part("header", f, FileHdr)
       /\ CellsOf(Offset(f) + FileHdr, Files[f].name) = Part("name", f, Files[f].name)
       /\ CellsOf(Offset(f) + FileHdr + Files[f].name, Files[f].data)
            = Part("data", f, Files[f].data)
<1>1. CellsOf(0, FsHdr) = Part("fs", 0, FsHdr)
  <2>1. ASSUME NEW k \in 1 .. FsHdr
        PROVE  CellAt(0 + k - 1) = <<"fs", 0, k - 1>>
    <3>1. k - 1 \in 0 .. FsHdr - 1 /\ 0 + k - 1 = k - 1
      BY FileSizes
    <3> QED
      BY <3>1, CellInHeader
  <2> QED
    BY <2>1 DEF CellsOf, Part
<1>2. ASSUME NEW f \in 1 .. N
      PROVE  /\ CellsOf(Offset(f), FileHdr) = Part("header", f, FileHdr)
             /\ CellsOf(Offset(f) + FileHdr, Files[f].name) = Part("name", f, Files[f].name)
             /\ CellsOf(Offset(f) + FileHdr + Files[f].name, Files[f].data)
                  = Part("data", f, Files[f].data)
  <2>1. f - 1 \in 0 .. N /\ f \in 0 .. N
    BY FileSizes
  <2>2. Offset(f) \in Nat
    BY <2>1, Layout
  <2> DEFINE a == Files[f].name
             d == Files[f].data
  <2>3. /\ a \in Nat /\ a >= 1 /\ d \in Nat /\ FileHdr \in Nat /\ FileHdr >= 1
        /\ Total(f) = FileHdr + a + d
    BY FileSizes
  <2> HIDE DEF a, d
  <2>4. ASSUME NEW k \in 1 .. FileHdr
        PROVE  CellAt(Offset(f) + k - 1) = <<"header", f, k - 1>>
    <3>1. k - 1 \in Nat /\ k - 1 < Total(f) /\ k - 1 < FileHdr
          /\ Offset(f) + (k - 1) = Offset(f) + k - 1
      BY <2>2, <2>3
    <3> QED
      BY <3>1, CellInFile
  <2>5. ASSUME NEW k \in 1 .. a
        PROVE  CellAt(Offset(f) + FileHdr + k - 1) = <<"name", f, k - 1>>
    <3> DEFINE r == FileHdr + k - 1
    <3>1. r \in Nat /\ r < Total(f) /\ ~(r < FileHdr) /\ r < FileHdr + a
          /\ Offset(f) + r = Offset(f) + FileHdr + k - 1 /\ r - FileHdr = k - 1
      BY <2>2, <2>3
    <3> HIDE DEF r
    <3> QED
      BY <3>1, CellInFile DEF a
  <2>6. ASSUME NEW k \in 1 .. d
        PROVE  CellAt(Offset(f) + FileHdr + a + k - 1) = <<"data", f, k - 1>>
    <3> DEFINE r == FileHdr + a + k - 1
    <3>1. r \in Nat /\ r < Total(f) /\ ~(r < FileHdr) /\ ~(r < FileHdr + a)
          /\ Offset(f) + r = Offset(f) + FileHdr + a + k - 1 /\ r - FileHdr - a = k - 1
      BY <2>2, <2>3
    <3> HIDE DEF r
    <3> QED
      BY <3>1, CellInFile DEF a
  <2> QED
    BY <2>4, <2>5, <2>6 DEF CellsOf, Part, a, d
<1> QED
  BY <1>1, <1>2

\* A header's bytes are one file's, and so are a name's.
LEMMA HeaderSaysWhose ==
  ASSUME NEW f \in 1 .. N
  PROVE  HeadersIn(Part("header", f, FileHdr)) = {Header(f)}
<1> DEFINE bytes == Part("header", f, FileHdr)
           whole == {g \in 1 .. N : bytes = Part("header", g, FileHdr)}
<1>1. ASSUME NEW g \in 1 .. N, bytes = Part("header", g, FileHdr)
      PROVE  g = f
  <2>1. 1 \in 1 .. FileHdr
    BY FileSizes
  <2>2. bytes[1] = <<"header", f, 1 - 1>> /\ Part("header", g, FileHdr)[1] = <<"header", g, 1 - 1>>
    BY <2>1 DEF Part
  <2> QED
    BY <1>1, <2>2
<1>2. whole = {f}
  BY <1>1
<1> HIDE DEF whole, bytes
<1>3. HeadersIn(bytes) = IF whole # {} THEN {Header(g) : g \in whole}
                         ELSE {[file |-> 0, size |-> s, name |-> n] : s \in Guesses, n \in Guesses}
  BY DEF HeadersIn, whole, N
<1> QED
  BY <1>2, <1>3 DEF bytes

LEMMA NameSaysWhose ==
  ASSUME NEW f \in 1 .. N, NEW g \in 1 .. N,
         Part("name", f, Files[f].name) = Part("name", g, Files[g].name)
  PROVE  f = g
<1>1. 1 \in 1 .. Files[f].name /\ 1 \in 1 .. Files[g].name
  BY FileSizes
<1>2. /\ Part("name", f, Files[f].name)[1] = <<"name", f, 1 - 1>>
      /\ Part("name", g, Files[g].name)[1] = <<"name", g, 1 - 1>>
  BY <1>1 DEF Part
<1> QED
  BY <1>2

\* What is read from one place and what is read behind it are what is read from there.
CellSet == {CellAt(o) : o \in Nat}
LEMMA CellsJoin ==
  ASSUME NEW base \in Nat, NEW n \in Nat, NEW m \in Nat
  PROVE  /\ CellsOf(base, n) \in Seq(CellSet)
         /\ CellsOf(base, n) \o CellsOf(base + n, m) = CellsOf(base, n + m)
<1>1. ASSUME NEW b \in Nat, NEW c \in Nat
      PROVE  CellsOf(b, c) \in Seq(CellSet) /\ Len(CellsOf(b, c)) = c
  <2>1. ASSUME NEW k \in 1 .. c
        PROVE  CellAt(b + k - 1) \in CellSet
    <3>1. b + k - 1 \in Nat
      OBVIOUS
    <3> QED
      BY <3>1 DEF CellSet
  <2>2. CellsOf(b, c) \in [1 .. c -> CellSet]
    BY <2>1 DEF CellsOf
  <2> QED
    BY <2>2, SeqDef, LenProperties
<1> DEFINE a == CellsOf(base, n)
           b == CellsOf(base + n, m)
           s == CellsOf(base, n + m)
<1>2. /\ a \in Seq(CellSet) /\ Len(a) = n
      /\ b \in Seq(CellSet) /\ Len(b) = m
      /\ s \in Seq(CellSet) /\ Len(s) = n + m
  <2>1. base + n \in Nat /\ n + m \in Nat
    OBVIOUS
  <2> QED
    BY <1>1, <2>1
<1>3. /\ a \o b \in Seq(CellSet) /\ Len(a \o b) = n + m
      /\ \A i \in 1 .. n + m : (a \o b)[i] = IF i <= n THEN a[i] ELSE b[i - n]
  <2> HIDE DEF a, b
  <2> QED
    BY <1>2, ConcatProperties
<1>4. ASSUME NEW i \in 1 .. n + m
      PROVE  (IF i <= n THEN a[i] ELSE b[i - n]) = s[i]
  <2>1. s[i] = CellAt(base + i - 1)
    BY DEF CellsOf
  <2>2. CASE i <= n
    BY <2>1, <2>2 DEF CellsOf
  <2>3. CASE ~(i <= n)
    <3>1. i - n \in 1 .. m /\ base + n + (i - n) - 1 = base + i - 1
      BY <2>3
    <3> QED
      BY <2>1, <2>3, <3>1 DEF CellsOf
  <2> QED
    BY <2>2, <2>3
<1> HIDE DEF a, b, s
<1>5. a \o b = s
  BY <1>2, <1>3, <1>4, SeqEqual
<1> QED
  BY <1>2, <1>5 DEF a, b, s

-----------------------------------------------------------------------------
(* The places of the image on the disk                                     *)

\* Where an offset of the image is on the disk: its sector and the place in it.
LEMMA Address ==
  ASSUME NEW o \in Nat
  PROVE  /\ Lba(o) = FsStart + (o \div Words) /\ Lba(o) \in Nat /\ Lba(o) >= FsStart
         /\ (START + o) % Words = o % Words /\ o % Words \in 0 .. Words - 1
         /\ (Lba(o) - FsStart) * Words + (o % Words) = o
<1>1. FsStart \in Nat /\ Words \in Nat \ {0}
  BY FsDiskAssumption, Sizes
<1>2. (FsStart * Words + o) \div Words = FsStart + (o \div Words)
      /\ (FsStart * Words + o) % Words = o % Words
  BY <1>1, DivRows
<1>3. o \div Words \in Nat /\ o % Words \in 0 .. Words - 1 /\ o = (o \div Words) * Words + (o % Words)
  BY <1>1, DivBound
<1>4. Lba(o) = FsStart + (o \div Words) /\ (START + o) % Words = o % Words
  BY <1>2 DEF Lba, START, LBA_SIZE
<1> DEFINE q == o \div Words
<1> HIDE DEF q
<1>5. Lba(o) = FsStart + q /\ q \in Nat
  BY <1>3, <1>4 DEF q
<1>6. Lba(o) - FsStart = q /\ Lba(o) \in Nat /\ Lba(o) >= FsStart
  BY <1>1, <1>5
<1> QED
  BY <1>3, <1>4, <1>6 DEF q

\* The sectors some bytes of the image are in are the image's.
LEMMA InImage ==
  ASSUME NEW o \in Nat, NEW n \in Nat, o + n <= End, End \in Nat
  PROVE  /\ SectorsUpTo(n + (o % Words)) \in Nat
         /\ Lba(o) + SectorsUpTo(n + (o % Words)) <= FsStart + SectorsUpTo(End)
<1> DEFINE q == o \div Words
           r == o % Words
           x == n + r + Words - 1
           y == End + Words - 1
<1>1. Words \in Nat \ {0} /\ FsStart \in Nat
  BY FsDiskAssumption, Sizes
<1>2. q \in Nat /\ r \in 0 .. Words - 1 /\ o = q * Words + r /\ Lba(o) = FsStart + q
  BY <1>1, DivBound, Address
<1> HIDE DEF q, r
<1>3. x \in Nat /\ y \in Nat
  BY <1>1, <1>2
<1>4. q * Words \in Nat
  BY <1>1, <1>2
<1>5. q * Words + x <= y /\ q * Words + x \in Nat
  BY <1>1, <1>2, <1>3, <1>4
<1>6. SectorsUpTo(n + r) = x \div Words /\ SectorsUpTo(End) = y \div Words
  BY DEF SectorsUpTo, LBA_SIZE
<1> HIDE DEF x, y
<1>7. (q * Words + x) \div Words = q + (x \div Words)
  BY <1>1, <1>2, <1>3, DivRows
<1>8. x \div Words \in Nat /\ y \div Words \in Nat
  BY <1>1, <1>3, DivBound
<1>9. (q * Words + x) \div Words <= y \div Words
  BY <1>1, <1>3, <1>5, DivMono
<1>10. q + SectorsUpTo(n + r) <= SectorsUpTo(End) /\ SectorsUpTo(n + r) \in Nat
       /\ SectorsUpTo(End) \in Nat
  BY <1>6, <1>7, <1>8, <1>9
<1> QED
  BY <1>1, <1>2, <1>10 DEF r

\* One byte is in one sector.
LEMMA OneSector ==
  ASSUME NEW o \in Nat
  PROVE  SectorsUpTo(1 + (o % Words)) = 1
<1> DEFINE r == o % Words
<1>1. Words \in Nat \ {0}
  BY Sizes
<1>2. r \in 0 .. Words - 1
  BY <1>1, DivBound
<1> HIDE DEF r
<1>3. r \in Nat /\ r \div Words = 0
  BY <1>1, <1>2
<1>4. (1 * Words + r) \div Words = 1 + (r \div Words)
  BY <1>1, <1>3, DivRows
<1>5. 1 + r + Words - 1 = 1 * Words + r
  BY <1>1, <1>2
<1> QED
  BY <1>3, <1>4, <1>5 DEF SectorsUpTo, LBA_SIZE, r

-----------------------------------------------------------------------------
(* Calls and files: their inductive invariant                              *)

Places == {"idle", "mount", "header", "name", "head", "whole", "astray", "done"}
Ranges == [offset: Nat, left: Nat, out: Seq(CellSet), busy: BOOLEAN]
Headers == [file: Nat, size: Nat, name: Nat]

FsTypeInv == /\ at \in Places /\ fs_size \in {0, End} /\ asked \in 0 .. N
             /\ fs_offset \in Nat /\ rd \in Ranges /\ found \in Headers

\* Which sectors were asked for last.
CallIs(lba, count) == call.op = "read" /\ call.lba = lba /\ call.count = count
CallsInv ==
    /\ at = "mount" => CallIs(FsStart, 1)
    /\ rd.busy => at \in {"header", "name"} /\ rd.left > 0 /\ CallIs(Lba(rd.offset), 1)
    /\ at = "head" => CallIs(Sector, 1)
    /\ at = "whole" => CallIs(Sector, Lbas(found)) /\ (Straddles(asked) \/ found = Header(asked))

\* A range is read from its begin to somewhere.
InRange(base, total) ==
    /\ rd.offset \in base .. base + total /\ rd.left = base + total - rd.offset
    /\ rd.out = CellsOf(base, rd.offset - base)

\* The search has come to a file, and to the one asked for if it is read whole.
AtFile(f) ==
    /\ fs_offset = Offset(f) /\ (asked # 0 => f <= asked) /\ content = <<>>
    /\ at = "header" => InRange(Offset(f), FileHdr)
    /\ at = "name" => found = Header(f) /\ InRange(Offset(f) + FileHdr, Files[f].name)
    /\ at \in {"head", "whole"} => f = asked

WalkInv ==
    /\ at \notin {"idle", "mount"} => fs_size = End
    /\ at \in {"header", "name", "head", "whole"} => \E f \in 1 .. N : AtFile(f)
    /\ at = "astray" => asked # 0 /\ Straddles(asked)
    /\ FileExact

FsInv == AtaInv /\ FsTypeInv /\ CallsInv /\ WalkInv

-----------------------------------------------------------------------------
(* What a call has brought                                                 *)

\* A sector of the image is one the drive can name.
LEMMA WithinReach ==
  ASSUME NEW o \in Nat, o < End, End \in Nat
  PROVE  Lba(o) + 1 <= Reach
<1>1. /\ o + 1 <= End /\ 1 + o <= End /\ o + 1 = 1 + o /\ 1 \in Nat /\ Reach \in Nat
      /\ Lba(o) \in Nat /\ FsStart + SectorsUpTo(End) <= Reach
  <2>1. FsStart + SectorsUpTo(End) <= Reach
    BY FsDiskAssumption
  <2>2. Reach \in Nat /\ Lba(o) \in Nat
    BY Sizes, Address
  <2>3. o + 1 <= End /\ 1 + o <= End /\ o + 1 = 1 + o
    OBVIOUS
  <2> QED
    BY <2>1, <2>2, <2>3
<1>2. Lba(o) + SectorsUpTo(1 + (o % Words)) <= FsStart + SectorsUpTo(End)
  BY <1>1, InImage
<1>3. SectorsUpTo(End) \in Nat /\ FsStart \in Nat
  <2>1. FsStart \in Nat /\ Words \in Nat \ {0}
    BY FsDiskAssumption, Sizes
  <2> DEFINE x == End + Words - 1
  <2>2. x \in Nat
    BY <2>1
  <2> HIDE DEF x
  <2>3. x \div Words \in Nat
    BY <2>1, <2>2, DivBound
  <2> QED
    BY <2>1, <2>3 DEF SectorsUpTo, LBA_SIZE, x
<1>4. SectorsUpTo(1 + (o % Words)) = 1
  BY OneSector
<1> QED
  BY <1>1, <1>2, <1>3, <1>4

\* A buffer that is read holds the bytes of the image, in their order.
LEMMA ImageCell ==
  ASSUME AtaInv, pc = "idle", call.op = "read", call.lba >= FsStart,
         NEW k \in 0 .. call.count * Words - 1
  PROVE  Cell(k) = CellAt((call.lba - FsStart) * Words + k)
<1> DEFINE i == k \div Words
           w == k % Words
           l == call.lba
<1>1. /\ Words \in Nat \ {0} /\ FsStart \in Nat /\ l \in Nat /\ call.count \in Nat
      /\ call.count * Words \in Nat
  <2>1. Words \in Nat \ {0} /\ FsStart \in Nat /\ l \in Nat /\ call.count \in Nat
    BY FsDiskAssumption, Sizes DEF AtaInv, AtaTypeInv, Calls
  <2> DEFINE c == call.count
  <2> HIDE DEF c
  <2>2. c \in Nat => c * Words \in Nat
    BY <2>1
  <2> QED
    BY <2>1, <2>2 DEF c
<1>2. k \in Nat /\ k < call.count * Words
  BY <1>1
<1>3. i \in Nat /\ w \in 0 .. Words - 1 /\ k = i * Words + w
  BY <1>1, <1>2, DivBound
<1> HIDE DEF i, w, l
<1>4. i < call.count
  <2> DEFINE c == call.count
  <2> HIDE DEF c
  <2>1. c \in Nat /\ k < c * Words
    BY <1>1, <1>2 DEF c
  <2>2. SUFFICES ASSUME c <= i PROVE FALSE
    BY <1>3, <2>1 DEF c
  <2>3. i = c \/ c \in 0 .. i - 1
    BY <1>3, <2>1, <2>2
  <2>4. 0 \in 0 .. Words - 1
    BY <1>1
  <2>5. c \in 0 .. i - 1 => c * Words + 0 \in 0 .. i * Words - 1
    BY <1>1, <1>3, <2>4, CellPlace
  <2>6. i * Words \in Nat /\ c * Words \in Nat
    BY <1>1, <1>3, <2>1
  <2> QED
    BY <1>1, <1>3, <2>1, <2>3, <2>5, <2>6
<1>5. buffer[i * Words + w] = Word(call.lba + i, disk[call.lba + i], w)
  <2>1. i \in 0 .. call.i - 1
    BY <1>1, <1>3, <1>4 DEF AtaInv, CallInv
  <2> QED
    BY <1>3, <2>1 DEF AtaInv, BufferInv, Taken
<1>6. buffer[k] # Junk /\ buffer[k][1] = l + i /\ buffer[k][3] = w
  <2>1. l + i # -1
    BY <1>1, <1>3
  <2> QED
    BY <1>3, <1>5, <2>1 DEF Word, Junk, l
<1>7. (l + i) * Words + w - START = (l - FsStart) * Words + k
  <2>1. l * Words \in Nat /\ i * Words \in Nat /\ FsStart * Words \in Nat
    BY <1>1, <1>3
  <2>2. (l + i) * Words = l * Words + i * Words
        /\ (l - FsStart) * Words = l * Words - FsStart * Words
    BY <1>1, <1>3
  <2> DEFINE a == l * Words
             b == i * Words
             c == FsStart * Words
             d == (l + i) * Words
             e == (l - FsStart) * Words
  <2>3. a \in Nat /\ b \in Nat /\ c \in Nat /\ d = a + b /\ e = a - c /\ k = b + w /\ START = c
    BY <1>3, <2>1, <2>2 DEF START, LBA_SIZE
  <2> HIDE DEF a, b, c, d, e
  <2>4. d + w - START = e + k
    BY <1>3, <2>3
  <2> QED
    BY <2>4 DEF d, e
<1> QED
  BY <1>6, <1>7 DEF Cell, l

\* The bytes behind an offset, out of the sectors it begins in.
LEMMA CellsRead ==
  ASSUME AtaInv, pc = "idle", NEW o \in Nat, NEW c \in Nat, CallIs(Lba(o), c),
         NEW from \in Nat, NEW n \in Nat, (o % Words) + from + n <= c * Words
  PROVE  Cells((o % Words) + from, n) = CellsOf(o + from, n)
<1> DEFINE r == o % Words
           b == (Lba(o) - FsStart) * Words
<1>1. /\ Lba(o) \in Nat /\ Lba(o) >= FsStart /\ r \in 0 .. Words - 1 /\ b + r = o
      /\ FsStart \in Nat /\ Words \in Nat \ {0}
  BY Address, Sizes, FsDiskAssumption
<1>2. b \in Nat /\ c * Words \in Nat
  <2> DEFINE d == Lba(o) - FsStart
  <2>1. d \in Nat
    BY <1>1
  <2> HIDE DEF d
  <2> QED
    BY <1>1, <2>1 DEF d
<1>3. call.op = "read" /\ call.lba = Lba(o) /\ call.count = c
  BY DEF CallIs
<1> DEFINE m == c * Words
<1> HIDE DEF r, b, m
<1>4. ASSUME NEW k \in 1 .. n
      PROVE  Cell(r + from + k - 1) = CellAt(o + from + k - 1)
  <2>1. r + from + k - 1 \in 0 .. m - 1 /\ b + (r + from + k - 1) = o + from + k - 1
    BY <1>1, <1>2 DEF r, m
  <2>2. r + from + k - 1 \in 0 .. call.count * Words - 1
    BY <1>3, <2>1 DEF m
  <2>3. Cell(r + from + k - 1) = CellAt((call.lba - FsStart) * Words + (r + from + k - 1))
    BY <1>1, <1>3, <2>2, ImageCell
  <2> QED
    BY <1>3, <2>1, <2>3 DEF b
<1> QED
  BY <1>4 DEF Cells, CellsOf, r

\* Driver and drive serve the call that was made.
LEMMA CallStays ==
  ASSUME AtaInv, Driver \/ Drive, NEW lba, NEW n, CallIs(lba, n)
  PROVE  CallIs(lba, n)'
<1>1. call \in Calls
  BY DEF AtaInv, AtaTypeInv
<1>2. call'.op = call.op /\ call'.lba = call.lba /\ call'.count = call.count
  BY <1>1, Zenon DEF Driver, Drive, WaitReady, Command, WaitBusy, WaitDrq, InWord, OutWord, SectorRead,
         Flush, WaitFlush, DevStarts, DevReady, DevWritten, DevFails, Calls
<1> QED
  BY <1>2 DEF CallIs

-----------------------------------------------------------------------------
(* _fs_read_bytes                                                          *)

\* Where in the image file f is.
LEMMA Place ==
  ASSUME NEW f \in 1 .. N
  PROVE  /\ Offset(f) \in Nat /\ End \in Nat /\ Offset(f) + Total(f) <= End
         /\ f - 1 \in 0 .. N /\ Offset(f) = Ends[f - 1] /\ Ends[f] = Offset(f) + Total(f)
<1>1. f - 1 \in 0 .. N /\ f \in 0 .. N /\ N \in f .. N
  BY FileSizes
<1>2. Ends[f] <= Ends[N] /\ Ends[N] \in Nat
  BY <1>1, EndsGrow, Layout
<1> QED
  BY <1>1, <1>2, Layout, FileSizes

\* Nothing is read at first.
LEMMA RangeStarts ==
  ASSUME NEW base \in Nat, NEW total \in Nat, rd' = Reading(base, total)
  PROVE  InRange(base, total)' /\ rd' \in Ranges /\ ~rd'.busy
<1>1. CellsOf(base, 0) = <<>>
  <2>1. CellsOf(base, 0) \in Seq(CellSet)
    BY CellsJoin
  <2>2. DOMAIN CellsOf(base, 0) = 1 .. 0
    BY DEF CellsOf
  <2>3. Len(CellsOf(base, 0)) = 0
    BY <2>1, <2>2, LenProperties
  <2> QED
    BY <2>1, <2>3, EmptySeq
<1>2. <<>> \in Seq(CellSet)
  BY EmptySeq
<1>3. rd' = [offset |-> base, left |-> total, out |-> <<>>, busy |-> FALSE]
  BY DEF Reading
<1>4. rd' \in Ranges
  BY <1>2, <1>3 DEF Ranges
<1>5. rd'.offset = base /\ rd'.left = total /\ rd'.out = <<>> /\ ~rd'.busy
  BY <1>3
<1>6. rd'.offset - base = 0 /\ base \in base .. base + total /\ total = base + total - base
  BY <1>5
<1> QED
  BY <1>1, <1>4, <1>5, <1>6 DEF InRange

\* A sector's share of the range is copied behind what was there.
LEMMA RangeGrows ==
  ASSUME FsInv, CopySector, NEW base \in Nat, NEW total \in Nat, InRange(base, total)
  PROVE  InRange(base, total)' /\ rd' \in Ranges /\ ~rd'.busy
<1> DEFINE o == rd.offset
           r == o % Words
           t == ToCopy
           n == o - base
           more == Cells(o % LBA_SIZE, t)
<1>1. /\ rd.busy /\ pc = "idle" /\ rd.left > 0 /\ CallIs(Lba(o), 1) /\ AtaInv
      /\ rd' = [offset |-> o + t, left |-> rd.left - t, busy |-> FALSE, out |-> rd.out \o more]
  BY DEF CopySector, FsInv, CallsInv
<1>2. /\ o \in Nat /\ rd.left \in Nat /\ rd.out \in Seq(CellSet)
      /\ o \in base .. base + total /\ rd.left = base + total - o /\ rd.out = CellsOf(base, n)
  BY DEF FsInv, FsTypeInv, Ranges, InRange
<1>3. r \in 0 .. Words - 1 /\ Words \in Nat
  BY <1>2, Address, Sizes
<1>4. t = IF Words - r > rd.left THEN rd.left ELSE Words - r
  BY DEF ToCopy, LBA_SIZE
<1>5. t \in Nat /\ t <= rd.left /\ r + 0 + t <= 1 * Words /\ r + 0 = r
  <2> HIDE DEF r, t
  <2>1. 1 * Words = Words
    BY <1>3
  <2> QED
    BY <1>2, <1>3, <1>4, <2>1
<1>6. more = CellsOf(o + 0, t)
  <2>1. Cells(r + 0, t) = CellsOf(o + 0, t)
    BY <1>1, <1>2, <1>5, CellsRead
  <2> QED
    BY <1>5, <2>1 DEF LBA_SIZE
<1> HIDE DEF o, r, t, more
<1>7. n \in Nat /\ base + n = o /\ o + 0 = o
  BY <1>2
<1>8. rd.out \o more = CellsOf(base, n + t)
  <2> HIDE DEF n
  <2>1. CellsOf(base, n) \o CellsOf(base + n, t) = CellsOf(base, n + t)
    BY <1>5, <1>7, CellsJoin
  <2>2. more = CellsOf(base + n, t)
    BY <1>6, <1>7
  <2> QED
    BY <1>2, <2>1, <2>2
<1>9. /\ CellsOf(base, n + t) \in Seq(CellSet) /\ (o + t) - base = n + t /\ rd.left - t \in Nat
      /\ o + t \in base .. base + total /\ rd.left - t = base + total - (o + t) /\ o + t \in Nat
  <2>1. n + t \in Nat
    BY <1>5, <1>7
  <2>2. CellsOf(base, n + t) \in Seq(CellSet)
    BY <2>1, CellsJoin
  <2> QED
    BY <1>2, <1>5, <1>7, <2>2
<1>10. /\ rd'.offset = o + t /\ rd'.left = rd.left - t /\ ~rd'.busy
       /\ rd'.out = CellsOf(base, n + t)
  BY <1>1, <1>8
<1>11. rd' \in Ranges
  BY <1>1, <1>8, <1>9 DEF Ranges
<1>12. rd'.offset - base = n + t
  BY <1>9, <1>10
<1> QED
  BY <1>9, <1>10, <1>11, <1>12 DEF InRange

\* And at last the whole range is there.
LEMMA RangeEnds ==
  ASSUME RangeRead, NEW base \in Nat, NEW total \in Nat, InRange(base, total)
  PROVE  rd.out = CellsOf(base, total)
<1>1. /\ rd.left = 0 /\ rd.offset \in base .. base + total /\ rd.left = base + total - rd.offset
      /\ rd.out = CellsOf(base, rd.offset - base)
  BY DEF RangeRead, InRange
<1>2. rd.offset - base = total
  BY <1>1
<1> QED
  BY <1>1, <1>2

\* While some of the range is left, it is the image's.
LEMMA RangeInImage ==
  ASSUME at \in {"header", "name"}, rd \in Ranges, rd.left > 0, NEW f \in 1 .. N, AtFile(f)
  PROVE  rd.offset < End /\ End \in Nat
<1>1. /\ Offset(f) \in Nat /\ End \in Nat /\ FileHdr \in Nat /\ Files[f].name \in Nat
      /\ Offset(f) + FileHdr + Files[f].name <= End
  BY Place, FileSizes
<1>2. rd.left \in Nat /\ rd.offset \in Nat
  BY DEF Ranges
<1>3. CASE at = "header"
  BY <1>1, <1>2, <1>3 DEF AtFile, InRange
<1>4. CASE at = "name"
  BY <1>1, <1>2, <1>4 DEF AtFile, InRange
<1> QED
  BY <1>3, <1>4

LEMMA ReadSectorKeeps ==
  ASSUME FsInv, ReadSector
  PROVE  FsInv'
<1>1. /\ at \in {"header", "name"} /\ rd.left > 0 /\ rd \in Ranges
      /\ ReadLbas(Lba(rd.offset), 1) /\ rd' = [rd EXCEPT !.busy = TRUE]
      /\ at' = at /\ fs_size' = fs_size /\ asked' = asked /\ fs_offset' = fs_offset
      /\ found' = found /\ content' = content
  BY DEF ReadSector, FsInv, FsTypeInv
<1>2. /\ rd' \in Ranges /\ rd'.busy /\ rd'.offset = rd.offset /\ rd'.left = rd.left
      /\ rd'.out = rd.out
  BY <1>1, Zenon DEF Ranges
<1>3. rd.offset \in Nat
  BY <1>1 DEF Ranges
<1>4. AtaInv'
  <2>1. Lba(rd.offset) \in Nat /\ 1 \in 1 .. MaxCount
    BY <1>3, Address, Sizes
  <2>2. PICK f \in 1 .. N : AtFile(f)
    BY <1>1 DEF FsInv, WalkInv
  <2>3. rd.offset < End /\ End \in Nat
    BY <1>1, <1>3, <2>2, RangeInImage DEF FsInv
  <2>4. Lba(rd.offset) + 1 <= Reach
    BY <1>3, <2>3, WithinReach
  <2> QED
    BY <1>1, <2>1, <2>4, ReadStarts DEF FsInv
<1>5. CallIs(Lba(rd.offset), 1)'
  BY <1>1, <1>2 DEF ReadLbas, CallIs, Lba
<1>6. FsTypeInv'
  BY <1>1, <1>2 DEF FsInv, FsTypeInv
<1>7. CallsInv'
  BY <1>1, <1>2, <1>5 DEF CallsInv
<1>8. WalkInv'
  BY <1>1, <1>2 DEF FsInv, WalkInv, AtFile, InRange, FileExact
<1> QED
  BY <1>4, <1>6, <1>7, <1>8 DEF FsInv

LEMMA CopySectorKeeps ==
  ASSUME FsInv, CopySector
  PROVE  FsInv'
<1>1. /\ pc = "idle" /\ rd.busy /\ at \in {"header", "name"}
      /\ at' = at /\ fs_size' = fs_size /\ asked' = asked /\ fs_offset' = fs_offset
      /\ found' = found /\ content' = content /\ UNCHANGED vars
  BY DEF CopySector, FsInv, CallsInv
<1>2. AtaInv'
  BY <1>1, AtaStays DEF FsInv
<1>3. PICK f \in 1 .. N : AtFile(f)
  BY <1>1 DEF FsInv, WalkInv
<1>4. /\ Offset(f) \in Nat /\ FileHdr \in Nat /\ Offset(f) + FileHdr \in Nat
      /\ Files[f].name \in Nat
  BY <1>3, Place, FileSizes
<1>5. AtFile(f)' /\ rd' \in Ranges /\ ~rd'.busy
  <2>1. CASE at = "header"
    <3>1. InRange(Offset(f), FileHdr)' /\ rd' \in Ranges /\ ~rd'.busy
      BY <1>3, <1>4, <2>1, RangeGrows DEF AtFile
    <3> QED
      BY <1>1, <1>3, <2>1, <3>1 DEF AtFile
  <2>2. CASE at = "name"
    <3>1. InRange(Offset(f) + FileHdr, Files[f].name)' /\ rd' \in Ranges /\ ~rd'.busy
      BY <1>3, <1>4, <2>2, RangeGrows DEF AtFile
    <3> QED
      BY <1>1, <1>3, <2>2, <3>1 DEF AtFile
  <2> QED
    BY <1>1, <2>1, <2>2
<1>6. FsTypeInv'
  BY <1>1, <1>5 DEF FsInv, FsTypeInv
<1>7. CallsInv'
  BY <1>1, <1>5 DEF CallsInv
<1>8. WalkInv'
  BY <1>1, <1>3, <1>5 DEF FsInv, WalkInv, FileExact
<1> QED
  BY <1>2, <1>6, <1>7, <1>8 DEF FsInv

-----------------------------------------------------------------------------
(* mono_fs_init and dumb_file_search                                       *)

\* The search stands at the end of some file, and goes on to the next one or ends.
LEMMA WalkStep ==
  ASSUME NEW j \in 0 .. N, LookAt(Ends[j]), fs_size = End, fs_size' = End,
         asked' \in 0 .. N, asked' # 0 => j < asked', content' = <<>>
  PROVE  at' \in {"header", "done"} /\ rd' \in Ranges /\ ~rd'.busy /\ fs_offset' \in Nat /\ WalkInv'
<1>1. Ends[j] \in Nat /\ End = Ends[N] /\ fs_offset' = Ends[j] /\ N \in Nat
  BY Layout, FileSizes DEF LookAt
<1>2. CASE j = N
  <2>1. at' = "done" /\ rd' = Idle /\ asked' = 0
    BY <1>1, <1>2 DEF LookAt
  <2>2. Idle = Reading(0, 0) /\ 0 \in Nat
    BY DEF Idle, Reading
  <2>3. rd' \in Ranges /\ ~rd'.busy
    BY <2>1, <2>2, RangeStarts
  <2>4. WalkInv'
    BY <2>1 DEF WalkInv, FileExact
  <2> QED
    BY <1>1, <2>1, <2>3, <2>4
<1>3. CASE j # N
  <2> DEFINE f == j + 1
  <2>1. f \in 1 .. N /\ f - 1 = j
    BY <1>1, <1>3
  <2>2. Offset(f) = Ends[j] /\ Offset(f) + Total(f) <= End /\ Offset(f) \in Nat /\ End \in Nat
        /\ Total(f) \in Nat /\ Total(f) >= 1 /\ FileHdr \in Nat
    <3> HIDE DEF f
    <3>1. /\ Offset(f) \in Nat /\ End \in Nat /\ Offset(f) + Total(f) <= End
          /\ Offset(f) = Ends[f - 1]
      BY <2>1, Place
    <3>2. /\ FileHdr \in Nat /\ FileHdr >= 1 /\ Files[f].name \in Nat /\ Total(f) \in Nat
          /\ Total(f) >= FileHdr + Files[f].name
      BY <2>1, FileSizes
    <3>3. Total(f) >= 1
      BY <3>2
    <3> QED
      BY <2>1, <3>1, <3>2, <3>3
  <2>3. fs_offset' = Offset(f) /\ at' = "header" /\ rd' = Reading(Offset(f), FileHdr)
    <3> HIDE DEF f
    <3> QED
      BY <1>1, <2>2 DEF LookAt
  <2>4. InRange(Offset(f), FileHdr)' /\ rd' \in Ranges /\ ~rd'.busy
    BY <2>2, <2>3, RangeStarts
  <2>5. asked' # 0 => f <= asked'
    BY <1>1
  <2> HIDE DEF f
  <2>6. AtFile(f)'
    BY <2>3, <2>4, <2>5 DEF AtFile
  <2>7. WalkInv'
    BY <2>1, <2>3, <2>6 DEF WalkInv, FileExact
  <2> QED
    BY <1>1, <2>3, <2>4, <2>7
<1> QED
  BY <1>2, <1>3

\* The image's first sector is one of the disk.
LEMMA FirstSector == FsStart + 1 <= Reach
<1>1. 0 < End /\ End \in Nat
  <2>1. Ends[0] = FsHdr /\ FsHdr \in Nat /\ FsHdr >= 1 /\ 0 \in 0 .. N /\ N \in 0 .. N /\ 0 <= N
    BY Layout, FileSizes
  <2>2. Ends[0] <= Ends[N] /\ Ends[N] \in Nat
    BY <2>1, EndsGrow, Layout
  <2>3. \A e \in Nat : FsHdr <= e => 0 < e
    BY <2>1
  <2>4. Ends[N] = End
    BY Layout
  <2> QED
    BY <2>1, <2>2, <2>3, <2>4
<1>2. Lba(0) + 1 <= Reach
  BY <1>1, WithinReach
<1>3. Lba(0) >= FsStart /\ Lba(0) \in Nat /\ FsStart \in Nat /\ Reach \in Nat
  BY FsDiskAssumption, Sizes, Address
<1> QED
  BY <1>2, <1>3

LEMMA MountKeeps ==
  ASSUME FsInv, Mount
  PROVE  FsInv'
<1>1. /\ at = "idle" /\ ReadLbas(FsStart, 1) /\ at' = "mount" /\ UNCHANGED <<fs_size, asked, fs_offset, rd, found, content>>
  BY DEF Mount
<1>2. AtaInv'
  <2>1. FsStart \in Nat /\ 1 \in 1 .. MaxCount
    BY FsDiskAssumption, Sizes
  <2>2. FsStart + 1 <= Reach
    BY FirstSector
  <2> QED
    BY <1>1, <2>1, <2>2, ReadStarts DEF FsInv
<1>3. CallIs(FsStart, 1)' /\ ~rd'.busy
  BY <1>1 DEF ReadLbas, CallIs, FsInv, CallsInv
<1>4. FsTypeInv' /\ CallsInv' /\ WalkInv'
  BY <1>1, <1>3 DEF FsInv, FsTypeInv, CallsInv, WalkInv, FileExact, Places
<1> QED
  BY <1>2, <1>4 DEF FsInv

LEMMA MountedKeeps ==
  ASSUME FsInv, Mounted
  PROVE  FsInv'
<1>1. /\ at = "mount" /\ pc = "idle" /\ at' = "idle" /\ UNCHANGED vars
      /\ UNCHANGED <<asked, fs_offset, rd, found, content>>
      /\ fs_size' \in IF Cells(0, FsHdr) = Part("fs", 0, FsHdr) THEN {End} ELSE Guesses
  BY DEF Mounted
<1>2. Cells(0, FsHdr) = Part("fs", 0, FsHdr)
  <2>1. /\ 0 \in Nat /\ FsStart \in Nat /\ FsHdr \in 1 .. Words /\ Words \in Nat \ {0}
        /\ 0 % Words \in 0 .. Words - 1
    BY FsDiskAssumption, Sizes, DivBound DEF LBA_SIZE
  <2>2. 0 \div Words = 0 /\ 0 % Words = 0
    BY <2>1
  <2>3. Lba(0) = FsStart
    <3>1. START + 0 = START /\ START = FsStart * Words + 0 /\ FsStart + 0 = FsStart
      BY <2>1 DEF START, LBA_SIZE
    <3>2. (FsStart * Words + 0) \div Words = FsStart + (0 \div Words)
      BY <2>1, DivRows
    <3> QED
      BY <2>2, <3>1, <3>2 DEF Lba, LBA_SIZE
  <2>4. CallIs(Lba(0), 1)
    BY <1>1, <2>3 DEF FsInv, CallsInv
  <2>5. (0 % Words) + 0 + FsHdr <= 1 * Words /\ FsHdr \in Nat /\ (0 % Words) + 0 = 0 /\ 0 + 0 = 0
    BY <2>1, <2>2
  <2>6. Cells((0 % Words) + 0, FsHdr) = CellsOf(0 + 0, FsHdr)
    BY <1>1, <2>1, <2>4, <2>5, CellsRead DEF FsInv
  <2> QED
    BY <2>5, <2>6, PartsOf
<1>3. fs_size' = End
  BY <1>1, <1>2
<1>4. AtaInv'
  BY <1>1, AtaStays DEF FsInv
<1>5. FsTypeInv' /\ CallsInv' /\ WalkInv'
  BY <1>1, <1>3 DEF FsInv, FsTypeInv, CallsInv, WalkInv, FileExact, Places
<1> QED
  BY <1>4, <1>5 DEF FsInv

LEMMA OpenKeeps ==
  ASSUME FsInv, NEW f \in 0 .. N, Open(f)
  PROVE  FsInv'
<1>1. /\ fs_size # 0 /\ asked' = f /\ found' = NotFound /\ content' = <<>>
      /\ LookAt(FsHdr) /\ UNCHANGED <<vars, fs_size>>
  BY DEF Open
<1>2. fs_size = End /\ fs_size' = End
  BY <1>1 DEF FsInv, FsTypeInv
<1>3. LookAt(Ends[0]) /\ 0 \in 0 .. N /\ (asked' # 0 => 0 < asked')
  BY <1>1, Layout, FileSizes
<1>4. at' \in {"header", "done"} /\ rd' \in Ranges /\ ~rd'.busy /\ fs_offset' \in Nat /\ WalkInv'
  BY <1>1, <1>2, <1>3, WalkStep
<1>5. AtaInv'
  BY <1>1, AtaStays DEF FsInv
<1>6. FsTypeInv' /\ CallsInv'
  BY <1>1, <1>2, <1>4 DEF FsInv, FsTypeInv, CallsInv, Places, NotFound, Headers
<1> QED
  BY <1>4, <1>5, <1>6 DEF FsInv

LEMMA NameNextKeeps ==
  ASSUME FsInv, NameNext
  PROVE  FsInv'
<1>1. /\ at = "header" /\ RangeRead /\ at' = "name"
      /\ UNCHANGED <<vars, fs_size, asked, fs_offset, content>>
  BY DEF NameNext
<1>2. PICK f \in 1 .. N : AtFile(f)
  BY <1>1 DEF FsInv, WalkInv
<1>3. /\ Offset(f) \in Nat /\ FileHdr \in Nat /\ Offset(f) + FileHdr \in Nat
      /\ Files[f].name \in Nat /\ Total(f) \in Nat
  BY <1>2, Place, FileSizes
<1>4. HeadersIn(rd.out) = {Header(f)}
  <2>1. rd.out = CellsOf(Offset(f), FileHdr)
    BY <1>1, <1>2, <1>3, RangeEnds DEF AtFile
  <2> QED
    BY <1>2, <2>1, PartsOf, HeaderSaysWhose
<1>5. found' = Header(f) /\ rd' = Reading(Offset(f) + FileHdr, Files[f].name)
  BY <1>2, <1>4 DEF NameNext, AtFile, Header
<1>6. InRange(Offset(f) + FileHdr, Files[f].name)' /\ rd' \in Ranges /\ ~rd'.busy
  BY <1>3, <1>5, RangeStarts
<1>7. found' \in Headers
  BY <1>2, <1>3, <1>5 DEF Header, Headers
<1>8. AtFile(f)'
  BY <1>1, <1>2, <1>5, <1>6 DEF AtFile, Header
<1>9. AtaInv'
  BY <1>1, AtaStays DEF FsInv
<1>10. FsTypeInv' /\ CallsInv' /\ WalkInv'
  BY <1>1, <1>2, <1>6, <1>7, <1>8 DEF FsInv, FsTypeInv, CallsInv, WalkInv, FileExact, Places
<1> QED
  BY <1>9, <1>10 DEF FsInv

\* The name that was read is the one asked for just at the file asked for.
LEMMA NameTells ==
  ASSUME FsInv, at = "name", RangeRead, NEW f \in 1 .. N, AtFile(f)
  PROVE  Named <=> asked = f
<1>1. Offset(f) \in Nat /\ FileHdr \in Nat /\ Offset(f) + FileHdr \in Nat /\ Files[f].name \in Nat
  BY Place, FileSizes
<1>2. rd.out = Part("name", f, Files[f].name)
  BY <1>1, RangeEnds, PartsOf DEF AtFile
<1>3. asked # 0 => asked \in 1 .. N
  BY DEF FsInv, FsTypeInv
<1>4. asked = f => Named
  BY <1>2 DEF Named
<1>5. Named => asked = f
  BY <1>2, <1>3, NameSaysWhose DEF Named
<1> QED
  BY <1>4, <1>5

LEMMA SkipFileKeeps ==
  ASSUME FsInv, SkipFile
  PROVE  FsInv'
<1>1. /\ at = "name" /\ RangeRead /\ ~Named /\ found' = NotFound /\ UNCHANGED <<vars, fs_size, asked, content>>
      /\ LookAt(fs_offset + found.size)
  BY DEF SkipFile, Skip
<1>2. PICK f \in 1 .. N : AtFile(f)
  BY <1>1 DEF FsInv, WalkInv
<1>3. fs_offset + found.size = Ends[f] /\ f \in 0 .. N
  <2>1. fs_offset = Offset(f) /\ found = Header(f)
    BY <1>1, <1>2 DEF AtFile
  <2>2. Header(f).size = Total(f)
    BY DEF Header
  <2>3. Ends[f] = Offset(f) + Total(f)
    BY Place
  <2>4. f \in 0 .. N
    BY FileSizes
  <2> QED
    BY <2>1, <2>2, <2>3, <2>4
<1>4. /\ LookAt(Ends[f]) /\ content' = <<>> /\ asked' \in 0 .. N /\ (asked' # 0 => f < asked')
      /\ fs_size = End /\ fs_size' = End
  <2>1. asked # f /\ asked \in 0 .. N /\ (asked # 0 => f <= asked)
    BY <1>1, <1>2, NameTells DEF FsInv, FsTypeInv, AtFile
  <2>2. asked # 0 => f < asked
    BY <2>1, FileSizes
  <2> QED
    BY <1>1, <1>2, <1>3, <2>1, <2>2 DEF AtFile, FsInv, WalkInv
<1>5. at' \in {"header", "done"} /\ rd' \in Ranges /\ ~rd'.busy /\ fs_offset' \in Nat /\ WalkInv'
  BY <1>3, <1>4, WalkStep
<1>6. AtaInv'
  BY <1>1, AtaStays DEF FsInv
<1>7. FsTypeInv' /\ CallsInv'
  BY <1>1, <1>4, <1>5 DEF FsInv, FsTypeInv, CallsInv, Places, NotFound, Headers
<1> QED
  BY <1>5, <1>6, <1>7 DEF FsInv

-----------------------------------------------------------------------------
(* get_file_content                                                        *)

LEMMA ReadHeadKeeps ==
  ASSUME FsInv, ReadHead
  PROVE  FsInv'
<1>1. /\ at = "name" /\ RangeRead /\ Named /\ at' = "head" /\ ReadLbas(Sector, 1)
      /\ UNCHANGED <<fs_size, asked, fs_offset, rd, found, content>>
  BY DEF ReadHead
<1>2. PICK f \in 1 .. N : AtFile(f)
  BY <1>1 DEF FsInv, WalkInv
<1>3. f = asked
  BY <1>1, <1>2, NameTells
<1>4. AtaInv'
  <2>1. Sector = Lba(fs_offset) /\ fs_offset \in Nat /\ 1 \in 1 .. MaxCount
    BY Sizes DEF Sector, Lba, FsInv, FsTypeInv
  <2>2. Sector \in Nat
    BY <2>1, Address
  <2>3. fs_offset = Offset(f) /\ Offset(f) < End /\ End \in Nat
    BY <1>2, Place, FileSizes DEF AtFile
  <2>4. Sector + 1 <= Reach
    BY <2>1, <2>3, WithinReach
  <2> QED
    BY <1>1, <2>1, <2>2, <2>4, ReadStarts DEF FsInv
<1>5. CallIs(Sector, 1)' /\ ~rd'.busy
  BY <1>1 DEF ReadLbas, CallIs, Sector, FsInv, CallsInv, RangeRead
<1>6. AtFile(f)'
  BY <1>1, <1>2, <1>3 DEF AtFile
<1>7. FsTypeInv' /\ CallsInv' /\ WalkInv'
  BY <1>1, <1>2, <1>5, <1>6 DEF FsInv, FsTypeInv, CallsInv, WalkInv, FileExact, Places
<1> QED
  BY <1>4, <1>7 DEF FsInv

\* The header read again is the file's, when it is all in the sector.
LEMMA HeadTells ==
  ASSUME FsInv, at = "head", pc = "idle"
  PROVE  /\ asked \in 1 .. N /\ AtFile(asked)
         /\ HeadersIn(HeadCells) \subseteq Headers
         /\ Straddles(asked) \/ HeadersIn(HeadCells) = {Header(asked)}
<1>1. asked \in 1 .. N /\ AtFile(asked) /\ AtaInv /\ CallIs(Sector, 1)
  BY DEF FsInv, WalkInv, CallsInv, AtFile
<1> DEFINE f == asked
           o == Offset(f)
           r == o % Words
<1>2. /\ o \in Nat /\ fs_offset = o /\ FileHdr \in Nat /\ r \in 0 .. Words - 1
      /\ Words \in Nat /\ InSector = r /\ Sector = Lba(o) /\ (START + o) % LBA_SIZE = r
  <2> HIDE DEF f
  <2>1. o \in Nat /\ fs_offset = o /\ FileHdr \in Nat /\ Words \in Nat
    BY <1>1, Place, FileSizes, Sizes DEF AtFile, f
  <2>2. r \in 0 .. Words - 1 /\ (START + o) % Words = r
    BY <2>1, Address
  <2> QED
    BY <2>1, <2>2 DEF InSector, Sector, Lba, LBA_SIZE
<1>3. HeadersIn(HeadCells) \subseteq Headers
  <2>1. ASSUME NEW g \in 1 .. N
        PROVE  Header(g) \in Headers
    BY FileSizes DEF Header, Headers
  <2>2. Guesses \subseteq Nat
    BY FsDiskAssumption
  <2>3. ASSUME NEW s \in Guesses, NEW n \in Guesses
        PROVE  [file |-> 0, size |-> s, name |-> n] \in Headers
    BY <2>2, <2>3 DEF Headers
  <2> DEFINE whole == {g \in 1 .. N : HeadCells = Part("header", g, FileHdr)}
  <2>4. whole \subseteq 1 .. N
    OBVIOUS
  <2>5. HeadersIn(HeadCells) = IF whole # {} THEN {Header(g) : g \in whole}
                               ELSE {[file |-> 0, size |-> s, name |-> n] : s \in Guesses, n \in Guesses}
    BY DEF HeadersIn, N
  <2> HIDE DEF whole
  <2> QED
    BY <2>1, <2>3, <2>4, <2>5
<1>4. ASSUME ~Straddles(f)
      PROVE  HeadersIn(HeadCells) = {Header(f)}
  <2> HIDE DEF r, o
  <2>1. r + FileHdr <= Words
    BY <1>2, <1>4 DEF Straddles, LBA_SIZE, o
  <2>2. r + 0 + FileHdr <= 1 * Words /\ r + 0 = r /\ o + 0 = o
    BY <1>2, <2>1
  <2>3. Cells(r + 0, FileHdr) = CellsOf(o + 0, FileHdr)
    <3>1. AtaInv /\ CallIs(Lba(o), 1) /\ o \in Nat /\ FileHdr \in Nat
      BY <1>1, <1>2
    <3> HIDE DEF f
    <3> QED
      BY <2>2, <3>1, CellsRead DEF r
  <2>4. Cells(r, FileHdr) = CellsOf(o, FileHdr)
    BY <2>2, <2>3
  <2>5. ASSUME NEW k \in 1 .. FileHdr
        PROVE  InSector + k <= LBA_SIZE /\ Cell(InSector + k - 1) = Cell(r + k - 1)
    BY <1>2, <2>1 DEF LBA_SIZE
  <2>6. HeadCells = Cells(r, FileHdr)
    BY <2>5 DEF HeadCells, Cells
  <2>7. HeadCells = Part("header", f, FileHdr)
    BY <1>1, <2>4, <2>6, PartsOf DEF o
  <2> QED
    BY <1>1, <2>7, HeaderSaysWhose
<1> QED
  BY <1>1, <1>3, <1>4

\* A size that reaches at least one byte is some sectors, and they hold it.
LEMMA EnoughSectors ==
  ASSUME NEW n \in Nat, n >= 1
  PROVE  SectorsUpTo(n) \in Nat /\ SectorsUpTo(n) >= 1 /\ n <= SectorsUpTo(n) * Words
<1> DEFINE x == n + Words - 1
           q == x \div Words
           r == x % Words
<1>1. Words \in Nat \ {0}
  BY Sizes
<1>2. x \in Nat /\ 1 * Words + 0 <= x
  BY <1>1
<1> HIDE DEF x
<1>3. q \in Nat /\ r \in 0 .. Words - 1 /\ x = q * Words + r
  BY <1>1, <1>2, DivBound
<1> HIDE DEF q, r
<1>4. q # 0
  BY <1>1, <1>2, <1>3
<1>5. q * Words \in Nat
  BY <1>1, <1>3
<1>6. n <= q * Words
  BY <1>1, <1>3, <1>5 DEF x
<1> QED
  BY <1>3, <1>4, <1>6 DEF SectorsUpTo, LBA_SIZE, q, x

\* A file's own header makes sense, and its sectors are in the image.
LEMMA FileIsSane ==
  ASSUME NEW f \in 1 .. N, fs_offset = Offset(f)
  PROVE  /\ Sane(Header(f))
         /\ Sector >= FsStart /\ Sector + Lbas(Header(f)) <= FsStart + SectorsUpTo(End)
<1> DEFINE o == Offset(f)
           s == SectorsUpTo(Total(f) + (o % Words))
<1>1. /\ o \in Nat /\ End \in Nat /\ o + Total(f) <= End /\ Total(f) \in Nat
      /\ Total(f) >= FileHdr + Files[f].name
  BY Place, FileSizes
<1>2. (START + o) % Words = o % Words /\ Lba(o) \in Nat /\ Lba(o) >= FsStart
  BY <1>1, Address
<1>3. s \in Nat /\ Lba(o) + s <= FsStart + SectorsUpTo(End)
  BY <1>1, InImage
<1>4. /\ Header(f).size = Total(f) /\ Header(f).name = Files[f].name
      /\ Lbas(Header(f)) = s /\ Sector = Lba(o)
  BY <1>2 DEF Header, Lbas, InSector, Sector, Lba, LBA_SIZE
<1>5. s <= MaxCount /\ FsStart + SectorsUpTo(End) <= Reach
  BY <1>2, FsDiskAssumption DEF LBA_SIZE, N
<1>6. FsStart \in Nat /\ SectorsUpTo(End) \in Nat /\ MaxCount \in Nat /\ Reach \in Nat
  <2>1. FsStart \in Nat /\ Words \in Nat \ {0} /\ MaxCount \in Nat /\ Reach \in Nat
    BY FsDiskAssumption, Sizes
  <2> DEFINE x == End + Words - 1
  <2>2. x \in Nat
    BY <1>1, <2>1
  <2> HIDE DEF x
  <2>3. x \div Words \in Nat
    BY <2>1, <2>2, DivBound
  <2> QED
    BY <2>1, <2>3 DEF SectorsUpTo, LBA_SIZE, x
<1> HIDE DEF s, o
<1>7. Lba(o) + s <= Reach
  BY <1>2, <1>3, <1>5, <1>6
<1> QED
  BY <1>1, <1>2, <1>3, <1>4, <1>5, <1>7 DEF Sane

LEMMA ReadWholeKeeps ==
  ASSUME FsInv, ReadWhole
  PROVE  FsInv'
<1>1. /\ at = "head" /\ pc = "idle" /\ at' = "whole"
      /\ UNCHANGED <<fs_size, asked, fs_offset, rd, content>>
  BY DEF ReadWhole
<1>2. PICK h \in HeadersIn(HeadCells) : Sane(h) /\ found' = h /\ ReadLbas(Sector, Lbas(h))
  BY DEF ReadWhole
<1>3. /\ asked \in 1 .. N /\ AtFile(asked) /\ h \in Headers
      /\ Straddles(asked) \/ h = Header(asked)
  BY <1>1, <1>2, HeadTells
<1>4. AtaInv'
  <2>1. Sector = Lba(fs_offset) /\ fs_offset \in Nat
    BY DEF Sector, Lba, FsInv, FsTypeInv
  <2>2. Sector \in Nat /\ fs_offset % Words \in Nat /\ InSector = fs_offset % Words
    BY <2>1, Address DEF InSector, LBA_SIZE
  <2>3. h.size + InSector \in Nat /\ h.size + InSector >= 1
    BY <1>2, <1>3, <2>2, FileSizes DEF Sane, Headers
  <2>4. Lbas(h) \in Nat /\ Lbas(h) >= 1
    BY <2>3, EnoughSectors DEF Lbas
  <2>5. Lbas(h) \in 1 .. MaxCount
    BY <1>2, <2>4, Sizes DEF Sane
  <2> QED
    BY <1>2, <2>2, <2>5, ReadStarts DEF FsInv, Sane
<1>5. CallIs(Sector, Lbas(found))' /\ (Straddles(asked) \/ found = Header(asked))' /\ ~rd'.busy
  BY <1>1, <1>2, <1>3 DEF ReadLbas, CallIs, Sector, Lbas, InSector, Straddles, Header, FsInv, CallsInv
<1>6. AtFile(asked)'
  BY <1>1, <1>3 DEF AtFile
<1>7. FsTypeInv' /\ CallsInv' /\ WalkInv'
  BY <1>1, <1>2, <1>3, <1>5, <1>6 DEF FsInv, FsTypeInv, CallsInv, WalkInv, FileExact, Places
<1> QED
  BY <1>4, <1>7 DEF FsInv

LEMMA ReadAstrayKeeps ==
  ASSUME FsInv, ReadAstray
  PROVE  FsInv'
<1>1. /\ at = "head" /\ pc = "idle" /\ at' = "astray"
      /\ UNCHANGED <<vars, fs_size, asked, fs_offset, rd, found, content>>
      /\ \E h \in HeadersIn(HeadCells) : ~Sane(h)
  BY DEF ReadAstray
<1>2. /\ asked \in 1 .. N /\ AtFile(asked)
      /\ Straddles(asked) \/ HeadersIn(HeadCells) = {Header(asked)}
  BY <1>1, HeadTells
<1>3. Sane(Header(asked))
  BY <1>2, FileIsSane DEF AtFile
<1>4. Straddles(asked) /\ asked # 0
  BY <1>1, <1>2, <1>3
<1>5. AtaInv' /\ ~rd'.busy
  BY <1>1, AtaStays DEF FsInv, CallsInv
<1>6. FsTypeInv' /\ CallsInv' /\ WalkInv'
  BY <1>1, <1>4, <1>5 DEF FsInv, FsTypeInv, CallsInv, WalkInv, FileExact, Places, Straddles
<1> QED
  BY <1>5, <1>6 DEF FsInv

LEMMA DeliverKeeps ==
  ASSUME FsInv, Deliver
  PROVE  FsInv'
<1>1. /\ at = "whole" /\ pc = "idle" /\ at' = "done"
      /\ content' = Cells(InSector + FileHdr + found.name, found.size - FileHdr - found.name)
      /\ UNCHANGED <<vars, fs_size, asked, fs_offset, rd, found>>
  BY DEF Deliver
<1>2. /\ asked \in 1 .. N /\ AtFile(asked) /\ AtaInv /\ CallIs(Sector, Lbas(found))
      /\ Straddles(asked) \/ found = Header(asked)
  BY <1>1 DEF FsInv, WalkInv, CallsInv, AtFile
<1>3. ASSUME ~Straddles(asked)
      PROVE  content' = Part("data", asked, Files[asked].data)
  <2> DEFINE f == asked
             o == Offset(f)
             r == o % Words
             a == FileHdr + Files[f].name
             d == Files[f].data
             c == SectorsUpTo(Total(f) + r)
  <2>1. /\ o \in Nat /\ fs_offset = o /\ Total(f) = a + d /\ a \in Nat /\ d \in Nat /\ a >= 1
        /\ o + FileHdr + Files[f].name = o + a /\ r \in Nat
        /\ (START + o) % LBA_SIZE = r
    <3> HIDE DEF f
    <3>1. o \in Nat /\ fs_offset = o
      BY <1>2, Place DEF AtFile, f
    <3>2. r \in Nat /\ (START + o) % LBA_SIZE = r
      BY <3>1, Address DEF LBA_SIZE
    <3>3. /\ FileHdr \in Nat /\ FileHdr >= 1 /\ Files[f].name \in Nat /\ d \in Nat
          /\ Total(f) = FileHdr + Files[f].name + d
      BY <1>2, FileSizes DEF f
    <3> HIDE DEF r, o, d
    <3> QED
      BY <3>1, <3>2, <3>3
  <2>2. /\ InSector = r /\ Sector = Lba(o) /\ Lbas(found) = c
        /\ found.name = Files[f].name /\ found.size = Total(f)
    BY <1>2, <1>3, <2>1 DEF InSector, Sector, Lba, Lbas, Header
  <2>3. CallIs(Lba(o), c)
    BY <1>2, <2>2
  <2> HIDE DEF f, o, r, a, d
  <2>4. c \in Nat /\ Total(f) + r <= c * Words
    <3>1. Total(f) + r \in Nat /\ Total(f) + r >= 1
      BY <2>1
    <3> QED
      BY <3>1, EnoughSectors
  <2>5. r + a + d <= c * Words
    <3> DEFINE m == c * Words
    <3> HIDE DEF m
    <3>1. Total(f) + r <= m
      BY <2>4 DEF m
    <3>2. r + a + d = Total(f) + r
      BY <2>1
    <3> QED
      BY <3>1, <3>2 DEF m
  <2> HIDE DEF c
  <2>6. Cells(r + a, d) = CellsOf(o + a, d)
    BY <1>1, <1>2, <2>1, <2>3, <2>4, <2>5, CellsRead DEF r
  <2>7. /\ InSector + FileHdr + found.name = r + a /\ found.size - FileHdr - found.name = d
    <3>1. FileHdr \in Nat /\ Files[f].name \in Nat
      BY <1>2, FileSizes DEF f
    <3> QED
      BY <2>1, <2>2, <3>1 DEF a
  <2>8. content' = CellsOf(o + FileHdr + Files[f].name, d)
    BY <1>1, <2>1, <2>6, <2>7
  <2> QED
    BY <1>2, <2>8, PartsOf DEF o, d, f
<1>4. AtaInv' /\ ~rd'.busy
  BY <1>1, AtaStays DEF FsInv, CallsInv
<1>5. FileExact'
  BY <1>1, <1>2, <1>3 DEF FileExact, Straddles
<1>6. FsTypeInv' /\ CallsInv' /\ WalkInv'
  BY <1>1, <1>4, <1>5 DEF FsInv, FsTypeInv, CallsInv, WalkInv, Places
<1> QED
  BY <1>4, <1>6 DEF FsInv

LEMMA CloseKeeps ==
  ASSUME FsInv, Close
  PROVE  FsInv'
<1>1. /\ at' = "idle" /\ rd' = Idle /\ found' = NotFound /\ content' = <<>>
      /\ asked' = 0 /\ fs_offset' = 0 /\ UNCHANGED <<vars, fs_size>>
  BY DEF Close
<1>2. rd' \in Ranges /\ ~rd'.busy
  <2>1. Idle = Reading(0, 0)
    BY DEF Idle, Reading
  <2> QED
    BY <1>1, <2>1, RangeStarts
<1>3. AtaInv'
  BY <1>1, AtaStays DEF FsInv
<1>4. FsTypeInv' /\ CallsInv' /\ WalkInv'
  BY <1>1, <1>2, FileSizes DEF FsInv, FsTypeInv, CallsInv, WalkInv, FileExact, Places, NotFound, Headers
<1> QED
  BY <1>3, <1>4 DEF FsInv

\* A write between two calls, and the steps of driver and drive below a call.
LEMMA WriteKeeps ==
  ASSUME FsInv, NEW lba \in {0, Reach}, NEW v \in Values, at = "idle", Write28(lba, v),
         UNCHANGED fsvars
  PROVE  FsInv'
<1>1. AtaInv'
  BY WriteStarts, Sizes DEF FsInv
<1>2. FsTypeInv' /\ CallsInv' /\ WalkInv'
  BY DEF fsvars, FsInv, FsTypeInv, CallsInv, WalkInv, FileExact
<1> QED
  BY <1>1, <1>2 DEF FsInv

LEMMA BelowKeeps ==
  ASSUME FsInv, Driver \/ Drive, UNCHANGED fsvars
  PROVE  FsInv'
<1>1. AtaInv'
  BY DriverKeeps, DriveKeeps DEF FsInv
<1>2. ASSUME NEW lba, NEW n, CallIs(lba, n)
      PROVE  CallIs(lba, n)'
  BY <1>2, CallStays DEF FsInv
<1>3. /\ at' = at /\ fs_size' = fs_size /\ asked' = asked /\ fs_offset' = fs_offset
      /\ rd' = rd /\ found' = found /\ content' = content
  BY DEF fsvars
<1>4. CallsInv'
  <2>1. at = "mount" => CallIs(FsStart, 1)'
    BY <1>2 DEF FsInv, CallsInv
  <2>2. rd.busy => at \in {"header", "name"} /\ rd.left > 0 /\ CallIs(Lba(rd.offset), 1)'
    BY <1>2, <1>3 DEF FsInv, CallsInv
  <2>3. at = "head" => CallIs(Sector, 1)'
    BY <1>2, <1>3 DEF FsInv, CallsInv, Sector
  <2>4. at = "whole" => CallIs(Sector, Lbas(found))' /\ (Straddles(asked) \/ found = Header(asked))
    BY <1>2, <1>3 DEF FsInv, CallsInv, Sector, Lbas, InSector
  <2> QED
    BY <1>3, <2>1, <2>2, <2>3, <2>4 DEF CallsInv, Sector, Lbas, InSector, Straddles, Header
<1>5. FsTypeInv' /\ WalkInv'
  BY <1>3 DEF FsInv, FsTypeInv, WalkInv, AtFile, InRange, FileExact, Straddles
<1> QED
  BY <1>1, <1>4, <1>5 DEF FsInv

-----------------------------------------------------------------------------
(* The theorems                                                            *)

LEMMA FsStarts == FsInit => FsInv
<1> SUFFICES ASSUME FsInit PROVE FsInv
  OBVIOUS
<1>1. /\ at = "idle" /\ fs_size = 0 /\ asked = 0 /\ fs_offset = 0
      /\ rd = Idle /\ found = NotFound /\ content = <<>>
  BY DEF FsInit
<1>2. rd \in Ranges /\ ~rd.busy
  <2>1. <<>> \in Seq(CellSet)
    BY EmptySeq
  <2> QED
    BY <1>1, <2>1 DEF Idle, Ranges
<1>3. FsTypeInv /\ CallsInv /\ WalkInv
  BY <1>1, <1>2, FileSizes
     DEF FsTypeInv, CallsInv, WalkInv, FileExact, Places, NotFound, Headers
<1> QED
  BY <1>3, AtaStarts DEF FsInv

LEMMA FsSteps == FsInv /\ [FsNext]_allvars => FsInv'
<1> SUFFICES ASSUME FsInv, [FsNext]_allvars PROVE FsInv'
  OBVIOUS
<1>1. CASE UNCHANGED allvars
  <2>1. UNCHANGED vars /\ UNCHANGED fsvars
    BY <1>1 DEF allvars
  <2>2. AtaInv'
    BY <2>1, AtaStays DEF FsInv
  <2>3. FsTypeInv' /\ CallsInv' /\ WalkInv'
    BY <2>1 DEF vars, fsvars, FsInv, FsTypeInv, CallsInv, CallIs, WalkInv, AtFile, InRange,
                FileExact, Sector, Lbas, InSector, Straddles, Header
  <2> QED
    BY <2>2, <2>3 DEF FsInv
<1>2. CASE FsNext
  BY <1>2, BelowKeeps, ReadSectorKeeps, CopySectorKeeps, MountKeeps, MountedKeeps, OpenKeeps,
     NameNextKeeps, SkipFileKeeps, ReadHeadKeeps, ReadWholeKeeps, ReadAstrayKeeps, DeliverKeeps,
     CloseKeeps, WriteKeeps DEF FsNext, Kernel, N
<1> QED
  BY <1>1, <1>2

\* Whatever the drive does between two polls, however long it takes and whether it
\* fails, driver, buffer and the search through the image stay in step.
THEOREM FsInvariant == FsSpec => []FsInv
<1> QED
  BY FsStarts, FsSteps, PTL DEF FsSpec

\* What ata_read_lbas returns are the sectors asked for, each word in its place
\* (ata.c:32-59).
LEMMA ExactBelow == AtaInv => ReadIsExact
<1> SUFFICES ASSUME AtaInv, pc = "idle", call.op = "read",
                    NEW i \in 0 .. call.count - 1, NEW k \in 0 .. Words - 1
             PROVE  buffer[i * Words + k] = Word(call.lba + i, disk[call.lba + i], k)
  BY DEF ReadIsExact
<1> QED
  BY DEF AtaInv, CallInv, BufferInv, Taken

THEOREM ReadsAreExact == FsSpec => []ReadIsExact
<1>1. FsInv => ReadIsExact
  BY ExactBelow DEF FsInv
<1> QED
  BY <1>1, FsInvariant, PTL

\* What ata_write28 wrote is on the disk when it returns, though the flush command
\* behind the words is given to a drive that may still be busy (ata.c:12-30).
THEOREM WritesLand == FsSpec => []WriteLands
<1>1. FsInv => WriteLands
  BY DEF FsInv, AtaInv, DriveInv, Landed, WriteLands
<1> QED
  BY <1>1, FsInvariant, PTL

\* get_file_content returns the data of the file asked for, all of it and in order,
\* unless that file's own header lies across a sector border (mono_fs.c:73-151).
THEOREM FilesAreExact == FsSpec => []FileExact
<1>1. FsInv => FileExact
  BY DEF FsInv, WalkInv
<1> QED
  BY <1>1, FsInvariant, PTL

\* Search and file read no sector but the image's, and go astray for a file alone
\* whose header lies across a sector border (mono_fs.c:11-32, 126-134).
LEMMA ImageBelow == FsInv => ImageOnly
<1> SUFFICES ASSUME FsInv PROVE ImageOnly
  OBVIOUS
<1> DEFINE Within == call.lba >= FsStart /\ call.lba + call.count <= FsStart + SectorsUpTo(End)
<1>1. ASSUME NEW o \in Nat, o < End, End \in Nat, CallIs(Lba(o), 1)
      PROVE  Within
  <2>1. o + 1 <= End
    BY <1>1
  <2>2. Lba(o) + SectorsUpTo(1 + (o % Words)) <= FsStart + SectorsUpTo(End)
    BY <1>1, <2>1, InImage
  <2> QED
    BY <1>1, <2>2, OneSector, Address DEF CallIs
<1>2. ASSUME NEW f \in 1 .. N
      PROVE  /\ Offset(f) \in Nat /\ End \in Nat /\ FileHdr \in Nat /\ Files[f].name \in Nat
             /\ Offset(f) + FileHdr + Files[f].name <= End /\ Offset(f) < End
  BY Place, FileSizes
<1>3. ASSUME rd.busy
      PROVE  Within
  <2>1. at \in {"header", "name"} /\ rd.left > 0 /\ CallIs(Lba(rd.offset), 1) /\ rd.offset \in Nat
    BY <1>3 DEF FsInv, CallsInv, FsTypeInv, Ranges
  <2>2. PICK f \in 1 .. N : AtFile(f)
    BY <2>1 DEF FsInv, WalkInv
  <2>3. rd.offset < Offset(f) + FileHdr + Files[f].name
    <3>1. CASE at = "header"
      BY <1>2, <2>1, <2>2, <3>1 DEF AtFile, InRange
    <3>2. CASE at = "name"
      BY <1>2, <2>1, <2>2, <3>2 DEF AtFile, InRange
    <3> QED
      BY <2>1, <3>1, <3>2
  <2> QED
    BY <1>1, <1>2, <2>1, <2>2, <2>3
<1>4. ASSUME at = "head"
      PROVE  Within
  <2>1. PICK f \in 1 .. N : AtFile(f)
    BY <1>4 DEF FsInv, WalkInv
  <2>2. CallIs(Lba(Offset(f)), 1)
    BY <1>4, <2>1 DEF FsInv, CallsInv, AtFile, Sector, Lba
  <2> QED
    BY <1>1, <1>2, <2>1, <2>2
<1>5. ASSUME at = "whole", ~Straddles(asked)
      PROVE  Within
  <2>1. PICK f \in 1 .. N : AtFile(f)
    BY <1>5 DEF FsInv, WalkInv
  <2>2. f = asked /\ fs_offset = Offset(f) /\ CallIs(Sector, Lbas(Header(f)))
    BY <1>5, <2>1 DEF FsInv, CallsInv, AtFile
  <2> QED
    BY <2>1, <2>2, FileIsSane DEF CallIs
<1>6. at = "astray" => Straddles(asked)
  BY DEF FsInv, WalkInv
<1> QED
  BY <1>3, <1>4, <1>5, <1>6 DEF ImageOnly

THEOREM OnlyTheImage == FsSpec => []ImageOnly
<1> QED
  BY ImageBelow, FsInvariant, PTL

-----------------------------------------------------------------------------
(* Every call to the file system comes to its end                          *)

\* What is left of ata_read28: its polls, the words, and what the drive has still to
\* do before it has the first of them.
DevLeft == IF dev.drq \/ dev.cmd = "none" THEN 0 ELSE IF dev.bsy THEN 1 ELSE 2
SectorLeft ==
    CASE pc = "ready"   -> Words + 9
      [] pc = "command" -> Words + 8
      [] pc = "busy"    -> Words + 4 + DevLeft
      [] pc = "drq"     -> Words + 2 + DevLeft
      [] pc = "data"    -> Words - word + 1 + DevLeft
      [] OTHER          -> 0

\* And of ata_read_lbas, of whose sectors no one costs more than SectorCost.
SectorCost == Words + 10
Behind(i) == (call.count - (i + 1)) * SectorCost
ReadLeft == IF pc = "idle" THEN 0 ELSE Behind(call.i) + SectorLeft

LEMMA DevLeftIsNat == DevLeft \in 0 .. 2
BY DEF DevLeft

\* A longer way costs at least one cost more.
LEMMA CostGrows ==
  ASSUME NEW cost \in Nat, NEW a \in Nat, NEW b \in Nat, a < b
  PROVE  a * cost \in Nat /\ b * cost \in Nat /\ a * cost + cost <= b * cost
<1>1. \A x \in Nat : x * cost \in Nat
  OBVIOUS
<1>2. b - (a + 1) \in Nat
  OBVIOUS
<1>3. (b - (a + 1)) * cost = b * cost - (a * cost + cost)
  OBVIOUS
<1>4. (b - (a + 1)) * cost \in Nat
  BY <1>1, <1>2
<1>5. a * cost \in Nat /\ b * cost \in Nat
  BY <1>1
<1> QED
  BY <1>3, <1>4, <1>5

\* What the drive has to do is known where the driver is.
LEMMA DevLeftAt ==
  ASSUME AtaInv, call.op = "read"
  PROVE  /\ pc \in {"ready", "command", "data"} => DevLeft = 0
         /\ pc = "data" /\ word < Words => dev.drq /\ ~dev.bsy /\ dev.cmd = "read" /\ dev.word = word
<1>1. DriveInv /\ word \in 0 .. Words /\ Words \in Nat
  BY Sizes DEF AtaInv, AtaTypeInv
<1>2. Quiet => DevLeft = 0
  BY DEF Quiet, DevLeft
<1>3. CASE pc \in {"ready", "command"}
  BY <1>1, <1>2, <1>3 DEF DriveInv
<1>4. CASE pc = "data" /\ word < Words
  <2>1. Serving /\ dev.word = word /\ dev.drq /\ ~dev.bsy
    BY <1>1, <1>4 DEF DriveInv
  <2>2. dev.cmd = "read" /\ DevLeft = 0
    BY <2>1 DEF Serving, DevLeft
  <2> QED
    BY <1>4, <2>1, <2>2
<1>5. CASE pc = "data" /\ word = Words
  <2>1. Quiet
    BY <1>1, <1>5 DEF DriveInv
  <2> QED
    BY <1>1, <1>2, <1>5, <2>1
<1> QED
  BY <1>1, <1>3, <1>4, <1>5

\* The read of a sector has an end.
LEMMA SectorLeftIsNat ==
  ASSUME AtaInv, pc \in {"ready", "command", "busy", "drq", "data"}
  PROVE  SectorLeft \in Nat /\ SectorLeft >= 1 /\ SectorLeft < SectorCost /\ SectorCost \in Nat
<1>1. word \in 0 .. Words /\ Words \in Nat /\ DevLeft \in 0 .. 2
  BY Sizes, DevLeftIsNat DEF AtaInv, AtaTypeInv
<1>2. SectorCost = Words + 10
  BY DEF SectorCost
<1>3. \/ SectorLeft = Words + 9
      \/ SectorLeft = Words + 8
      \/ SectorLeft = Words + 4 + DevLeft
      \/ SectorLeft = Words + 2 + DevLeft
      \/ SectorLeft = Words - word + 1 + DevLeft
  BY DEF SectorLeft
<1> QED
  BY <1>1, <1>2, <1>3

LEMMA ReadPlaces ==
  ASSUME AtaInv, call.op = "read"
  PROVE  /\ pc \in {"idle", "ready", "command", "busy", "drq", "data"}
         /\ call.count \in Nat /\ call.i \in Nat /\ call.count <= MaxCount
         /\ pc # "idle" => call.i + 1 <= call.count
         /\ call \in Calls
<1>1. /\ pc \in DriverAt /\ call \in Calls
      /\ pc = "flush" => call.op = "write"
      /\ call.count \in 1 .. MaxCount /\ MaxCount \in Nat
      /\ call.i \in 0 .. call.count - (IF pc = "idle" THEN 0 ELSE 1)
  BY Sizes DEF AtaInv, AtaTypeInv, CallInv
<1>2. call.count \in Nat /\ call.i \in Nat
  BY <1>1 DEF Calls
<1>3. pc # "idle" => call.i + 1 <= call.count
  BY <1>1, <1>2
<1> QED
  BY <1>1, <1>2, <1>3 DEF DriverAt

LEMMA ReadLeftIsNat ==
  ASSUME AtaInv, call.op = "read"
  PROVE  ReadLeft \in Nat /\ (pc # "idle" => ReadLeft >= 1) /\ (pc = "idle" => ReadLeft = 0)
<1>1. CASE pc = "idle"
  BY <1>1 DEF ReadLeft
<1>2. CASE pc # "idle"
  <2>1. call.count - (call.i + 1) \in Nat
    BY <1>2, ReadPlaces
  <2>2. SectorLeft \in Nat /\ SectorLeft >= 1 /\ SectorCost \in Nat
    BY <1>2, ReadPlaces, SectorLeftIsNat
  <2>3. \A x \in Nat : x * SectorCost \in Nat
    BY <2>2
  <2>4. Behind(call.i) \in Nat
    BY <2>1, <2>3 DEF Behind
  <2>5. ReadLeft = Behind(call.i) + SectorLeft
    BY <1>2 DEF ReadLeft
  <2> QED
    BY <1>2, <2>2, <2>4, <2>5
<1> QED
  BY <1>1, <1>2

\* Each poll that passes, each word and each step of the drive leaves less to do.
LEMMA WithinSector ==
  ASSUME AtaInv, call.op = "read",
         WaitReady \/ Command \/ WaitBusy \/ WaitDrq \/ InWord \/ Drive
  PROVE  /\ call' = call /\ pc # "idle" /\ pc' # "idle"
         /\ SectorLeft' < SectorLeft /\ SectorLeft' \in Nat
<1>1. /\ word \in 0 .. Words /\ Words \in Nat \ {0} /\ dev \in Drives /\ DriveInv
      /\ pc \in {"idle", "ready", "command", "busy", "drq", "data"}
  BY Sizes, ReadPlaces DEF AtaInv, AtaTypeInv
<1>2. CASE WaitReady
  <2>1. call' = call /\ pc = "ready" /\ pc' = "command"
    BY <1>2 DEF WaitReady
  <2>2. SectorLeft = Words + 9 /\ SectorLeft' = Words + 8
    BY <2>1 DEF SectorLeft
  <2> QED
    BY <1>1, <2>1, <2>2
<1>3. CASE Command
  <2>1. call' = call /\ pc = "command" /\ pc' = "busy"
    BY <1>3 DEF Command
  <2>2. PICK d \in 0 .. 2 : DevLeft' = d
    BY DEF DevLeft
  <2>3. SectorLeft = Words + 8 /\ SectorLeft' = Words + 4 + d
    BY <2>1, <2>2 DEF SectorLeft
  <2> QED
    BY <1>1, <2>1, <2>3
<1>4. CASE WaitBusy
  <2>1. call' = call /\ pc = "busy" /\ pc' = "drq" /\ dev' = dev
    BY <1>4 DEF WaitBusy
  <2>2. DevLeft' = DevLeft /\ DevLeft \in 0 .. 2
    BY <2>1, DevLeftIsNat DEF DevLeft
  <2>3. SectorLeft = Words + 4 + DevLeft /\ SectorLeft' = Words + 2 + DevLeft
    BY <2>1, <2>2 DEF SectorLeft
  <2> QED
    BY <1>1, <2>1, <2>2, <2>3
<1>5. CASE WaitDrq
  <2>1. call' = call /\ pc = "drq" /\ pc' = "data" /\ dev' = dev /\ word' = word
    BY <1>5 DEF WaitDrq
  <2>2. DevLeft' = DevLeft /\ DevLeft \in 0 .. 2
    BY <2>1, DevLeftIsNat DEF DevLeft
  <2>3. SectorLeft = Words + 2 + DevLeft /\ SectorLeft' = Words - word + 1 + DevLeft
    BY <2>1, <2>2 DEF SectorLeft
  <2> QED
    BY <1>1, <2>1, <2>2, <2>3
<1>6. CASE InWord
  <2>1. call' = call /\ pc = "data" /\ pc' = "data" /\ dev' = Moved /\ word' = word + 1 /\ word < Words
    BY <1>6 DEF InWord
  <2>2. DevLeft = 0 /\ dev.drq /\ ~dev.bsy /\ dev.cmd = "read" /\ dev.word = word
    BY <2>1, DevLeftAt
  <2>3. /\ Moved.drq = (word + 1 < Words)
        /\ word + 1 = Words => Moved.cmd = "none"
    BY <1>1, <2>1, <2>2, MovedFields
  <2>4. dev'.drq \/ dev'.cmd = "none"
    <3>1. word + 1 < Words \/ word + 1 = Words
      BY <1>1, <2>1
    <3>2. Moved.drq \/ Moved.cmd = "none"
      BY <2>3, <3>1, Zenon
    <3> QED
      BY <2>1, <3>2, Zenon
  <2>5. DevLeft' = 0
    BY <2>4 DEF DevLeft
  <2>6. SectorLeft = Words - word + 1 /\ SectorLeft' = Words - (word + 1) + 1
    <3>1. SectorLeft = Words - word + 1 + DevLeft /\ SectorLeft' = Words - (word + 1) + 1 + DevLeft'
      BY <2>1 DEF SectorLeft
    <3> QED
      BY <1>1, <2>2, <2>5, <3>1
  <2> QED
    BY <1>1, <2>1, <2>6
<1>7. CASE Drive
  <2>1. call' = call /\ pc' = pc /\ word' = word
    BY <1>7 DEF Drive, DevStarts, DevReady, DevWritten, DevFails
  <2>2. dev.bsy \/ (~dev.drq /\ dev.cmd # "none")
    BY <1>7 DEF Drive, DevStarts, DevReady, DevWritten, DevFails
  <2>3. pc \in {"busy", "drq"}
    BY <1>1, <2>2 DEF DriveInv, Quiet
  <2>4. /\ dev.cmd = "read" /\ ~(dev.bsy /\ dev.drq)
    BY <1>1, <2>2, <2>3 DEF DriveInv, Quiet, Serving
  <2>5. <<DevLeft, DevLeft'>> \in {<<2, 1>>, <<1, 0>>}
    <3>1. CASE DevStarts
      <4>1. ~dev.bsy /\ ~dev.drq /\ dev'.bsy /\ ~dev'.drq /\ dev'.cmd = "read"
        BY <1>1, <2>4, <3>1, DriveFields DEF DevStarts
      <4> QED
        BY <2>4, <4>1 DEF DevLeft
    <3>2. CASE DevReady
      <4>1. dev.bsy /\ dev'.drq
        BY <1>1, <3>2, DriveFields DEF DevReady
      <4> QED
        BY <2>4, <4>1 DEF DevLeft
    <3>3. CASE DevFails
      <4>1. dev.bsy /\ dev'.cmd = "none"
        BY <1>1, <3>3, DriveFields DEF DevFails
      <4> QED
        BY <2>4, <4>1 DEF DevLeft
    <3>4. ~DevWritten
      BY <2>4 DEF DevWritten
    <3> QED
      BY <1>7, <3>1, <3>2, <3>3, <3>4 DEF Drive
  <2>6. \/ SectorLeft = Words + 4 + DevLeft /\ SectorLeft' = Words + 4 + DevLeft'
        \/ SectorLeft = Words + 2 + DevLeft /\ SectorLeft' = Words + 2 + DevLeft'
    BY <2>1, <2>3 DEF SectorLeft
  <2> QED
    BY <1>1, <2>1, <2>3, <2>5, <2>6
<1> QED
  BY <1>2, <1>3, <1>4, <1>5, <1>6, <1>7

\* Each step of driver and drive leaves less of ata_read_lbas.
LEMMA ReadGoesDown ==
  ASSUME AtaInv, call.op = "read", Driver \/ Drive
  PROVE  ReadLeft' < ReadLeft /\ ReadLeft' \in Nat
<1>1. /\ call.count \in Nat /\ call.i \in Nat /\ call \in Calls
      /\ pc # "idle" => call.i + 1 <= call.count
  BY ReadPlaces
<1>2. CASE WaitReady \/ Command \/ WaitBusy \/ WaitDrq \/ InWord \/ Drive
  <2>1. /\ call' = call /\ pc # "idle" /\ pc' # "idle"
        /\ SectorLeft' < SectorLeft /\ SectorLeft' \in Nat
    BY <1>2, WithinSector
  <2>2. ReadLeft = Behind(call.i) + SectorLeft /\ ReadLeft' = Behind(call.i) + SectorLeft'
    BY <2>1 DEF ReadLeft, Behind, SectorCost
  <2>3. SectorLeft \in Nat /\ SectorCost \in Nat
    BY <2>1, ReadPlaces, SectorLeftIsNat
  <2>4. Behind(call.i) \in Nat
    <3>1. call.count - (call.i + 1) \in Nat
      BY <1>1, <2>1
    <3>2. \A x \in Nat : x * SectorCost \in Nat
      BY <2>3
    <3> QED
      BY <3>1, <3>2 DEF Behind
  <2> QED
    BY <2>1, <2>2, <2>3, <2>4
<1>3. CASE SectorRead
  <2>1. /\ pc = "data" /\ word = Words /\ call' = [call EXCEPT !.i = @ + 1]
        /\ pc' = IF call.i + 1 < call.count THEN "ready" ELSE "idle"
    BY <1>3 DEF SectorRead
  <2>2. call'.i = call.i + 1 /\ call'.count = call.count
    BY <1>1, <2>1, Zenon DEF Calls
  <2>3. ReadLeft \in Nat /\ ReadLeft >= 1
    BY <2>1, ReadLeftIsNat
  <2>4. CASE pc' = "idle"
    <3>1. ReadLeft' = 0
      BY <2>4 DEF ReadLeft
    <3> QED
      BY <2>3, <3>1
  <2>5. CASE pc' # "idle"
    <3>1. pc' = "ready" /\ call.i + 1 < call.count
      BY <2>1, <2>5
    <3> DEFINE a == call.count - (call.i + 1 + 1)
               b == call.count - (call.i + 1)
    <3>2. a \in Nat /\ b \in Nat /\ a < b
      BY <1>1, <3>1
    <3>3. ReadLeft' = a * SectorCost + (Words + 9)
      <4>1. SectorLeft' = Words + 9
        BY <3>1 DEF SectorLeft
      <4>2. ReadLeft' = Behind(call.i)' + SectorLeft'
        BY <2>2, <2>5 DEF ReadLeft
      <4>3. Behind(call.i)' = a * SectorCost
        BY <2>2 DEF Behind, SectorCost
      <4> QED
        BY <4>1, <4>2, <4>3
    <3>4. ReadLeft = b * SectorCost + SectorLeft
      BY <2>1 DEF ReadLeft, Behind
    <3> HIDE DEF a, b
    <3>5. SectorLeft \in Nat /\ SectorLeft >= 1 /\ SectorCost \in Nat
      BY <2>1, SectorLeftIsNat
    <3>6. SectorCost = Words + 10 /\ Words \in Nat
      BY Sizes DEF SectorCost
    <3>7. a * SectorCost \in Nat /\ b * SectorCost \in Nat /\ a * SectorCost + SectorCost <= b * SectorCost
      BY <3>2, <3>5, CostGrows
    <3> DEFINE x == a * SectorCost
               y == b * SectorCost
    <3> HIDE DEF x, y
    <3>8. x \in Nat /\ y \in Nat /\ x + SectorCost <= y /\ ReadLeft' = x + (Words + 9) /\ ReadLeft = y + SectorLeft
      BY <3>3, <3>4, <3>7 DEF x, y
    <3> QED
      BY <3>5, <3>6, <3>8
  <2> QED
    BY <2>4, <2>5
<1>4. ~OutWord /\ ~Flush /\ ~WaitFlush
  <2>1. pc # "flush"
    BY DEF AtaInv, CallInv
  <2> QED
    BY <2>1 DEF OutWord, Flush, WaitFlush
<1> QED
  BY <1>2, <1>3, <1>4 DEF Driver

\* What a call of ata_read_lbas costs.
LEMMA ReadCosts ==
  ASSUME NEW lba \in Nat, NEW n \in 1 .. MaxCount, ReadLbas(lba, n)
  PROVE  /\ ReadLeft' \in Nat /\ n * SectorCost \in Nat /\ ReadLeft' < n * SectorCost
         /\ SectorCost \in Nat /\ MaxCount \in Nat
<1>1. pc' = "ready" /\ call' = [op |-> "read", lba |-> lba, count |-> n, value |-> 0, i |-> 0]
  BY DEF ReadLbas
<1>2. call'.count = n /\ call'.i = 0
  BY <1>1
<1>3. Words \in Nat /\ SectorCost = Words + 10 /\ SectorCost \in Nat /\ MaxCount \in Nat
  BY Sizes DEF SectorCost
<1> DEFINE a == n - 1
           x == a * SectorCost
           y == n * SectorCost
<1>4. a \in Nat /\ n \in Nat /\ a < n /\ n - (0 + 1) = a
  BY <1>3
<1>5. ReadLeft' = x + (Words + 9)
  <2>1. SectorLeft' = Words + 9
    BY <1>1 DEF SectorLeft
  <2>2. ReadLeft' = Behind(0)' + SectorLeft'
    BY <1>1, <1>2 DEF ReadLeft
  <2>3. Behind(0)' = x
    BY <1>2, <1>4 DEF Behind, SectorCost
  <2> HIDE DEF x
  <2> QED
    BY <2>1, <2>2, <2>3
<1>6. x \in Nat /\ y \in Nat /\ x + SectorCost <= y
  <2> HIDE DEF a
  <2> QED
    BY <1>3, <1>4, CostGrows
<1> HIDE DEF x, y
<1>7. ReadLeft' \in Nat /\ ReadLeft' < y
  BY <1>3, <1>5, <1>6
<1> QED
  BY <1>3, <1>6, <1>7 DEF y

\* What a byte of a range costs at most, the sectors of a whole file, the file's
\* header before them, and a byte of the image that the search has still before it.
ByteCost == SectorCost + 1
WholeCost == MaxCount * SectorCost + 1
HeadCost == SectorCost + WholeCost + 1
SearchCost == (FileHdr + End) * ByteCost + 2

RangeLeft == IF rd.busy THEN (rd.left - 1) * ByteCost + ReadLeft + 1 ELSE rd.left * ByteCost

\* What is left of mono_fs_init, or of the search and of the file behind it.
StepsLeft ==
    CASE at = "mount"  -> ReadLeft + 1
      [] at = "header" -> (End - fs_offset) * SearchCost + End * ByteCost + RangeLeft + HeadCost + 2
      [] at = "name"   -> (End - fs_offset) * SearchCost + RangeLeft + HeadCost + 1
      [] at = "head"   -> WholeCost + ReadLeft + 1
      [] at = "whole"  -> ReadLeft + 1
      [] OTHER         -> 0

\* A call to the file system is under way.
AtWork == at \in {"mount", "header", "name", "head", "whole"}

\* Between two sectors the driver has no call, and a command without a result is one
\* that failed.
WorkInv ==
    /\ at \in {"header", "name"} /\ ~rd.busy => pc = "idle"
    /\ pc \in {"busy", "drq"} /\ Quiet => dev.failed

\* All the costs are numbers.
LEMMA Costs ==
  /\ SectorCost \in Nat /\ ByteCost \in Nat /\ WholeCost \in Nat /\ HeadCost \in Nat
  /\ SearchCost \in Nat /\ ByteCost = SectorCost + 1 /\ HeadCost = SectorCost + WholeCost + 1
  /\ \A n \in Nat : n * ByteCost \in Nat /\ n * SearchCost \in Nat
<1>1. Words \in Nat /\ MaxCount \in Nat /\ FileHdr \in Nat /\ End \in Nat
  BY Sizes, FileSizes, Layout
<1>2. SectorCost \in Nat /\ ByteCost \in Nat /\ ByteCost = SectorCost + 1
  BY <1>1 DEF SectorCost, ByteCost
<1>3. WholeCost \in Nat
  BY <1>1, <1>2 DEF WholeCost
<1>4. HeadCost \in Nat /\ HeadCost = SectorCost + WholeCost + 1
  BY <1>2, <1>3 DEF HeadCost
<1>5. SearchCost \in Nat
  <2>1. FileHdr + End \in Nat
    BY <1>1
  <2>2. \A x \in Nat : x * ByteCost \in Nat
    BY <1>2
  <2>3. (FileHdr + End) * ByteCost \in Nat
    BY <2>1, <2>2
  <2> QED
    BY <2>3 DEF SearchCost
<1>6. \A n \in Nat : n * ByteCost \in Nat /\ n * SearchCost \in Nat
  BY <1>2, <1>5
<1> QED
  BY <1>2, <1>3, <1>4, <1>5, <1>6

\* While a call is under way, the driver is reading for it.
LEMMA AtWorkReads ==
  ASSUME FsInv, WorkInv, AtWork, pc # "idle"
  PROVE  call.op = "read" /\ (at \in {"header", "name"} => rd.busy)
BY DEF FsInv, CallsInv, CallIs, WorkInv, AtWork

LEMMA WorkStarts == FsInit => WorkInv
BY DEF FsInit, Init, WorkInv

\* A search goes on with a range of its own, and the driver has no call then.
LEMMA WorkKeeps == FsInv /\ WorkInv /\ [FsNext]_allvars => WorkInv'
<1> SUFFICES ASSUME FsInv, WorkInv, [FsNext]_allvars PROVE WorkInv'
  OBVIOUS
<1>1. AtaInv /\ DriveInv /\ rd \in Ranges /\ dev \in Drives
  BY DEF FsInv, AtaInv, FsTypeInv, AtaTypeInv
<1>2. ASSUME Driver, UNCHANGED fsvars
      PROVE  WorkInv'
  <2>1. pc # "idle" /\ rd' = rd /\ at' = at
    BY <1>2 DEF Driver, WaitReady, Command, WaitBusy, WaitDrq, InWord, OutWord, SectorRead, Flush,
                WaitFlush, fsvars
  <2>2. CASE Command
    <3>1. pc = "command" /\ ~dev.bsy /\ pc' = "busy"
      BY <1>1, <2>2 DEF Command, DriveInv, Quiet
    <3>2. dev'.cmd = call.op
      BY <1>1, <2>2, <3>1, Zenon DEF Command, Drives
    <3>3. call.op # "none"
      BY <1>1, <3>1 DEF AtaInv, CallInv
    <3> QED
      BY <2>1, <3>1, <3>2, <3>3 DEF WorkInv, Quiet
  <2>3. CASE WaitBusy
    BY <1>2, <2>1, <2>3 DEF WaitBusy, WorkInv, Quiet
  <2>4. CASE WaitReady \/ WaitDrq \/ InWord \/ OutWord \/ SectorRead \/ Flush \/ WaitFlush
    <3>1. pc' \notin {"busy", "drq"}
      BY <2>4 DEF WaitReady, WaitDrq, InWord, OutWord, SectorRead, Flush, WaitFlush
    <3> QED
      BY <2>1, <3>1 DEF WorkInv
  <2> QED
    BY <1>2, <2>2, <2>3, <2>4 DEF Driver
<1>3. ASSUME Drive, UNCHANGED fsvars
      PROVE  WorkInv'
  <2>1. pc' = pc /\ rd' = rd /\ at' = at
    BY <1>3 DEF Drive, DevStarts, DevReady, DevWritten, DevFails, fsvars
  <2>2. pc \in {"busy", "drq"} => Serving /\ dev.word = 0 /\ call.op # "none"
    BY <1>1, <1>3 DEF Drive, DevStarts, DevReady, DevWritten, DevFails, DriveInv, Quiet, AtaInv, CallInv
  <2>3. ASSUME pc \in {"busy", "drq"}
        PROVE  ~Quiet' \/ dev'.failed
    <3>1. CASE DevStarts \/ DevReady
      BY <1>1, <3>1, DriveFields DEF DevStarts, DevReady, Quiet
    <3>2. CASE DevFails
      BY <1>1, <3>2, DriveFields DEF DevFails
    <3>3. ~DevWritten
      BY <2>2, <2>3, Sizes DEF DevWritten
    <3> QED
      BY <1>3, <3>1, <3>2, <3>3 DEF Drive
  <2> QED
    BY <2>1, <2>3 DEF WorkInv
<1>4. CASE UNCHANGED allvars
  BY <1>4 DEF allvars, vars, fsvars, WorkInv, Quiet
<1>5. ASSUME NEW lba, NEW n, ReadLbas(lba, n), at' \in {"mount", "head", "whole"} \/ rd'.busy
      PROVE  WorkInv'
  BY <1>5 DEF ReadLbas, WorkInv
<1>6. CASE ReadSector \/ Mount \/ ReadHead \/ ReadWhole
  <2>1. ReadSector => rd'.busy
    BY <1>1, Zenon DEF ReadSector, Ranges
  <2> QED
    BY <1>5, <1>6, <2>1 DEF ReadSector, Mount, ReadHead, ReadWhole
<1>7. CASE CopySector \/ Mounted \/ (\E f \in 0 .. Len(Files) : Open(f)) \/ ReadAstray \/ Deliver
  <2>1. UNCHANGED vars /\ pc = "idle"
    BY <1>7 DEF CopySector, Mounted, Open, ReadAstray, Deliver
  <2> QED
    BY <2>1 DEF WorkInv, vars
<1>8. CASE NameNext \/ SkipFile
  <2>1. UNCHANGED vars /\ at \in {"header", "name"} /\ ~rd.busy
    BY <1>8 DEF NameNext, SkipFile, RangeRead
  <2>2. pc = "idle"
    BY <2>1 DEF WorkInv
  <2> QED
    BY <2>1, <2>2 DEF WorkInv, vars
<1>9. CASE Close
  BY <1>9 DEF Close, WorkInv, vars, Quiet
<1>10. ASSUME NEW lba, NEW v, at = "idle", Write28(lba, v), UNCHANGED fsvars
       PROVE  WorkInv'
  BY <1>10 DEF Write28, WorkInv, fsvars
<1> QED
  BY <1>2, <1>3, <1>4, <1>6, <1>7, <1>8, <1>9, <1>10 DEF FsNext, Kernel

\* What a range needs.
LEMMA RangeLeftIsNat ==
  ASSUME FsInv, at \in {"header", "name"}
  PROVE  RangeLeft \in Nat /\ rd.left \in Nat /\ rd.offset \in Nat
<1>1. rd \in Ranges
  BY DEF FsInv, FsTypeInv
<1>2. rd.left \in Nat /\ rd.offset \in Nat
  BY <1>1 DEF Ranges
<1>3. CASE ~rd.busy
  BY <1>2, <1>3, Costs DEF RangeLeft
<1>4. CASE rd.busy
  <2>1. call.op = "read" /\ rd.left > 0 /\ AtaInv
    BY <1>4 DEF FsInv, CallsInv, CallIs
  <2>2. ReadLeft \in Nat
    BY <2>1, ReadLeftIsNat
  <2>3. rd.left - 1 \in Nat
    BY <1>2, <2>1
  <2> DEFINE r == (rd.left - 1) * ByteCost
  <2>4. r \in Nat
    BY <2>3, Costs
  <2>5. RangeLeft = r + ReadLeft + 1
    BY <1>4 DEF RangeLeft
  <2> HIDE DEF r
  <2>6. r + ReadLeft + 1 \in Nat
    BY <2>2, <2>4
  <2> QED
    BY <1>2, <2>5, <2>6, Zenon
<1> QED
  BY <1>2, <1>3, <1>4

\* Where the search is in the image.
LEMMA SearchAt ==
  ASSUME FsInv, at \in {"header", "name"}
  PROVE  \E f \in 1 .. N :
           /\ AtFile(f) /\ fs_offset = Offset(f) /\ fs_offset \in Nat /\ End \in Nat
           /\ Total(f) \in Nat /\ Total(f) >= 1 /\ fs_offset + Total(f) <= End
           /\ Files[f].name \in Nat /\ Files[f].name <= Total(f) /\ Total(f) <= End
<1>1. PICK f \in 1 .. N : AtFile(f)
  BY DEF FsInv, WalkInv
<1>2. /\ fs_offset = Offset(f) /\ Offset(f) \in Nat /\ End \in Nat /\ Offset(f) + Total(f) <= End
  BY <1>1, Place DEF AtFile
<1>3. /\ Files[f].name \in Nat /\ Total(f) \in Nat /\ FileHdr \in Nat /\ FileHdr >= 1
      /\ Total(f) >= FileHdr + Files[f].name
  BY FileSizes
<1>4. Total(f) >= 1 /\ Files[f].name <= Total(f) /\ Total(f) <= End
  BY <1>2, <1>3
<1> QED
  BY <1>1, <1>2, <1>3, <1>4

LEMMA StepsLeftIsNat ==
  ASSUME FsInv
  PROVE  StepsLeft \in Nat /\ (AtWork => StepsLeft >= 1)
<1>1. AtaInv /\ at \in Places
  BY DEF FsInv, FsTypeInv
<1>2. CASE at \in {"mount", "head", "whole"}
  <2>1. ReadLeft \in Nat
    BY <1>1, <1>2, ReadLeftIsNat DEF FsInv, CallsInv, CallIs
  <2>2. StepsLeft = ReadLeft + 1 \/ StepsLeft = WholeCost + ReadLeft + 1
    BY <1>2 DEF StepsLeft
  <2> QED
    BY <2>1, <2>2, Costs
<1>3. CASE at \in {"header", "name"}
  <2>1. RangeLeft \in Nat
    BY <1>3, RangeLeftIsNat
  <2>2. End - fs_offset \in Nat /\ End \in Nat
    BY <1>3, SearchAt
  <2> DEFINE x == (End - fs_offset) * SearchCost
             y == End * ByteCost
  <2>3. x \in Nat /\ y \in Nat
    BY <2>2, Costs
  <2> HIDE DEF x, y
  <2>4. StepsLeft = x + y + RangeLeft + HeadCost + 2 \/ StepsLeft = x + RangeLeft + HeadCost + 1
    BY <1>3 DEF StepsLeft, x, y
  <2> QED
    BY <2>1, <2>3, <2>4, Costs
<1>4. CASE at \in {"idle", "astray", "done"}
  BY <1>4 DEF StepsLeft, AtWork
<1> QED
  BY <1>1, <1>2, <1>3, <1>4 DEF Places

\* A step of the driver or of the drive.
LEMMA BelowGoesDown ==
  ASSUME FsInv, WorkInv, AtWork, Driver \/ Drive, UNCHANGED fsvars
  PROVE  StepsLeft' < StepsLeft
<1>1. AtaInv /\ at' = at /\ rd' = rd /\ fs_offset' = fs_offset
  BY DEF FsInv, fsvars
<1>2. pc # "idle"
  <2>1. Drive => ~Quiet
    BY DEF Drive, DevStarts, DevReady, DevWritten, DevFails, Quiet
  <2>2. pc = "idle" => Quiet
    BY <1>1 DEF AtaInv, DriveInv
  <2> QED
    BY <2>1, <2>2 DEF Driver, WaitReady, Command, WaitBusy, WaitDrq, InWord, OutWord, SectorRead,
                      Flush, WaitFlush
<1>3. call.op = "read" /\ (at \in {"header", "name"} => rd.busy)
  BY <1>2, AtWorkReads
<1>4. PICK l \in Nat : ReadLeft' = l /\ l < ReadLeft
  BY <1>1, <1>3, ReadGoesDown
<1>5. ReadLeft \in Nat
  BY <1>1, <1>3, ReadLeftIsNat
<1>6. CASE at \in {"mount", "whole"}
  <2>1. StepsLeft = ReadLeft + 1 /\ StepsLeft' = l + 1
    BY <1>1, <1>4, <1>6 DEF StepsLeft
  <2> QED
    BY <1>4, <1>5, <2>1
<1>7. CASE at = "head"
  <2>1. StepsLeft = WholeCost + ReadLeft + 1 /\ StepsLeft' = WholeCost + l + 1
    BY <1>1, <1>4, <1>7 DEF StepsLeft, WholeCost, SectorCost
  <2> QED
    BY <1>4, <1>5, <2>1, Costs
<1>8. CASE at \in {"header", "name"}
  <2> DEFINE r == (rd.left - 1) * ByteCost
             x == (End - fs_offset) * SearchCost
             y == End * ByteCost
  <2>1. rd.left - 1 \in Nat
    <3>1. rd.left \in Nat /\ rd.left > 0
      BY <1>3, <1>8, RangeLeftIsNat DEF FsInv, CallsInv
    <3> QED
      BY <3>1
  <2>2. End - fs_offset \in Nat /\ End \in Nat
    BY <1>8, SearchAt
  <2>3. r \in Nat /\ x \in Nat /\ y \in Nat
    BY <2>1, <2>2, Costs
  <2>4. RangeLeft = r + ReadLeft + 1 /\ RangeLeft' = r + l + 1
    BY <1>1, <1>3, <1>4, <1>8 DEF RangeLeft, ByteCost, SectorCost
  <2>5. \/ StepsLeft = x + y + RangeLeft + HeadCost + 2 /\ StepsLeft' = x + y + RangeLeft' + HeadCost + 2
        \/ StepsLeft = x + RangeLeft + HeadCost + 1 /\ StepsLeft' = x + RangeLeft' + HeadCost + 1
    BY <1>1, <1>8 DEF StepsLeft, HeadCost, WholeCost, SearchCost, ByteCost, SectorCost
  <2> HIDE DEF r, x, y
  <2>6. \/ StepsLeft = x + y + (r + ReadLeft + 1) + HeadCost + 2 /\ StepsLeft' = x + y + (r + l + 1) + HeadCost + 2
        \/ StepsLeft = x + (r + ReadLeft + 1) + HeadCost + 1 /\ StepsLeft' = x + (r + l + 1) + HeadCost + 1
    BY <2>4, <2>5
  <2> QED
    BY <1>4, <1>5, <2>3, <2>6, Costs
<1> QED
  BY <1>6, <1>7, <1>8 DEF AtWork

\* A sector of a range is asked for, and copied.
LEMMA RangeGoesDown ==
  ASSUME FsInv, WorkInv, ReadSector \/ CopySector
  PROVE  StepsLeft' < StepsLeft
<1>1. /\ at \in {"header", "name"} /\ at' = at /\ fs_offset' = fs_offset /\ AtaInv
  BY DEF ReadSector, CopySector, FsInv, CallsInv
<1>2. rd \in Ranges /\ rd.left \in Nat /\ rd.offset \in Nat /\ RangeLeft \in Nat
  BY <1>1, RangeLeftIsNat DEF FsInv, FsTypeInv
<1>3. PICK l \in Nat : RangeLeft' = l /\ l < RangeLeft
  <2>1. CASE ReadSector
    <3>1. /\ rd.left > 0 /\ ~rd.busy /\ ReadLbas(Lba(rd.offset), 1) /\ rd' = [rd EXCEPT !.busy = TRUE]
      BY <2>1 DEF ReadSector
    <3>2. rd'.busy /\ rd'.left = rd.left
      BY <1>2, <3>1, Zenon DEF Ranges
    <3>3. PICK c \in Nat : ReadLeft' = c /\ c < SectorCost
      <4>1. Lba(rd.offset) \in Nat /\ 1 \in 1 .. MaxCount
        BY <1>2, Address, Sizes
      <4>2. ReadLeft' \in Nat /\ ReadLeft' < 1 * SectorCost /\ 1 * SectorCost = SectorCost
        <5>1. ReadLeft' \in Nat /\ ReadLeft' < 1 * SectorCost
          BY <3>1, <4>1, ReadCosts
        <5>2. 1 * SectorCost = SectorCost
          BY Costs
        <5> QED
          BY <5>1, <5>2
      <4> QED
        BY <4>2
    <3> DEFINE a == rd.left - 1
               b == rd.left
               x == a * ByteCost
               y == b * ByteCost
    <3>4. a \in Nat /\ b \in Nat /\ a < b
      BY <1>2, <3>1
    <3>5. RangeLeft = y /\ RangeLeft' = x + c + 1
      BY <3>1, <3>2, <3>3 DEF RangeLeft, ByteCost, SectorCost
    <3> HIDE DEF a, b
    <3>6. x \in Nat /\ y \in Nat /\ x + ByteCost <= y
      BY <3>4, Costs, CostGrows
    <3> HIDE DEF x, y
    <3>7. x + c + 1 \in Nat /\ x + c + 1 < y
      BY <3>3, <3>6, Costs
    <3> QED
      BY <3>5, <3>7
  <2>2. CASE CopySector
    <3>1. /\ pc = "idle" /\ rd.busy /\ rd.left > 0 /\ call.op = "read"
          /\ rd' = [offset |-> rd.offset + ToCopy, left |-> rd.left - ToCopy, busy |-> FALSE,
                    out |-> rd.out \o Cells(rd.offset % LBA_SIZE, ToCopy)]
      BY <2>2 DEF CopySector, FsInv, CallsInv, CallIs
    <3>2. ~rd'.busy /\ rd'.left = rd.left - ToCopy
      BY <3>1
    <3>3. ToCopy \in 1 .. rd.left
      <4> DEFINE q == rd.offset % Words
                 rest == Words - q
      <4>1. Words \in Nat \ {0} /\ q \in 0 .. Words - 1
        BY <1>2, Sizes, DivBound
      <4> HIDE DEF q
      <4>2. rest \in Nat /\ rest >= 1
        BY <4>1
      <4>3. ToCopy = IF rest > rd.left THEN rd.left ELSE rest
        BY DEF ToCopy, LBA_SIZE, q
      <4> HIDE DEF rest
      <4> QED
        BY <1>2, <3>1, <4>2, <4>3
    <3> DEFINE a == rd.left - ToCopy
               b == rd.left - 1
               x == a * ByteCost
               y == b * ByteCost
    <3>4. a \in Nat /\ b \in Nat /\ a <= b
      <4> DEFINE t == ToCopy
      <4>1. t \in 1 .. rd.left
        BY <3>3
      <4> HIDE DEF t
      <4>2. rd.left - t \in Nat /\ rd.left - 1 \in Nat /\ rd.left - t <= rd.left - 1
        BY <1>2, <3>1, <4>1
      <4> QED
        BY <4>2 DEF t
    <3>5. ReadLeft = 0
      BY <1>1, <3>1, ReadLeftIsNat
    <3>6. RangeLeft = y + 0 + 1 /\ RangeLeft' = x
      BY <3>1, <3>2, <3>5 DEF RangeLeft, ByteCost, SectorCost
    <3> HIDE DEF a, b
    <3>7. x \in Nat /\ y \in Nat /\ x <= y
      <4>1. x \in Nat /\ y \in Nat
        BY <3>4, Costs
      <4>2. CASE a = b
        BY <4>1, <4>2
      <4>3. CASE a < b
        <5>1. x + ByteCost <= y
          BY <3>4, <4>3, Costs, CostGrows
        <5> HIDE DEF x, y
        <5> QED
          BY <4>1, <5>1, Costs
      <4> QED
        BY <3>4, <4>2, <4>3
    <3> HIDE DEF x, y
    <3> QED
      BY <3>6, <3>7
  <2> QED
    BY <2>1, <2>2
<1> DEFINE x == (End - fs_offset) * SearchCost
           y == End * ByteCost
<1>4. x \in Nat /\ y \in Nat
  <2>1. End - fs_offset \in Nat /\ End \in Nat
    BY <1>1, SearchAt
  <2> QED
    BY <2>1, Costs
<1>5. \/ StepsLeft = x + y + RangeLeft + HeadCost + 2 /\ StepsLeft' = x + y + l + HeadCost + 2
      \/ StepsLeft = x + RangeLeft + HeadCost + 1 /\ StepsLeft' = x + l + HeadCost + 1
  BY <1>1, <1>3 DEF StepsLeft, HeadCost, WholeCost, SearchCost, ByteCost, SectorCost
<1> HIDE DEF x, y
<1> QED
  BY <1>2, <1>3, <1>4, <1>5, Costs

\* The header of a file is followed by its name, at the cost of at most a name of the
\* image's length, and the name by the next header, or the file's own once more.
LEMMA SearchGoesDown ==
  ASSUME FsInv, WorkInv, NameNext \/ SkipFile \/ ReadHead
  PROVE  StepsLeft' < StepsLeft
<1>1. at \in {"header", "name"} /\ RangeRead /\ ~rd.busy /\ rd.left = 0
  BY DEF NameNext, SkipFile, ReadHead, RangeRead
<1>2. PICK f \in 1 .. N :
           /\ AtFile(f) /\ fs_offset = Offset(f) /\ fs_offset \in Nat /\ End \in Nat
           /\ Total(f) \in Nat /\ Total(f) >= 1 /\ fs_offset + Total(f) <= End
           /\ Files[f].name \in Nat /\ Files[f].name <= Total(f) /\ Total(f) <= End
  BY <1>1, SearchAt
<1> DEFINE m == Files[f].name
           t == Total(f)
           b == End - fs_offset
           x == b * SearchCost
           y == End * ByteCost
<1>3. RangeLeft = 0
  BY <1>1, Costs DEF RangeLeft
<1>4. b \in Nat /\ x \in Nat /\ y \in Nat
  <2>1. b \in Nat
    BY <1>2
  <2> HIDE DEF b
  <2> QED
    BY <1>2, <2>1, Costs
<1>5. CASE NameNext
  <2>1. at = "header" /\ at' = "name" /\ fs_offset' = fs_offset
    BY <1>5 DEF NameNext
  <2>2. rd' = Reading(fs_offset + FileHdr, m)
    <3>1. rd.out = CellsOf(Offset(f), FileHdr)
      BY <1>1, <1>2, <2>1, RangeEnds, Place, FileSizes DEF AtFile
    <3>2. HeadersIn(rd.out) = {Header(f)}
      BY <1>2, <3>1, PartsOf, HeaderSaysWhose
    <3> QED
      BY <1>5, <3>2 DEF NameNext, Header
  <2>3. rd'.left = m /\ ~rd'.busy
    BY <2>2 DEF Reading
  <2> DEFINE z == m * ByteCost
  <2>4. z \in Nat /\ z <= y
    <3>1. m \in Nat /\ m <= End
      BY <1>2
    <3> HIDE DEF m
    <3>2. z \in Nat
      BY <3>1, Costs
    <3>3. CASE m = End
      BY <1>4, <3>3
    <3>4. CASE m < End
      <4>1. z + ByteCost <= y
        BY <1>2, <3>1, <3>4, Costs, CostGrows
      <4> HIDE DEF z, y
      <4> QED
        BY <1>4, <3>2, <4>1, Costs
    <3> QED
      BY <1>2, <3>1, <3>2, <3>3, <3>4
  <2>5. RangeLeft' = z
    BY <2>3 DEF RangeLeft, ByteCost, SectorCost
  <2>6. StepsLeft = x + y + 0 + HeadCost + 2
    BY <1>3, <2>1 DEF StepsLeft
  <2>7. StepsLeft' = x + z + HeadCost + 1
    BY <2>1, <2>5 DEF StepsLeft, HeadCost, WholeCost, SearchCost, ByteCost, SectorCost
  <2> HIDE DEF x, y, z
  <2> QED
    BY <1>4, <2>4, <2>6, <2>7, Costs
<1>6. CASE SkipFile
  <2>1. at = "name" /\ LookAt(fs_offset + found.size)
    BY <1>6 DEF SkipFile, Skip
  <2>2. found.size = t
    BY <1>2, <2>1 DEF AtFile, Header
  <2>3. fs_offset' = fs_offset + t
    BY <2>1, <2>2 DEF LookAt
  <2>4. StepsLeft = x + 0 + HeadCost + 1
    BY <1>3, <2>1 DEF StepsLeft
  <2>5. CASE at' = "done"
    <3>1. StepsLeft' = 0
      BY <2>5 DEF StepsLeft
    <3> HIDE DEF x
    <3> QED
      BY <1>4, <2>4, <3>1, Costs
  <2>6. CASE at' = "header" /\ rd' = Reading(fs_offset + t, FileHdr)
    <3> DEFINE a == End - (fs_offset + t)
               w == a * SearchCost
               z == FileHdr * ByteCost
    <3>1. a \in Nat /\ a < b
      <4> HIDE DEF t
      <4> QED
        BY <1>2 DEF t
    <3>2. rd'.left = FileHdr /\ ~rd'.busy
      BY <2>6 DEF Reading
    <3>3. RangeLeft' = z
      BY <3>2 DEF RangeLeft, ByteCost, SectorCost
    <3>4. StepsLeft' = w + y + z + HeadCost + 2
      BY <2>3, <2>6, <3>3 DEF StepsLeft, HeadCost, WholeCost, SearchCost, ByteCost, SectorCost
    <3>5. w \in Nat /\ w + SearchCost <= x
      <4> HIDE DEF a, b
      <4> QED
        BY <1>4, <3>1, Costs, CostGrows
    <3>6. z \in Nat /\ SearchCost = z + y + 2
      <4>1. FileHdr \in Nat /\ End \in Nat /\ ByteCost \in Nat
        BY <1>2, FileSizes, Costs
      <4>2. (FileHdr + End) * ByteCost = FileHdr * ByteCost + End * ByteCost
        BY <4>1
      <4>3. z \in Nat
        BY <4>1, Costs
      <4> QED
        BY <4>2, <4>3 DEF SearchCost
    <3> HIDE DEF x, y, w, z
    <3> QED
      BY <1>4, <2>4, <3>4, <3>5, <3>6, Costs
  <2>7. at' = "done" \/ (at' = "header" /\ rd' = Reading(fs_offset + t, FileHdr))
    BY <2>1, <2>2 DEF LookAt
  <2> QED
    BY <2>5, <2>6, <2>7
<1>7. CASE ReadHead
  <2>1. at = "name" /\ at' = "head" /\ ReadLbas(Sector, 1)
    BY <1>7 DEF ReadHead
  <2>2. PICK c \in Nat : ReadLeft' = c /\ c < SectorCost
    <3>1. Sector = Lba(fs_offset)
      BY DEF Sector, Lba
    <3>2. Sector \in Nat /\ 1 \in 1 .. MaxCount
      BY <1>2, <3>1, Address, Sizes
    <3>3. ReadLeft' \in Nat /\ ReadLeft' < 1 * SectorCost
      BY <2>1, <3>2, ReadCosts
    <3>4. 1 * SectorCost = SectorCost
      BY Costs
    <3> QED
      BY <3>3, <3>4
  <2>3. StepsLeft = x + 0 + HeadCost + 1 /\ StepsLeft' = WholeCost + c + 1
    BY <1>3, <2>1, <2>2 DEF StepsLeft, WholeCost, SectorCost
  <2> HIDE DEF x
  <2> QED
    BY <1>4, <2>2, <2>3, Costs
<1> QED
  BY <1>5, <1>6, <1>7

\* Behind the header lie the file's sectors, and behind them nothing more.
LEMMA FileGoesDown ==
  ASSUME FsInv, ReadWhole \/ ReadAstray \/ Deliver \/ Mounted
  PROVE  StepsLeft' < StepsLeft
<1>1. AtWork /\ pc = "idle" /\ AtaInv
  BY DEF ReadWhole, ReadAstray, Deliver, Mounted, AtWork, FsInv
<1>2. StepsLeft \in Nat /\ StepsLeft >= 1
  BY <1>1, StepsLeftIsNat
<1>3. CASE ReadWhole
  <2>1. at = "head" /\ at' = "whole"
    BY <1>3 DEF ReadWhole
  <2>2. PICK h \in HeadersIn(HeadCells) : Sane(h) /\ ReadLbas(Sector, Lbas(h))
    BY <1>3 DEF ReadWhole
  <2>3. h \in Headers
    BY <1>1, <2>1, HeadTells
  <2>4. Sector \in Nat /\ Lbas(h) \in 1 .. MaxCount
    <3>1. Sector = Lba(fs_offset) /\ fs_offset \in Nat
      BY DEF Sector, Lba, FsInv, FsTypeInv
    <3>2. Sector \in Nat /\ fs_offset % Words \in Nat /\ InSector = fs_offset % Words
      BY <3>1, Address DEF InSector, LBA_SIZE
    <3>3. h.size + InSector \in Nat /\ h.size + InSector >= 1
      BY <2>2, <2>3, <3>2, FileSizes DEF Sane, Headers
    <3>4. Lbas(h) \in Nat /\ Lbas(h) >= 1
      BY <3>3, EnoughSectors DEF Lbas
    <3> QED
      BY <2>2, <3>2, <3>4, Sizes DEF Sane
  <2>5. PICK c \in Nat : ReadLeft' = c /\ c < Lbas(h) * SectorCost /\ Lbas(h) * SectorCost \in Nat
    BY <2>2, <2>4, ReadCosts
  <2> DEFINE n == Lbas(h)
             y == n * SectorCost
             z == MaxCount * SectorCost
  <2>6. y \in Nat /\ z \in Nat /\ y <= z
    <3>1. n \in Nat /\ MaxCount \in Nat /\ n <= MaxCount
      BY <2>4, Sizes
    <3> HIDE DEF n
    <3>2. y \in Nat /\ z \in Nat
      <4>1. \A k \in Nat : k * SectorCost \in Nat
        BY Costs
      <4> QED
        BY <3>1, <4>1
    <3>3. CASE n = MaxCount
      BY <3>2, <3>3
    <3>4. CASE n < MaxCount
      <4>1. y + SectorCost <= z
        BY <3>1, <3>4, Costs, CostGrows
      <4> HIDE DEF y, z
      <4> QED
        BY <3>2, <4>1, Costs
    <3> QED
      BY <3>1, <3>3, <3>4
  <2>7. ReadLeft = 0
    BY <1>1, <2>1, ReadLeftIsNat DEF FsInv, CallsInv, CallIs
  <2>8. StepsLeft = z + 1 + 0 + 1 /\ StepsLeft' = c + 1
    BY <2>1, <2>5, <2>7 DEF StepsLeft, WholeCost
  <2>9. c < y
    BY <2>5
  <2> HIDE DEF y, z
  <2> QED
    BY <2>5, <2>6, <2>8, <2>9
<1>4. CASE ReadAstray \/ Deliver \/ Mounted
  <2>1. StepsLeft' = 0
    BY <1>4 DEF ReadAstray, Deliver, Mounted, StepsLeft
  <2> QED
    BY <1>2, <2>1
<1> QED
  BY <1>3, <1>4

\* Each step while a call is under way.
LEMMA FsGoesDown ==
  ASSUME FsInv, WorkInv, AtWork, FsNext
  PROVE  StepsLeft' < StepsLeft
<1>1. ~Mount /\ ~Close /\ at # "idle"
  BY DEF AtWork, Mount, Close
<1>2. \A f \in 0 .. Len(Files) : ~Open(f)
  BY <1>1 DEF Open
<1> QED
  BY <1>1, <1>2, BelowGoesDown, RangeGoesDown, SearchGoesDown, FileGoesDown DEF FsNext, Kernel

LEMMA WorkInvariant == FsSpec => [](FsInv /\ WorkInv)
BY FsStarts, FsSteps, WorkStarts, WorkKeeps, PTL DEF FsSpec

\* Neither a poll nor a loop of the file system goes round for ever on what the other
\* side does: every step of kernel and drive, also where they take turns in the middle
\* of a sector and where the drive fails, leaves less of the call, for every image,
\* size of sector and number of files (ata.c:32-59, mono_fs.c:11-32, 73-151).
THEOREM FsDescends ==
  FsSpec => /\ [](StepsLeft \in Nat /\ (AtWork => StepsLeft >= 1))
            /\ [][AtWork => StepsLeft' < StepsLeft]_allvars
<1>1. FsInv => StepsLeft \in Nat /\ (AtWork => StepsLeft >= 1)
  BY StepsLeftIsNat
<1>2. FsInv /\ WorkInv /\ [FsNext]_allvars => [AtWork => StepsLeft' < StepsLeft]_allvars
  BY FsGoesDown
<1> QED
  BY <1>1, <1>2, WorkInvariant, PTL DEF FsSpec

-----------------------------------------------------------------------------
(* A call that has not ended goes on                                       *)

\* When the kernel has a step: the guards of its actions.
DriverReady ==
    \/ pc = "ready" /\ ~dev.bsy
    \/ pc = "command"
    \/ pc = "busy" /\ ~dev.bsy
    \/ pc = "drq" /\ dev.drq
    \/ pc = "data" /\ call.op = "read" /\ word <= Words
RangeReady ==
    \/ rd.busy /\ pc = "idle"
    \/ at \in {"header", "name"} /\ rd.left > 0 /\ ~rd.busy /\ pc = "idle"
CallReady ==
    \/ at = "mount" /\ pc = "idle"
    \/ at = "header" /\ RangeRead /\ HeadersIn(rd.out) # {}
    \/ at = "name" /\ RangeRead /\ ~Named
    \/ at = "name" /\ RangeRead /\ Named /\ pc = "idle"
    \/ at = "head" /\ pc = "idle" /\ HeadersIn(HeadCells) # {}
    \/ at = "whole" /\ pc = "idle"
KernelReady == DriverReady \/ RangeReady \/ CallReady

\* And when the drive has one.
DriveReady ==
    \/ ~dev.bsy /\ ~dev.drq /\ dev.cmd # "none"
    \/ dev.bsy /\ dev.cmd \in {"read", "write"} /\ dev.word = 0

\* The driver polls and sees no change.
DriverWaits == (pc = "busy" /\ dev.bsy) \/ (pc = "drq" /\ ~dev.drq)

\* One of the two always has a step, and in a poll it is the drive.
GoesOn == AtWork /\ ~dev.failed => IF DriverWaits THEN DriveReady ELSE KernelReady

\* In the driver: a word or a poll that succeeds, or a drive with a command to serve.
LEMMA DriverOrDrive ==
  ASSUME FsInv, WorkInv, AtWork, ~dev.failed, pc # "idle"
  PROVE  IF DriverWaits THEN DriveReady ELSE DriverReady
<1>1. /\ AtaInv /\ call.op = "read" /\ DriveInv /\ word \in 0 .. Words /\ Words \in Nat
      /\ dev.bsy \in BOOLEAN /\ dev.drq \in BOOLEAN
  BY AtWorkReads, Sizes DEF FsInv, AtaInv, AtaTypeInv, Drives
<1>2. pc \in {"ready", "command", "busy", "drq", "data"}
  BY <1>1, ReadPlaces
<1>3. CASE pc \in {"ready", "command"}
  BY <1>1, <1>3 DEF DriveInv, Quiet, DriverWaits, DriverReady
<1>4. CASE pc \in {"busy", "drq"}
  <2>1. dev.cmd = "read" /\ dev.word = 0 /\ ~(dev.bsy /\ dev.drq)
    BY <1>1, <1>4 DEF DriveInv, WorkInv, Serving
  <2>2. CASE dev.bsy
    BY <1>4, <2>1, <2>2 DEF DriverWaits, DriverReady, DriveReady
  <2>3. CASE ~dev.bsy /\ dev.drq
    BY <1>4, <2>3 DEF DriverWaits, DriverReady
  <2>4. CASE ~dev.bsy /\ ~dev.drq
    BY <1>4, <2>1, <2>4 DEF DriverWaits, DriverReady, DriveReady
  <2> QED
    BY <2>2, <2>3, <2>4
<1>5. CASE pc = "data"
  <2>1. word <= Words
    BY <1>1
  <2> QED
    BY <1>1, <1>5, <2>1 DEF DriverWaits, DriverReady
<1> QED
  BY <1>2, <1>3, <1>4, <1>5

\* Above it: a sector to ask for or to copy, or the next of the call's stages.
LEMMA CallHasStep ==
  ASSUME FsInv, WorkInv, AtWork, pc = "idle"
  PROVE  RangeReady \/ CallReady
<1>1. ASSUME NEW f \in 1 .. N
      PROVE  /\ Offset(f) \in Nat /\ End \in Nat /\ FileHdr \in Nat /\ Files[f].name \in Nat
             /\ Offset(f) + FileHdr + Files[f].name <= End /\ Offset(f) < End
  BY Place, FileSizes
<1>2. CASE at \in {"mount", "whole"}
  BY <1>2 DEF CallReady
<1>3. CASE at = "head"
  <2>1. HeadersIn(HeadCells) # {}
    <3> DEFINE whole == {g \in 1 .. N : HeadCells = Part("header", g, FileHdr)}
    <3>1. HeadersIn(HeadCells) = IF whole # {} THEN {Header(g) : g \in whole}
                                 ELSE {[file |-> 0, size |-> s, name |-> n] : s \in Guesses, n \in Guesses}
      BY DEF HeadersIn, N
    <3>2. PICK s \in Guesses : [file |-> 0, size |-> s, name |-> s] \in {[file |-> 0, size |-> t, name |-> n] : t \in Guesses, n \in Guesses}
      BY GuessesAssumption
    <3>3. whole # {} => {Header(g) : g \in whole} # {}
      OBVIOUS
    <3> HIDE DEF whole
    <3> QED
      BY <3>1, <3>2, <3>3
  <2> QED
    BY <1>3, <2>1 DEF CallReady
<1>4. CASE at \in {"header", "name"} /\ rd.busy
  BY <1>4 DEF RangeReady
<1>5. CASE at \in {"header", "name"} /\ ~rd.busy
  <2>1. PICK f \in 1 .. N : AtFile(f)
    BY <1>5 DEF FsInv, WalkInv
  <2>2. rd.left \in Nat /\ rd.offset \in Nat
    BY <1>5, RangeLeftIsNat
  <2>3. CASE rd.left > 0
    BY <1>5, <2>3 DEF RangeReady
  <2>4. CASE rd.left = 0
    <3>1. RangeRead
      BY <1>5, <2>4 DEF RangeRead
    <3>2. CASE at = "header"
      <4>1. rd.out = CellsOf(Offset(f), FileHdr)
        BY <1>1, <2>1, <3>1, <3>2, RangeEnds DEF AtFile
      <4>2. HeadersIn(rd.out) = {Header(f)}
        BY <2>1, <4>1, PartsOf, HeaderSaysWhose
      <4> QED
        BY <3>1, <3>2, <4>2 DEF CallReady
    <3>3. CASE at = "name"
      BY <3>1, <3>3 DEF CallReady
    <3> QED
      BY <1>5, <3>2, <3>3
  <2> QED
    BY <2>2, <2>3, <2>4
<1> QED
  BY <1>2, <1>3, <1>4, <1>5 DEF AtWork

LEMMA AlwaysGoesOn == FsInv /\ WorkInv => GoesOn
<1> SUFFICES ASSUME FsInv, WorkInv, AtWork, ~dev.failed
             PROVE  IF DriverWaits THEN DriveReady ELSE KernelReady
  BY DEF GoesOn
<1>1. CASE pc = "idle"
  <2>1. ~DriverWaits
    BY <1>1 DEF DriverWaits
  <2> QED
    BY <1>1, <2>1, CallHasStep DEF KernelReady
<1>2. CASE pc # "idle"
  BY <1>2, DriverOrDrive DEF KernelReady
<1> QED
  BY <1>1, <1>2

\* Driver and drive are never both waiting for the other: as long as the drive has not
\* reported an error, a poll that does not succeed waits for a drive that has a step, and
\* everywhere else in a call to the file system the kernel has one, for every image and
\* at every interleaving of the two (ata.c:3-9, 32-52, mono_fs.c:11-32, 73-151).
THEOREM NeverBothWait == FsSpec => []GoesOn
<1> QED
  BY AlwaysGoesOn, WorkInvariant, PTL

\* A call to the file system gets on: from any number of steps that are left of it, fewer
\* will be left, for kernel and drive go on whenever one of their guards lets them; so each
\* poll ends, each loop goes on, and at last the call has ended, unless the drive reports
\* an error (ata.c:3-9, 32-59, mono_fs.c:11-32, 73-151).
THEOREM FsGetsOn ==
  ASSUME NEW n \in Nat
  PROVE  /\ FsSpec
         /\ [](KernelReady => ENABLED <<Kernel>>_allvars)
         /\ [](DriveReady => ENABLED <<Drive>>_vars)
         => (AtWork /\ StepsLeft = n ~> (AtWork /\ StepsLeft < n) \/ ~AtWork \/ dev.failed)
<1> DEFINE Inv == FsInv /\ WorkInv
           Here == AtWork /\ StepsLeft = n /\ ~dev.failed
           Fewer == (AtWork /\ StepsLeft < n) \/ ~AtWork \/ dev.failed
<1>1. Inv /\ Here /\ FsNext => Fewer'
  BY FsGoesDown
<1>2. UNCHANGED allvars => (Here => Here') /\ (DriverWaits => DriverWaits') /\ (~DriverWaits => ~DriverWaits')
  BY DEF allvars, vars, fsvars, AtWork, StepsLeft, RangeLeft, ReadLeft, SectorLeft, DevLeft, Behind,
         WholeCost, HeadCost, SearchCost, ByteCost, SectorCost, DriverWaits
<1>3. Inv /\ Here /\ DriverWaits /\ [FsNext]_allvars => (Here /\ DriverWaits)' \/ Fewer'
  BY <1>1, <1>2
<1>4. Inv /\ Here /\ ~DriverWaits /\ [FsNext]_allvars => (Here /\ ~DriverWaits)' \/ Fewer'
  BY <1>1, <1>2
<1>5. Inv /\ Here /\ [FsNext]_allvars /\ <<Drive>>_vars => Fewer'
  <2>1. UNCHANGED allvars => UNCHANGED vars
    BY DEF allvars
  <2> QED
    BY <1>1, <2>1
<1>6. Inv /\ Here /\ [FsNext]_allvars /\ <<Kernel>>_allvars => Fewer'
  BY <1>1
<1>7. Inv => GoesOn
  BY AlwaysGoesOn
<1>8. GoesOn /\ Here /\ DriverWaits => DriveReady
  BY DEF GoesOn
<1>9. GoesOn /\ Here /\ ~DriverWaits => KernelReady
  BY DEF GoesOn
<1>10. FsSpec => []Inv
  BY WorkInvariant, PTL
<1>11. AtWork /\ StepsLeft = n => Here \/ Fewer
  OBVIOUS
<1> HIDE DEF Inv, Here, Fewer
<1> QED
  BY <1>3, <1>4, <1>5, <1>6, <1>7, <1>8, <1>9, <1>10, <1>11, PTL DEF FsSpec, Fewer
=============================================================================
