-------------------------- MODULE InterruptsProofs --------------------------
(***************************************************************************)
(* Proofs about Interrupts, for every set of exceptions whose error codes   *)
(* the list of stubs knows, every number in EAX and any number of steps.    *)
(***************************************************************************)
EXTENDS Interrupts, SequenceTheorems, TLAPS

-----------------------------------------------------------------------------
(* The inductive invariant                                                 *)

Places == {"code", "save", "handler", "restore", "clean", "iret",
           "save80", "load80", "syscall", "restore80"}
Registers == [eax: Int, other: Int, seg: Int]
Names == {"eax", "ecx", "edx", "ebx", "esp", "ebp", "esi", "edi", "ds", "es", "fs", "gs"}
Words == ({"frame"} \X Places) \cup {Zero, ErrorCode} \cup ({"vector"} \X (0 .. 31))
         \cup ({"reg"} \X Names \X Int)

\* What the CPU and a stub leave on the stack for the common handler.
Entry(back, e, v) == <<Frame(back), e, VectorWord(v)>>

\* A stub at place p, entered from place back with the registers rb over the stack
\* sb, when the registers are r and the stack is s.
Stubbed(p, back, rb, sb, r, s) ==
    \E e \in {Zero, ErrorCode}, v \in 0 .. 31 :
      \/ p \in {"save", "clean"} /\ r = rb /\ s = sb \o Entry(back, e, v)
      \/ p \in {"handler", "restore"} /\ s = (sb \o Entry(back, e, v)) \o Saved(rb)
      \/ p = "iret" /\ r = rb /\ s = sb \o <<Frame(back)>>

\* The same for the stub of int 0x80.
Calling(p, r, s) ==
    /\ asked = code.eax
    /\ \/ p = "save80" /\ r = code /\ s = <<Frame("code")>>
       \/ /\ p \in {"load80", "syscall", "restore80"}
          /\ s = <<Frame("code")>> \o Saved(code)
          /\ p = "syscall" => r.eax = code.eax

\* Without an NMI being served: the code itself, or one stub entered from it.
Outer(p, r, s) ==
    \/ p = "code" /\ r = code /\ s = <<>>
    \/ Stubbed(p, "code", code, <<>>, r, s)
    \/ Calling(p, r, s)

\* An NMI's stub is on top of any such place.
Nested ==
    \E p \in Places, r \in Registers, s \in Seq(Words) :
      Outer(p, r, s) /\ Stubbed(pc, p, r, s, regs, stack)

TypeInv == /\ pc \in Places /\ regs \in Registers /\ code \in Registers
           /\ stack \in Seq(Words) /\ nmi \in BOOLEAN
           /\ asked \in Int /\ served \in Int

InterruptsInv ==
    /\ TypeInv
    /\ ServesWhatWasAsked
    /\ IF nmi THEN Nested ELSE Outer(pc, regs, stack)

-----------------------------------------------------------------------------
(* The stack                                                               *)

\* What lies within the upper of two pieces of a stack is found there.
LEMMA TopOfConcat ==
  ASSUME NEW S, NEW s \in Seq(S), NEW t \in Seq(S), NEW k \in 0 .. Len(t) - 1
  PROVE  FromTop(s \o t, k) = t[Len(t) - k]
<1>1. Len(s) \in Nat /\ Len(t) \in Nat
  BY LenProperties
<1>2. Len(s \o t) - k \in 1 .. Len(s) + Len(t) /\ ~(Len(s \o t) - k <= Len(s))
  BY <1>1, ConcatProperties
<1>3. (s \o t)[Len(s \o t) - k] = t[Len(s \o t) - k - Len(s)]
  BY <1>2, ConcatProperties
<1>4. Len(s \o t) - k - Len(s) = Len(t) - k
  BY <1>1, ConcatProperties
<1> QED
  BY <1>3, <1>4 DEF FromTop

\* Taking off the upper piece leaves the lower one.
LEMMA DropConcat ==
  ASSUME NEW S, NEW s \in Seq(S), NEW t \in Seq(S), NEW n, n = Len(t)
  PROVE  Drop(s \o t, n) = s
<1>1. Len(s) \in Nat /\ Len(t) \in Nat
  BY LenProperties
<1>2. Len(s \o t) - n = Len(s)
  BY <1>1, ConcatProperties
<1>3. SubSeq(s \o t, 1, Len(s)) = s
  BY SubSeqOfConcat1, SubSeqFull, <1>1
<1> QED
  BY <1>2, <1>3 DEF Drop

\* A tuple of three, put together from its parts.
LEMMA Append3 ==
  ASSUME NEW a, NEW b, NEW c
  PROVE  <<a, b>> \o <<c>> = <<a, b, c>> /\ <<a>> \o <<b, c>> = <<a, b, c>>
<1> DEFINE S == {a, b, c}
           t == <<a, b, c>>
           u == <<a, b>> \o <<c>>
           w == <<a>> \o <<b, c>>
<1>1. a \in S /\ b \in S /\ c \in S
  OBVIOUS
<1> HIDE DEF S
<1>2. /\ <<a>> \in Seq(S) /\ <<c>> \in Seq(S) /\ <<a, b>> \in Seq(S) /\ <<b, c>> \in Seq(S)
      /\ t \in Seq(S)
  BY <1>1
<1>3. u \in Seq(S) /\ Len(u) = 3 /\ u[1] = a /\ u[2] = b /\ u[3] = c
  BY <1>2, ConcatProperties
<1>4. w \in Seq(S) /\ Len(w) = 3 /\ w[1] = a /\ w[2] = b /\ w[3] = c
  BY <1>2, ConcatProperties
<1>5. Len(t) = 3 /\ t[1] = a /\ t[2] = b /\ t[3] = c
  OBVIOUS
<1>6. \A i \in 1 .. 3 : i = 1 \/ i = 2 \/ i = 3
  OBVIOUS
<1> HIDE DEF t, u, w
<1>7. u = t
  BY <1>2, <1>3, <1>5, <1>6, SeqEqual
<1>8. w = t
  BY <1>2, <1>4, <1>5, <1>6, SeqEqual
<1> QED
  BY <1>7, <1>8 DEF t, u, w

\* Only EAX changes.
LEMMA NewEax ==
  ASSUME NEW r \in Registers, NEW x \in Int
  PROVE  [r EXCEPT !.eax = x] \in Registers /\ [r EXCEPT !.eax = x].eax = x
BY DEF Registers

\* Each kind of word is a word.
LEMMA WordKinds ==
  /\ \A p \in Places : Frame(p) \in Words
  /\ Zero \in Words /\ ErrorCode \in Words
  /\ \A v \in 0 .. 31 : VectorWord(v) \in Words
  /\ \A n \in Names, x \in Int : Reg(n, x) \in Words
BY DEF Words, Frame, Zero, ErrorCode, VectorWord, Reg

\* A function on 1 .. n is a sequence of that length.
LEMMA FunctionIsSeq ==
  ASSUME NEW S, NEW n \in Nat, NEW f \in [1 .. n -> S]
  PROVE  f \in Seq(S) /\ Len(f) = n
<1>1. f \in Seq(S)
  BY SeqDef, Zenon
<1>2. DOMAIN f = 1 .. n /\ DOMAIN f = 1 .. Len(f) /\ Len(f) \in Nat
  BY <1>1, LenProperties
<1> QED
  BY <1>1, <1>2

\* The twelve words a stub saves.
LEMMA SavedWords ==
  ASSUME NEW r \in Registers
  PROVE  /\ Saved(r) \in Seq(Words) /\ Len(Saved(r)) = 12
         /\ Saved(r)[1] = Reg("eax", r.eax) /\ Saved(r)[2] = Reg("ecx", r.other)
         /\ Saved(r)[12] = Reg("gs", r.seg)
<1>1. \A i \in 1 .. 8 : General[i] \in Names
  <2>1. \A i \in 1 .. 8 : i = 1 \/ i = 2 \/ i = 3 \/ i = 4 \/ i = 5 \/ i = 6 \/ i = 7 \/ i = 8
    OBVIOUS
  <2> QED
    BY <2>1 DEF General, Names
<1>2. \A i \in 1 .. 4 : Segments[i] \in Names
  <2>1. \A i \in 1 .. 4 : i = 1 \/ i = 2 \/ i = 3 \/ i = 4
    OBVIOUS
  <2> QED
    BY <2>1 DEF Segments, Names
<1>3. \A n \in Names, x \in Int : Reg(n, x) \in Words
  BY WordKinds
<1>4. r.eax \in Int /\ r.other \in Int /\ r.seg \in Int /\ "eax" \in Names
  BY DEF Registers, Names
<1>5. ASSUME NEW i \in 1 .. 12
      PROVE  Saved(r)[i] \in Words
  <2>1. CASE i = 1
    BY <1>3, <1>4, <2>1 DEF Saved
  <2>2. CASE i \in 2 .. 8
    BY <1>1, <1>3, <1>4, <2>2 DEF Saved
  <2>3. CASE i \in 9 .. 12
    <3>1. i - 8 \in 1 .. 4
      BY <2>3
    <3> QED
      BY <1>2, <1>3, <1>4, <2>3, <3>1 DEF Saved
  <2> QED
    BY <2>1, <2>2, <2>3
<1>6. Saved(r) \in [1 .. 12 -> Words]
  BY <1>5, Zenon DEF Saved
<1>7. Saved(r) \in Seq(Words) /\ Len(Saved(r)) = 12
  BY <1>6, FunctionIsSeq
<1>8. Saved(r)[1] = Reg("eax", r.eax)
  BY DEF Saved
<1>9. Saved(r)[2] = Reg("ecx", r.other)
  BY DEF Saved, General
<1>10. Saved(r)[12] = Reg("gs", r.seg)
  BY DEF Saved, Segments
<1> QED
  BY <1>7, <1>8, <1>9, <1>10

\* What restoring takes off a stack with twelve saved words, and what it leaves.
LEMMA RestoreTakes ==
  ASSUME NEW s \in Seq(Words), NEW r \in Registers, stack = s \o Saved(r)
  PROVE  Popped = r /\ Drop(stack, 12) = s
<1>1. /\ FromTop(stack, 11) = Reg("eax", r.eax)
      /\ FromTop(stack, 10) = Reg("ecx", r.other)
      /\ FromTop(stack, 0) = Reg("gs", r.seg)
  <2>1. Saved(r) \in Seq(Words) /\ Len(Saved(r)) = 12
    BY SavedWords
  <2>2. ASSUME NEW k \in 0 .. 11
        PROVE  FromTop(stack, k) = Saved(r)[12 - k]
    <3>1. k \in 0 .. Len(Saved(r)) - 1
      BY <2>1
    <3>2. FromTop(s \o Saved(r), k) = Saved(r)[Len(Saved(r)) - k]
      BY <2>1, <3>1, TopOfConcat
    <3> QED
      BY <2>1, <3>2
  <2> QED
    BY <2>2, SavedWords
<1>2. Popped = [eax |-> r.eax, other |-> r.other, seg |-> r.seg]
  BY <1>1 DEF Popped, Reg
<1>3. Popped = r
  BY <1>2 DEF Registers
<1>4. Drop(stack, 12) = s
  BY SavedWords, DropConcat
<1> QED
  BY <1>3, <1>4

\* A stub's entry is the CPU's frame and two words on it.
LEMMA EntryWords ==
  ASSUME NEW back \in Places, NEW e \in {Zero, ErrorCode}, NEW v \in 0 .. 31,
         NEW s \in Seq(Words)
  PROVE  /\ Entry(back, e, v) \in Seq(Words) /\ <<Frame(back)>> \in Seq(Words)
         /\ s \o Entry(back, e, v) \in Seq(Words) /\ s \o <<Frame(back)>> \in Seq(Words)
         /\ Drop(s \o Entry(back, e, v), 2) = s \o <<Frame(back)>>
<1>1. Frame(back) \in Words /\ e \in Words /\ VectorWord(v) \in Words
  BY WordKinds
<1>2. /\ Entry(back, e, v) \in Seq(Words) /\ <<Frame(back)>> \in Seq(Words)
      /\ <<e, VectorWord(v)>> \in Seq(Words)
  BY <1>1 DEF Entry
<1>3. Entry(back, e, v) = <<Frame(back)>> \o <<e, VectorWord(v)>>
  BY DEF Entry
<1>4. s \o Entry(back, e, v) = (s \o <<Frame(back)>>) \o <<e, VectorWord(v)>>
  BY <1>2, <1>3, ConcatAssociative
<1>5. s \o Entry(back, e, v) \in Seq(Words) /\ s \o <<Frame(back)>> \in Seq(Words)
  BY <1>2, ConcatProperties
<1>6. Len(<<e, VectorWord(v)>>) = 2
  OBVIOUS
<1>7. Drop((s \o <<Frame(back)>>) \o <<e, VectorWord(v)>>, 2) = s \o <<Frame(back)>>
  BY <1>2, <1>5, <1>6, DropConcat
<1> QED
  BY <1>2, <1>4, <1>5, <1>7

-----------------------------------------------------------------------------
(* One stub                                                                *)

\* The CPU and the stub leave the same three words for every vector.
LEMMA EntersStub ==
  ASSUME StubsMatch, NEW v \in Exceptions \cup {NMI}
  PROVE  /\ v \in 0 .. 31
         /\ \E e \in {Zero, ErrorCode} : Entered(v) \o Stub(v) = Entry(pc, e, v)
<1>1. v \in 0 .. 31
  BY InterruptsAssumption DEF NMI
<1>2. CASE v \in WithError
  <2>1. Entered(v) = <<Frame(pc), ErrorCode>> /\ Stub(v) = <<VectorWord(v)>>
    BY <1>2 DEF StubsMatch, Entered, Stub
  <2>2. <<Frame(pc), ErrorCode>> \o <<VectorWord(v)>> = Entry(pc, ErrorCode, v)
    BY Append3 DEF Entry
  <2> QED
    BY <1>1, <2>1, <2>2
<1>3. CASE v \notin WithError
  <2>1. Entered(v) = <<Frame(pc)>> /\ Stub(v) = <<Zero, VectorWord(v)>>
    BY <1>3 DEF StubsMatch, Entered, Stub
  <2>2. <<Frame(pc)>> \o <<Zero, VectorWord(v)>> = Entry(pc, Zero, v)
    BY Append3 DEF Entry
  <2> QED
    BY <1>1, <2>1, <2>2
<1> QED
  BY <1>2, <1>3

\* From its entry to its iret a stub keeps what it is to give back.
LEMMA StubSteps ==
  ASSUME TypeInv, NEW back \in Places, NEW rb \in Registers, NEW sb \in Seq(Words),
         Stubbed(pc, back, rb, sb, regs, stack),
         Save \/ Handler \/ Restore \/ CleanUp
  PROVE  /\ Stubbed(pc', back, rb, sb, regs', stack')
         /\ pc' \in Places /\ regs' \in Registers /\ stack' \in Seq(Words)
<1>1. PICK e \in {Zero, ErrorCode}, v \in 0 .. 31 :
        \/ pc \in {"save", "clean"} /\ regs = rb /\ stack = sb \o Entry(back, e, v)
        \/ pc \in {"handler", "restore"} /\ stack = (sb \o Entry(back, e, v)) \o Saved(rb)
        \/ pc = "iret" /\ regs = rb /\ stack = sb \o <<Frame(back)>>
  BY DEF Stubbed
<1> DEFINE base == sb \o Entry(back, e, v)
<1>2. base \in Seq(Words) /\ sb \o <<Frame(back)>> \in Seq(Words)
      /\ Drop(base, 2) = sb \o <<Frame(back)>>
  BY EntryWords
<1>3. {"handler", "restore", "clean", "iret"} \subseteq Places
  BY DEF Places
<1>4. CASE Save
  <2>1. pc' = "handler" /\ stack' = base \o Saved(rb)
    BY <1>1, <1>4 DEF Save, SavedBy, Push
  <2>2. regs' \in Registers
    BY <1>4 DEF Save, SavedBy, TypeInv, Registers, Selector
  <2>3. stack' \in Seq(Words)
    BY <1>2, <2>1, SavedWords, ConcatProperties
  <2> QED
    BY <1>3, <2>1, <2>2, <2>3 DEF Stubbed
<1>5. CASE Handler
  <2>1. pc' = "restore" /\ regs' = regs /\ stack' = stack /\ stack = base \o Saved(rb)
    BY <1>1, <1>5 DEF Handler
  <2> QED
    BY <1>3, <2>1 DEF Stubbed, TypeInv
<1>6. CASE Restore
  <2>1. pc' = "clean" /\ stack = base \o Saved(rb) /\ regs' = Popped /\ stack' = Drop(stack, 12)
    BY <1>1, <1>6 DEF Restore, RestoredBy
  <2>2. regs' = rb /\ stack' = base
    BY <1>2, <2>1, RestoreTakes
  <2> QED
    BY <1>2, <1>3, <2>1, <2>2 DEF Stubbed
<1>7. CASE CleanUp
  <2>1. pc' = "iret" /\ regs = rb /\ regs' = regs /\ stack = base /\ stack' = Drop(stack, 2)
    BY <1>1, <1>7 DEF CleanUp, Cleaned
  <2> QED
    BY <1>2, <1>3, <2>1 DEF Stubbed
<1> QED
  BY <1>4, <1>5, <1>6, <1>7

\* At its iret the frame is on top, and below it is what was there before.
LEMMA FrameOnTop ==
  ASSUME NEW back \in Places, NEW rb \in Registers, NEW sb \in Seq(Words),
         Stubbed("iret", back, rb, sb, regs, stack)
  PROVE  regs = rb /\ stack # <<>> /\ FromTop(stack, 0) = Frame(back) /\ Drop(stack, 1) = sb
<1>1. regs = rb /\ stack = sb \o <<Frame(back)>>
  BY DEF Stubbed
<1>2. <<Frame(back)>> \in Seq(Words) /\ Len(<<Frame(back)>>) = 1
  BY WordKinds
<1>3. FromTop(sb \o <<Frame(back)>>, 0) = <<Frame(back)>>[1]
  <2>1. 0 \in 0 .. Len(<<Frame(back)>>) - 1
    BY <1>2
  <2>2. FromTop(sb \o <<Frame(back)>>, 0) = <<Frame(back)>>[Len(<<Frame(back)>>) - 0]
    BY <1>2, <2>1, TopOfConcat
  <2> QED
    BY <1>2, <2>2
<1>4. Drop(sb \o <<Frame(back)>>, 1) = sb
  BY <1>2, DropConcat
<1>5. sb \o <<Frame(back)>> # <<>>
  BY <1>2, ConcatProperties, EmptySeq
<1> QED
  BY <1>1, <1>3, <1>4, <1>5

\* So iret goes back to where the stub was entered, with the registers and the
\* stack of then.
LEMMA StubReturns ==
  ASSUME NEW back \in Places, NEW rb \in Registers, NEW sb \in Seq(Words),
         Stubbed(pc, back, rb, sb, regs, stack), Iret
  PROVE  pc' = back /\ regs' = rb /\ stack' = sb
<1>1. pc = "iret" /\ pc' = FromTop(stack, 0)[2] /\ stack' = Drop(stack, 1) /\ regs' = regs
  BY DEF Iret
<1>2. regs = rb /\ FromTop(stack, 0) = Frame(back) /\ Drop(stack, 1) = sb
  BY <1>1, FrameOnTop
<1> QED
  BY <1>1, <1>2 DEF Frame
-----------------------------------------------------------------------------
(* The invariant                                                           *)

\* Where the machine may be while an NMI is served, and what is true there.
LEMMA InNmi ==
  ASSUME TypeInv, nmi, Nested
  PROVE  pc \in {"save", "handler", "restore", "clean", "iret"}
BY DEF Nested, Stubbed

\* Without an NMI those places belong to a stub entered from the code.
LEMMA InStub ==
  ASSUME Outer(pc, regs, stack), pc \in {"save", "handler", "restore", "clean", "iret"}
  PROVE  Stubbed(pc, "code", code, <<>>, regs, stack)
BY DEF Outer, Calling

LEMMA InvInit == Init => InterruptsInv
<1> SUFFICES ASSUME Init PROVE InterruptsInv
  OBVIOUS
<1>1. regs \in Registers /\ code = regs
  <2>1. Numbers \subseteq Int /\ Mine \in Int /\ Selector \in Int
    BY InterruptsAssumption DEF Mine, Selector
  <2> QED
    BY <2>1 DEF Init, Registers
<1>2. stack \in Seq(Words) /\ stack = <<>> /\ pc = "code" /\ nmi = FALSE
  BY DEF Init
<1>3. TypeInv /\ ServesWhatWasAsked
  <2>1. CNothing \in Int
    BY DEF CNothing
  <2> QED
    BY <1>1, <1>2, <2>1 DEF Init, TypeInv, Places, ServesWhatWasAsked
<1> QED
  BY <1>1, <1>2, <1>3 DEF InterruptsInv, Outer

LEMMA InvNext == StubsMatch /\ InterruptsInv /\ [Next]_vars => InterruptsInv'
<1> SUFFICES ASSUME StubsMatch, InterruptsInv, [Next]_vars
             PROVE  InterruptsInv'
  OBVIOUS
<1>1. TypeInv /\ ServesWhatWasAsked /\ (nmi => Nested) /\ (~nmi => Outer(pc, regs, stack))
  BY DEF InterruptsInv
<1>2. "code" \in Places /\ code \in Registers /\ <<>> \in Seq(Words)
  BY <1>1 DEF Places, TypeInv
<1>3. pc = "code" => ~nmi /\ regs = code /\ stack = <<>>
  BY <1>1, InNmi DEF Outer, Stubbed, Calling
<1>4. ASSUME NEW n \in Numbers, Instruction(n)
      PROVE  InterruptsInv'
  <2>1. regs' \in Registers
    <3>1. n \in Int
      BY InterruptsAssumption
    <3> QED
      BY <1>1, <1>4, <3>1, NewEax DEF Instruction, TypeInv
  <2>2. pc' = "code" /\ code' = regs' /\ stack' = <<>> /\ nmi' = FALSE
    BY <1>1, <1>3, <1>4 DEF Instruction, TypeInv
  <2>3. TypeInv' /\ ServesWhatWasAsked'
    BY <1>1, <1>2, <1>4, <2>1, <2>2 DEF Instruction, TypeInv, ServesWhatWasAsked
  <2> QED
    BY <2>2, <2>3 DEF InterruptsInv, Outer
<1>5. ASSUME Int80
      PROVE  InterruptsInv'
  <2>1. /\ pc' = "save80" /\ code' = code /\ regs' = code /\ stack' = <<Frame("code")>>
        /\ nmi' = FALSE /\ asked' = code.eax /\ served' = CNothing
    BY <1>1, <1>3, <1>5 DEF Int80, Push, TypeInv
  <2>2. stack' \in Seq(Words) /\ pc' \in Places
    BY <1>2, <2>1, WordKinds DEF Places
  <2>3. code.eax \in Int
    BY <1>2 DEF Registers
  <2>4. CNothing \in Int
    BY DEF CNothing
  <2>5. TypeInv' /\ ServesWhatWasAsked'
    BY <1>2, <2>1, <2>2, <2>3, <2>4 DEF TypeInv, ServesWhatWasAsked
  <2>6. Outer(pc, regs, stack)'
    BY <2>1 DEF Outer, Calling
  <2> QED
    BY <2>1, <2>5, <2>6 DEF InterruptsInv
<1>6. ASSUME NEW v \in Exceptions, Exception(v)
      PROVE  InterruptsInv'
  <2>1. PICK e \in {Zero, ErrorCode} : v \in 0 .. 31 /\ Entered(v) \o Stub(v) = Entry(pc, e, v)
    BY EntersStub
  <2>2. /\ pc' = "save" /\ code' = code /\ regs' = code /\ stack' = <<>> \o Entry("code", e, v)
        /\ nmi' = FALSE /\ asked' = asked /\ served' = served
    BY <1>1, <1>3, <1>6, <2>1 DEF Exception, Push, TypeInv
  <2>3. stack' \in Seq(Words)
    BY <1>2, <2>1, <2>2, EntryWords
  <2>4. TypeInv' /\ ServesWhatWasAsked'
    BY <1>1, <1>2, <2>2, <2>3 DEF TypeInv, ServesWhatWasAsked, Places
  <2>5. Outer(pc, regs, stack)'
    BY <2>1, <2>2 DEF Outer, Stubbed
  <2> QED
    BY <2>2, <2>4, <2>5 DEF InterruptsInv
<1>7. ASSUME NonMaskable
      PROVE  InterruptsInv'
  <2>1. PICK e \in {Zero, ErrorCode} : NMI \in 0 .. 31 /\ Entered(NMI) \o Stub(NMI) = Entry(pc, e, NMI)
    BY EntersStub
  <2>2. /\ pc' = "save" /\ code' = code /\ regs' = regs /\ stack' = stack \o Entry(pc, e, NMI)
        /\ nmi' = TRUE /\ asked' = asked /\ served' = served
    BY <1>7, <2>1 DEF NonMaskable, Push
  <2>3. stack' \in Seq(Words)
    BY <1>1, <2>1, <2>2, EntryWords DEF TypeInv
  <2>4. TypeInv' /\ ServesWhatWasAsked'
    BY <1>1, <2>2, <2>3 DEF TypeInv, ServesWhatWasAsked, Places
  <2>5. Outer(pc, regs, stack)
    BY <1>1, <1>7 DEF NonMaskable
  <2>6. ASSUME NEW p, NEW r, NEW s, Outer(p, r, s)
        PROVE  Outer(p, r, s)'
    BY <2>2, <2>6 DEF Outer, Calling, Stubbed
  <2>7. PICK p \in Places, r \in Registers, s \in Seq(Words) : p = pc /\ r = regs /\ s = stack
    BY <1>1 DEF TypeInv
  <2>8. Stubbed("save", p, r, s, regs', stack')
    BY <2>1, <2>2, <2>7 DEF Stubbed
  <2>9. Nested'
    BY <2>2, <2>5, <2>6, <2>7, <2>8 DEF Nested
  <2> QED
    BY <2>2, <2>4, <2>9 DEF InterruptsInv
<1>8. ASSUME Save \/ Handler \/ Restore \/ CleanUp
      PROVE  InterruptsInv'
  <2>1. /\ pc \in {"save", "handler", "restore", "clean"}
        /\ UNCHANGED <<nmi, code, asked, served>>
    BY <1>8 DEF Save, SavedBy, Handler, Restore, RestoredBy, CleanUp
  <2>2. ASSUME NEW p, NEW r, NEW s, Outer(p, r, s)
        PROVE  Outer(p, r, s)'
    BY <2>1, <2>2 DEF Outer, Calling, Stubbed
  <2>3. CASE nmi
    <3>1. PICK p \in Places, r \in Registers, s \in Seq(Words) :
            Outer(p, r, s) /\ Stubbed(pc, p, r, s, regs, stack)
      BY <1>1, <2>3 DEF Nested
    <3>2. /\ Stubbed(pc', p, r, s, regs', stack')
          /\ pc' \in Places /\ regs' \in Registers /\ stack' \in Seq(Words)
      BY <1>1, <1>8, <3>1, StubSteps
    <3>3. TypeInv' /\ ServesWhatWasAsked'
      BY <1>1, <2>1, <3>2 DEF TypeInv, ServesWhatWasAsked
    <3>4. Nested'
      BY <2>2, <3>1, <3>2 DEF Nested
    <3> QED
      BY <2>1, <2>3, <3>3, <3>4 DEF InterruptsInv
  <2>4. CASE ~nmi
    <3>1. Stubbed(pc, "code", code, <<>>, regs, stack)
      BY <1>1, <2>1, <2>4, InStub
    <3>2. /\ Stubbed(pc', "code", code, <<>>, regs', stack')
          /\ pc' \in Places /\ regs' \in Registers /\ stack' \in Seq(Words)
      BY <1>1, <1>2, <1>8, <3>1, StubSteps
    <3>3. TypeInv' /\ ServesWhatWasAsked'
      BY <1>1, <2>1, <3>2 DEF TypeInv, ServesWhatWasAsked
    <3>4. Outer(pc, regs, stack)'
      BY <2>1, <3>2 DEF Outer, Stubbed
    <3> QED
      BY <2>1, <2>4, <3>3, <3>4 DEF InterruptsInv
  <2> QED
    BY <2>3, <2>4
<1>9. ASSUME Save80 \/ Load80 \/ SyscallHandler \/ Restore80
      PROVE  InterruptsInv'
  <2>1. /\ pc \in {"save80", "load80", "syscall", "restore80"}
        /\ UNCHANGED <<nmi, code, asked>>
    BY <1>9 DEF Save80, SavedBy, Load80, SyscallHandler, Restore80, RestoredBy
  <2>2. ~nmi
    BY <1>1, <2>1, InNmi
  <2>3. Calling(pc, regs, stack)
    BY <1>1, <2>1, <2>2 DEF Outer, Stubbed
  <2>4. /\ <<Frame("code")>> \in Seq(Words) /\ Saved(code) \in Seq(Words)
        /\ <<Frame("code")>> \o Saved(code) \in Seq(Words)
    BY <1>2, WordKinds, SavedWords, ConcatProperties
  <2>5. CASE Save80
    <3>1. /\ pc' = "load80" /\ stack' = <<Frame("code")>> \o Saved(code) /\ served' = served
          /\ regs' = [eax |-> Selector, other |-> regs.other, seg |-> Selector]
      BY <2>3, <2>5 DEF Save80, SavedBy, Push, Calling
    <3>2. regs' \in Registers
      BY <1>1, <3>1 DEF TypeInv, Registers, Selector
    <3>3. TypeInv' /\ ServesWhatWasAsked'
      BY <1>1, <2>1, <2>4, <3>1, <3>2 DEF TypeInv, ServesWhatWasAsked, Places
    <3>4. Outer(pc, regs, stack)'
      BY <2>1, <2>3, <3>1 DEF Outer, Calling
    <3> QED
      BY <2>1, <2>2, <3>3, <3>4 DEF InterruptsInv
  <2>6. CASE Load80
    <3>1. /\ pc' = "syscall" /\ stack' = stack /\ served' = served
          /\ stack = <<Frame("code")>> \o Saved(code)
          /\ regs' = [regs EXCEPT !.eax = FromTop(stack, 11)[3]]
      BY <2>3, <2>6 DEF Load80, Calling, NumberAt
    <3>2. FromTop(stack, 11)[3] = code.eax
      <4>1. 11 \in 0 .. Len(Saved(code)) - 1 /\ Len(Saved(code)) = 12
        BY <1>2, SavedWords
      <4>2. FromTop(<<Frame("code")>> \o Saved(code), 11) = Saved(code)[Len(Saved(code)) - 11]
        BY <2>4, <4>1, TopOfConcat
      <4>3. FromTop(stack, 11) = Reg("eax", code.eax)
        BY <1>2, <3>1, <4>1, <4>2, SavedWords
      <4> QED
        BY <4>3 DEF Reg
    <3>3. regs' \in Registers /\ regs'.eax = code.eax
      <4>1. code.eax \in Int /\ regs \in Registers
        BY <1>1, <1>2 DEF TypeInv, Registers
      <4> QED
        BY <3>1, <3>2, <4>1, NewEax
    <3>4. TypeInv' /\ ServesWhatWasAsked'
      BY <1>1, <2>1, <3>1, <3>3 DEF TypeInv, ServesWhatWasAsked, Places
    <3>5. Outer(pc, regs, stack)'
      BY <2>1, <2>3, <3>1, <3>3 DEF Outer, Calling
    <3> QED
      BY <2>1, <2>2, <3>4, <3>5 DEF InterruptsInv
  <2>7. CASE SyscallHandler
    <3>1. /\ pc' = "restore80" /\ stack' = stack /\ served' = code.eax
          /\ stack = <<Frame("code")>> \o Saved(code) /\ asked = code.eax
          /\ regs' = [eax |-> CNothing, other |-> Junk, seg |-> regs.seg]
      BY <2>3, <2>7 DEF SyscallHandler, Calling
    <3>2. regs' \in Registers /\ code.eax \in Int
      BY <1>1, <3>1 DEF TypeInv, Registers, CNothing, Junk
    <3>3. TypeInv' /\ ServesWhatWasAsked'
      BY <1>1, <2>1, <3>1, <3>2 DEF TypeInv, ServesWhatWasAsked, Places
    <3>4. Outer(pc, regs, stack)'
      BY <2>1, <2>3, <3>1 DEF Outer, Calling
    <3> QED
      BY <2>1, <2>2, <3>3, <3>4 DEF InterruptsInv
  <2>8. CASE Restore80
    <3>1. /\ pc' = "iret" /\ stack = <<Frame("code")>> \o Saved(code) /\ served' = served
          /\ regs' = Popped /\ stack' = Drop(stack, 12)
      BY <2>3, <2>8 DEF Restore80, RestoredBy, Calling
    <3>2. regs' = code /\ stack' = <<Frame("code")>>
      BY <1>2, <2>4, <3>1, RestoreTakes
    <3>3. TypeInv' /\ ServesWhatWasAsked'
      BY <1>1, <2>1, <2>4, <3>1, <3>2 DEF TypeInv, ServesWhatWasAsked, Places
    <3>4. stack' = <<>> \o <<Frame("code")>>
      BY <2>4, <3>2, ConcatEmptySeq
    <3>5. Outer(pc, regs, stack)'
      <4>1. Zero \in {Zero, ErrorCode} /\ 0 \in 0 .. 31
        OBVIOUS
      <4> QED
        BY <2>1, <3>1, <3>2, <3>4, <4>1 DEF Outer, Stubbed
    <3> QED
      BY <2>1, <2>2, <3>3, <3>5 DEF InterruptsInv
  <2> QED
    BY <1>9, <2>5, <2>6, <2>7, <2>8
<1>10. ASSUME Iret
       PROVE  InterruptsInv'
  <2>1. pc = "iret" /\ nmi' = FALSE /\ UNCHANGED <<code, asked, served>>
    BY <1>10 DEF Iret
  <2>2. ASSUME NEW p, NEW r, NEW s, Outer(p, r, s)
        PROVE  Outer(p, r, s)'
    BY <2>1, <2>2 DEF Outer, Calling, Stubbed
  <2>3. PICK p \in Places, r \in Registers, s \in Seq(Words) :
          Outer(p, r, s) /\ Stubbed(pc, p, r, s, regs, stack)
    <3>1. CASE nmi
      BY <1>1, <3>1 DEF Nested
    <3>2. CASE ~nmi
      <4>1. Stubbed(pc, "code", code, <<>>, regs, stack)
        BY <1>1, <2>1, <3>2, InStub
      <4>2. Outer("code", code, <<>>)
        BY DEF Outer
      <4> QED
        BY <1>2, <4>1, <4>2
    <3> QED
      BY <3>1, <3>2
  <2>4. pc' = p /\ regs' = r /\ stack' = s
    BY <1>10, <2>3, StubReturns
  <2>5. TypeInv' /\ ServesWhatWasAsked'
    BY <1>1, <2>1, <2>4 DEF TypeInv, ServesWhatWasAsked
  <2>6. Outer(p, r, s)'
    BY <2>2, <2>3
  <2>7. Outer(pc, regs, stack)'
    BY <2>4, <2>6 DEF Outer, Calling, Stubbed
  <2> QED
    BY <2>1, <2>5, <2>7 DEF InterruptsInv
<1>11. ASSUME UNCHANGED vars
       PROVE  InterruptsInv'
  <2>1. UNCHANGED <<pc, regs, stack, nmi, code, asked, served>>
    BY <1>11 DEF vars
  <2>2. TypeInv' /\ ServesWhatWasAsked'
    BY <1>1, <2>1 DEF TypeInv, ServesWhatWasAsked
  <2>3. ASSUME nmi
        PROVE  Nested'
    <3>1. PICK p \in Places, r \in Registers, s \in Seq(Words) :
            Outer(p, r, s) /\ Stubbed(pc, p, r, s, regs, stack)
      BY <1>1, <2>3 DEF Nested
    <3>2. Outer(p, r, s)'
      BY <2>1, <3>1 DEF Outer, Stubbed, Calling
    <3>3. Stubbed(pc', p, r, s, regs', stack')
      BY <2>1, <3>1
    <3> QED
      BY <3>2, <3>3 DEF Nested
  <2>4. ~nmi => Outer(pc, regs, stack)'
    BY <1>1, <2>1 DEF Outer, Stubbed, Calling
  <2> QED
    BY <2>1, <2>2, <2>3, <2>4 DEF InterruptsInv
<1> QED
  BY <1>4, <1>5, <1>6, <1>7, <1>8, <1>9, <1>10, <1>11 DEF Next, Stubs

\* Every reachable state is one of those the invariant describes, when the list of
\* stubs knows the error codes of the vectors there are.
THEOREM InterruptsInvariant == ASSUME StubsMatch PROVE Spec => []InterruptsInv
<1>1. Init => InterruptsInv
  BY InvInit
<1>2. InterruptsInv /\ [Next]_vars => InterruptsInv'
  BY InvNext
<1> QED
  BY <1>1, <1>2, PTL DEF Spec

\* Interrupts are transparent to the interrupted code, an NMI in any stub too
\* (isr.asm:18-40, 44-66).
THEOREM InterruptsTransparent == ASSUME StubsMatch PROVE Spec => []Transparent
<1>1. InterruptsInv => Transparent
  <2>1. InterruptsInv /\ pc = "code" => ~nmi /\ Outer(pc, regs, stack)
    BY InNmi DEF InterruptsInv
  <2> QED
    BY <2>1 DEF Transparent, Outer, Stubbed, Calling
<1>2. Spec => []InterruptsInv
  BY InterruptsInvariant
<1> QED
  BY <1>1, <1>2, PTL

\* Every iret pops the CPU's own frame, never an error code, a vector or a saved
\* register (isr.asm:39-40, 66).
THEOREM IretPopsFrame == ASSUME StubsMatch PROVE Spec => []IretOnFrame
<1>1. InterruptsInv => IretOnFrame
  <2> SUFFICES ASSUME InterruptsInv, pc = "iret"
               PROVE  stack # <<>> /\ FromTop(stack, 0)[1] = "frame"
    BY DEF IretOnFrame
  <2>1. \E p \in Places, r \in Registers, s \in Seq(Words) :
          Stubbed("iret", p, r, s, regs, stack)
    <3>1. CASE nmi
      BY <3>1 DEF InterruptsInv, Nested
    <3>2. CASE ~nmi
      <4>1. Stubbed("iret", "code", code, <<>>, regs, stack)
        BY <3>2, InStub DEF InterruptsInv
      <4>2. "code" \in Places /\ code \in Registers /\ <<>> \in Seq(Words)
        BY DEF InterruptsInv, TypeInv, Places
      <4> QED
        BY <4>1, <4>2
    <3> QED
      BY <3>1, <3>2
  <2>2. PICK p \in Places, r \in Registers, s \in Seq(Words) :
          Stubbed("iret", p, r, s, regs, stack)
    BY <2>1
  <2>3. stack # <<>> /\ FromTop(stack, 0) = Frame(p)
    BY <2>2, FrameOnTop
  <2> QED
    BY <2>3 DEF Frame
<1>2. Spec => []InterruptsInv
  BY InterruptsInvariant
<1> QED
  BY <1>1, <1>2, PTL

\* The call that is served is the one the code asked for in EAX, whatever happened
\* between int 0x80 and the handler (isr.asm:57).
THEOREM ServesTheCall == ASSUME StubsMatch PROVE Spec => []ServesWhatWasAsked
<1>1. InterruptsInv => ServesWhatWasAsked
  BY DEF InterruptsInv
<1>2. Spec => []InterruptsInv
  BY InterruptsInvariant
<1> QED
  BY <1>1, <1>2, PTL

-----------------------------------------------------------------------------
(* Every interrupt ends                                                    *)

\* What is left of a handler at each place in it.
Left == [code |-> 0, iret |-> 1, clean |-> 2, restore |-> 3, handler |-> 4, save |-> 5,
         restore80 |-> 2, syscall |-> 3, load80 |-> 4, save80 |-> 5]

LEMMA LeftNumbers ==
  ASSUME NEW p \in Places
  PROVE  Left[p] \in 0 .. 5 /\ (p # "code" => Left[p] > 0)
BY DEF Left, Places

\* A step of a stub or a handler comes nearer to its iret; that of an NMI goes back
\* into what the NMI interrupted, any other to the code.
LEMMA StubsGoDown ==
  ASSUME InterruptsInv, Stubs
  PROVE  \/ Left[pc'] < Left[pc] /\ (nmi' = nmi \/ (pc' = "code" /\ ~nmi'))
         \/ nmi /\ ~nmi'
<1>1. TypeInv /\ (nmi => Nested) /\ (~nmi => Outer(pc, regs, stack))
  BY DEF InterruptsInv
<1>2. CASE Save \/ Save80 \/ Handler \/ Load80 \/ SyscallHandler \/ Restore \/ Restore80 \/ CleanUp
  <2>1. /\ nmi' = nmi
        /\ <<pc, pc'>> \in {<<"save", "handler">>, <<"handler", "restore">>,
                            <<"restore", "clean">>, <<"clean", "iret">>,
                            <<"save80", "load80">>, <<"load80", "syscall">>,
                            <<"syscall", "restore80">>, <<"restore80", "iret">>}
    BY <1>2 DEF Save, Save80, SavedBy, Handler, Load80, SyscallHandler, Restore, Restore80,
                RestoredBy, CleanUp
  <2> QED
    BY <2>1 DEF Left
<1>3. CASE Iret /\ nmi
  BY <1>3 DEF Iret
<1>4. CASE Iret /\ ~nmi
  <2>1. pc = "iret" /\ nmi' = FALSE
    BY <1>4 DEF Iret
  <2>2. Stubbed(pc, "code", code, <<>>, regs, stack)
    BY <1>1, <1>4, <2>1, InStub
  <2>3. "code" \in Places /\ code \in Registers /\ <<>> \in Seq(Words)
    BY <1>1 DEF Places, TypeInv
  <2>4. pc' = "code"
    BY <1>4, <2>2, <2>3, StubReturns
  <2> QED
    BY <2>1, <2>4 DEF Left
<1> QED
  BY <1>1, <1>2, <1>3, <1>4 DEF Stubs, TypeInv

\* In a handler nothing else happens, but for an NMI that is let in.
LEMMA OnlyStubs ==
  ASSUME InterruptsInv, [Next]_vars, pc # "code"
  PROVE  Stubs \/ (NonMaskable /\ ~nmi /\ nmi') \/ UNCHANGED <<pc, nmi>>
BY DEF Next, Instruction, Int80, Exception, NonMaskable, vars

\* No handler turns back: each of its steps brings it nearer to its iret, unless an NMI
\* comes between or goes (isr.asm:18-66).
THEOREM HandlersDescend ==
  ASSUME StubsMatch
  PROVE  Spec => [][pc # "code" => Left[pc'] < Left[pc] \/ nmi' # nmi]_vars
<1>1. InterruptsInv /\ [Next]_vars => [pc # "code" => Left[pc'] < Left[pc] \/ nmi' # nmi]_vars
  <2> SUFFICES ASSUME InterruptsInv, Next, pc # "code", ~UNCHANGED vars
               PROVE  Left[pc'] < Left[pc] \/ nmi' # nmi
    OBVIOUS
  <2>1. Stubs \/ (NonMaskable /\ ~nmi /\ nmi')
    BY DEF Next, Instruction, Int80, Exception, NonMaskable
  <2> QED
    BY <2>1, StubsGoDown
<1>2. Spec => []InterruptsInv
  BY InterruptsInvariant
<1> QED
  BY <1>1, <1>2, PTL DEF Spec

\* When a stub or a handler has a next step: the guards of the actions in Stubs.
Ready == pc \in {"save", "save80", "handler", "load80", "syscall", "restore", "restore80",
                 "clean", "iret"}

\* A step whose guard holds can be taken.
CanGoOn == Ready => ENABLED <<Stubs>>_vars

LEMMA StubIsReady == InterruptsInv => pc = "code" \/ Ready
BY DEF InterruptsInv, TypeInv, Places, Ready

\* In the handler of an NMI, or in one with no NMI on top, with at most n steps left.
InNmiWithin(n) == nmi /\ Left[pc] <= n
InStubWithin(n) == ~nmi /\ pc # "code" /\ Left[pc] <= n

LEMMA NmiWithin ==
  ASSUME InterruptsInv, InterruptsInv', NEW n \in Nat, InNmiWithin(n + 1)
  PROVE  /\ [Next]_vars => (InNmiWithin(n + 1) \/ ~nmi)'
         /\ <<Stubs>>_vars => (InNmiWithin(n) \/ ~nmi)'
<1>1. Left[pc] \in Nat /\ Left[pc'] \in Nat /\ pc # "code"
  BY LeftNumbers, InNmi DEF InterruptsInv, TypeInv, InNmiWithin
<1>2. ASSUME <<Stubs>>_vars
      PROVE  (InNmiWithin(n) \/ ~nmi)'
  <2>1. Left[pc'] < Left[pc] \/ ~nmi'
    BY <1>2, StubsGoDown
  <2> QED
    BY <1>1, <2>1 DEF InNmiWithin, InterruptsInv, TypeInv
<1>3. ASSUME [Next]_vars
      PROVE  (InNmiWithin(n + 1) \/ ~nmi)'
  <2>1. CASE Stubs
    <3>1. Left[pc'] < Left[pc] \/ ~nmi'
      BY <2>1, StubsGoDown
    <3> QED
      BY <1>1, <3>1 DEF InNmiWithin, InterruptsInv, TypeInv
  <2>2. CASE ~Stubs
    BY <1>1, <1>3, <2>2, OnlyStubs DEF InNmiWithin
  <2> QED
    BY <2>1, <2>2
<1> QED
  BY <1>2, <1>3

LEMMA StubWithin ==
  ASSUME InterruptsInv, InterruptsInv', NEW n \in Nat, InStubWithin(n + 1)
  PROVE  /\ [Next]_vars /\ [~NonMaskable]_vars => (InStubWithin(n + 1) \/ pc = "code")'
         /\ <<Stubs>>_vars => (InStubWithin(n) \/ pc = "code")'
<1>1. Left[pc] \in Nat /\ Left[pc'] \in Nat
  BY LeftNumbers DEF InterruptsInv, TypeInv
<1>2. ASSUME Stubs
      PROVE  (InStubWithin(n) \/ pc = "code")'
  <2>1. Left[pc'] < Left[pc] /\ (nmi' = nmi \/ pc' = "code")
    BY <1>2, StubsGoDown DEF InStubWithin
  <2> QED
    BY <1>1, <2>1 DEF InStubWithin
<1>3. ASSUME [Next]_vars, [~NonMaskable]_vars
      PROVE  (InStubWithin(n + 1) \/ pc = "code")'
  <2>1. CASE Stubs
    BY <1>1, <1>2, <2>1 DEF InStubWithin
  <2>2. CASE ~Stubs
    <3>1. UNCHANGED <<pc, nmi>>
      BY <1>3, <2>2, OnlyStubs DEF InStubWithin, vars
    <3> QED
      BY <3>1 DEF InStubWithin
  <2> QED
    BY <2>1, <2>2
<1> QED
  BY <1>2, <1>3

\* Every NMI ends, whatever it came upon: the CPU lets the next one in
\* (isr.asm:18-40).
THEOREM NmiEnds == ASSUME StubsMatch PROVE Spec /\ []CanGoOn => (nmi ~> ~nmi)
<1>1. InterruptsInv /\ InterruptsInv' /\ InNmiWithin(1) =>
         /\ [Next]_vars => (InNmiWithin(1) \/ ~nmi)'
         /\ <<Stubs>>_vars => (InNmiWithin(0) \/ ~nmi)'
  BY NmiWithin
<1>2. InterruptsInv /\ InterruptsInv' /\ InNmiWithin(2) =>
         /\ [Next]_vars => (InNmiWithin(2) \/ ~nmi)'
         /\ <<Stubs>>_vars => (InNmiWithin(1) \/ ~nmi)'
  BY NmiWithin
<1>3. InterruptsInv /\ InterruptsInv' /\ InNmiWithin(3) =>
         /\ [Next]_vars => (InNmiWithin(3) \/ ~nmi)'
         /\ <<Stubs>>_vars => (InNmiWithin(2) \/ ~nmi)'
  BY NmiWithin
<1>4. InterruptsInv /\ InterruptsInv' /\ InNmiWithin(4) =>
         /\ [Next]_vars => (InNmiWithin(4) \/ ~nmi)'
         /\ <<Stubs>>_vars => (InNmiWithin(3) \/ ~nmi)'
  BY NmiWithin
<1>5. InterruptsInv /\ InterruptsInv' /\ InNmiWithin(5) =>
         /\ [Next]_vars => (InNmiWithin(5) \/ ~nmi)'
         /\ <<Stubs>>_vars => (InNmiWithin(4) \/ ~nmi)'
  BY NmiWithin
<1>6. InterruptsInv /\ nmi => InNmiWithin(5) /\ ~InNmiWithin(0) /\ ~(pc = "code")
  BY LeftNumbers, InNmi DEF InterruptsInv, TypeInv, InNmiWithin
<1>7. InterruptsInv /\ CanGoOn => pc = "code" \/ ENABLED <<Stubs>>_vars
  BY StubIsReady DEF CanGoOn
<1>8. Spec => []InterruptsInv
  BY InterruptsInvariant
<1> QED
  BY <1>1, <1>2, <1>3, <1>4, <1>5, <1>6, <1>7, <1>8, PTL DEF Spec

\* Unless NMIs come for ever, every interrupt returns: the code gets its turn again,
\* without any bound on how often it is interrupted (isr.asm:18-66).
THEOREM EveryInterruptReturns ==
  ASSUME StubsMatch
  PROVE  Spec /\ []CanGoOn /\ <>[][~NonMaskable]_vars => Returns
<1>1. InterruptsInv /\ InterruptsInv' /\ InStubWithin(1) =>
         /\ [Next]_vars /\ [~NonMaskable]_vars => (InStubWithin(1) \/ pc = "code")'
         /\ <<Stubs>>_vars => (InStubWithin(0) \/ pc = "code")'
  BY StubWithin
<1>2. InterruptsInv /\ InterruptsInv' /\ InStubWithin(2) =>
         /\ [Next]_vars /\ [~NonMaskable]_vars => (InStubWithin(2) \/ pc = "code")'
         /\ <<Stubs>>_vars => (InStubWithin(1) \/ pc = "code")'
  BY StubWithin
<1>3. InterruptsInv /\ InterruptsInv' /\ InStubWithin(3) =>
         /\ [Next]_vars /\ [~NonMaskable]_vars => (InStubWithin(3) \/ pc = "code")'
         /\ <<Stubs>>_vars => (InStubWithin(2) \/ pc = "code")'
  BY StubWithin
<1>4. InterruptsInv /\ InterruptsInv' /\ InStubWithin(4) =>
         /\ [Next]_vars /\ [~NonMaskable]_vars => (InStubWithin(4) \/ pc = "code")'
         /\ <<Stubs>>_vars => (InStubWithin(3) \/ pc = "code")'
  BY StubWithin
<1>5. InterruptsInv /\ InterruptsInv' /\ InStubWithin(5) =>
         /\ [Next]_vars /\ [~NonMaskable]_vars => (InStubWithin(5) \/ pc = "code")'
         /\ <<Stubs>>_vars => (InStubWithin(4) \/ pc = "code")'
  BY StubWithin
<1>6. InterruptsInv /\ ~nmi => InStubWithin(5) \/ pc = "code"
  BY LeftNumbers DEF InterruptsInv, TypeInv, InStubWithin
<1>7. InterruptsInv => ~InStubWithin(0)
  BY LeftNumbers DEF InterruptsInv, TypeInv, InStubWithin
<1>8. InterruptsInv /\ pc = "code" => ~nmi
  BY InNmi DEF InterruptsInv
<1>9. InterruptsInv /\ CanGoOn => pc = "code" \/ ENABLED <<Stubs>>_vars
  BY StubIsReady DEF CanGoOn
<1>10. Spec => []InterruptsInv
  BY InterruptsInvariant
<1>11. Spec /\ []CanGoOn => (nmi ~> ~nmi)
  BY NmiEnds
<1> QED
  BY <1>1, <1>2, <1>3, <1>4, <1>5, <1>6, <1>7, <1>8, <1>9, <1>10, <1>11, PTL DEF Spec, Returns
=============================================================================
