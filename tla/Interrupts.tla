----------------------------- MODULE Interrupts -----------------------------
(***************************************************************************)
(* The interrupt stubs of isr.asm: what the CPU, the stubs and the common   *)
(* handler push on the one kernel stack, and what they take off again, with *)
(* a non-maskable interrupt possible between any two steps.  The gates are   *)
(* interrupt gates (idt.c:30, 34), so nothing else nests.                    *)
(***************************************************************************)
EXTENDS Integers, Sequences

CONSTANTS
    Exceptions,   \* vectors the code may raise
    WithError,    \* the vectors for which the CPU pushes an error code
    Numbers,      \* values of EAX, system call numbers among them
    MaxSteps      \* bound: instructions of the interrupted code

ASSUME InterruptsAssumption ==
    /\ Exceptions \subseteq 0 .. 31 \ {2} /\ WithError \subseteq 0 .. 31
    /\ MaxSteps \in Nat /\ Numbers # {} /\ Numbers \subseteq 0 .. 15

NMI == 2
Syscall == 128
Selector == 16       \* 0x10
CNothing == -1       \* what C code leaves in a register that is nobody's
Mine == 100          \* the other registers, as the interrupted code has them
Junk == 101          \* and as C code leaves them

VARIABLES
    pc,      \* "code", or where in a stub or handler
    regs,    \* EAX, the other general registers as one, the data segments
    stack,   \* the words on the stack, the top last
    nmi,     \* whether an NMI is being served: the CPU holds back the next
    code,    \* the registers as the interrupted code left them
    steps,   \* its instructions so far
    asked,   \* EAX of the last int 0x80
    served   \* the number the handler took for it

vars == <<pc, regs, stack, nmi, code, steps, asked, served>>

Frame(at) == <<"frame", at>>      \* EFLAGS, CS and EIP, as the CPU pushes them
Zero == <<"zero">>
ErrorCode == <<"error">>
VectorWord(v) == <<"vector", v>>
Reg(r, x) == <<"reg", r, x>>

Push(s, ws) == s \o ws
Drop(s, n) == SubSeq(s, 1, Len(s) - n)
FromTop(s, k) == s[Len(s) - k]     \* the word k words above the top one

Init ==
    /\ pc = "code" /\ stack = <<>> /\ nmi = FALSE
    /\ regs \in [eax: Numbers, other: {Mine}, seg: {Selector}] /\ code = regs
    /\ steps = 0 /\ asked = CNothing /\ served = CNothing

-----------------------------------------------------------------------------
(* The interrupted code                                                    *)

Instruction(n) ==
    /\ pc = "code" /\ steps < MaxSteps
    /\ regs' = [regs EXCEPT !.eax = n] /\ code' = regs'
    /\ steps' = steps + 1
    /\ UNCHANGED <<pc, stack, nmi, asked, served>>

\* syscall0: int 0x80 with the number in EAX.
Int80 ==
    /\ pc = "code" /\ steps < MaxSteps
    /\ stack' = Push(stack, <<Frame("code")>>)
    /\ asked' = regs.eax /\ served' = CNothing /\ pc' = "save80"
    /\ steps' = steps + 1
    /\ UNCHANGED <<regs, nmi, code>>

\* A stub of isr_stub_table with its vector, in "raise": the CPU's part first.
Entered(v) == IF v \in WithError THEN <<Frame(pc), ErrorCode>> ELSE <<Frame(pc)>>

\* isr_err_stub or isr_no_err_stub, as the list of stubs has it.
ErrStubs == {8, 10, 11, 12, 13, 14, 17, 30}
Stub(v) == IF v \in ErrStubs THEN <<VectorWord(v)>> ELSE <<Zero, VectorWord(v)>>

\* The list is right for every vector there is.
StubsMatch == \A v \in Exceptions \cup {NMI} : v \in WithError <=> v \in ErrStubs

Exception(v) ==
    /\ pc = "code" /\ steps < MaxSteps
    /\ stack' = Push(stack, Entered(v) \o Stub(v))
    /\ pc' = "save" /\ steps' = steps + 1
    /\ UNCHANGED <<regs, nmi, code, asked, served>>

\* Between any two steps, unless one is being served.
NonMaskable ==
    /\ ~nmi /\ steps < MaxSteps
    /\ stack' = Push(stack, Entered(NMI) \o Stub(NMI))
    /\ nmi' = TRUE /\ pc' = "save" /\ steps' = steps + 1
    /\ UNCHANGED <<regs, code, asked, served>>

-----------------------------------------------------------------------------
(* The handlers                                                            *)

General == <<"eax", "ecx", "edx", "ebx", "esp", "ebp", "esi", "edi">>
Segments == <<"ds", "es", "fs", "gs">>
Saved(r) == [i \in 1 .. 12 |->
               IF i = 1 THEN Reg("eax", r.eax)
               ELSE IF i <= 8 THEN Reg(General[i], r.other) ELSE Reg(Segments[i - 8], r.seg)]

\* pusha and the four segment registers, then the kernel's data segment.
SavedBy(here, next) ==
    /\ pc = here /\ pc' = next
    /\ stack' = Push(stack, Saved(regs))
    /\ regs' = [eax |-> Selector, other |-> regs.other, seg |-> Selector]
    /\ UNCHANGED <<nmi, code, steps, asked, served>>
Save == SavedBy("save", "handler")
Save80 == SavedBy("save80", "load80")

\* interrupt_handler returns at once.
Handler ==
    /\ pc = "handler" /\ pc' = "restore"
    /\ UNCHANGED <<regs, stack, nmi, code, steps, asked, served>>

\* mov eax, [esp + 44]
NumberAt40 == 10                                                       \* mutant
NumberAt == 11
Load80 ==
    /\ pc = "load80" /\ pc' = "syscall"
    /\ regs' = [regs EXCEPT !.eax = FromTop(stack, NumberAt)[3]]
    /\ UNCHANGED <<stack, nmi, code, steps, asked, served>>

\* syscall_handler: C code, which leaves what it likes in the registers.
StopOnUnknown ==                                                       \* mutant
    /\ pc = "syscall" /\ pc' = IF regs.eax \in {0, 1} THEN "restore80" ELSE "syscall"
    /\ served' = regs.eax
    /\ UNCHANGED <<regs, stack, nmi, code, steps, asked>>
SyscallHandler ==
    /\ pc = "syscall" /\ pc' = "restore80"
    /\ served' = regs.eax
    /\ regs' = [eax |-> CNothing, other |-> Junk, seg |-> regs.seg]
    /\ UNCHANGED <<stack, nmi, code, steps, asked>>

\* The four segments and popa.
KeptEax == [eax |-> regs.eax, other |-> FromTop(stack, 10)[3],         \* mutant
            seg |-> FromTop(stack, 0)[3]]
Popped == [eax |-> FromTop(stack, 11)[3], other |-> FromTop(stack, 10)[3],
           seg |-> FromTop(stack, 0)[3]]
RestoredBy(here, next) ==
    /\ pc = here /\ pc' = next
    /\ regs' = Popped
    /\ stack' = Drop(stack, 12)
    /\ UNCHANGED <<nmi, code, steps, asked, served>>
Restore == RestoredBy("restore", "clean")
Restore80 == RestoredBy("restore80", "iret")

\* add esp, 8
CleanedVector(s) == Drop(s, 1)                                         \* mutant
Cleaned(s) == Drop(s, 2)
CleanUp ==
    /\ pc = "clean" /\ pc' = "iret"
    /\ stack' = Cleaned(stack)
    /\ UNCHANGED <<regs, nmi, code, steps, asked, served>>

\* Back to where the frame says; any iret lets the next NMI in.
Iret ==
    /\ pc = "iret"
    /\ pc' = FromTop(stack, 0)[2]
    /\ stack' = Drop(stack, 1) /\ nmi' = FALSE
    /\ UNCHANGED <<regs, code, steps, asked, served>>

Stubs == Save \/ Save80 \/ Handler \/ Load80 \/ SyscallHandler \/ Restore \/ Restore80
         \/ CleanUp \/ Iret

Next ==
    \/ \E n \in Numbers : Instruction(n)
    \/ Int80
    \/ \E v \in Exceptions : Exception(v)
    \/ NonMaskable
    \/ Stubs

\* The handlers run to their end; the code need not go on.
Spec == Init /\ [][Next]_vars /\ WF_vars(Stubs)

-----------------------------------------------------------------------------
(* Properties                                                              *)

\* Whatever interrupts the code, it goes on with the registers and the stack it
\* had (isr.asm:18-40, 44-66).
Transparent == pc = "code" => regs = code /\ stack = <<>>

\* The handlers' iret finds the CPU's frame on top: "clean up error code and
\* vector" (isr.asm:39) takes off exactly what the CPU and the stub put there.
IretOnFrame == pc = "iret" => stack # <<>> /\ FromTop(stack, 0)[1] = "frame"

\* The number that is served is the caller's EAX, also when an NMI came between
\* (isr.asm:57, isr_handler.c:4-20).
ServesWhatWasAsked == served # CNothing => served = asked

\* Every interrupt ends: the code gets its turn again.
Returns == (pc # "code") ~> (pc = "code")
=============================================================================
