---------------------------- MODULE KernelEntry ----------------------------
(***************************************************************************)
(* entry() of protected_mode.c: from the 32-bit kernel's first instruction  *)
(* to wherever it ends, on every kind of CPU, with the paging, PAE,         *)
(* long-mode and interrupt-table code it calls.  The CPU is what the        *)
(* instructions used make of it (external): paging that is turned on over   *)
(* tables of another mode's format faults, and the handler returns to the   *)
(* faulting instruction.  Boot runs before it, and provides alloc_init.     *)
(***************************************************************************)
EXTENDS Boot

CONSTANT Cpus   \* the CPUs: [pae, ext, lm, vendorBit, la57], all BOOLEAN

ASSUME CpuAssumption ==
    Cpus \subseteq {c \in [pae: BOOLEAN, ext: BOOLEAN, lm: BOOLEAN, vendorBit: BOOLEAN, la57: BOOLEAN] :
                      (c.lm => c.pae /\ c.ext) /\ (c.la57 => c.lm)}

VARIABLES
    pc,        \* the next call of entry()
    has,       \* the CPU's features
    cr,        \* control registers: pg, pae, pse, la57, lme and the table CR3 names
    table,     \* page directory at 0x2000: what its entries are
    idt,       \* whether the interrupt table is set
    ie,        \* whether interrupts are enabled
    masked,    \* the interrupt controllers that are masked
    said,      \* which support messages were printed
    gdt,       \* the GDT in force, its slots from 1 up: what each describes
    tr         \* the slot the task register was loaded from, 0 at first

segments == <<gdt, tr>>
entryVars == <<pc, has, cr, table, idt, ie, masked, said, segments>>
vars == <<bootVars, entryVars>>

Init ==
    /\ BootInit
    /\ pc = "mask" /\ has \in Cpus
    /\ cr = [pg |-> FALSE, pae |-> FALSE, pse |-> FALSE, lme |-> FALSE, cr3 |-> "none"]
    /\ table = "stale" /\ idt = FALSE /\ ie = FALSE
    /\ masked = {} /\ said = {}
    /\ gdt = <<"code", "data", "null">> /\ tr = 0

At(here, next) == pc = here /\ pc' = next

-----------------------------------------------------------------------------
(* Control registers                                                       *)

\* Does a table translate in the mode the control bits select?
Format(t) == IF t = "directory" THEN "32" ELSE IF t = "identity" THEN "4mb" ELSE "long"
Fits(t, c) == CASE Format(t) = "32"  -> ~c.pae
                [] Format(t) = "4mb" -> ~c.pae /\ c.pse
                [] OTHER             -> c.pae /\ c.lme

\* mov cr0 with PG set; the check of the tables is what PAE paging does at once.
TurnOn(c, t, here, next) ==
    IF c.pae /\ Format(t) # "long"
      THEN pc = here /\ pc' = "fault" /\ cr' = [c EXCEPT !.cr3 = t]
      ELSE At(here, next) /\ cr' = [c EXCEPT !.cr3 = t, !.pg = TRUE]

TurnOff(c) == [c EXCEPT !.pg = FALSE]

-----------------------------------------------------------------------------
(* The calls of entry(), in its order                                      *)

MaskMaster ==                                                          \* mutant
    /\ At("mask", "paging") /\ masked' = {"master"}
    /\ UNCHANGED <<has, cr, table, idt, ie, said, segments>>
MaskAll ==
    /\ At("mask", "paging") /\ masked' = {"master", "slave"}
    /\ UNCHANGED <<has, cr, table, idt, ie, said, segments>>

\* clear_bss, init_paging: a directory in .bss with the first 4 MB.
InitPaging ==
    /\ TurnOn(cr, "directory", "paging", "features")
    /\ UNCHANGED <<has, table, idt, ie, masked, said, segments>>

SupportsLongMode == has.ext /\ has.lm
LongModeBranch == SupportsLongMode /\ has.pae

CheckFeatures ==
    /\ pc = "features"
    /\ pc' = IF LongModeBranch THEN "tables" ELSE "alloc"
    /\ said' = {m \in {"pae", "long mode"} :
                  (m = "pae" /\ has.pae) \/ (m = "long mode" /\ LongModeBranch)}
    /\ UNCHANGED <<has, cr, table, idt, ie, masked, segments>>

\* disable_paging, then the long-mode tables; 0x2000 is one of them.
LongTables ==
    /\ At("tables", "pae")
    /\ cr' = TurnOff(cr) /\ table' = "long"
    /\ UNCHANGED <<has, idt, ie, masked, said, segments>>

EnablePae ==
    /\ At("pae", "pml5") /\ has.pae
    /\ cr' = [cr EXCEPT !.pae = TRUE]
    /\ UNCHANGED <<has, table, idt, ie, masked, said, segments>>

\* cpu_supports_pml5: CPUID with EAX = 0 and ECX = 7, so ECX is part of the
\* vendor's name and its bit 16 one letter's lowest bit.
SupportsPml5 == has.vendorBit

CheckPml5 ==
    /\ pc = "pml5"
    /\ pc' = IF SupportsPml5 THEN "efer" ELSE "alloc"
    /\ said' = IF SupportsPml5 THEN said \cup {"pml5"} ELSE said
    /\ UNCHANGED <<has, cr, table, idt, ie, masked, segments>>

\* enable_compatibility_mode, set_gdt64, jump_to_long_mode.  Paging stays off, so
\* the CPU is not in long mode there: what follows is no longer the code's.
JumpToLongMode ==
    /\ At("efer", "entry64")
    /\ cr' = [cr EXCEPT !.lme = TRUE] /\ gdt' = <<"code64", "data">>
    /\ UNCHANGED <<has, table, idt, ie, masked, said, tr>>

\* alloc_init, the report of the memory map, then cli.
AllocThenCli ==
    /\ At("alloc", "lidt") /\ ie' = FALSE
    /\ RamFits /\ AllocInit
    /\ UNCHANGED <<has, cr, table, idt, masked, said, segments>>

\* A map with more usable entries than ram_memmap takes: what follows is no longer
\* the code's.
AllocOverruns ==
    /\ At("alloc", "wild") /\ ~RamFits
    /\ UNCHANGED <<has, cr, table, idt, ie, masked, said, segments>>

\* init_idt: the descriptors, lidt, and sti.
LoadIdt ==
    /\ At("lidt", "sti") /\ idt' = TRUE
    /\ UNCHANGED <<has, cr, table, ie, masked, said, segments>>

Sti ==
    /\ At("sti", "heap") /\ ie' = TRUE
    /\ UNCHANGED <<has, cr, table, idt, masked, said, segments>>

\* Three blocks to try the heap, which lie in the first 4 MB; then disable_paging.
HeapReady == ram_memmap # <<>> /\ ram_memmap[1].base \in headers
PagingOff ==
    /\ At("heap", "huge") /\ HeapReady
    /\ cr' = TurnOff(cr)
    /\ UNCHANGED <<has, table, idt, ie, masked, said, segments>>

\* Without a heap the blocks are at address 0, or wherever a header that nobody
\* wrote makes them be: what follows is no longer the code's.
NoHeap ==
    /\ At("heap", "wild") /\ ~HeapReady
    /\ UNCHANGED <<has, cr, table, idt, ie, masked, said, segments>>

\* init_paging_4mb_identity and enable_huge_paging.
WithoutPse(c) == c                                                     \* mutant
WithPse(c) == [c EXCEPT !.pse = TRUE]

HugePaging ==
    /\ table' = "identity"
    /\ TurnOn(WithPse(cr), "identity", "huge", "tss")
    /\ UNCHANGED <<has, idt, ie, masked, said, segments>>

\* tss_init fills its slot of the GDT that the second stage's word at GDT_START names,
\* which is the one in force here, and ltr marks it busy; then the cli before the
\* file system.  ltr faults on a slot that describes no TSS.
DataSlot == 2                                                          \* mutant
GDT_TSS_INDEX == 3
TssInit ==
    /\ IF GDT_TSS_INDEX \in DOMAIN gdt
         THEN /\ At("tss", "files")
              /\ gdt' = [gdt EXCEPT ![GDT_TSS_INDEX] = "busy"] /\ tr' = GDT_TSS_INDEX
         ELSE At("tss", "fault") /\ UNCHANGED segments
    /\ ie' = FALSE
    /\ UNCHANGED <<has, cr, table, idt, masked, said>>

\* A call that works on files comes back, or it never does: the kernel has panicked
\* ("panic"), the drive never raises DRQ ("poll"), the driver's main keeps the processor
\* ("main"), or what follows is no longer the code's ("lost"): malloc's NULL is not
\* looked at, and a driver without imports is walked from address 0.  MonoFs, Ata and
\* Loader have what becomes of files and imports.  A panic is cli and hlt.
Call(here, next, ends) ==
    /\ pc = here /\ pc' \in {next} \cup ends
    /\ ie' = (ie /\ pc' # "panic")
    /\ UNCHANGED <<has, cr, table, idt, masked, said, segments>>

MonoFsInit == Call("files", "print", {"poll", "lost"})
PrintMonoFs == Call("print", "driver", {"panic", "poll", "lost"})
LoadDriver == Call("driver", "end", {"panic", "poll", "main", "lost"})

Halt ==
    /\ At("end", "halt") /\ ie' = FALSE
    /\ UNCHANGED <<has, cr, table, idt, masked, said, segments>>

\* Interrupt 13 returns to the instruction that faulted.
FaultAgain ==
    /\ pc = "fault"
    /\ UNCHANGED entryVars

Kernel ==
    \/ MaskAll \/ InitPaging \/ CheckFeatures \/ LongTables \/ EnablePae \/ CheckPml5
    \/ JumpToLongMode \/ AllocOverruns \/ LoadIdt \/ Sti
    \/ PagingOff \/ NoHeap \/ HugePaging \/ TssInit
    \/ MonoFsInit \/ PrintMonoFs \/ LoadDriver \/ Halt \/ FaultAgain

Next ==
    \/ BootNext /\ UNCHANGED entryVars
    \/ boot = "entry" /\ Kernel /\ UNCHANGED bootVars
    \/ boot = "entry" /\ AllocThenCli

\* One CPU executes the code; it does not stop by itself.
Spec == Init /\ [][Next]_vars /\ WF_vars(Next)

-----------------------------------------------------------------------------
(* Properties                                                              *)

\* Interrupts are only ever on with a table to serve them and both controllers
\* masked, whose vectors still lie on those of CPU exceptions
\* (protected_mode.c:31-32, 72-73, idt.c:36-37).
QuietInterrupts == ie => idt /\ masked = {"master", "slave"}

\* While paging is on, the tables are the ones the CPU's mode reads: what runs is
\* mapped (paging.c:11-39).
MappedWhilePaging == cr.pg => Fits(cr.cr3, cr)

\* The heap is the region at 1 MB, if that is the first usable one behind the
\* entry that is trimmed; otherwise no header is written, and none ever lies on
\* the kernel in low memory (ram.c:13, alloc.c:14-28).
Found == SelectSeq(SubSeq(firmware.map, 2, Len(firmware.map)), Usable)
FirstAtOneMB == Found # <<>> /\ Found[1].base = OneMB
HeapAtOneMB ==
    pc \in {"lidt", "sti", "heap", "huge", "tss", "files", "print", "driver", "end", "halt"} =>
       headers = IF FirstAtOneMB THEN {OneMB} ELSE {}

\* Boot sector and second stage come to an end, whatever disk reads fail and however
\* the list of the memory map is ended (boot.asm:61-79, stage2.asm:141-178).
BootEnds == <>(boot \in {"entry", "astray"})

\* Once the kernel runs on a CPU without long mode, with a map that fits (ram.c:13-17)
\* and begins at 1 MB behind the trimmed entry, it comes through every call of entry()
\* up to its files and its driver, with the identity map of 4 MB pages in force, code
\* and data segments as the second stage made them, the TSS loaded and interrupts off;
\* and it halts, unless it panics, the drive or the driver never gives the processor
\* back, or it is lost (protected_mode.c:30-114, tss.c:19-42, paging.c:32-39).
PlainCpu == boot = "entry" /\ ~has.lm /\ FirstAtOneMB /\ Len(Found) <= RamRoom
EndOfEntry ==
    PlainCpu ~> [](/\ pc \in {"halt", "panic", "poll", "main", "lost"}
                   /\ pc \notin {"main", "lost"} =>
                        /\ cr.pg /\ cr.cr3 = "identity" /\ ~ie
                        /\ gdt = <<"code", "data", "busy">> /\ tr = 3)
=============================================================================
