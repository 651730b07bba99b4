------------------------- MODULE KernelEntryProofs -------------------------
(***************************************************************************)
(* Proofs about Boot and KernelEntry, for every set of CPUs and of firmware, *)
(* any number of reads and any room for the memory maps.                    *)
(***************************************************************************)
EXTENDS KernelEntry, SequenceTheorems, TLAPS

Entries == [base: Nat, type: Nat]

\* What a firmware is.
LEMMA FirmwareType ==
  ASSUME NEW w \in Firmwares
  PROVE  /\ w.map \in Seq(Entries) /\ Len(w.map) \in Nat
         /\ w.last \in BOOLEAN /\ w.modes \in Nat
<1>1. w.map \in Seq(Entries) /\ w.last \in BOOLEAN /\ w.modes \in Nat
  BY BootAssumption DEF Entries
<1> QED
  BY <1>1, LenProperties

-----------------------------------------------------------------------------
(* The boot: its inductive invariant                                       *)

Stages == {"kernel", "files", "vesa", "e820", "more", "detected", "astray", "entry"}

BootTypeInv == /\ boot \in Stages /\ firmware \in Firmwares
               /\ stage2 \in BOOLEAN /\ es \in Nat /\ bp \in Nat

\* Before detection nothing is stored; the second stage runs only if it was read.
BeforeMap ==
    /\ boot \in {"kernel", "files", "vesa", "e820"} => memory_map = <<>> /\ bp = 0
    /\ boot \in {"vesa", "e820"} => stage2

\* During it the map is what was reported so far, and the second stage is whole as
\* long as that fits.
DuringMap ==
    boot \in {"more", "detected"} =>
      /\ es = 0 /\ bp \in 1 .. Len(firmware.map)
      /\ memory_map = SubSeq(firmware.map, 1, bp)
      /\ stage2 <=> bp <= MapRoom

AfterMap == boot = "detected" => bp = Len(firmware.map)

\* The heap is the kernel's doing, and the kernel's the boot's.
BootInv == /\ BootTypeInv /\ BeforeMap /\ DuringMap /\ AfterMap
           /\ MapIsComplete /\ AstrayOnly

-----------------------------------------------------------------------------
(* The kernel's entry: its inductive invariant                             *)

Calls == {"mask", "paging", "features", "tables", "pae", "pml5", "efer", "entry64", "alloc",
          "lidt", "sti", "heap", "huge", "tss", "files", "print", "driver", "end",
          "halt", "panic", "poll", "main", "lost", "fault", "wild"}
Tables == {"none", "directory", "identity"}
Controls == [pg: BOOLEAN, pae: BOOLEAN, pse: BOOLEAN, lme: BOOLEAN, cr3: Tables]

EntryTypeInv == /\ pc \in Calls /\ cr \in Controls
                /\ idt \in BOOLEAN /\ ie \in BOOLEAN

\* Nothing of the kernel runs before the boot has ended.
KernelLast == pc # "mask" => boot = "entry"

\* The calls on files and driver, and where they may end.
WithFiles == {"files", "print", "driver", "end", "halt", "panic", "poll", "main", "lost"}

\* Interrupts come on only where the table has been loaded, and the masks are the
\* first thing that is written.
MaskedFirst == /\ pc # "mask" => masked = {"master", "slave"}
               /\ pc = "sti" => idt
               /\ ie => pc # "mask" /\ idt
               /\ pc \in WithFiles => ~ie

\* Paging is turned on first without PAE, and is off wherever the tables or the mode
\* are changed.
PagingOrder == /\ pc \in {"mask", "paging"} => ~cr.pg /\ ~cr.pae
               /\ pc \in {"pae", "pml5", "efer", "entry64", "huge"} => ~cr.pg

\* No header is written before alloc_init.
HeadersLast ==
    pc \in {"mask", "paging", "features", "tables", "pae", "pml5", "efer", "alloc"} => headers = {}

EntryInv == /\ EntryTypeInv /\ KernelLast /\ MaskedFirst /\ PagingOrder /\ HeadersLast
            /\ MappedWhilePaging /\ HeapAtOneMB

-----------------------------------------------------------------------------
(* The steps of the boot                                                   *)

LEMMA BootStarts == BootInit => BootInv
<1> SUFFICES ASSUME BootInit PROVE BootInv
  OBVIOUS
<1>1. BootTypeInv
  BY DEF BootInit, BootTypeInv, Stages
<1>2. BeforeMap /\ DuringMap /\ AfterMap /\ MapIsComplete /\ AstrayOnly
  BY DEF BootInit, BeforeMap, DuringMap, AfterMap, MapIsComplete, AstrayOnly
<1> QED
  BY <1>1, <1>2 DEF BootInv

\* One more entry of the firmware's list.
LEMMA OneMore ==
  ASSUME NEW map \in Seq(Entries), NEW n \in 1 .. Len(map)
  PROVE  Append(SubSeq(map, 1, n - 1), map[n]) = SubSeq(map, 1, n)
<1>1. Len(map) \in Nat /\ map[n] \in Entries
  BY LenProperties, ElementOfSeq
<1>2. 1 \in 1 .. Len(map) /\ n \in 1 .. Len(map)
  BY <1>1
<1>3. SubSeq(map, 1, n) = SubSeq(map, 1, n - 1) \o <<map[n]>>
  BY <1>2, SubSeqRecursiveSecond
<1>4. SubSeq(map, 1, n - 1) \in Seq(Entries)
  <2>1. \A i \in 1 .. n - 1 : map[i] \in Entries
    BY <1>1, ElementOfSeq
  <2>2. 1 \in Int /\ n - 1 \in Int
    BY <1>1
  <2> QED
    BY <2>1, <2>2, SubSeqProperties
<1> QED
  BY <1>1, <1>3, <1>4, AppendIsConcat

LEMMA BootKeeps == BootInv /\ BootNext => BootInv'
<1> SUFFICES ASSUME BootInv, BootNext PROVE BootInv'
  OBVIOUS
<1>1. /\ BootTypeInv /\ BeforeMap /\ DuringMap /\ AfterMap /\ MapIsComplete /\ AstrayOnly
      /\ firmware.map \in Seq(Entries) /\ Len(firmware.map) \in Nat
      /\ firmware.last \in BOOLEAN /\ firmware.modes \in Nat
      /\ MapRoom \in Nat
  BY FirmwareType, BootAssumption DEF BootInv, BootTypeInv
<1>2. CASE LoadKernel
  <2>1. BootTypeInv'
    BY <1>1, <1>2 DEF LoadKernel, BootTypeInv, Stages
  <2>2. boot' = "files" /\ memory_map' = <<>> /\ bp' = 0
    BY <1>1, <1>2 DEF LoadKernel, BeforeMap
  <2> QED
    BY <2>1, <2>2 DEF BootInv, BeforeMap, DuringMap, AfterMap, MapIsComplete, AstrayOnly
<1>3. CASE ReadFs \/ FailFs
  <2>1. /\ boot = "files" /\ boot' \in {"files", IF stage2 THEN "vesa" ELSE "astray"}
        /\ UNCHANGED <<firmware, stage2, es, memory_map, bp>>
    BY <1>3 DEF ReadFs, FailFs, ToStage2
  <2>2. BootTypeInv'
    BY <1>1, <2>1 DEF BootTypeInv, Stages
  <2>3. memory_map' = <<>> /\ bp' = 0 /\ boot' \in {"files", "vesa", "astray"}
        /\ (boot' = "vesa" => stage2') /\ (boot' = "astray" => ~stage2')
    BY <1>1, <2>1 DEF BeforeMap, BootTypeInv
  <2> QED
    BY <2>2, <2>3 DEF BootInv, BeforeMap, DuringMap, AfterMap, MapIsComplete, AstrayOnly
<1>4. CASE GetVesaInfo
  <2>1. /\ boot = "vesa" /\ boot' = "e820" /\ es' = firmware.modes
        /\ UNCHANGED <<firmware, stage2, memory_map, bp>>
    BY <1>4 DEF GetVesaInfo
  <2>2. BootTypeInv'
    BY <1>1, <2>1 DEF BootTypeInv, Stages
  <2> QED
    BY <1>1, <2>1, <2>2
       DEF BootInv, BeforeMap, DuringMap, AfterMap, MapIsComplete, AstrayOnly
<1>5. CASE DetectFails
  <2>1. /\ boot' = "astray" /\ UNCHANGED <<firmware, stage2, es, memory_map, bp>>
        /\ (Len(firmware.map) = 0 \/ (firmware.last /\ Len(firmware.map) = 1))
    BY <1>1, <1>5 DEF DetectFails, Answers, EndsWith
  <2>2. BootTypeInv'
    BY <1>1, <2>1 DEF BootTypeInv, Stages
  <2>3. Len(firmware.map) = 0 => firmware.map = <<>>
    BY <1>1, EmptySeq
  <2> QED
    BY <2>1, <2>2, <2>3
       DEF BootInv, BeforeMap, DuringMap, AfterMap, MapIsComplete, AstrayOnly
<1>6. CASE FirstEntry \/ NextEntry
  <2> DEFINE n == bp + 1
  <2>1. /\ es' = 0 /\ bp' = n /\ n \in 1 .. Len(firmware.map) /\ firmware' = firmware
        /\ memory_map' = Append(memory_map, firmware.map[n])
        /\ memory_map = SubSeq(firmware.map, 1, n - 1)
        /\ stage2' = (n <= MapRoom)
        /\ boot' \in {"more", "detected"} /\ (boot' = "detected" => n = Len(firmware.map))
    <3>1. CASE FirstEntry
      <4>1. boot = "e820" /\ memory_map = <<>> /\ bp = 0
        BY <1>1, <3>1 DEF FirstEntry, BeforeMap
      <4>2. SubSeq(firmware.map, 1, 0) = <<>>
        BY SubSeqEmpty
      <4> QED
        BY <1>1, <3>1, <4>1, <4>2 DEF FirstEntry, Process, Answers, ClearEs
    <3>2. CASE NextEntry
      <4>1. boot = "more" /\ es = 0 /\ bp \in Nat /\ memory_map = SubSeq(firmware.map, 1, bp)
        BY <1>1, <3>2 DEF NextEntry, DuringMap, BootTypeInv
      <4> QED
        BY <1>1, <3>2, <4>1 DEF NextEntry, Process, Answers, EndsWith
    <3> QED
      BY <1>6, <3>1, <3>2
  <2>2. memory_map' = SubSeq(firmware.map, 1, n)
    BY <1>1, <2>1, OneMore
  <2>3. BootTypeInv'
    BY <1>1, <2>1 DEF BootTypeInv, Stages
  <2> QED
    BY <1>1, <2>1, <2>2, <2>3
       DEF BootInv, BeforeMap, DuringMap, AfterMap, MapIsComplete, AstrayOnly
<1>7. CASE Carry
  <2>1. /\ boot = "more" /\ boot' = "detected" /\ bp + 1 > Len(firmware.map)
        /\ UNCHANGED <<firmware, stage2, es, memory_map, bp>>
    BY <1>1, <1>7 DEF Carry, Answers, BootTypeInv
  <2>2. bp = Len(firmware.map)
    BY <1>1, <2>1 DEF DuringMap
  <2>3. BootTypeInv'
    BY <1>1, <2>1 DEF BootTypeInv, Stages
  <2> QED
    BY <1>1, <2>1, <2>2, <2>3
       DEF BootInv, BeforeMap, DuringMap, AfterMap, MapIsComplete, AstrayOnly
<1>8. CASE Detected
  <2>1. /\ boot = "detected" /\ boot' = (IF stage2 THEN "entry" ELSE "astray")
        /\ memory_map_entries' = bp
        /\ UNCHANGED <<firmware, stage2, es, memory_map, bp>>
    BY <1>8 DEF Detected, CountAll
  <2>2. bp = Len(firmware.map) /\ memory_map = firmware.map /\ (stage2 <=> bp <= MapRoom)
    BY <1>1, <2>1, SubSeqFull DEF DuringMap, AfterMap
  <2>3. BootTypeInv'
    BY <1>1, <2>1 DEF BootTypeInv, Stages
  <2> QED
    BY <1>1, <2>1, <2>2, <2>3
       DEF BootInv, BeforeMap, DuringMap, AfterMap, MapIsComplete, AstrayOnly
<1> QED
  BY <1>2, <1>3, <1>4, <1>5, <1>6, <1>7, <1>8 DEF BootNext

-----------------------------------------------------------------------------
(* The steps of the kernel's entry                                         *)

\* What the instructions on the control registers leave in them.
LEMMA ControlBits ==
  ASSUME NEW c \in Controls
  PROVE  /\ TurnOff(c) \in Controls /\ TurnOff(c).pg = FALSE
         /\ [c EXCEPT !.pae = TRUE] \in Controls /\ [c EXCEPT !.pae = TRUE].pg = c.pg
         /\ [c EXCEPT !.lme = TRUE] \in Controls /\ [c EXCEPT !.lme = TRUE].pg = c.pg
         /\ WithPse(c) \in Controls /\ WithPse(c).pse = TRUE
         /\ WithPse(c).pae = c.pae /\ WithPse(c).pg = c.pg
BY DEF Controls, TurnOff, WithPse

LEMMA LoadedBits ==
  ASSUME NEW c \in Controls, NEW t \in Tables
  PROVE  /\ [c EXCEPT !.cr3 = t] \in Controls /\ [c EXCEPT !.cr3 = t].pg = c.pg
         /\ [c EXCEPT !.cr3 = t, !.pg = TRUE] \in Controls
         /\ [c EXCEPT !.cr3 = t, !.pg = TRUE].cr3 = t
         /\ [c EXCEPT !.cr3 = t, !.pg = TRUE].pae = c.pae
         /\ [c EXCEPT !.cr3 = t, !.pg = TRUE].pse = c.pse
BY DEF Controls

\* Turning paging on either faults with paging as it was, or with tables that fit.
LEMMA TurnsOn ==
  ASSUME NEW c \in Controls, NEW t \in {"directory", "identity"},
         t = "identity" => c.pse, NEW here, NEW next,
         TurnOn(c, t, here, next)
  PROVE  /\ pc = here /\ cr' \in Controls
         /\ \/ c.pae /\ pc' = "fault" /\ cr'.pg = c.pg
            \/ ~c.pae /\ pc' = next /\ Fits(cr'.cr3, cr')
<1>1. t \in Tables /\ Format(t) # "long" /\ (t = "directory" => Format(t) = "32")
      /\ (t = "identity" => Format(t) = "4mb")
  BY DEF Tables, Format
<1>2. c.pae \in BOOLEAN
  BY DEF Controls
<1>3. CASE c.pae
  <2>1. t \in Tables /\ Format(t) # "long" /\ c.pae
    BY <1>1, <1>3
  <2>2. pc = here /\ pc' = "fault" /\ cr' = [c EXCEPT !.cr3 = t]
    BY <2>1, Zenon DEF TurnOn
  <2>3. [c EXCEPT !.cr3 = t] \in Controls /\ [c EXCEPT !.cr3 = t].pg = c.pg
    BY <2>1, LoadedBits, Zenon
  <2> QED
    BY <2>1, <2>2, <2>3, Zenon
<1>4. CASE ~c.pae
  <2>1. pc = here /\ pc' = next /\ cr' = [c EXCEPT !.cr3 = t, !.pg = TRUE]
    BY <1>4 DEF TurnOn, At
  <2>2. cr' \in Controls /\ cr'.cr3 = t /\ ~cr'.pae /\ cr'.pse = c.pse
    BY <1>1, <1>4, <2>1, LoadedBits
  <2>3. Fits(cr'.cr3, cr')
    BY <1>1, <2>2 DEF Fits
  <2> QED
    BY <1>4, <2>1, <2>2, <2>3
<1> QED
  BY <1>2, <1>3, <1>4

LEMMA EntryStarts == Init => EntryInv
<1> SUFFICES ASSUME Init PROVE EntryInv
  OBVIOUS
<1>1. /\ pc = "mask" /\ idt = FALSE /\ ie = FALSE /\ headers = {}
      /\ cr = [pg |-> FALSE, pae |-> FALSE, pse |-> FALSE, lme |-> FALSE, cr3 |-> "none"]
  BY DEF Init, BootInit
<1>2. cr \in Controls /\ ~cr.pg /\ ~cr.pae
  BY <1>1 DEF Controls, Tables
<1> QED
  BY <1>1, <1>2 DEF EntryInv, EntryTypeInv, Calls, KernelLast, MaskedFirst, PagingOrder,
                    HeadersLast, MappedWhilePaging, HeapAtOneMB

\* While the boot runs the kernel's state is as it began.
LEMMA BootLeavesEntry ==
  ASSUME EntryInv, BootNext, UNCHANGED entryVars
  PROVE  EntryInv'
<1>1. boot # "entry"
  BY DEF BootNext, LoadKernel, ReadFs, FailFs, GetVesaInfo, DetectFails, FirstEntry, NextEntry,
         Carry, Detected
<1>2. pc = "mask" /\ headers' = headers
  BY <1>1 DEF EntryInv, KernelLast, BootNext, LoadKernel, ReadFs, FailFs, GetVesaInfo, DetectFails,
              FirstEntry, NextEntry, Process, Carry, Detected
<1> QED
  BY <1>2 DEF EntryInv, EntryTypeInv, KernelLast, MaskedFirst, PagingOrder, HeadersLast,
              MappedWhilePaging, HeapAtOneMB, entryVars

\* The heap comes from the whole map, when it comes.
LEMMA AllocKeeps == BootInv /\ EntryInv /\ boot = "entry" /\ AllocThenCli => EntryInv' /\ BootInv'
<1> SUFFICES ASSUME BootInv, EntryInv, boot = "entry", AllocThenCli PROVE EntryInv' /\ BootInv'
  OBVIOUS
<1>1. /\ pc = "alloc" /\ pc' = "lidt" /\ ie' = FALSE
      /\ UNCHANGED <<has, cr, table, idt, masked, firmware>>
      /\ UNCHANGED <<boot, stage2, es, memory_map, bp, memory_map_entries>>
      /\ AllocInit
  BY DEF AllocThenCli, At, AllocInit
<1>2. memory_map = firmware.map /\ memory_map_entries = Len(firmware.map)
  BY DEF BootInv, MapIsComplete
<1>3. ParseE820(memory_map, memory_map_entries) = Found
  BY <1>2 DEF ParseE820, Found
<1>4. headers = {}
  BY <1>1 DEF EntryInv, HeadersLast
<1>5. headers' = IF FirstAtOneMB THEN {OneMB} ELSE {}
  BY <1>1, <1>3, <1>4 DEF AllocInit, FirstAtOneMB
<1>6. (IF FirstAtOneMB THEN {OneMB} ELSE {})' = IF FirstAtOneMB THEN {OneMB} ELSE {}
  BY <1>1 DEF FirstAtOneMB, Found
<1>7. HeapAtOneMB'
  BY <1>5, <1>6 DEF HeapAtOneMB
<1>8. EntryInv'
  BY <1>1, <1>7 DEF EntryInv, EntryTypeInv, Calls, KernelLast, MaskedFirst, PagingOrder,
                    HeadersLast, MappedWhilePaging
<1>9. BootInv'
  BY <1>1 DEF BootInv, BootTypeInv, BeforeMap, DuringMap, AfterMap, MapIsComplete, AstrayOnly
<1> QED
  BY <1>8, <1>9

\* Where the heap has been made.
Later == {"lidt", "sti", "heap", "huge", "tss", "files", "print", "driver", "end", "halt"}

LEMMA HeapStays ==
  ASSUME HeapAtOneMB, UNCHANGED bootVars, pc' \in Later => pc \in Later
  PROVE  HeapAtOneMB'
<1>1. headers' = headers /\ (FirstAtOneMB' <=> FirstAtOneMB)
  BY DEF bootVars, FirstAtOneMB, Found
<1> QED
  BY <1>1 DEF HeapAtOneMB, Later

\* Every call keeps the order in which masks, table, paging and heap come.
LEMMA KernelKeeps ==
  ASSUME EntryInv, boot = "entry", Kernel, UNCHANGED bootVars
  PROVE  EntryInv'
<1>1. /\ pc \in Calls /\ cr \in Controls /\ idt \in BOOLEAN /\ ie \in BOOLEAN
      /\ KernelLast /\ MaskedFirst /\ PagingOrder /\ HeadersLast
      /\ MappedWhilePaging /\ HeapAtOneMB
      /\ headers' = headers /\ boot' = "entry"
  BY DEF EntryInv, EntryTypeInv, bootVars
<1>2. CASE MaskAll
  <2>1. /\ pc = "mask" /\ pc' = "paging" /\ masked' = {"master", "slave"}
        /\ UNCHANGED <<cr, idt, ie>>
    BY <1>2 DEF MaskAll, At
  <2>2. HeapAtOneMB'
    BY <1>1, <2>1, HeapStays DEF Later
  <2> QED
    BY <1>1, <2>1, <2>2 DEF EntryInv, EntryTypeInv, Calls, KernelLast, MaskedFirst, PagingOrder,
                            WithFiles, HeadersLast, MappedWhilePaging
<1>3. CASE InitPaging
  <2>1. /\ pc = "paging" /\ cr' \in Controls /\ UNCHANGED <<idt, ie, masked>>
        /\ ~cr.pae /\ ~cr.pg
        /\ pc' = "features" /\ Fits(cr'.cr3, cr')
    <3>1. TurnOn(cr, "directory", "paging", "features") /\ UNCHANGED <<idt, ie, masked>>
      BY <1>3 DEF InitPaging
    <3>2. /\ pc = "paging" /\ cr' \in Controls
          /\ \/ cr.pae /\ pc' = "fault" /\ cr'.pg = cr.pg
             \/ ~cr.pae /\ pc' = "features" /\ Fits(cr'.cr3, cr')
      BY <1>1, <3>1, TurnsOn
    <3>3. ~cr.pae /\ ~cr.pg
      BY <1>1, <3>2 DEF PagingOrder
    <3> QED
      BY <3>1, <3>2, <3>3
  <2>2. HeapAtOneMB'
    BY <1>1, <2>1, HeapStays DEF Later
  <2> QED
    BY <1>1, <2>1, <2>2 DEF EntryInv, EntryTypeInv, Calls, KernelLast, MaskedFirst, PagingOrder,
                            WithFiles, HeadersLast, MappedWhilePaging
<1>4. CASE CheckFeatures
  <2>1. /\ pc = "features" /\ pc' \in {"tables", "alloc"}
        /\ UNCHANGED <<cr, idt, ie, masked>>
    BY <1>4 DEF CheckFeatures
  <2>2. HeapAtOneMB'
    BY <1>1, <2>1, HeapStays DEF Later
  <2> QED
    BY <1>1, <2>1, <2>2 DEF EntryInv, EntryTypeInv, Calls, KernelLast, MaskedFirst, PagingOrder,
                            WithFiles, HeadersLast, MappedWhilePaging
<1>5. CASE LongTables \/ EnablePae \/ CheckPml5 \/ JumpToLongMode
  <2>1. /\ pc \in {"tables", "pae", "pml5", "efer"}
        /\ pc' \in {"pae", "pml5", "efer", "alloc", "entry64"}
        /\ cr' \in Controls /\ ~cr'.pg /\ UNCHANGED <<idt, ie, masked>>
        /\ (pc' \in {"pml5", "efer", "alloc", "pae"} => pc # "efer")
    <3>1. pc \in {"pae", "pml5", "efer"} => ~cr.pg
      BY <1>1 DEF PagingOrder
    <3>2. CASE LongTables
      BY <1>1, <3>2, ControlBits DEF LongTables, At
    <3>3. CASE EnablePae
      BY <1>1, <3>1, <3>3, ControlBits DEF EnablePae, At
    <3>4. CASE CheckPml5
      BY <1>1, <3>1, <3>4 DEF CheckPml5
    <3>5. CASE JumpToLongMode
      BY <1>1, <3>1, <3>5, ControlBits DEF JumpToLongMode, At
    <3> QED
      BY <1>5, <3>2, <3>3, <3>4, <3>5
  <2>2. HeapAtOneMB'
    BY <1>1, <2>1, HeapStays DEF Later
  <2> QED
    BY <1>1, <2>1, <2>2 DEF EntryInv, EntryTypeInv, Calls, KernelLast, MaskedFirst, PagingOrder,
                            WithFiles, HeadersLast, MappedWhilePaging
<1>6. CASE AllocOverruns \/ NoHeap \/ FaultAgain
  <2>1. /\ pc \in {"alloc", "heap", "fault"} /\ pc' \in {"wild", "fault"}
        /\ UNCHANGED <<cr, idt, ie, masked>>
    BY <1>6 DEF AllocOverruns, NoHeap, FaultAgain, At, entryVars
  <2>2. HeapAtOneMB'
    BY <1>1, <2>1, HeapStays DEF Later
  <2> QED
    BY <1>1, <2>1, <2>2 DEF EntryInv, EntryTypeInv, Calls, KernelLast, MaskedFirst, PagingOrder,
                            WithFiles, HeadersLast, MappedWhilePaging
<1>7. CASE LoadIdt \/ Sti
  <2>1. /\ \/ pc = "lidt" /\ pc' = "sti" /\ idt' = TRUE /\ ie' = ie
           \/ pc = "sti" /\ pc' = "heap" /\ idt' = idt /\ ie' = TRUE
        /\ UNCHANGED <<cr, masked>>
    BY <1>7 DEF LoadIdt, Sti, At
  <2>2. HeapAtOneMB'
    BY <1>1, <2>1, HeapStays DEF Later
  <2> QED
    BY <1>1, <2>1, <2>2 DEF EntryInv, EntryTypeInv, Calls, KernelLast, MaskedFirst, PagingOrder,
                            WithFiles, HeadersLast, MappedWhilePaging
<1>8. CASE PagingOff
  <2>1. /\ pc = "heap" /\ pc' = "huge" /\ UNCHANGED <<idt, ie, masked>>
        /\ cr' \in Controls /\ ~cr'.pg
    BY <1>1, <1>8, ControlBits DEF PagingOff, At
  <2>2. HeapAtOneMB'
    BY <1>1, <2>1, HeapStays DEF Later
  <2> QED
    BY <1>1, <2>1, <2>2 DEF EntryInv, EntryTypeInv, Calls, KernelLast, MaskedFirst, PagingOrder,
                            WithFiles, HeadersLast, MappedWhilePaging
<1>9. CASE HugePaging
  <2>1. /\ pc = "huge" /\ cr' \in Controls /\ pc' \in {"fault", "tss"}
        /\ UNCHANGED <<idt, ie, masked>>
        /\ (cr'.pg => Fits(cr'.cr3, cr'))
    <3>1. WithPse(cr) \in Controls /\ WithPse(cr).pse /\ WithPse(cr).pg = cr.pg
      BY <1>1, ControlBits
    <3>2. TurnOn(WithPse(cr), "identity", "huge", "tss") /\ UNCHANGED <<idt, ie, masked>>
      BY <1>9 DEF HugePaging
    <3>3. /\ pc = "huge" /\ cr' \in Controls
          /\ \/ pc' = "fault" /\ cr'.pg = WithPse(cr).pg
             \/ pc' = "tss" /\ Fits(cr'.cr3, cr')
      BY <3>1, <3>2, TurnsOn
    <3>4. ~cr.pg
      BY <1>1, <3>3 DEF PagingOrder
    <3> QED
      BY <3>1, <3>2, <3>3, <3>4
  <2>2. HeapAtOneMB'
    BY <1>1, <2>1, HeapStays DEF Later
  <2> QED
    BY <1>1, <2>1, <2>2 DEF EntryInv, EntryTypeInv, Calls, KernelLast, MaskedFirst, PagingOrder,
                            WithFiles, HeadersLast, MappedWhilePaging
<1>10. CASE TssInit \/ MonoFsInit \/ PrintMonoFs \/ LoadDriver \/ Halt
  <2>1. /\ pc \in {"tss", "files", "print", "driver", "end"}
        /\ pc' \in WithFiles \cup {"fault"} /\ ie' = FALSE
        /\ UNCHANGED <<cr, idt, masked>>
    <3>1. CASE TssInit
      BY <3>1 DEF TssInit, At, WithFiles
    <3>2. CASE MonoFsInit \/ PrintMonoFs \/ LoadDriver
      BY <1>1, <3>2 DEF MonoFsInit, PrintMonoFs, LoadDriver, Call, WithFiles, MaskedFirst
    <3>3. CASE Halt
      BY <3>3 DEF Halt, At, WithFiles
    <3> QED
      BY <1>10, <3>1, <3>2, <3>3
  <2>2. HeapAtOneMB'
    BY <1>1, <2>1, HeapStays DEF Later
  <2> QED
    BY <1>1, <2>1, <2>2 DEF EntryInv, EntryTypeInv, Calls, KernelLast, MaskedFirst, PagingOrder, WithFiles,
                            WithFiles, HeadersLast, MappedWhilePaging
<1> QED
  BY <1>2, <1>3, <1>4, <1>5, <1>6, <1>7, <1>8, <1>9, <1>10 DEF Kernel

-----------------------------------------------------------------------------
(* The theorems                                                            *)

BootAndEntry == BootInv /\ EntryInv

\* Boot and entry keep their invariants together: each relies on what the other has
\* left alone.
THEOREM BootAndEntryInvariant == Spec => []BootAndEntry
<1>1. Init => BootAndEntry
  BY BootStarts, EntryStarts DEF Init, BootAndEntry
<1>2. BootAndEntry /\ [Next]_vars => BootAndEntry'
  <2> SUFFICES ASSUME BootInv, EntryInv, [Next]_vars PROVE BootInv' /\ EntryInv'
    BY DEF BootAndEntry
  <2>1. UNCHANGED bootVars => BootInv'
    BY DEF BootInv, BootTypeInv, BeforeMap, DuringMap, AfterMap, MapIsComplete, AstrayOnly, bootVars
  <2>2. CASE BootNext /\ UNCHANGED entryVars
    BY <2>2, BootKeeps, BootLeavesEntry
  <2>3. CASE boot = "entry" /\ Kernel /\ UNCHANGED bootVars
    BY <2>1, <2>3, KernelKeeps
  <2>4. CASE boot = "entry" /\ AllocThenCli
    BY <2>4, AllocKeeps
  <2>5. CASE UNCHANGED vars
    <3>1. UNCHANGED bootVars /\ UNCHANGED entryVars
      BY <2>5 DEF vars
    <3>2. HeapAtOneMB'
      BY <3>1, HeapStays DEF EntryInv, entryVars
    <3>3. EntryInv'
      BY <3>1, <3>2 DEF EntryInv, EntryTypeInv, KernelLast, MaskedFirst, PagingOrder, HeadersLast,
                        MappedWhilePaging, entryVars, bootVars
    <3> QED
      BY <2>1, <3>1, <3>3
  <2> QED
    BY <2>2, <2>3, <2>4, <2>5 DEF Next
<1> QED
  BY <1>1, <1>2, PTL DEF Spec

\* Every map reaches the kernel whole, in order and counted, whichever way its list
\* is ended (stage2.asm:141-178).
THEOREM EveryMapIsComplete == Spec => []MapIsComplete
<1>1. BootAndEntry => MapIsComplete
  BY DEF BootAndEntry, BootInv
<1> QED
  BY <1>1, BootAndEntryInvariant, PTL

\* Whatever the disk does, the boot is lost only without the second stage or without
\* a usable map (boot.asm:58, 81, stage2.asm:155-171, 299).
THEOREM BootIsLostOnly == Spec => []AstrayOnly
<1>1. BootAndEntry => AstrayOnly
  BY DEF BootAndEntry, BootInv
<1> QED
  BY <1>1, BootAndEntryInvariant, PTL

\* No CPU takes an interrupt without a table or from a controller that is not masked
\* (protected_mode.c:31-32, idt.c:36-37).
THEOREM InterruptsAreQuiet == Spec => []QuietInterrupts
<1>1. BootAndEntry => QuietInterrupts
  BY DEF BootAndEntry, EntryInv, MaskedFirst, QuietInterrupts
<1> QED
  BY <1>1, BootAndEntryInvariant, PTL

\* No CPU runs with paging on over tables of another mode (paging.c:11-39).
THEOREM PagingHasItsTables == Spec => []MappedWhilePaging
<1>1. BootAndEntry => MappedWhilePaging
  BY DEF BootAndEntry, EntryInv
<1> QED
  BY <1>1, BootAndEntryInvariant, PTL

\* With every memory map there is, the heap is at 1 MB or nowhere (alloc.c:14-28,
\* ram.c:13).
THEOREM HeapIsAtOneMB == Spec => []HeapAtOneMB
<1>1. BootAndEntry => HeapAtOneMB
  BY DEF BootAndEntry, EntryInv
<1> QED
  BY <1>1, BootAndEntryInvariant, PTL

-----------------------------------------------------------------------------
(* Where entry() ends: the invariant                                       *)

\* What is left of entry() at each of its calls; nothing where it has ended.
CallsLeft == [mask |-> 16, paging |-> 15, features |-> 14, tables |-> 13, pae |-> 12, pml5 |-> 11,
              efer |-> 10, alloc |-> 10, lidt |-> 9, sti |-> 8, heap |-> 7, huge |-> 6, tss |-> 5,
              files |-> 4, print |-> 3, driver |-> 2, end |-> 1,
              halt |-> 0, panic |-> 0, poll |-> 0, main |-> 0, lost |-> 0,
              entry64 |-> 0, fault |-> 0, wild |-> 0]

\* The map fits ram_memmap and begins at 1 MB behind the entry that is trimmed.
RightMap == FirstAtOneMB /\ Len(Found) <= RamRoom

\* PAE is on where a CPU with long mode has come past enable_pae, and nowhere else.
PaeWithLong ==
    cr.pae <=> has.lm /\ pc \notin {"mask", "paging", "features", "tables", "pae"}

\* The branch for long mode: who takes it, who leaves it, and where that ends.
LongWay ==
    /\ pc \in {"tables", "pae", "pml5", "efer", "entry64", "fault"} => has.lm
    /\ pc \in {"efer", "entry64"} => has.vendorBit
    /\ pc \in {"alloc", "lidt", "sti", "heap", "huge", "fault"} /\ has.lm => ~has.vendorBit
    /\ pc = "fault" => ~cr.pg

\* The end of a CPU without it: huge pages, the segments of the second stage, a TSS.
PlainWay ==
    /\ pc \in WithFiles \cup {"tss"} => ~has.lm /\ cr.pg /\ cr.cr3 = "identity"
    /\ pc \in WithFiles => gdt = <<"code", "data", "busy">> /\ tr = 3
    /\ pc \notin WithFiles \cup {"entry64"} => gdt = <<"code", "data", "null">>

\* Only a map that does not fit, or has no region at 1 MB, leads astray.
HeapWay ==
    /\ pc \in {"lidt", "sti", "heap"} => ram_memmap = Found
    /\ pc = "wild" => ~RightMap

WayInv == has \in Cpus /\ PaeWithLong /\ LongWay /\ PlainWay /\ HeapWay

LEMMA CallsNumbers ==
  ASSUME NEW call \in Calls
  PROVE  CallsLeft[call] \in Nat
BY DEF Calls, CallsLeft

LEMMA WayStarts == Init => WayInv
<1> SUFFICES ASSUME Init PROVE WayInv
  OBVIOUS
<1>1. /\ pc = "mask" /\ has \in Cpus /\ gdt = <<"code", "data", "null">>
      /\ cr = [pg |-> FALSE, pae |-> FALSE, pse |-> FALSE, lme |-> FALSE, cr3 |-> "none"]
  BY DEF Init
<1> QED
  BY <1>1 DEF WayInv, PaeWithLong, LongWay, PlainWay, WithFiles, HeapWay

\* While the boot runs the CPU is as it was turned on.
LEMMA WayInBoot ==
  ASSUME EntryInv, WayInv, boot # "entry", UNCHANGED entryVars
  PROVE  WayInv'
<1>1. pc = "mask" /\ UNCHANGED <<pc, has, cr, gdt, tr>>
  BY DEF EntryInv, KernelLast, entryVars, segments
<1> QED
  BY <1>1 DEF WayInv, PaeWithLong, LongWay, PlainWay, WithFiles, HeapWay

\* The memory map that the heap is made of does not change.
LEMMA FoundStays ==
  ASSUME firmware' = firmware
  PROVE  Found' = Found /\ (RightMap' <=> RightMap)
BY DEF Found, RightMap, FirstAtOneMB

\* What turning paging on leaves of PAE and PG, and which tables it names.
LEMMA TurnsOnBits ==
  ASSUME NEW c \in Controls, NEW t \in {"directory", "identity"}, NEW here, NEW next,
         TurnOn(c, t, here, next)
  PROVE  /\ pc = here /\ cr'.pae = c.pae
         /\ \/ c.pae /\ pc' = "fault" /\ cr'.pg = c.pg
            \/ ~c.pae /\ pc' = next /\ cr'.pg = TRUE /\ cr'.cr3 = t
<1>1. Format(t) # "long"
  BY DEF Format
<1>2. c.pae \in BOOLEAN
  BY DEF Controls
<1>3. CASE c.pae
  <2>1. pc = here /\ pc' = "fault" /\ cr' = [c EXCEPT !.cr3 = t]
    BY <1>1, <1>3, Zenon DEF TurnOn
  <2>2. [c EXCEPT !.cr3 = t].pae = c.pae /\ [c EXCEPT !.cr3 = t].pg = c.pg
    BY DEF Controls
  <2> QED
    BY <1>3, <2>1, <2>2, Zenon
<1>4. CASE ~c.pae
  <2>1. pc = here /\ pc' = next /\ cr' = [c EXCEPT !.cr3 = t, !.pg = TRUE]
    BY <1>4 DEF TurnOn, At
  <2>2. /\ [c EXCEPT !.cr3 = t, !.pg = TRUE].pae = c.pae
        /\ [c EXCEPT !.cr3 = t, !.pg = TRUE].pg = TRUE
        /\ [c EXCEPT !.cr3 = t, !.pg = TRUE].cr3 = t
    BY DEF Controls
  <2> QED
    BY <1>4, <2>1, <2>2, Zenon
<1> QED
  BY <1>2, <1>3, <1>4

\* What instructions on other control bits leave of PAE and PG.
LEMMA OtherBits ==
  ASSUME NEW c \in Controls
  PROVE  /\ TurnOff(c).pae = c.pae /\ TurnOff(c).pg = FALSE
         /\ [c EXCEPT !.pae = TRUE].pae = TRUE
         /\ [c EXCEPT !.lme = TRUE].pae = c.pae
BY DEF Controls, TurnOff

\* What alloc_init parses is the firmware's own list.
LEMMA MapFits ==
  ASSUME BootInv, boot = "entry"
  PROVE  ParseE820(memory_map, memory_map_entries) = Found /\ (RamFits <=> Len(Found) <= RamRoom)
<1>1. memory_map = firmware.map /\ memory_map_entries = Len(firmware.map)
  BY DEF BootInv, MapIsComplete
<1>2. ParseE820(memory_map, memory_map_entries) = Found
  BY <1>1 DEF ParseE820, Found
<1> QED
  BY <1>2 DEF RamFits

\* Each call of entry() leaves less of it to do, and keeps to the way of its CPU.
LEMMA KernelGoesOn ==
  ASSUME BootInv, EntryInv, WayInv, boot = "entry", Kernel, UNCHANGED bootVars
  PROVE  /\ WayInv'
         /\ CallsLeft[pc'] < CallsLeft[pc] \/ (pc = "fault" /\ UNCHANGED entryVars)
<1>1. /\ pc \in Calls /\ cr \in Controls /\ PagingOrder /\ HeapAtOneMB
      /\ has \in Cpus /\ PaeWithLong /\ LongWay /\ PlainWay /\ HeapWay
  BY DEF EntryInv, EntryTypeInv, WayInv
<1>2. /\ Found' = Found /\ (RightMap' <=> RightMap) /\ ram_memmap' = ram_memmap
      /\ headers' = headers
  BY FoundStays DEF bootVars
<1>3. has.lm \in BOOLEAN /\ has.pae \in BOOLEAN /\ has.ext \in BOOLEAN /\ has.vendorBit \in BOOLEAN
      /\ (has.lm => has.pae /\ has.ext)
  BY <1>1, CpuAssumption
<1>4. CASE MaskAll
  BY <1>1, <1>2, <1>4
     DEF MaskAll, At, segments, WayInv, PaeWithLong, LongWay, PlainWay, WithFiles, HeapWay, CallsLeft
<1>5. CASE InitPaging
  <2>1. pc = "paging" /\ ~cr.pae /\ ~cr.pg /\ UNCHANGED <<has, gdt, tr>>
    BY <1>1, <1>5, TurnsOnBits DEF InitPaging, PagingOrder, segments
  <2>2. pc' = "features" /\ cr'.pae = cr.pae
    BY <1>1, <1>5, <2>1, TurnsOnBits DEF InitPaging
  <2> QED
    BY <1>1, <1>2, <2>1, <2>2 DEF WayInv, PaeWithLong, LongWay, PlainWay, WithFiles, HeapWay, CallsLeft
<1>6. CASE CheckFeatures
  <2>1. /\ pc = "features" /\ pc' = (IF has.lm THEN "tables" ELSE "alloc")
        /\ UNCHANGED <<has, cr, gdt, tr>>
    BY <1>3, <1>6 DEF CheckFeatures, LongModeBranch, SupportsLongMode, segments
  <2> QED
    BY <1>1, <1>2, <1>3, <2>1 DEF WayInv, PaeWithLong, LongWay, PlainWay, WithFiles, HeapWay, CallsLeft
<1>7. CASE LongTables
  <2>1. pc = "tables" /\ pc' = "pae" /\ cr'.pae = cr.pae /\ UNCHANGED <<has, gdt, tr>>
    BY <1>1, <1>7, OtherBits DEF LongTables, At, segments
  <2> QED
    BY <1>1, <1>2, <2>1 DEF WayInv, PaeWithLong, LongWay, PlainWay, WithFiles, HeapWay, CallsLeft
<1>8. CASE EnablePae
  <2>1. pc = "pae" /\ pc' = "pml5" /\ cr'.pae = TRUE /\ UNCHANGED <<has, gdt, tr>>
    BY <1>1, <1>8, OtherBits DEF EnablePae, At, segments
  <2> QED
    BY <1>1, <1>2, <2>1 DEF WayInv, PaeWithLong, LongWay, PlainWay, WithFiles, HeapWay, CallsLeft
<1>9. CASE CheckPml5
  <2>1. /\ pc = "pml5" /\ pc' = (IF has.vendorBit THEN "efer" ELSE "alloc")
        /\ UNCHANGED <<has, cr, gdt, tr>>
    BY <1>9 DEF CheckPml5, SupportsPml5, segments
  <2> QED
    BY <1>1, <1>2, <1>3, <2>1 DEF WayInv, PaeWithLong, LongWay, PlainWay, WithFiles, HeapWay, CallsLeft
<1>10. CASE JumpToLongMode
  <2>1. pc = "efer" /\ pc' = "entry64" /\ cr'.pae = cr.pae /\ has' = has
    BY <1>1, <1>10, OtherBits DEF JumpToLongMode, At
  <2> QED
    BY <1>1, <1>2, <2>1 DEF WayInv, PaeWithLong, LongWay, PlainWay, WithFiles, HeapWay, CallsLeft
<1>11. CASE LoadIdt \/ Sti
  <2>1. /\ (pc = "lidt" /\ pc' = "sti") \/ (pc = "sti" /\ pc' = "heap")
        /\ UNCHANGED <<has, cr, gdt, tr>>
    BY <1>11 DEF LoadIdt, Sti, At, segments
  <2> QED
    BY <1>1, <1>2, <2>1 DEF WayInv, PaeWithLong, LongWay, PlainWay, WithFiles, HeapWay, CallsLeft
<1>12. CASE PagingOff
  <2>1. pc = "heap" /\ pc' = "huge" /\ cr'.pae = cr.pae /\ UNCHANGED <<has, gdt, tr>>
    BY <1>1, <1>12, OtherBits DEF PagingOff, At, segments
  <2> QED
    BY <1>1, <1>2, <2>1 DEF WayInv, PaeWithLong, LongWay, PlainWay, WithFiles, HeapWay, CallsLeft
<1>13. CASE NoHeap
  <2>1. pc = "heap" /\ pc' = "wild" /\ ~HeapReady /\ UNCHANGED <<has, cr, gdt, tr>>
    BY <1>13 DEF NoHeap, At, segments
  <2>2. ~FirstAtOneMB
    BY <1>1, <2>1 DEF HeapWay, HeapAtOneMB, HeapReady, FirstAtOneMB
  <2> QED
    BY <1>1, <1>2, <2>1, <2>2
       DEF RightMap, WayInv, PaeWithLong, LongWay, PlainWay, WithFiles, HeapWay, CallsLeft
<1>14. CASE HugePaging
  <2>1. WithPse(cr) \in Controls /\ WithPse(cr).pae = cr.pae /\ WithPse(cr).pg = cr.pg
    BY <1>1, ControlBits
  <2>2. /\ pc = "huge" /\ cr'.pae = cr.pae /\ UNCHANGED <<has, gdt, tr>>
        /\ \/ cr.pae /\ pc' = "fault" /\ cr'.pg = cr.pg
           \/ ~cr.pae /\ pc' = "tss" /\ cr'.pg = TRUE /\ cr'.cr3 = "identity"
    <3>1. TurnOn(WithPse(cr), "identity", "huge", "tss") /\ UNCHANGED <<has, gdt, tr>>
      BY <1>14 DEF HugePaging, segments
    <3>2. /\ pc = "huge" /\ cr'.pae = WithPse(cr).pae
          /\ \/ WithPse(cr).pae /\ pc' = "fault" /\ cr'.pg = WithPse(cr).pg
             \/ ~WithPse(cr).pae /\ pc' = "tss" /\ cr'.pg = TRUE /\ cr'.cr3 = "identity"
      BY <2>1, <3>1, TurnsOnBits
    <3> QED
      BY <2>1, <3>1, <3>2
  <2>3. ~cr.pg
    BY <1>1, <2>2 DEF PagingOrder
  <2> QED
    BY <1>1, <1>2, <1>3, <2>2, <2>3 DEF WayInv, PaeWithLong, LongWay, PlainWay, WithFiles, HeapWay, CallsLeft
<1>15. CASE TssInit
  <2>1. pc = "tss"
    BY <1>15 DEF TssInit, At
  <2>2. gdt = <<"code", "data", "null">>
    BY <1>1, <2>1 DEF PlainWay, WithFiles
  <2>3. /\ pc' = "files" /\ gdt' = [gdt EXCEPT ![3] = "busy"] /\ tr' = 3 /\ UNCHANGED <<has, cr>>
    BY <1>15, <2>2 DEF TssInit, At, GDT_TSS_INDEX
  <2>4. gdt' = <<"code", "data", "busy">>
    BY <2>2, <2>3
  <2> QED
    BY <1>1, <1>2, <2>1, <2>3, <2>4 DEF WayInv, PaeWithLong, LongWay, PlainWay, WithFiles, HeapWay, CallsLeft
<1>16. CASE MonoFsInit \/ PrintMonoFs \/ LoadDriver \/ Halt
  <2>1. /\ pc \in WithFiles /\ pc' \in WithFiles /\ CallsLeft[pc'] < CallsLeft[pc]
        /\ UNCHANGED <<has, cr, gdt, tr>>
    BY <1>16 DEF MonoFsInit, PrintMonoFs, LoadDriver, Halt, Call, At, segments, WithFiles, CallsLeft
  <2> QED
    BY <1>1, <1>2, <2>1 DEF WayInv, PaeWithLong, LongWay, PlainWay, WithFiles, HeapWay, CallsLeft
<1>17. CASE FaultAgain
  <2>1. pc = "fault" /\ UNCHANGED <<pc, has, cr, gdt, tr>> /\ UNCHANGED entryVars
    BY <1>17 DEF FaultAgain, entryVars, segments
  <2> QED
    BY <1>1, <1>2, <2>1 DEF WayInv, PaeWithLong, LongWay, PlainWay, WithFiles, HeapWay
<1>18. CASE AllocOverruns
  <2>1. pc = "alloc" /\ pc' = "wild" /\ ~RamFits /\ UNCHANGED <<has, cr, gdt, tr>>
    BY <1>18 DEF AllocOverruns, At, segments
  <2>2. ~RightMap
    BY <2>1, MapFits DEF RightMap
  <2> QED
    BY <1>1, <1>2, <2>1, <2>2 DEF WayInv, PaeWithLong, LongWay, PlainWay, WithFiles, HeapWay, CallsLeft
<1> QED
  BY <1>4, <1>5, <1>6, <1>7, <1>8, <1>9, <1>10, <1>11, <1>12, <1>13, <1>14, <1>15, <1>16, <1>17,
     <1>18
     DEF Kernel

LEMMA AllocGoesOn ==
  ASSUME BootInv, EntryInv, WayInv, boot = "entry", AllocThenCli
  PROVE  WayInv' /\ CallsLeft[pc'] < CallsLeft[pc]
<1>1. /\ pc = "alloc" /\ pc' = "lidt" /\ UNCHANGED <<has, cr, gdt, tr, firmware>>
      /\ ram_memmap' = Found
  BY MapFits DEF AllocThenCli, At, AllocInit, segments
<1>2. Found' = Found
  BY <1>1, FoundStays
<1> QED
  BY <1>1, <1>2 DEF WayInv, PaeWithLong, LongWay, PlainWay, WithFiles, HeapWay, CallsLeft

-----------------------------------------------------------------------------
(* Where entry() ends: the theorems                                        *)

EntryAndWay == BootAndEntry /\ WayInv

LEMMA EntryStep ==
  ASSUME EntryAndWay, boot = "entry", [Next]_vars
  PROVE  /\ WayInv' /\ boot' = "entry" /\ UNCHANGED <<has, firmware>>
         /\ CallsLeft[pc'] < CallsLeft[pc] \/ UNCHANGED vars
<1>1. BootInv /\ EntryInv /\ WayInv
  BY DEF EntryAndWay, BootAndEntry
<1>2. ~BootNext
  BY DEF BootNext, LoadKernel, ReadFs, FailFs, GetVesaInfo, DetectFails, FirstEntry, NextEntry,
         Carry, Detected
<1>3. CASE Kernel /\ UNCHANGED bootVars
  <2>1. WayInv' /\ (CallsLeft[pc'] < CallsLeft[pc] \/ UNCHANGED entryVars)
    BY <1>1, <1>3, KernelGoesOn
  <2>2. UNCHANGED <<boot, firmware>>
    BY <1>3 DEF bootVars
  <2>3. has' = has
    BY <1>3 DEF Kernel, MaskAll, InitPaging, CheckFeatures, LongTables, EnablePae, CheckPml5,
                JumpToLongMode, AllocOverruns, LoadIdt, Sti, PagingOff, NoHeap, HugePaging,
                TssInit, MonoFsInit, PrintMonoFs, LoadDriver, Halt, Call, FaultAgain, entryVars
  <2> QED
    BY <1>3, <2>1, <2>2, <2>3 DEF vars
<1>4. CASE AllocThenCli
  BY <1>1, <1>4, AllocGoesOn DEF AllocThenCli, AllocInit
<1>5. CASE UNCHANGED vars
  <2>1. UNCHANGED <<boot, pc, has, firmware, cr, gdt, tr, ram_memmap>>
    BY <1>5 DEF vars, entryVars, bootVars, segments
  <2>2. Found' = Found /\ (RightMap' <=> RightMap)
    BY <2>1, FoundStays
  <2> QED
    BY <1>1, <1>5, <2>1, <2>2 DEF WayInv, PaeWithLong, LongWay, PlainWay, WithFiles, HeapWay
<1> QED
  BY <1>2, <1>3, <1>4, <1>5 DEF Next

\* Wherever entry() is, it came there by the calls its CPU's features make it take, and
\* where it ends nothing else can have been: its files, its driver and the halt only
\* without long mode, and anything else only on a map that does not fit
\* (protected_mode.c:31-114, paging.c:109-117).
THEOREM WaysInvariant == Spec => []EntryAndWay
<1>1. Init /\ BootAndEntry => EntryAndWay
  BY WayStarts DEF EntryAndWay
<1>2. EntryAndWay /\ BootAndEntry' /\ [Next]_vars => EntryAndWay'
  <2> SUFFICES ASSUME EntryAndWay, BootAndEntry', [Next]_vars PROVE WayInv'
    BY DEF EntryAndWay
  <2>1. CASE boot = "entry"
    BY <2>1, EntryStep
  <2>2. CASE boot # "entry"
    BY <2>2, WayInBoot DEF Next, vars, EntryAndWay, BootAndEntry
  <2> QED
    BY <2>1, <2>2
<1> QED
  BY <1>1, <1>2, BootAndEntryInvariant, PTL DEF Spec


\* No call of entry() is ever made twice: each step but the fault that repeats itself
\* leaves fewer of them (protected_mode.c:29-104).
THEOREM EntryDescends == Spec => [][boot = "entry" => CallsLeft[pc'] < CallsLeft[pc]]_vars
<1>1. EntryAndWay /\ [Next]_vars => [boot = "entry" => CallsLeft[pc'] < CallsLeft[pc]]_vars
  BY EntryStep
<1> QED
  BY <1>1, WaysInvariant, PTL DEF Spec

\* When the boot has a next step, and when entry() has one that is not the fault that
\* repeats itself: the guards of their actions.
BootReady ==
    \/ boot \in {"kernel", "files", "vesa", "detected"}
    \/ boot = "e820" /\ (~Answers(1) \/ EndsWith(1))
    \/ boot = "e820" /\ Answers(1) /\ ~EndsWith(1)
    \/ boot = "more" /\ Answers(bp + 1)
    \/ boot = "more" /\ ~Answers(bp + 1)
EntryReady ==
    \/ pc \in {"mask", "paging", "features", "tables", "pml5", "efer", "lidt", "sti", "huge",
               "tss", "files", "print", "driver", "end"}
    \/ pc = "pae" /\ has.pae
    \/ pc = "alloc" /\ RamFits
    \/ pc = "alloc" /\ ~RamFits
    \/ pc = "heap" /\ HeapReady
    \/ pc = "heap" /\ ~HeapReady
Ready == BootReady \/ (boot = "entry" /\ EntryReady)

\* Boot and entry() stop at their ends and nowhere else: whoever comes to enable_pae
\* has PAE.
LEMMA EntryIsReady ==
  ASSUME EntryAndWay, boot # "astray", ~(boot = "entry" /\ CallsLeft[pc] = 0)
  PROVE  Ready
<1>1. boot \in Stages /\ pc \in Calls /\ has \in Cpus
  BY DEF EntryAndWay, BootAndEntry, BootInv, BootTypeInv, EntryInv, EntryTypeInv, WayInv
<1>2. pc = "pae" => has.pae
  <2>1. pc = "pae" => has.lm
    BY DEF EntryAndWay, WayInv, LongWay
  <2> QED
    BY <1>1, <2>1, CpuAssumption
<1>3. CASE boot # "entry"
  BY <1>1, <1>3 DEF Stages, Ready, BootReady
<1>4. CASE boot = "entry"
  <2>1. pc \notin {"halt", "panic", "poll", "main", "lost", "entry64", "fault", "wild"}
    BY <1>4 DEF CallsLeft
  <2> QED
    BY <1>1, <1>2, <1>4, <2>1 DEF Calls, Ready, EntryReady
<1> QED
  BY <1>3, <1>4

\* A step whose guard holds can be taken.
CanGoOn == Ready => ENABLED <<Next>>_vars

\* In entry(), with at most n calls left.
Within(n) == boot = "entry" /\ CallsLeft[pc] <= n

LEMMA WithinStays ==
  ASSUME EntryAndWay, EntryAndWay', [Next]_vars, NEW n \in Nat, Within(n)
  PROVE  Within(n)'
<1>1. CallsLeft[pc] \in Nat /\ CallsLeft[pc'] \in Nat
  BY CallsNumbers DEF EntryAndWay, BootAndEntry, EntryInv, EntryTypeInv
<1>2. CallsLeft[pc'] < CallsLeft[pc] \/ pc' = pc
  BY EntryStep DEF Within, vars, entryVars
<1> QED
  BY <1>1, <1>2, EntryStep DEF Within

LEMMA WithinFalls ==
  ASSUME EntryAndWay, EntryAndWay', <<Next>>_vars, NEW n \in Nat, Within(n + 1)
  PROVE  Within(n)'
<1>1. CallsLeft[pc] \in Nat /\ CallsLeft[pc'] \in Nat
  BY CallsNumbers DEF EntryAndWay, BootAndEntry, EntryInv, EntryTypeInv
<1>2. CallsLeft[pc'] < CallsLeft[pc]
  BY EntryStep DEF Within
<1> QED
  BY <1>1, <1>2, EntryStep DEF Within

\* Once in entry(), entry() ends: it is left at one of the four places.
LEMMA EntryRunsOut ==
  Spec /\ []CanGoOn => (boot = "entry" ~> Within(0))
<1>1. EntryAndWay /\ EntryAndWay' /\ Within(1) =>
         ([Next]_vars => Within(1)') /\ (<<Next>>_vars => Within(0)')
  BY WithinStays, WithinFalls
<1>2. EntryAndWay /\ EntryAndWay' /\ Within(2) =>
         ([Next]_vars => Within(2)') /\ (<<Next>>_vars => Within(1)')
  BY WithinStays, WithinFalls
<1>3. EntryAndWay /\ EntryAndWay' /\ Within(3) =>
         ([Next]_vars => Within(3)') /\ (<<Next>>_vars => Within(2)')
  BY WithinStays, WithinFalls
<1>4. EntryAndWay /\ EntryAndWay' /\ Within(4) =>
         ([Next]_vars => Within(4)') /\ (<<Next>>_vars => Within(3)')
  BY WithinStays, WithinFalls
<1>5. EntryAndWay /\ EntryAndWay' /\ Within(5) =>
         ([Next]_vars => Within(5)') /\ (<<Next>>_vars => Within(4)')
  BY WithinStays, WithinFalls
<1>6. EntryAndWay /\ EntryAndWay' /\ Within(6) =>
         ([Next]_vars => Within(6)') /\ (<<Next>>_vars => Within(5)')
  BY WithinStays, WithinFalls
<1>7. EntryAndWay /\ EntryAndWay' /\ Within(7) =>
         ([Next]_vars => Within(7)') /\ (<<Next>>_vars => Within(6)')
  BY WithinStays, WithinFalls
<1>8. EntryAndWay /\ EntryAndWay' /\ Within(8) =>
         ([Next]_vars => Within(8)') /\ (<<Next>>_vars => Within(7)')
  BY WithinStays, WithinFalls
<1>9. EntryAndWay /\ EntryAndWay' /\ Within(9) =>
         ([Next]_vars => Within(9)') /\ (<<Next>>_vars => Within(8)')
  BY WithinStays, WithinFalls
<1>10. EntryAndWay /\ EntryAndWay' /\ Within(10) =>
         ([Next]_vars => Within(10)') /\ (<<Next>>_vars => Within(9)')
  BY WithinStays, WithinFalls
<1>11. EntryAndWay /\ EntryAndWay' /\ Within(11) =>
         ([Next]_vars => Within(11)') /\ (<<Next>>_vars => Within(10)')
  BY WithinStays, WithinFalls
<1>12. EntryAndWay /\ EntryAndWay' /\ Within(12) =>
         ([Next]_vars => Within(12)') /\ (<<Next>>_vars => Within(11)')
  BY WithinStays, WithinFalls
<1>13. EntryAndWay /\ EntryAndWay' /\ Within(13) =>
         ([Next]_vars => Within(13)') /\ (<<Next>>_vars => Within(12)')
  BY WithinStays, WithinFalls
<1>14. EntryAndWay /\ EntryAndWay' /\ Within(14) =>
         ([Next]_vars => Within(14)') /\ (<<Next>>_vars => Within(13)')
  BY WithinStays, WithinFalls
<1>15. EntryAndWay /\ EntryAndWay' /\ Within(15) =>
         ([Next]_vars => Within(15)') /\ (<<Next>>_vars => Within(14)')
  BY WithinStays, WithinFalls
<1>16. EntryAndWay /\ EntryAndWay' /\ Within(16) =>
         ([Next]_vars => Within(16)') /\ (<<Next>>_vars => Within(15)')
  BY WithinStays, WithinFalls
<1>17. EntryAndWay /\ CanGoOn /\ boot = "entry" => Within(0) \/ ENABLED <<Next>>_vars
  <2>1. boot = "entry" /\ CallsLeft[pc] = 0 => Within(0)
    BY DEF Within
  <2> QED
    BY <2>1, EntryIsReady DEF CanGoOn
<1>18. EntryAndWay /\ boot = "entry" => Within(16)
  BY DEF Within, EntryAndWay, BootAndEntry, EntryInv, EntryTypeInv, Calls, CallsLeft
<1>19. EntryAndWay /\ boot = "entry" /\ [Next]_vars => (boot = "entry")'
  BY EntryStep
<1> QED
  BY WaysInvariant, <1>1, <1>2, <1>3, <1>4, <1>5, <1>6, <1>7, <1>8, <1>9, <1>10, <1>11, <1>12,
     <1>13, <1>14, <1>15, <1>16, <1>17, <1>18, <1>19, PTL DEF Spec

LEMMA PlainCpuStays ==
  ASSUME EntryAndWay, [Next]_vars, PlainCpu
  PROVE  PlainCpu'
<1>1. boot = "entry" /\ boot' = "entry" /\ has' = has /\ Found' = Found
  BY EntryStep, FoundStays DEF PlainCpu
<1> QED
  BY <1>1 DEF PlainCpu, FirstAtOneMB

\* Where nothing is left of entry(), it is where a CPU without long mode belongs.
Ended == /\ pc \in {"halt", "panic", "poll", "main", "lost"}
         /\ pc \notin {"main", "lost"} =>
              /\ cr.pg /\ cr.cr3 = "identity" /\ ~ie
              /\ gdt = <<"code", "data", "busy">> /\ tr = 3

LEMMA EndsWhereItShould ==
  ASSUME EntryAndWay, Within(0), PlainCpu
  PROVE  Ended
<1>1. pc \in Calls /\ LongWay /\ PlainWay /\ HeapWay /\ MaskedFirst
  BY DEF EntryAndWay, BootAndEntry, EntryInv, EntryTypeInv, WayInv
<1>2. pc \in {"halt", "panic", "poll", "main", "lost", "entry64", "fault", "wild"}
  BY <1>1 DEF Within, Calls, CallsLeft
<1>3. pc # "wild"
  BY <1>1 DEF PlainCpu, HeapWay, RightMap
<1>4. pc \notin {"entry64", "fault"}
  BY <1>1 DEF PlainCpu, LongWay
<1> QED
  BY <1>1, <1>2, <1>3, <1>4 DEF Ended, PlainWay, WithFiles, MaskedFirst

\* On a CPU without long mode entry() comes through all its calls: as long as the CPU
\* has an instruction to execute it comes to the halt, or to where a call on files or
\* driver ends it, with identity map, segments, TSS and interrupts as they should be
\* (protected_mode.c:30-114, tss.c:19-42, paging.c:32-39).
THEOREM EntryEnds == Spec /\ []CanGoOn => EndOfEntry
<1>1. EntryAndWay /\ [Next]_vars => (PlainCpu => PlainCpu')
  BY PlainCpuStays
<1>2. EntryAndWay /\ EntryAndWay' /\ [Next]_vars /\ Within(0) => Within(0)'
  BY WithinStays
<1>3. EntryAndWay /\ Within(0) /\ PlainCpu => Ended
  BY EndsWhereItShould
<1>4. PlainCpu => boot = "entry"
  BY DEF PlainCpu
<1> QED
  BY <1>1, <1>2, <1>3, <1>4, EntryRunsOut, WaysInvariant, PTL DEF Spec, EndOfEntry, Ended

-----------------------------------------------------------------------------
(* The boot comes to its end                                               *)

\* What is left of the boot: reads to try, then entries to ask for, then three steps.
BootLeft == CASE boot = "kernel"   -> Len(firmware.map) + Tries + 4
              [] boot = "files"    -> Len(firmware.map) + left + 3
              [] boot = "vesa"     -> Len(firmware.map) + 3
              [] boot = "e820"     -> Len(firmware.map) + 2
              [] boot = "more"     -> (Len(firmware.map) - bp) + 2
              [] boot = "detected" -> 1
              [] OTHER             -> 0

\* The boot sector tries at least once more where it has not gone on.
LeftInv == left \in Nat /\ (boot = "kernel" => left = Tries) /\ (boot = "files" => left > 0)

LEMMA BootGoesDown ==
  ASSUME BootInv, LeftInv, BootNext
  PROVE  LeftInv' /\ BootLeft \in Nat /\ BootLeft' \in Nat /\ BootLeft' < BootLeft
<1> DEFINE L == Len(firmware.map)
<1>1. /\ L \in Nat /\ bp \in Nat /\ left \in Nat /\ Tries \in Nat \ {0} /\ boot \in Stages
      /\ DuringMap /\ BeforeMap
      /\ (boot = "kernel" => left = Tries) /\ (boot = "files" => left > 0)
  BY FirmwareType, BootAssumption DEF BootInv, BootTypeInv, LeftInv
<1>2. Len(firmware.map)' = L
  BY DEF BootNext, LoadKernel, ReadFs, FailFs, GetVesaInfo, DetectFails, FirstEntry, NextEntry,
         Process, Carry, Detected
<1> HIDE DEF L
<1>3. BootLeft = CASE boot = "kernel"   -> L + Tries + 4
                   [] boot = "files"    -> L + left + 3
                   [] boot = "vesa"     -> L + 3
                   [] boot = "e820"     -> L + 2
                   [] boot = "more"     -> (L - bp) + 2
                   [] boot = "detected" -> 1
                   [] OTHER             -> 0
  BY DEF BootLeft, L
<1>4. BootLeft' = CASE boot' = "kernel"   -> L + Tries + 4
                    [] boot' = "files"    -> L + left' + 3
                    [] boot' = "vesa"     -> L + 3
                    [] boot' = "e820"     -> L + 2
                    [] boot' = "more"     -> (L - bp') + 2
                    [] boot' = "detected" -> 1
                    [] OTHER              -> 0
  BY <1>2 DEF BootLeft, L
<1>5. CASE LoadKernel
  <2>1. boot = "kernel" /\ boot' = "files" /\ left' = left
    BY <1>5 DEF LoadKernel
  <2>2. BootLeft = L + Tries + 4
    BY <1>3, <2>1
  <2>3. BootLeft' = L + Tries + 3
    BY <1>1, <1>4, <2>1
  <2> QED
    BY <1>1, <2>1, <2>2, <2>3 DEF LeftInv
<1>6. CASE ReadFs \/ FailFs
  <2>1. /\ boot = "files"
        /\ \/ boot' \in {"vesa", "astray"} /\ left' \in Nat
           \/ boot' = "files" /\ left' = left - 1 /\ left' # 0
    BY <1>1, <1>6 DEF ReadFs, FailFs, ToStage2, LoopCx
  <2>2. BootLeft = L + left + 3
    BY <1>3, <2>1
  <2>3. CASE boot' \in {"vesa", "astray"} /\ left' \in Nat
    <3>1. BootLeft' \in {L + 3, 0}
      BY <1>4, <2>3
    <3> QED
      BY <1>1, <2>1, <2>2, <2>3, <3>1 DEF LeftInv
  <2>4. CASE boot' = "files" /\ left' = left - 1 /\ left' # 0
    <3>1. BootLeft' = L + left + 2
      BY <1>1, <1>4, <2>4
    <3> QED
      BY <1>1, <2>1, <2>2, <2>4, <3>1 DEF LeftInv
  <2> QED
    BY <2>1, <2>3, <2>4
<1>7. CASE GetVesaInfo
  <2>1. boot = "vesa" /\ boot' = "e820" /\ left' = left
    BY <1>7 DEF GetVesaInfo
  <2>2. BootLeft = L + 3 /\ BootLeft' = L + 2
    BY <1>3, <1>4, <2>1
  <2> QED
    BY <1>1, <2>1, <2>2 DEF LeftInv
<1>8. CASE DetectFails
  <2>1. boot = "e820" /\ boot' = "astray" /\ left' = left
    BY <1>8 DEF DetectFails
  <2>2. BootLeft = L + 2 /\ BootLeft' = 0
    BY <1>3, <1>4, <2>1
  <2> QED
    BY <1>1, <2>1, <2>2 DEF LeftInv
<1>9. CASE FirstEntry
  <2>1. boot = "e820" /\ boot' = "more" /\ left' = left /\ bp' = bp + 1
    BY <1>9 DEF FirstEntry, Process
  <2>2. bp = 0 /\ 1 <= L
    BY <1>1, <1>9, <2>1 DEF BeforeMap, FirstEntry, Answers, L
  <2>3. BootLeft = L + 2 /\ BootLeft' = (L - 1) + 2
    BY <1>3, <1>4, <2>1, <2>2
  <2> QED
    BY <1>1, <2>1, <2>2, <2>3 DEF LeftInv
<1>10. CASE NextEntry
  <2>1. /\ boot = "more" /\ boot' \in {"more", "detected"} /\ left' = left /\ bp' = bp + 1
        /\ bp + 1 <= L
    BY <1>10 DEF NextEntry, Process, Answers, L
  <2>2. BootLeft = (L - bp) + 2 /\ BootLeft' \in {(L - (bp + 1)) + 2, 1}
    BY <1>3, <1>4, <2>1
  <2> QED
    BY <1>1, <2>1, <2>2 DEF LeftInv
<1>11. CASE Carry
  <2>1. boot = "more" /\ boot' = "detected" /\ left' = left
    BY <1>11 DEF Carry
  <2>2. bp <= L
    BY <1>1, <2>1 DEF DuringMap, L
  <2>3. BootLeft = (L - bp) + 2 /\ BootLeft' = 1
    BY <1>3, <1>4, <2>1
  <2> QED
    BY <1>1, <2>1, <2>2, <2>3 DEF LeftInv
<1>12. CASE Detected
  <2>1. boot = "detected" /\ boot' \in {"entry", "astray"} /\ left' = left
    BY <1>12 DEF Detected
  <2>2. BootLeft = 1 /\ BootLeft' = 0
    BY <1>3, <1>4, <2>1
  <2> QED
    BY <1>1, <2>1, <2>2 DEF LeftInv
<1> QED
  BY <1>5, <1>6, <1>7, <1>8, <1>9, <1>10, <1>11, <1>12 DEF BootNext

LEMMA BootStep ==
  ASSUME EntryAndWay, LeftInv, [Next]_vars
  PROVE  /\ LeftInv' /\ BootLeft \in Nat
         /\ UNCHANGED vars \/ boot = "entry" \/ BootLeft' < BootLeft
<1>1. BootInv /\ boot \in Stages /\ firmware \in Firmwares /\ left \in Nat
  BY DEF EntryAndWay, BootAndEntry, BootInv, BootTypeInv, LeftInv
<1>2. CASE BootNext
  BY <1>1, <1>2, BootGoesDown
<1>3. ASSUME ~BootNext
      PROVE  LeftInv' /\ (UNCHANGED vars \/ boot = "entry")
  <2>1. CASE UNCHANGED bootVars
    BY <1>3, <2>1 DEF Next, bootVars, LeftInv
  <2>2. CASE boot = "entry" /\ AllocThenCli
    BY <2>2 DEF AllocThenCli, AllocInit, LeftInv
  <2> QED
    BY <1>3, <2>1, <2>2 DEF Next, vars, bootVars
<1>4. BootLeft \in Nat
  <2>1. Len(firmware.map) \in Nat /\ Tries \in Nat /\ bp \in Nat
    BY <1>1, FirmwareType, BootAssumption DEF BootInv, BootTypeInv
  <2>2. boot = "more" => bp <= Len(firmware.map)
    BY <1>1 DEF BootInv, DuringMap
  <2>3. boot = "more" => Len(firmware.map) - bp + 2 \in Nat
    BY <2>1, <2>2
  <2>4. CASE boot \in {"kernel", "files", "vesa", "e820"}
    <3>1. \/ BootLeft = Len(firmware.map) + Tries + 4 \/ BootLeft = Len(firmware.map) + left + 3
          \/ BootLeft = Len(firmware.map) + 3 \/ BootLeft = Len(firmware.map) + 2
      BY <2>4 DEF BootLeft
    <3> QED
      BY <1>1, <2>1, <3>1
  <2>5. CASE boot = "more"
    BY <2>3, <2>5 DEF BootLeft
  <2>6. CASE boot \in {"detected", "astray", "entry"}
    BY <2>6 DEF BootLeft
  <2> QED
    BY <1>1, <2>4, <2>5, <2>6 DEF Stages
<1> QED
  BY <1>2, <1>3, <1>4

LEMMA LeftInvariant == Spec => []LeftInv
<1>1. Init => LeftInv
  BY BootAssumption DEF Init, BootInit, LeftInv
<1>2. EntryAndWay /\ LeftInv /\ [Next]_vars => LeftInv'
  BY BootStep
<1> QED
  BY <1>1, <1>2, WaysInvariant, PTL DEF Spec

\* Whatever the disk and the firmware answer, each step of the boot leaves less of it:
\* fewer reads to try, then fewer entries to ask for (boot.asm:61-79,
\* stage2.asm:141-178).
THEOREM BootDescends == Spec => [][boot # "entry" => BootLeft' < BootLeft]_vars
<1>1. EntryAndWay /\ LeftInv /\ [Next]_vars => [boot # "entry" => BootLeft' < BootLeft]_vars
  BY BootStep
<1> QED
  BY <1>1, LeftInvariant, WaysInvariant, PTL DEF Spec

\* With n steps of it left the boot gets on: it ends, or comes to where fewer are left.
\* That no natural number can be left behind for ever is all that BootEnds needs
\* besides (boot.asm:61-79, stage2.asm:141-178).
THEOREM BootGetsOn ==
  ASSUME NEW n \in Nat
  PROVE  Spec /\ []CanGoOn =>
           ((boot \notin {"entry", "astray"} /\ BootLeft = n)
              ~> (boot \in {"entry", "astray"} \/ BootLeft < n))
<1> DEFINE Over == boot \in {"entry", "astray"}
           Here == boot \notin {"entry", "astray"} /\ BootLeft = n
           Fewer == BootLeft < n
<1>1. EntryAndWay /\ LeftInv /\ Here /\ [Next]_vars => Here' \/ Over' \/ Fewer'
  <2> SUFFICES ASSUME EntryAndWay, LeftInv, Here, [Next]_vars, ~UNCHANGED vars PROVE Fewer'
    BY DEF vars, bootVars, BootLeft
  <2> QED
    BY BootStep
<1>2. EntryAndWay /\ LeftInv /\ Here /\ <<Next>>_vars => Fewer'
  BY BootStep
<1>3. EntryAndWay /\ CanGoOn /\ Here => ENABLED <<Next>>_vars
  BY EntryIsReady DEF CanGoOn
<1>4. /\ Here <=> boot \notin {"entry", "astray"} /\ BootLeft = n
      /\ Over <=> boot \in {"entry", "astray"}
      /\ Fewer <=> BootLeft < n
  OBVIOUS
<1> HIDE DEF Over, Here, Fewer
<1> QED
  BY <1>1, <1>2, <1>3, <1>4, LeftInvariant, WaysInvariant, PTL DEF Spec
=============================================================================
