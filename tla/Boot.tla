-------------------------------- MODULE Boot --------------------------------
(***************************************************************************)
(* From the boot sector to the heap's first region: the disk reads of       *)
(* boot.asm, the memory detection of stage2.asm, and what ram.c and         *)
(* alloc_init make of the memory map later on.  The BIOS is external: its   *)
(* disk reads may fail, and its E820 call reports a list in one of the two  *)
(* ways firmware ends it.  Lengths play no part here; HeapOps has them.     *)
(***************************************************************************)
EXTENDS Naturals, Sequences

CONSTANTS
    Firmwares,   \* [map: sequence of [base, type], last: BOOLEAN, modes]: EBX is 0
                 \* with the last entry, or the call after it sets the carry flag;
                 \* modes is the segment of the VESA mode list, 0 without VESA
    Tries,       \* reads of the file system before the boot sector goes on
    MapRoom,     \* 128: entries there is room for at memory_map_address
    RamRoom,     \* 20: entries there is room for in ram_memmap
    OneMB        \* 0x100000

ASSUME BootAssumption ==
    /\ Tries \in Nat \ {0} /\ OneMB \in Nat /\ MapRoom \in Nat /\ RamRoom \in Nat
    /\ \A w \in Firmwares :
         w.last \in BOOLEAN /\ w.modes \in Nat /\ w.map \in Seq([base: Nat, type: Nat])

VARIABLES
    boot,          \* where the boot is; "entry" once the kernel runs
    firmware,
    left,          \* CX: reads of the file system left
    stage2,        \* whether the second stage and the kernel are in memory
    fs,            \* whether the file system was read to 0x18000
    es,            \* the segment in ES
    memory_map,    \* the entries stored at memory_map_address
    bp,            \* the count in BP
    memory_map_entries,
    ram_memmap,
    headers        \* the addresses where an EntryHeader has been written

bootVars == <<boot, firmware, left, stage2, fs, es, memory_map, bp, memory_map_entries,
              ram_memmap, headers>>

BootInit ==
    /\ boot = "kernel" /\ firmware \in Firmwares
    /\ left = Tries /\ stage2 = FALSE /\ fs = FALSE /\ es = 0
    /\ memory_map = <<>> /\ bp = 0 /\ memory_map_entries = 0
    /\ ram_memmap = <<>> /\ headers = {}

-----------------------------------------------------------------------------
(* boot.asm                                                                *)

\* One read of 127 sectors to 0x7e00, whose outcome nobody looks at.
LoadKernel ==
    /\ boot = "kernel" /\ boot' = "files"
    /\ stage2' \in BOOLEAN
    /\ UNCHANGED <<firmware, left, fs, es, memory_map, bp, memory_map_entries, ram_memmap, headers>>

\* The processor goes to 0x7e00, whatever is there.
ToStage2IfRead == boot' = IF stage2 /\ fs THEN "vesa" ELSE "astray"    \* mutant
ToStage2 == boot' = IF stage2 THEN "vesa" ELSE "astray"

ReadFs ==
    /\ boot = "files" /\ fs' = TRUE
    /\ ToStage2
    /\ UNCHANGED <<firmware, left, stage2, es, memory_map, bp, memory_map_entries, ram_memmap, headers>>

\* A failed read, the reset of the disk, and loop: after the last the boot goes on.
LoopReload == left' = IF left = 1 THEN Tries ELSE left - 1             \* mutant
LoopCx == left' = left - 1
FailFs ==
    /\ boot = "files" /\ LoopCx
    /\ IF left' = 0 THEN ToStage2 ELSE UNCHANGED boot
    /\ UNCHANGED <<firmware, stage2, fs, es, memory_map, bp, memory_map_entries, ram_memmap, headers>>

-----------------------------------------------------------------------------
(* The second stage, stage2.asm                                            *)

\* get_vesa_info, which may fail, then ES for get_vesa_mode_info: the segment the
\* firmware put its list of modes in, whose block of 256 bytes goes there, to the
\* offset of the second stage's own buffer.  Both are only printed.
GetVesaInfo ==
    /\ boot = "vesa" /\ boot' = "e820"
    /\ es' = firmware.modes
    /\ UNCHANGED <<firmware, left, stage2, fs, memory_map, bp, memory_map_entries,
                   ram_memmap, headers>>

\* What detect_memory makes of ES.
KeepEs == es                                                           \* mutant
ClearEs == 0

\* int 0x15 with EAX = 0xE820 for entry n: is there one, and is EBX 0 after it?
Answers(n) == n <= Len(firmware.map)
EndsWith(n) == firmware.last /\ n = Len(firmware.map)

\* .process_entry, to ES:DI.  Behind the room for the map is clear_pipe, the code that runs
\* next in protected mode: one entry too many overwrites it.
Process(n, next) ==
    /\ memory_map' = IF es' = 0 THEN Append(memory_map, firmware.map[n]) ELSE memory_map
    /\ bp' = bp + 1
    /\ boot' = next
    /\ stage2' = (n <= MapRoom)
    /\ UNCHANGED <<firmware, left, fs, memory_map_entries, ram_memmap, headers>>

\* No answer, or EBX 0 at once.  ret takes the segment pushed at :143, since
\* .failed pops neither it nor the registers of pusha.
DetectFails ==
    /\ boot = "e820" /\ (~Answers(1) \/ EndsWith(1))
    /\ boot' = "astray"
    /\ UNCHANGED <<firmware, left, stage2, fs, es, memory_map, bp, memory_map_entries,
                   ram_memmap, headers>>

FirstEntry ==
    /\ boot = "e820" /\ Answers(1) /\ ~EndsWith(1)
    /\ es' = ClearEs
    /\ Process(1, "more")

NextEntry ==
    /\ boot = "more" /\ Answers(bp + 1)
    /\ UNCHANGED es
    /\ Process(bp + 1, IF EndsWith(bp + 1) THEN "detected" ELSE "more")

Carry ==
    /\ boot = "more" /\ ~Answers(bp + 1)
    /\ boot' = "detected"
    /\ UNCHANGED <<firmware, left, stage2, fs, es, memory_map, bp, memory_map_entries,
                   ram_memmap, headers>>

\* .done, then the A20 line and protected mode, and the jump to the kernel.
CountAll == bp
Detected ==
    /\ boot = "detected" /\ boot' = IF stage2 THEN "entry" ELSE "astray"
    /\ memory_map_entries' = CountAll
    /\ UNCHANGED <<firmware, left, stage2, fs, es, memory_map, bp, ram_memmap, headers>>

BootNext == LoadKernel \/ ReadFs \/ FailFs \/ GetVesaInfo \/ DetectFails \/ FirstEntry
            \/ NextEntry \/ Carry \/ Detected

-----------------------------------------------------------------------------
(* alloc_init, which the kernel calls                                      *)

\* parse_e820_memory_map: the usable entries but the first.
Usable(entry) == entry.type = 1
TrimNone(map, n) == SelectSeq(SubSeq(map, 1, n), Usable)               \* mutant
ParseE820(map, n) == SelectSeq(SubSeq(map, 2, n), Usable)

\* The copy has no bound: an entry too many goes over the count that is its index,
\* or over whatever else lies behind the array.
RamFits == Len(ParseE820(memory_map, memory_map_entries)) <= RamRoom

AllocInit ==
    LET ram == ParseE820(memory_map, memory_map_entries)
    IN  /\ ram_memmap' = ram
        /\ headers' = IF ram # <<>> /\ ram[1].base = OneMB
                        THEN headers \cup {ram[1].base} ELSE headers
        /\ UNCHANGED <<boot, firmware, left, stage2, fs, es, memory_map, bp, memory_map_entries>>

-----------------------------------------------------------------------------
(* Properties                                                              *)

\* What the kernel finds at memory_map_address is all the firmware reported, in
\* order and counted, in whichever way the list was ended and wherever the VESA
\* calls left ES (stage2.asm:37-42, 141-178).
MapIsComplete ==
    boot = "entry" => memory_map = firmware.map /\ memory_map_entries = Len(firmware.map)

\* The boot is lost only if the kernel was not read (nothing but the first read and
\* a map without room for itself ever takes it away), or with firmware that has no
\* map or one of a single entry that ends with EBX 0 (boot.asm:58, 81,
\* stage2.asm:155-171, 299).
AstrayOnly ==
    boot = "astray" =>
      \/ ~stage2 /\ (memory_map = <<>> \/ Len(firmware.map) > MapRoom)
      \/ firmware.map = <<>> \/ (firmware.last /\ Len(firmware.map) = 1)
=============================================================================
