# Verification of something-os

something-os is a single-threaded 32-bit kernel for one PC. A boot sector and a second stage
load it; `entry()` sets up paging, a heap and the interrupt table, reads a read-only file
system with a polling disk driver, loads one PE driver, binds its imports to DLLs and runs
it. This directory holds TLA+ models of its parts, the TLC runs that check them, and TLAPS
proofs about the allocator, the disk driver and the file system, the loader, the interrupt
stubs, the boot and the kernel's entry, `snprintf` and the memory table printed with it.
`PROJECT.json` maps each definition to the lines it stands for.

Paths are relative to `src/src/` unless they begin with `src/`.

## Inventory

| part | state it keeps | operations | interacts with | what is hard | what makes it correct |
|---|---|---|---|---|---|
| boot sector, `boot.asm` | CX (retries left), the sectors read | read the kernel; read the file system, reset, retry | BIOS | reads fail; the retries run out | the boot is lost only if the kernel was not read |
| second stage, `stage2.asm` | the memory map, its count, ES, the GDT | VESA query, E820 loop, A20, protected mode | BIOS, memory map | a list may end in two ways; the failed path; ES left at the firmware's segment; more entries than there is room for | the kernel finds the whole map |
| kernel entry, `x86/protected_mode.c` | control registers, interrupt flag, PIC masks | one straight sequence with branches on the CPU | everything below | paging goes off and on over other tables; interrupts before the table is there; CPUs with long mode | what runs is mapped; an interrupt is on only when it can be served; a CPU without long mode comes through every call |
| task state segment, `x86/tss/tss.c` | a GDT slot, the task register | `tss_init` | second stage's GDT | the slot must exist and be nobody else's | the TSS is loaded, code and data segments stay |
| memory map, `x86/memory/ram/ram.c` | `ram_memmap`, its count | `parse_e820_memory_map`, `get_ram_size` | heap | the first usable entry is dropped; the copy has no bound | the heap lies at 1 MB or nowhere |
| heap, `x86/memory/alloc/alloc.c` | an EntryHeader in the region, a list of MemoryBlock headers between the blocks | `alloc`, `malloc`, `free`, `is_pointing_to_allocated_memory`, `realloc`, `save_realloc`, `aligned_alloc`, `debug_alloc` | paging (malloc maps), all callers | any order of calls; headers lie between the callers' data; one step of a compound call fails | callers share no byte, every block is found again, counters agree with the list, blocks are mapped, a refused request fits nowhere the walk looks |
| paging, `x86/paging/paging.c` | page directories, CR0, CR3, CR4 | `init_paging`, `init_paging_4mb_identity`, `map_identity_4mb`, long-mode tables, CPUID tests | heap, entry | an unmapped header faults for ever | see the two above |
| interrupts, `x86/idt`, `x86/isr` | the interrupt table, the one kernel stack | 32 exception stubs, system call stub, handlers | all code | an NMI between any two instructions; error codes on some vectors only | the interrupted code does not notice |
| ATA driver, `x86_64/ata/ata.c` | the caller's buffer | `ata_read28`, `ata_read_lbas`, `ata_write28` | the drive | BSY raised late, failed commands, the drive moves at any time | the data are the sectors asked for |
| file system, `x86_64/filesystem/monolithic/mono_fs.c` | `fs_header`, five `virtual_file_list` slots, heap blocks | `mono_fs_init`, `dumb_file_search`, `get_file_content`, `free_file_content`, `print_mono_fs` | heap, ATA driver, loader | the table keeps callers' pointers; full table; many small buffers per search; headers and data across sector borders | the right file and all of it, no leak, nothing foreign freed, only the image read |
| loader, `x86_64/pe_loader` | walking pointers into the driver's file, its import table | `load_driver`, `parse_dll`, `resolve_dll_function_by_name`, RVA helpers | file system, heap | tables walked in step while being overwritten; missing DLLs, names and tables; a result in a dead frame | each import bound to its function, nothing else written, the walk stays in the file |
| formatting, `cstd/src/stdio.c` | the caller's buffer | `snprintf` | loader, messages | every directive keeps the bound by itself; the smallest integer; a lone `%` at the end | no byte behind the buffer, the right text |
| debug output, `x86/debug` | number buffers, a row of the table | `debug_printf`, `log_num`, `print_memory_allocations`, the port's loops | heap, all code | number buffers of 9 to 12 bytes; rows padded and framed in place | the right text on the port |
| image builder, `src/build.py` | the packed image | pack `fs/` | file system | headers across a sector border | the layout the kernel expects |
| strings, PCI, 64-bit entry, drivers, DLLs, build scripts | little or none | - | - | - | - |

The kernel never runs two threads and masks both interrupt controllers, so the concurrency
there is comes from the drive beside the driver, from NMIs, and from the order in which
callers call.

## Modules

| module | stands for | built on |
|---|---|---|
| `HeapOps` | a heap as a record; `alloc` and `free` as operators over it | - |
| `Heap` | `alloc.c` under every sequence of calls | `HeapOps` |
| `MemoryPool` | abstract specification: a set of granted ranges | - |
| `KernelHeap` | `malloc` and its page mapping, `realloc`, `save_realloc`, `aligned_alloc` | `Heap` |
| `HeapProofs`, `KernelHeapProofs` | their proofs | |
| `MonoFs` | the file system over the heap, and what the loader does to both | `HeapOps` |
| `MonoFsProofs` | its proofs, with the lemmas of `HeapProofs` about one alloc and one free | |
| `FileStore` | abstract specification: handles that give the file asked for | - |
| `MCRecentFiles` | `MonoFs` beside a record of which files were used last | `MonoFs` |
| `Ata` | disk driver and drive | - |
| `FsDisk`, `FsDiskProofs` | the file system's reads over driver and drive, sector by sector; proofs of both | `Ata` |
| `Loader`, `LoaderProofs` | import binding and its proofs | - |
| `ImportTable` | abstract specification: cells that are each filled once, rightly | - |
| `Format` | `snprintf` | - |
| `DebugLog`, `FormatProofs` | `debug_printf` and the memory table; proofs about both modules | `Format` |
| `Boot` | boot sector, second stage, `parse_e820_memory_map`, `alloc_init` | - |
| `KernelEntry`, `KernelEntryProofs` | `entry()`; proofs about boot and entry | `Boot` |
| `Interrupts`, `InterruptsProofs` | the stubs, the CPU's part of an interrupt, the system call handler; their proofs | - |

Three refinements tie details to promises: `Heap` and `KernelHeap` implement `MemoryPool`,
`Loader` implements `ImportTable` and `MonoFs` implements `FileStore` (all proved, the last
under a condition on the run). An abstract specification has no list, table, heap or walk,
so a step of the code that no caller asked for must leave it alone.

`MC*` modules give the constants for TLC. Definitions marked `mutant` are plausible slips (a
dropped guard, an off-by-one, a lost step); no specification uses them. With one in the
place of the definition after it, the property `PROJECT.json` pairs it with fails, which
shows that the property depends on that piece of the code.

### Heap: `HeapOps`, `Heap`, `KernelHeap`

A heap is `first`, the EntryHeader's two counters, `block` (header address -> size and next)
and `intact`. The memory of a header is not modelled byte by byte: `intact` becomes FALSE
when an alloc writes its header over another, or when a caller fills bytes that a header
occupies. From then on the C code would walk garbage, so the machine stops there; every
property with the guard `heap.intact` speaks of the time before. The walk of `alloc` for the
first fitting block is `Min` over the fitting ones; that needs the list to be in address
order, which is the invariant `Linked`. `held` has no counterpart in the code: it is what
the callers were given and have not freed, which the allocator should agree with.

In `Heap` one call is one step. In `KernelHeap` `realloc`, `aligned_alloc` and
`save_realloc` are two and three steps, since each part succeeds, fails or faults on its
own, and `mapped` is the page directory. What `save_realloc` copies is the old length, also
into a shorter block: `SaveCopy` writes over what follows, or is stuck on a page that is not
mapped. `AlignedStore` writes the raw pointer wherever the code does. `alloc` writes the
header before `malloc` maps the block: `HeaderFaults` is that write when the page is not
there. The handler returns to the instruction, so nothing follows it.

### File system: `MonoFs`, `FileStore`, `FsDisk`

The file system is modelled twice, because two different things can go wrong in it. `MonoFs`
has what a call does to memory: a composition of small operators over a record of the heap,
the texts in memory, the table and the C locals (`Take`, `Give`, `Borrow` are malloc, free
and both; `Looked` leaves a name in the buffer it frees), so that each allocation meets the
heap of `HeapOps`. `text` remembers which file name stands at an address until its bytes are
written again: the table keeps callers' pointers, and the text behind one can change.
`Image` is laid out as `build.py` does it. `FileStore` is what callers see of it: `Gives(c)`
is the file a handle's blocks hold while they are live.

`FsDisk` has what a call does to the disk: `_fs_read_bytes`, the walk of `dumb_file_search`
and the reads of `get_file_content`, each a call of the driver in `Ata`, whose every poll
and word is a step beside the drive's. An image there is a function from offsets to cells
that carry the file and the place they belong to, so a piece taken from the wrong place
shows. `ReadAstray` is a file whose own header lies across a sector border: its size comes
from the stack (`Guesses`).

### Loader, ImportTable

A file is a function from offsets to cells; a pointer is an address, the file lies at
`Base`, and a read at a low address, behind the file, where other blocks lie, or of a cell
that is no entry gives something arbitrary, for at most `StrayBound` cells. The RVA of a
table is never its offset, so a forgotten translation shows. `parse_dll` returns a compound
literal of its own frame, so whether it is still there when it is read (`live`) is chosen at
each call; `kept` records that it always was. `BoundRight` and `Terminates` are stated for
that case, `FillsTable` for both. With the installed GCC at -O0 the frame survives by one
byte; an NMI handler, or another compiler, overwrites it.

### Ata, Interrupts

`Ata` has one step per poll, command and word on the driver's side and on the drive's,
interleaved freely. `Interrupts` has the stack as a sequence of tagged words: a wrong pop
finds the wrong tag.

### Format, DebugLog

`Format` has one step per character stored, with numbers 32 bits wide; a directive's text is
computed by the code's digit loop, and `Exact` compares it with the number's digits by
division. `DebugLog` adds `debug_printf` with its number buffers and
`print_memory_allocations`, whose rows go through `Format`'s `snprintf`. `over` counts bytes
behind a number buffer: with the installed GCC the two of `%p` fall on the dead buffer of
`%x`.

### Boot, KernelEntry

`Boot` has one step per BIOS call, with the BIOS external. The firmware chooses the map, how
its list ends and the segment of its mode list, which the second stage loads into ES.
`KernelEntry` has one step per call of `entry()` and records what the control registers,
tables, GDT and task register become. The calls that work on files and driver come back or
end there: in a panic, in a poll without end, in the driver's `main`, or lost (`Call`); what
they do in between is `MonoFs`, `FsDisk` and `Loader`. Where the code overwrites itself (129
map entries, 21 usable ones) or uses a heap that is not there, `boot` or `pc` goes to
"astray" or "wild" and the model says nothing of what follows.

## Runs

| run | bounds | shows |
|---|---|---|
| `kernel_heap` | pages of 48 bytes, one region of 118 bytes over three pages, sizes 12, 13, 24, code's header sizes, three aligned requests, one for an alignment that is no power of two, two stray pointers; 87491 states | All ten properties of the allocator: types, list order, ownership, no shared byte, counters, refusals only when full, refinement of `MemoryPool`, blocks mapped, faults only at a page's edge, aligned pointers and the raw pointers before them in their blocks, clear of headers. |
| `fs_literal` | seven files, two more than slots, opened by literals, and an empty file and a directory's entry among them; 20302 states | `StoreSpec`: callers have a file store; `CacheCoherent`: the table agrees with the image; `HeapIntact`: no header is overrun. |
| `fs_drivers` | two drivers, one with a missing DLL, up to two imports, lengths that let a name fall where another stood; 698 states | `NoLeak`: also the failed import's buffers come back; `OnlyHeapNamesMislead`: whoever gets a file it did not ask for was answered by a slot whose name is in the heap. |
| `ata_reads` | nine sectors of four words, an image of four files, reads of up to four sectors, writes to sector 0, also by an LBA past the 28 bits that reach the drive, a drive that may fail | `FileExact`, `ImageOnly`: a file is its data and only the image is read; `ReadIsExact`, `WriteLands`: the same of a sector; `FsEnds`: calls end unless the drive fails. |
| `loader_bind` | drivers with up to three imports in one or two descriptors, DLLs broken and missing, results kept or lost | `BoundRight`, `FillsTable`: imports bound right and only their cells written; `LookupInImage`: no cell before or behind the file is read or written; `Terminates`. |
| `format` | every directive of both formatters alone and in mixed formats, numbers at each edge of 32 bits, nine sizes from 1 to 95, a plain heap and the widest one | `NoOverrun`, `Exact`: `snprintf`'s bound and text; `PortExact`: what is sent; `LocalRoom`: no number buffer is too small but that of `%p`; `LogEnds`. |
| `entry_all` | all CPUs, ten memory maps each ended both ways, two segments for the mode list, six tries, room for 4 map entries and 2 usable ones; 57340 states | `MapIsComplete`, `AstrayOnly`: the boot; `HeapAtOneMB`, `QuietInterrupts`, `MappedWhilePaging`: the way through `entry()`; `BootEnds`, `EndOfEntry`: the boot ends, and a CPU without long mode comes through all of `entry()`. |
| `interrupts` | all exceptions but 9, 15 and reserved ones, three EAX values, four instructions or interrupts | The interrupted code is resumed as it was, `iret` finds its frame, the system call's number is the caller's, every handler ends. |
| `heap_headers`, `fs_stale_name`, `fs_recent`, `loader_no_imports` | as small as shows it | The four departures below. |

Why the bounds are enough. The heap: a region of four blocks has a first, a last, and
neighbours on both sides of a freed block; the sizes differ by less than, and by exactly, a
header, which is where the tests of `alloc` change their answer; pages are smaller than some
blocks and not aligned with them. `Word` is 2^30 there, since TLC's integers stop at 2^31;
no sum comes near it except the counters' wrap below. Files: the sixth and seventh meet a
full table. In `fs_drivers` the path buffer of an import is freed, a search's buffer for the
name `cfg` takes its place, and a slot then answers for `cfg` with the DLL: the wrong
answers its property is about do occur, on a heap that stays intact. Disk: a header of two
words, file headers of three and sectors of four put the four files at each kind of border:
a header across one, a name and data across one, no data, an end at one. The order of the
four is what makes files behind a straddling header matter. `Reach` stands for 2^28 sectors
and is one more than the image needs. Loader: three imports have a middle one to skip, two
descriptors a wrong one to use. Output: the numbers are those where a digit appears or the
sign is lost, and the widest row has two digits and two signed numbers. Boot: `MapRoom` and
`RamRoom` are 128 and 20 in the code; the maps have one entry less, as many, and one more.
`Tries` is the code's. Interrupts: four steps allow an NMI in a stub of an exception or
system call, and one in the code again.

### Fairness

Safety needs none. `KernelEntry`, `Loader` and `DebugLog` have weak fairness of the whole
next-state relation: one processor executes straight code. `FsDisk` has it of the kernel,
which only polls or copies, and of the drive, which answers each command in the end, if only
with a failure; nobody is obliged to make a call. `Interrupts` has it of the stubs and
handlers, which run with interrupts off; the interrupted code is not obliged to go on, and
NMIs are bounded by `MaxSteps`.

### Where the code departs from what it says

- `heap_headers`: the gap test compares the new block's end with the next block's *data*
  (`alloc.c:47`), so a block may cover the next header, which `alloc.h:13` puts at the start
  of each block. Sizes whose sum with the header is a multiple of more than a header never
  meet this (`GranularNeverBreaks`).
- `fs_stale_name`: the file table keeps the pointer of a path that `load_driver` frees
  (`mono_fs.c:68`). Reused for another DLL's path, it makes the table answer for that name
  with the old file: the import of `dll/a.dll` is served `dll/b.dll`, with the heap intact.
  Replacing a slot frees such a pointer once more, and with it whatever block now begins
  there (`mono_fs.c:58-62`): with `NoLeak` as the invariant, the same instance shows the
  handle of a driver that is still being loaded freed by an eviction.
- `loader_no_imports`: an empty import directory is reported and then walked from address 0
  (`driver_loader.c:59-68`); the shipped driver is of that kind.
- `fs_recent`: the table is called the "5 most recently used files" and searched for "the
  least recently used" (`mono_fs.c:9`, `47`; `mono_fs.h:36`). `times_accessed` is 1 from the
  moment a slot is filled and nothing increments it, so of a full table only slot 0 is ever
  replaced, also when it was used last.

Seen while modelling, without a run of their own:

- The test for an empty region counts the EntryHeader's bytes as free (`alloc.c:34`);
  `Fitting` excludes the one request this matters for.
- The space before the first live block is not searched (`alloc.c:42-74`); it is all that is
  given away (`RefusedOnlyWhenFull`).
- Two blocks in gaps too small for a header can take `used_size` above the region's length
  and wrap `free_size`; `Accounting` is modulo 2^32 for that. Only the empty region's test
  reads `free_size`, so nothing follows from it.
- `alloc` reads an EntryHeader in every region, `alloc_init` writes one in the first
  (`alloc.c:14-33`); `alloc.h:19` puts one at the start of each. With a second usable region
  a request the first cannot serve reads a header that nobody wrote.
- A search leaves each file's name in the buffer it frees (`mono_fs.c:89-109`), so a slot
  whose pointer is stale may answer for a file no import has named.
- A missing DLL's path of about 14 to 25 characters leaves a gap of the kind `heap_headers`
  is about among the debug messages, so an import can overrun a header. `HeapIntact` is
  claimed without imports only.
- `realloc` copies nothing; `save_realloc` copies the old length into a shorter block, over
  the next header, and frees the old block also when there is no new one; `aligned_alloc`
  takes 0 for a power of two (`AlignedSized` leaves it out); a pointer of `aligned_alloc`
  can never be freed (`AlignedFits` says that `free` does not take it for a block).
- `map_identity_4mb` gets the address as the length, so from 2 GB up nothing is mapped
  (`LowMemory`).
- With two import descriptors the last name is used with the first tables
  (`driver_loader.c:64-75`). `parse_dll` returns its own frame (`dll_loader.c:52`).
- A file whose own header lies across a sector border is found by the search, but its size
  and name length are read behind the one sector in memory (`mono_fs.c:129`). The files
  behind it are read right. `mono_fs_init` keeps what it read as the image's header even
  when the signature is wrong (`mono_fs.c:168-178`).
- An empty file asks `malloc` for 0 bytes (`mono_fs.c:140`). The gap test finds room for
  that right in front of the sector buffer, at the address of its header, and the new header
  replaces it as its own successor (`alloc.c:47-53`). `RoomToOpen` leaves such files out
  where a literal asks for them; the empty `boot.cfg` and the entries `build.py:70-81`
  writes for directories are asked for by nobody, and `fs_literal` has one of each.
- `debug_printf` and `snprintf` go on behind the NUL of a format that ends in `%`, and print
  the smallest integer as a bare sign (`x86/debug/debug_log/log.c:16`,
  `cstd/src/stdio.c:28`).
- The memory map is stored, and copied, without a bound (`stage2.asm:166`, `ram.c:17`).
- The VESA mode block goes to the segment of the firmware's list of modes, not to the buffer
  named for it (`stage2.asm:37-42`); nothing but a message reads it.
- `cpu_supports_pml5` asks CPUID for leaf 0, not 7 (`paging.c:111`), and the jump to the
  64-bit entry happens with paging off. A CPU with long mode and without the tested bit
  turns paging on with PAE still set and faults for ever. `KernelEntry` has these ends;
  `EndOfEntry` is about CPUs without long mode.
- The failed path of `detect_memory` returns to a pushed segment (`stage2.asm:180`).
- `%p` of `debug_printf` writes two bytes behind its number buffer
  (`x86/debug/debug_log/log.c:71`), and nothing else does (`LocalRoom`).

## Proofs

TLC checks the instances above; the theorems hold for every value of the constants under the
assumptions they name.

| theorem | says | assumes |
|---|---|---|
| `HeapInvariant`, `TypeCorrect`, `ListOrdered`, `ExactOwnership`, `NoSharedBytes`, `WalkIsComplete` | the heap's invariants | `NoWrap`, `Fitting` |
| `ImplementsPool` | `Spec => Pool!Spec` | and no request of 0 bytes |
| `GranularNeverBreaks` | no block ever reaches a header | and `Granular(Q)` |
| `ImplementsHeap` | every step of `KernelHeap` is one of `Heap`, the longer write of `save_realloc`, or none | and `AlignedSized`, no 0 bytes |
| `KernelKeepsHeap`, `KernelIsPool` | the heap's invariants and the pool, for the whole allocator | the same |
| `AlignedInBlock` | `AlignedFits` | the same |
| `RefusalsJustified` | `RefusedOnlyWhenFull` | `NoWrap`, `Fitting` |
| `CountersAccount`, `KernelCountersAccount` | `Accounting`, for the heap and for the whole allocator | `NoWrap`, `Fitting`, `HalfWord`; the allocator's as above |
| `BlocksMapped`, `FaultPlace` | `HeldIsMapped`, `FaultsAtPageEdge` | and `LowMemory` |
| `NothingBehindTheBuffer`, `NulFits` | `snprintf` stays in its buffer | a size of at least 1 |
| `RowsStayInside` | so does every row of the memory table, padded and framed | 95 is among the sizes |
| `TextIsExact`, `RowsAreExact` | `Exact`, for every format, argument and size | `CallsTyped`, and for the rows the next two |
| `OnlyPointersOverrun` | `LocalRoom`, for every message and number | `MessagesTyped` |
| `SentIsExact` | `PortExact`, for every message and every heap | `MessagesTyped`, `HeapsTyped` |
| `InterruptsInvariant`, `InterruptsTransparent`, `IretPopsFrame`, `ServesTheCall` | `Transparent`, `IretOnFrame`, `ServesWhatWasAsked`, however interrupts nest | `StubsMatch` |
| `BootAndEntryInvariant`, `EveryMapIsComplete`, `BootIsLostOnly` | `MapIsComplete`, `AstrayOnly`, for every map | - |
| `InterruptsAreQuiet`, `PagingHasItsTables`, `HeapIsAtOneMB` | `QuietInterrupts`, `MappedWhilePaging`, `HeapAtOneMB`, for every CPU and map | - |
| `FsInvariant`, `ReadsAreExact`, `WritesLand` | `ReadIsExact`, `WriteLands`, for every sector size, count and timing | `FsDiskAssumption` |
| `FilesAreExact`, `OnlyTheImage` | `FileExact`, `ImageOnly`, for every image | the same |
| `LoaderInvariant`, `ImportsAreBound`, `WalkStaysInImage` | `BoundRight`, `LookupInImage`, for all files | `FilesFormed` |
| `LoaderFillsTable` | `FillsTable`: every step of the loader is one of `ImportTable` or none | `FilesFormed` |
| `NothingLeaks` | `Spec /\ []NothingToLose => []NoLeak` | `SizesFit`, `BelowHeap` |
| `TableTellsTruth`, `RightAsLongAsNamesStay` | `Spec /\ []NamesStay` implies `[]CacheCoherent` and `[]RightFile` | the same |
| `OnlyHeapNamesEverMislead` | `Spec /\ []NothingToLose => OnlyHeapNamesMislead`, imports and stale names included | the same |
| `ImplementsFileStore` | `Spec /\ []NamesStay /\ []HeapIntact => StoreSpec` | the same |
| `HeapStaysIntact`, `FileStoreWithoutImports` | `Spec => [](notes = {} => HeapIntact)`, and `StoreSpec` as long as nothing is imported | `SizesFit`, `BelowHeap`, `RoomToOpen` |
| `OnlyLiteralsCached`, `NothingGoesStale` | `Spec => []NamesStay`, and so `NoLeak`, `CacheCoherent` and `RightFile` on every run | `SizesFit`, `BelowHeap`, `DllsMissing` |
| `EntryDescends`, `EntryEnds` | no call of `entry()` is made twice; `Spec /\ []CanGoOn => EndOfEntry` | - |
| `BootDescends`, `BootGetsOn` | every step of boot sector and second stage brings their end nearer, for every CPU and map | -, and `CanGoOn` |
| `HandlersDescend`, `NmiEnds`, `EveryInterruptReturns` | `Spec /\ []CanGoOn /\ <>[][~NonMaskable]_vars => Returns` | `StubsMatch` |
| `LoaderDescends`, `LoaderGetsOn` | each step of `load_driver` leaves less to do; with nothing left it has ended | `FilesFormed` |
| `LogDescends`, `LogGetsOn` | the same of `snprintf`, `debug_printf` and the memory table | `CallsTyped`, `MessagesTyped`, `HeapsTyped` |
| `FsDescends`, `FsGetsOn` | the same of a call to the file system, with the drive's steps in between | `FsDiskAssumption`, `GuessesAssumption` |
| `NeverBothWait` | driver and drive never wait for each other | the same |

The assumptions. `NoWrap`: no sum of a region's end and two sizes reaches 2^32. `Fitting`:
each size fits in an empty region, EntryHeader included. A request of no bytes would return
a pointer that a neighbour may share. `Granular(Q)`: sizes such as 4, 20 and 36 with Q = 16.
`AlignedSized`: `aligned_alloc` is asked for at least a byte, its total does not wrap and is
among the sizes. `LowMemory`: the region ends in the lower half of the address space.
`HalfWord`: the region is smaller than 2 GB, since headers and data together may cost almost
twice its length. `StubsMatch`: the list of stubs that push no zero is the CPU's list of
vectors with error codes; it is true of all but the vectors Intel keeps reserved, which the
stubs' list has as well. `FsDiskAssumption`: each file has a name, as `build.py` gives it
one, the image is on the disk, and the bound on one call's count lets every file be read.
`FilesFormed` is what a linker produces: sections apart, a name in each descriptor, tables
that end in a zero and are one or lie apart, names outside the slots, export names whose
ordinals lead to their functions. It is stated through `LiesAt`, where the headers say a
cell lies, and not through the code's pointers, so it does not presume that they are right.
It leaves out a driver without descriptors, which `loader_no_imports` is about. The `MC`
modules have TLC evaluate that these hold of the runs' instances. `CallsTyped` and
`MessagesTyped`: every directive that the walk over a format meets finds an argument of its
kind, also where the walk goes on behind a NUL. `HeapsTyped`: sizes and addresses are 32-bit
numbers, and the heap has at most 100 regions, so that a row's index has two digits;
`ram_memmap` has 20 entries. `SizesFit`: `NoWrap` and `Fitting` for the sizes the file
system asks for. `BelowHeap`: the kernel, its stack and every offset into the image are
numbers below 1 MB, where the heap begins, so `free` ignores a literal's address, a stack
address and a `file_data`; an image of 1 MB or more is outside the proofs.

`RoomToOpen`: no file that a literal asks for is empty, and the region has room for a disk
address, the file's sectors and its data at a time. `GuessesAssumption`: whatever lies
behind the sector says something. `CanGoOn` is no assumption but a hypothesis of the
theorems about progress: a step whose guard holds can be taken. It says of `ENABLED` what
its definition gives and no installed prover can use.

The conditions on the run. `NamesStay` says that no slot names its file by a pointer into
the heap. A path that `load_driver` has freed is the one way to break it, and then the
properties fail: this is where `fs_stale_name` and the freed handle beside it begin. The
theorems say that there is no other way. `NothingToLose` asks it of slot 0 alone, the one
slot that is ever evicted. Both hold on every run of an image without the DLLs its drivers
name (`DllsMissing`, as in `fs_literal`). A path that is found goes into a slot, so
`fs_drivers` is of the other kind: there `NamesStay` fails, and with it `StoreSpec`; its at
most five misses never overflow the table, so `NoLeak` holds, and `OnlyHeapNamesMislead`
says what remains of the file store.

The arguments. `ClientsDisjoint` is not inductive: that two areas are apart says nothing of
where the next one goes. `HeapInv` adds what does: the list is in address order (`Ordered`),
each block lies in the region and its data ends before the *data* of the next (`Placed`, all
the gap test gives), and the callers' areas are the live blocks' data (`Owned`); all of it
only while the heap is intact. `AllocRoom` then places a new block against all others at
once (`Room`), and `InsertKeeps` and `UnlinkKeeps` do the two list operations. `ReachesAll`
of `WalkIsComplete` is by the least node that is not reached. `KernelInv` adds what a
compound call still refers to (`CallOK`) and where aligned pointers lie (`LentOK`), strictly
inside their blocks, so that by disjointness `free` cannot take one for a block, and
`RawKept` that no header lies on a raw pointer stored before one: a new header may be laid
in front of another, never over a block's data. `PagesInv` needs page 0 mapped from the
start, because `malloc`'s own call for page 0 has length 0. `FaultPlace` follows: the byte
before a new header is a mapped one, so an unmapped page of the header starts in it.
`RefusalsJustified` is `HoleIsFound` turned round: if a hole behind the lowest block had
room, the walk could have stopped at the live block closest before it.

`Accounting` sums over the live blocks. `FoldExists` solves the recursion inside
`MapThenSumSet` up to every cardinality, `SumAny` takes the least set on which the order
would matter, and `TotalWith` is what is left: a block more is its cost more. The other half
is that `used_size` never wraps, which is not obvious, as a header may lie in another
block's gap: `CountInv` adds that headers do not meet each other (`HeadersDisjoint`), so
headers and data each fit in the region (`SumBound`).

`FormatProofs` goes from the digits up. `Bounded` is `NoOverrun` with `written <= size - 1`;
whatever pads and frames a row stops at its 94th byte. The digit loops, the text of a call
and the well-formedness of a format are recursive functions: each comes to its end because a
rank falls, so that it exists (`RecursionExists`, by the least rank without one), and it is
then known by its equation. `DigitsRecursion` to `NibblesAreHex` show that the loops give a
number's digits by division, for all 2^32 numbers; a negative one is computed in halves, as
the provers and TLC have no unsigned 32 bits. `CallInv` says that what is kept in the buffer
and what is left of the text make up the call's text, until the bound cuts it; `LogInv` says
the same of the port, and of a table that its border and the lines of the rows so far were
sent. A row fits since its widths add up: `Fits` bounds the text from a place of its format
on, with 11 characters for a number and 18 for a pointer (`RowsFit`).

`InterruptsInv` describes the stack whole. `Outer` says of one activation what the words
above the code's own stack are at each place of the stub, register by register; `Nested`
says that under an NMI's words lies such an activation, at the place its frame names. A pop
is then a look at a known word. `BootInv` and `EntryInv` say at each stage what has been
built by then; the proof that the map is complete is that during detection the map is the
prefix of the firmware's of length BP.

`AtaInv` ties driver and drive: which command the drive serves while the driver is where
(`DriveInv`), and that the buffer holds the sectors before the current one and its first
words (`BufferInv`). The words arrive in place because i and word split the buffer's index
by division (`DivRows`, `DivMono`). `FsInv` adds where a search stands (`WalkInv`: always at
a file's first byte, `AtFile`) and that a call reads what the range needs (`InRange`). It
needs where each file lies: `Ends` is a recursive function, and that it exists and which
file a given offset belongs to are proved from the least counterexample, since the provers
have no induction. `ImageOnly` speaks of the calls of the search and of a file that does not
straddle: the attempt to prove it for every call showed that after a straddling header the
guessed size decides what is read, and that this call is still the last one when the next
begins.

`LoaderInv` says that the two walks are k entries on from where the headers put the tables,
that k slots are filled rightly and no other cell differs from the file's (`Filled`), and
that the entry about to be read is not among those k: this is where the IAT may be the
lookup table itself. `PointerIsRight` (just one section holds an RVA) and `ResolveIsRight`
(the first name found leads over its ordinal to its function) are the lemmas about the
code's operators; `SlotDone` is one round of the loop, used by each of its three ends.

In `MonoFs` a call is a composition of some twenty operators, so what is proved of a call is
what each of them hands on. `Adds` says it of the heap: sound as before, and the live
blocks' areas are the old ones and those that were asked for, new and apart; `Borrow`, the
scan of the image, an eviction and a search each add what their callers keep, nothing or the
found address, and `get_file_content` adds raw and content. `AllocAdds` and `FreeRemoves` of
`HeapProofs` give the base, for one call whoever makes it. `Steps` says of the texts that
nothing below the heap is written. `FsInv` is then `NoLeak` with what makes it inductive:
the heap is sound, no two handles share a block (`Holds`), and the two other pointers of
each slot are below the heap (`Entries`). `TableInv` has the literals where they were, and
each slot that names one with that file's address; a disk address belongs to one file
(`AddressNames`), so what is read from it is the file. `OnlyHeapNamesEverMislead` is the
same for the slots that still name a literal, and the table's other half: an answer comes
from such a slot, from one with a name in the heap, or from the disk, which does not err.
`HeapIntact` enters the refinement only, where a handle has to give its file also after the
step that would break a header.

Whether a header is ever broken depends on the sizes, which `Granular` cannot speak of here.
`OneAtATime` is what holds as long as `notes` is empty, that is, until a driver imports
something: between calls the heap has no block, or the two of the one file that is open, and
these at two known addresses. Within a call it has at most three (`Single`, `Double`,
`Triple`), so each `malloc` has its one place: the answer first, the sectors behind it, the
data behind them, the content where the sectors were. The proof met the one size for which
this fails: 0. With imports the debug nodes stay between the blocks, gaps of every size
arise, and `HeapIntact` is no longer true for every length of a path.

Progress is proved by a variant: a function of the state that every step makes smaller
(`CallsLeft`, `BootLeft`, `Left`, `StepsLeft`). It is not obvious where a loop's bound is in
memory the loop may write (the loader walks a table it overwrites), where a round ends on
what the other side does (a poll), or where reading goes on behind the end (a format). For
the loader and for output the theorem ends in `[][Left' < Left]_vars` and that with nothing
left the call has ended: no behaviour of the specification has more steps than its first
state counts. For the file system driver and drive both lower `StepsLeft`: a sector costs
the kernel's and the drive's steps, and a search the sectors of the headers that are left
(`WorkInv`). That nobody stops before is the other half. In each of these modules what has
not ended is `Ready`, some guard holds; in `FsDisk` with two processes it is
`NeverBothWait`. What remains to the leads-to is `CanGoOn`, and weak fairness does the rest
by `PTL`: `EntryEnds` and `EveryInterruptReturns` as the runs state them, the latter with
NMIs that stop at some time in place of the run's `MaxSteps`; the others (`...GetsOn`) for
one value n of the variant, as no prover here can do induction over temporal formulas.

Model-checked only: `LogEnds`, `Terminates` and `FsEnds` as they stand, and `BootEnds`,
which need that induction; every `CanGoOn`, so that the properties of liveness are proved up
to `ENABLED`. Neither checked nor proved: `NoLeak` and `OnlyHeapNamesMislead` on runs that
evict a path from the table, where the first is false.

## Not modelled

Text on the screen and the A20 switch, which nothing later depends on; `strcpy` and
`strcat`, `hexdump`, `resolve_dll_function_by_ordinal`, `enable_level5_paging`, the dynamic
array macros and PCI, which have no caller; the file system's stubs, which keep nothing; the
fields of the TSS, for a change of privilege that no code makes; the 64-bit entry, which the
CPU cannot reach in long mode; the drivers and DLLs, payloads; build scripts. The heap has
one region, as `alloc_init` leaves it on the makefile's machine. Requests near 2^32 are
outside runs and proofs. `MonoFs` takes images with no header across a sector border
(`ImageAssumption`; `FsDisk` has them), and a refused allocation there ends the run, as the
code writes through NULL.

## Plan

1. A heap of several regions with their EntryHeaders, composed with `Boot`.
2. `NoLeak` and `FileStore` with the file names copied into the table, as a repair of
   `mono_fs.c:68` would have it.
