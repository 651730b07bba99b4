------------------------------- MODULE MonoFs -------------------------------
(***************************************************************************)
(* The monolithic file system of mono_fs.c over the kernel heap: the       *)
(* linear search of the image, the table of five virtual files that caches *)
(* its answers, and every allocation get_file_content makes on the way.    *)
(*                                                                         *)
(* Callers name a file by a pointer.  The table keeps that pointer, not    *)
(* the name, so the model keeps the text that is in memory: a literal of   *)
(* the kernel image stays for ever, a path in a heap buffer is gone once   *)
(* its bytes are written again.  The kernel is single threaded: a call is  *)
(* one step.                                                               *)
(***************************************************************************)
EXTENDS HeapOps, Sequences

CONSTANTS
    Image,      \* the files in image order: [name, data] records, data a length
    NameLen,    \* name -> its length, for every name in the image or asked for
    Literals,   \* names some code asks for by a string literal
    Dll,        \* driver name -> path of the DLL its imports name ("dll/...")
    Imports     \* bound: imports resolved by load_driver

VARIABLES
    heap,       \* the kernel heap, see HeapOps
    text,       \* address -> file name written there and not overwritten
    virtual_file_list,
    mounted,    \* fs_header has been read: its size is no longer 0
    open,       \* FileContent address -> [raw, asked, got, lent]
    notes       \* addresses of debug_alloc's nodes and messages, never freed

vars == <<heap, text, virtual_file_list, mounted, open, notes>>

-----------------------------------------------------------------------------
(* Sizes and layout                                                        *)

LBA_SIZE == 512
START == 64 * 512 * 3       \* MONO_FS_START_ADDRESS
FsHeaderSize == 8
FileHeaderSize == 11
DiskAddressSize == 8
FileContentSize == 8
NodeSize == 8
NoteSize == 31              \* "driver_loader: dll path buffer" and its NUL
StackLocal == 523264        \* dumb_file_search's file_header: below the heap
Slots == 0 .. 4

Total(f) == FileHeaderSize + NameLen[Image[f].name] + Image[f].data
Ends[f \in 0 .. Len(Image)] == IF f = 0 THEN FsHeaderSize ELSE Ends[f - 1] + Total(f)
Offset(f) == Ends[f - 1]
DiskAddress(f) == <<((START + Offset(f)) \div LBA_SIZE) % 65536,
                    (START + Offset(f)) % LBA_SIZE>>

\* The image is one build.py can pack and the driver can address: names are
\* unique, an lba fits DiskAddress.arg1, and no file header straddles a sector
\* (get_file_content reads it from the first one alone).
ASSUME ImageAssumption ==
    /\ Image \in Seq([name: DOMAIN NameLen, data: Nat])
    /\ NameLen \in [DOMAIN NameLen -> Nat]
    /\ \A d \in DOMAIN Dll : Dll[d] \in DOMAIN NameLen
    /\ \A f, g \in DOMAIN Image : Image[f].name = Image[g].name => f = g
    /\ \A f \in DOMAIN Image : /\ START + Offset(f) < 65536 * LBA_SIZE
                              /\ DiskAddress(f)[2] + FileHeaderSize <= LBA_SIZE
    /\ Literals \subseteq {Image[f].name : f \in DOMAIN Image} /\ DOMAIN Dll \subseteq Literals

\* Each literal has an address of its own in the kernel image.
LiteralAt(name) == 1000 + CHOOSE f \in DOMAIN Image : Image[f].name = name

Junk == "junk"
NameAt(T, p) == IF p \in DOMAIN T THEN T[p] ELSE Junk

\* The bytes from .. to - 1 are written: the text in them is gone.
Written(T, from, to) ==
    LET kept == {p \in DOMAIN T : p < Base \/ Apart(p, NameLen[T[p]] + 1, from, to - from)}
    IN  [p \in kept |-> T[p]]

-----------------------------------------------------------------------------
(* A call in progress is a record m of the memory it works on and of its C  *)
(* locals; each step below takes one and returns the next.                  *)
(*   heap, text, files   the state it will leave                            *)
(*   found, from         what dumb_file_search answered: a disk address     *)
(*   got                 the file get_file_content read                     *)
(*   ptr                 local pointer -> address                           *)

Locals == {"name", "addr", "buffer", "raw", "content", "node", "note", "path"}
Call == [heap |-> heap, text |-> text, files |-> virtual_file_list, found |-> FALSE,
         from |-> <<0, 0>>, got |-> Junk, ptr |-> [x \in Locals |-> Null]]

\* x = malloc(s), all of it written by the caller.  A refused request is written
\* through NULL, which the code never checks.
Granted(m, x, s, p) ==
    [m EXCEPT !.heap = AfterFill(AfterAlloc(@, s), p, s),
              !.text = Written(@, p - BlockHdr, p + s),
              !.ptr[x] = p]
Take(m, x, s) ==
    IF CanAlloc(m.heap, s) THEN Granted(m, x, s, AllocPtr(m.heap, s))
                           ELSE [m EXCEPT !.heap.intact = FALSE, !.ptr[x] = Null]
GiveAt(m, p) == [m EXCEPT !.heap = AfterFree(@, p)]
Give(m, x) == GiveAt(m, m.ptr[x])
Borrow(m, x, s) == Give(Take(m, x, s), x)

\* A name is written to where local x points.  Through NULL, after which nothing is
\* claimed, it reaches no text that is kept here.
Named(m, x, name) ==
    IF m.ptr[x] < Base THEN m
    ELSE [m EXCEPT !.text = [p \in DOMAIN @ \cup {m.ptr[x]} |->
                               IF p = m.ptr[x] THEN name ELSE @[p]]]

-----------------------------------------------------------------------------
(* The table of virtual files                                              *)

NoFile == [disk_address |-> <<0, 0>>, file_header |-> Null, file_name |-> Null,
           file_data |-> 0, times_accessed |-> 0]

\* What _add_file_to_virtual_file_list stores for file f asked for by pointer p.
Slot(f, address, name, times) ==
    [disk_address |-> address, file_header |-> StackLocal, file_name |-> name,
     file_data |-> Offset(f) + FileHeaderSize + NameLen[Image[f].name],
     times_accessed |-> times]
NewSlotNoStart(f, p) ==                                                \* mutant
    Slot(f, <<Offset(f) \div LBA_SIZE, Offset(f) % LBA_SIZE>>, p, 1)
NewSlot(f, p) == Slot(f, DiskAddress(f), p, 1)

Filled(V, i) == V[i].file_header # Null

\* _is_file_in_virtual_file_list: the slots strcmp accepts.
HitsAny(m, name) == {i \in Slots : Filled(m.files, i)}                 \* mutant
Hits(m, name) ==
    {i \in Slots : Filled(m.files, i) /\ NameAt(m.text, m.files[i].file_name) = name}

\* The slot _add_file_to_virtual_file_list replaces: a later empty slot wins
\* over an earlier one, and with none empty only a smaller count does.
Worse(V, best, i) ==
    IF V[i].times_accessed < V[best].times_accessed \/ ~Filled(V, i) THEN i ELSE best
Victim(V) == Worse(V, Worse(V, Worse(V, Worse(V, 0, 1), 2), 3), 4)

\* The three frees of an old entry: a stack address, the caller's pointer and
\* an offset into the image.
Evict(m, file) ==
    IF file.file_header = Null THEN m
    ELSE GiveAt(GiveAt(GiveAt(m, file.file_header), file.file_name), file.file_data)

Replace(m, i, f, p) == [Evict(m, m.files[i]) EXCEPT !.files[i] = NewSlot(f, p)]

-----------------------------------------------------------------------------
(* dumb_file_search                                                        *)

\* A file's name is read into a buffer, which is freed with the name still in it.
Looked(m, g) ==
    Give(Named(Take(m, "name", NameLen[Image[g].name] + 1), "name", Image[g].name), "name")

\* Each file header up to f is read, and its name.
Scan(m, f) ==
    LET scanned[g \in 0 .. Len(Image)] == IF g = 0 THEN m ELSE Looked(scanned[g - 1], g)
    IN  scanned[f]

\* The file with the asked name, 0 for none; before mono_fs_init the size is 0
\* and nothing is searched.
Position(name) ==
    IF mounted /\ \E f \in DOMAIN Image : Image[f].name = name
      THEN CHOOSE f \in DOMAIN Image : Image[f].name = name ELSE 0

Answer(m, address) ==
    [Take(m, "addr", DiskAddressSize) EXCEPT !.found = TRUE, !.from = address]

Hit(m, i) == Answer(m, m.files[i].disk_address)
Miss(m, f, p) == Replace(Answer(Scan(m, f), DiskAddress(f)), Victim(m.files), f, p)
Absent(m) == IF mounted THEN Scan(m, Len(Image)) ELSE m

SearchFor(m, name, p) ==
    IF Hits(m, name) # {} THEN Hit(m, Min(Hits(m, name)))
    ELSE IF Position(name) # 0 THEN Miss(m, Position(name), p)
    ELSE Absent(m)

\* dumb_file_search(p)
Search(m, p) == SearchFor(m, NameAt(m.text, p), p)

-----------------------------------------------------------------------------
(* get_file_content                                                        *)

FileAt(da) == CHOOSE f \in DOMAIN Image : DiskAddress(f) = da
Lbas(f) == (Total(f) + DiskAddress(f)[2] + LBA_SIZE - 1) \div LBA_SIZE

\* The sector buffer goes back once the data has been copied out of it.
DiscardRaw(m) == Give(m, "raw")                                        \* mutant
Discard(m) == Give(m, "buffer")

\* The sectors are read into a buffer, the file's data is copied out of it and
\* wrapped in a FileContent, and the found disk address is freed.
Copied(m, f) == Discard(Take(Take(m, "buffer", Lbas(f) * LBA_SIZE), "raw", Image[f].data))
Fetch(m, f) ==
    [Give(Take(Copied(m, f), "content", FileContentSize), "addr") EXCEPT !.got = Image[f].name]

Deliver(m) == IF m.found THEN Fetch(m, FileAt(m.from)) ELSE m

\* get_file_content(p)
Content(m, p) == Deliver(Search(m, p))

\* The caller's record of what it asked for and what it was given.
Opened(m, name, lent) ==
    IF m.found
      THEN [c \in DOMAIN open \cup {m.ptr["content"]} |->
              IF c = m.ptr["content"]
                THEN [raw |-> m.ptr["raw"], asked |-> name, got |-> m.got, lent |-> lent]
                ELSE open[c]]
      ELSE open

\* The state a finished call leaves.
Leaves(m) == heap' = m.heap /\ text' = m.text /\ virtual_file_list' = m.files

-----------------------------------------------------------------------------
Init ==
    /\ heap = EmptyHeap
    /\ text = [p \in {LiteralAt(n) : n \in Literals} |-> Image[p - 1000].name]
    /\ virtual_file_list = [i \in Slots |-> NoFile]
    /\ mounted = FALSE
    /\ open = [c \in {} |-> NoFile]
    /\ notes = {}

\* mono_fs_init: the header sector is read through a borrowed buffer.
Mount ==
    /\ heap.intact /\ ~mounted
    /\ Leaves(Borrow(Call, "buffer", LBA_SIZE))
    /\ mounted' = TRUE
    /\ UNCHANGED <<open, notes>>

Lent == {c \in DOMAIN open : open[c].lent}

\* print_mono_fs or load_driver opens a file by a literal.  Each frees its file
\* before it returns, so one at a time is lent; before mono_fs_init the search
\* finds nothing and both panic, which halts the machine.
OpenLiteral(name) ==
    /\ heap.intact /\ mounted /\ Lent = {}
    /\ \E m \in {Content(Call, LiteralAt(name))} :
         Leaves(m) /\ open' = Opened(m, name, TRUE)
    /\ UNCHANGED <<mounted, notes>>

\* free_file_content.
Close(c) ==
    /\ heap.intact
    /\ heap' = AfterFree(AfterFree(heap, open[c].raw), c)
    /\ open' = [d \in DOMAIN open \ {c} |-> open[d]]
    /\ UNCHANGED <<text, virtual_file_list, mounted, notes>>

\* debug_alloc(size of the path): a list node, the message and the path buffer,
\* into which snprintf writes the path.
PathBuffer(m, name) ==
    Take(Take(Take(m, "node", NodeSize), "note", NoteSize), "path", NameLen[name] + 1)

\* load_driver's last act for an import, on every path: the path buffer is freed.
ReturnLost(m) == IF m.found THEN Give(m, "path") ELSE m                \* mutant
Return(m) == Give(m, "path")

ParseDll(m) == Return(Content(m, m.ptr["path"]))

\* One import by name of load_driver, which has driver c open: parse_dll opens
\* the DLL if the image has it and never closes it.
Import(c) ==
    /\ heap.intact /\ open[c].asked \in DOMAIN Dll /\ Cardinality(notes) < 2 * Imports
    /\ \E name \in {Dll[open[c].asked]} :
       \E m \in {ParseDll(Named(PathBuffer(Call, name), "path", name))} :
         /\ Leaves(m)
         /\ open' = Opened(m, name, FALSE)
         /\ notes' = notes \cup {m.ptr["node"], m.ptr["note"]}
    /\ UNCHANGED mounted

Next ==
    \/ Mount
    \/ \E name \in Literals : OpenLiteral(name)
    \/ \E c \in Lent : Close(c)
    \/ \E c \in Lent : Import(c)

Spec == Init /\ [][Next]_vars

-----------------------------------------------------------------------------
(* Properties                                                              *)

\* A caller is given the file it asked for, from the cache or from the disk:
\* what load_driver and parse_dll report as loaded (dll_loader.c:17
\* "loaded dll = %s") is what they got.
RightFile == heap.intact => \A c \in DOMAIN open : open[c].asked = open[c].got

\* What the table says about a name is what the image says: the file with a
\* filled slot's name is at the slot's disk address.
CacheCoherent ==
    \A i \in Slots : Filled(virtual_file_list, i) =>
       \E f \in DOMAIN Image :
         /\ Image[f].name = NameAt(text, virtual_file_list[i].file_name)
         /\ DiskAddress(f) = virtual_file_list[i].disk_address

\* The live blocks are what callers and debug_alloc still hold: no path through
\* get_file_content keeps one of its buffers or frees a block of somebody else.
NoLeak ==
    heap.intact =>
      {Data(a) : a \in Live(heap)} = DOMAIN open \cup {open[c].raw : c \in DOMAIN open} \cup notes

\* What a handle gives now: the file read into it, while its blocks are allocated.
Gives(c) == IF IsPointing(heap, c) /\ IsPointing(heap, open[c].raw) THEN open[c].got ELSE Junk

\* Refinement: whatever the table caches and evicts, callers have a file store. A
\* handle is nobody else's, gives the file asked for, and goes on to until it is
\* freed: no later call, eviction or import takes its blocks (mono_fs.c:46-151).
Store == INSTANCE FileStore WITH
    Stored <- {Image[f].name : f \in DOMAIN Image},
    handles <- [c \in DOMAIN open |-> [asked |-> open[c].asked, gives |-> Gives(c)]]
StoreSpec == Store!Spec

\* Without imports the file system's own mix of sizes never lets a block run into the
\* next block's header, whatever the image (alloc.h:13). A path and a message of the
\* wrong length do.
HeapIntact == heap.intact

\* A caller is given another file than it asked for only by a slot whose name is no
\* literal's: a pointer into the heap whose bytes may be another name by now. It then
\* gets the file at that slot's disk address (mono_fs.c:34-44, 66, 74-79).
OnlyHeapNamesMislead ==
    [][\A c \in DOMAIN open' : heap'.intact /\ c \notin DOMAIN open /\ open'[c].asked # open'[c].got =>
         \E i \in Slots, f \in DOMAIN Image :
           /\ Filled(virtual_file_list, i) /\ virtual_file_list[i].file_name >= Base
           /\ DiskAddress(f) = virtual_file_list[i].disk_address /\ Image[f].name = open'[c].got]_vars

-----------------------------------------------------------------------------
(* Conditions under which the theorems of MonoFsProofs hold                *)

\* The sizes malloc is asked for.
Asked ==
    {LBA_SIZE, DiskAddressSize, FileContentSize, NodeSize, NoteSize}
      \cup {NameLen[n] + 1 : n \in DOMAIN NameLen}
      \cup {Lbas(f) * LBA_SIZE : f \in DOMAIN Image} \cup {Image[f].data : f \in DOMAIN Image}

\* Each size fits in the empty region, and no sum alloc forms reaches 2^32.
SizesFit ==
    /\ \A s \in Asked : EntryHdr + BlockHdr + s <= Length
    /\ \A s, t \in Asked : RegionEnd + EntryHdr + 3 * BlockHdr + s + t < Word

\* The kernel image, the stack and every offset into the image are numbers below the
\* heap's first address (1 MB): free ignores a literal's address, StackLocal and a
\* file_data.
BelowHeap ==
    StackLocal < Base /\ \A f \in DOMAIN Image : 1000 + f < Base /\ Ends[f] < Base

\* A file asked for by a literal is not empty, and the empty region has room for what
\* get_file_content takes at a time: the disk address, the file's sectors and its data.
RoomToOpen ==
    \A f \in DOMAIN Image : Image[f].name \in Literals =>
      /\ Image[f].data > 0
      /\ EntryHdr + 3 * BlockHdr + DiskAddressSize + Lbas(f) * LBA_SIZE + Image[f].data <= Length

\* No import names a file the image has.
DllsMissing == \A d \in DOMAIN Dll, f \in DOMAIN Image : Dll[d] # Image[f].name

\* No slot's name is a pointer into the heap: what the table lives by, and a search for
\* a path in a buffer ends (mono_fs.c:66).
NamesStay == \A i \in Slots : virtual_file_list[i].file_name < Base

\* The one slot that is ever evicted holds no pointer into the heap.
NothingToLose == virtual_file_list[0].file_name < Base
=============================================================================
