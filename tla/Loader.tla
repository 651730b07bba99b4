------------------------------- MODULE Loader -------------------------------
(***************************************************************************)
(* load_driver of driver_loader.c with parse_dll and the PE helpers: the    *)
(* import table of one driver is walked through pointers into its file and  *)
(* each import is bound to an export of a DLL.  A file is a function from    *)
(* offsets to cells; a pointer is an address, and the driver's file lies at *)
(* Base and above, so that 0 is NULL and what is near it is low memory.     *)
(***************************************************************************)
EXTENDS Integers, Sequences, FiniteSetsExt

CONSTANTS
    Dlls,        \* name -> PE file, for every DLL there is
    Drivers,     \* the files load_driver is called for
    Base,        \* address of the driver's content
    StrayBound   \* bound: cells read outside the file, from 0 on or behind its end

\* What the headers of a file say.
Section == [va : Nat, size : Nat, raw : Nat]
DriverHeaders(f) == f.sections \in Seq(Section) /\ f.imports \in Nat /\ f.entry \in Nat
ExportDirectory(d) ==
    /\ d.sections \in Seq(Section) /\ d.count \in Nat
    /\ d.names \in Nat /\ d.ordinals \in Nat /\ d.functions \in Nat

ASSUME LoaderAssumption ==
    /\ Base \in Nat /\ StrayBound \in Nat /\ StrayBound < Base
    /\ \A f \in Drivers : DriverHeaders(f)
    /\ \A n \in DOMAIN Dlls : Dlls[n].mz /\ Dlls[n].exports # 0 => ExportDirectory(Dlls[n])

Null == 0
Undefined == "undefined"      \* what a variable never set or a dead frame shows

VARIABLES
    pc,          \* where load_driver is
    file,        \* the PE file of its argument
    image,       \* the driver's content: offset -> cell
    dll_name,    \* the local of that name
    directory,   \* import_directory
    scan,        \* import_directory_copy
    lookup, iat, \* the two thunk pointers
    result,      \* what parse_dll returned: status and DLL
    kept,        \* history: each result was still there when it was read
    entry        \* driver_entry_point

vars == <<pc, file, image, dll_name, directory, scan, lookup, iat, result, kept, entry>>

-----------------------------------------------------------------------------
(* Cells and pointers                                                      *)

Zero == <<"zero">>
Rva(a) == <<"rva", a>>
Number(k) == <<"number", k>>
OrdinalFlag == <<"ordinal">>
NameCell(n) == <<"name", n>>
Func(d, n) == <<"func", d, n>>
Descriptor(n, oft, ft) == <<"descriptor", n, oft, ft>>
Kind(c) == c[1]

\* rva_to_pointer: the first section whose virtual range holds the RVA.
Holds(s, rva) == rva >= s.va /\ rva < s.va + s.size
Raw(s, rva) == s.raw + (rva - s.va)
RvaToPointer(sections, rva) ==
    LET hit == {i \in DOMAIN sections : Holds(sections[i], rva)}
    IN  IF hit = {} THEN Null ELSE Base + Raw(sections[Min(hit)], rva)

Here(rva) == RvaToPointer(file.sections, rva)
Read(p) == image[p - Base]
InImage(p) == p - Base \in DOMAIN image

\* What a read through p may find: the cell of the file, or anything at all if it is
\* no entry of such a table, or if p is behind the file, where other heap blocks lie,
\* or near 0.
AnyThunk == {Zero, OrdinalFlag, Rva(1)}
AnyDescriptor == {Descriptor(0, 0, 0), Descriptor(1, 0, 0)}
IsThunk(c) == c \in {Zero, OrdinalFlag} \/ Kind(c) = "rva"
IsDescriptor(c) == Kind(c) \in {"zero", "descriptor"}
Thunks(p) == IF InImage(p) /\ IsThunk(Read(p)) THEN {Read(p)} ELSE AnyThunk
Descriptors(p) == IF InImage(p) /\ IsDescriptor(Read(p)) THEN {Read(p)} ELSE AnyDescriptor

\* A walk outside the file is followed for StrayBound cells.
Walkable(p) == p < StrayBound \/ \E k \in 0 .. StrayBound : InImage(p - k)

\* The fields of a descriptor, 0 in the terminator.
Field(d, k) == IF Kind(d) = "descriptor" THEN d[k] ELSE 0
NameRva(d) == Field(d, 2)
IatRva(d) == Field(d, 4)
LookupRva(d) == IF Field(d, 3) # 0 THEN Field(d, 3) ELSE Field(d, 4)

NoDll == [cells |-> <<>>]

\* The string a pointer shows.
StringAt(p) == IF InImage(p) /\ Kind(Read(p)) = "name" THEN Read(p)[2] ELSE Undefined

-----------------------------------------------------------------------------
(* parse_dll and resolve_dll_function_by_name                              *)

\* The status parse_dll returns.
Parse(n) == IF n = Undefined THEN 1
            ELSE IF n \notin DOMAIN Dlls THEN 2
            ELSE IF ~Dlls[n].mz THEN 3
            ELSE IF Dlls[n].exports = 0 THEN 4
            ELSE 0

\* The cell of a DLL k cells on from an RVA.  The export tables of a DLL lie in its
\* file.
DllCell(d, rva, k) == d.cells[RvaToPointer(d.sections, rva) + k - Base]

ByIndex(d, i) == i                                                     \* mutant
ByOrdinal(d, i) == DllCell(d, d.ordinals, i)[2]

Exported(d, i) == DllCell(d, DllCell(d, d.names, i)[2], 0)

Resolve(d, fn) ==
    LET hit == {i \in 0 .. d.count - 1 : Exported(d, i) = NameCell(fn)}
    IN  IF hit = {} THEN Zero
        ELSE DllCell(d, DllCell(d, d.functions, ByOrdinal(d, Min(hit)))[2], 0)

-----------------------------------------------------------------------------
(* load_driver                                                             *)

Init ==
    /\ pc = "start" /\ file \in Drivers
    /\ image = <<>> /\ dll_name = Undefined /\ directory = Null /\ scan = Null
    /\ lookup = Null /\ iat = Null /\ entry = Null /\ kept = TRUE
    /\ result = [status |-> 0, dll |-> NoDll, live |-> TRUE]

\* No such file, or no MZ: the kernel stops.
Panic ==
    /\ pc = "start"
    /\ file.found => ~file.mz
    /\ pc' = "panic"
    /\ UNCHANGED <<file, image, dll_name, directory, scan, lookup, iat, result, kept, entry>>

\* An empty import directory is only reported.
Open ==
    /\ pc = "start" /\ file.found /\ file.mz
    /\ image' = file.cells
    /\ directory' = Here(file.imports) /\ scan' = directory'
    /\ pc' = "names"
    /\ UNCHANGED <<file, dll_name, lookup, iat, result, kept, entry>>

\* One descriptor's DLL name; the loop keeps the last.
NextName ==
    /\ pc = "names" /\ Walkable(scan)
    /\ \E c \in Descriptors(scan) :
         /\ NameRva(c) # 0
         /\ dll_name' = StringAt(Here(NameRva(c)))
    /\ scan' = scan + 1
    /\ UNCHANGED <<pc, file, image, directory, lookup, iat, result, kept, entry>>

\* The tables are those of the first descriptor.
Tables ==
    /\ pc = "names"
    /\ \E c \in Descriptors(scan) : NameRva(c) = 0
    /\ \E c \in Descriptors(directory) :
         /\ lookup' = Here(LookupRva(c))
         /\ iat' = Here(IatRva(c))
    /\ pc' = "imports"
    /\ UNCHANGED <<file, image, dll_name, directory, scan, result, kept, entry>>

\* lookup++, iat++ of the loop.
AdvanceLookup == lookup' = lookup + 1 /\ iat' = iat                    \* mutant
AdvanceNone == lookup' = lookup /\ iat' = iat                          \* mutant
AdvanceWide == lookup' = lookup + 2 /\ iat' = iat + 2                  \* mutant
Advance == lookup' = lookup + 1 /\ iat' = iat + 1

ByOrdinalSkipped ==
    /\ pc = "imports" /\ Walkable(lookup)
    /\ OrdinalFlag \in Thunks(lookup)
    /\ Advance
    /\ UNCHANGED <<pc, file, image, dll_name, directory, scan, result, kept, entry>>

\* parse_dll of the DLL named last.
ParseDll ==
    /\ pc = "imports" /\ Walkable(lookup)
    /\ \E c \in Thunks(lookup) : Kind(c) = "rva"
    /\ LET status == Parse(dll_name)
       IN  result' = [status |-> status, live |-> TRUE,
                      dll |-> IF status = 0 THEN Dlls[dll_name] ELSE NoDll]
    /\ pc' = "parsed"
    /\ UNCHANGED <<file, image, dll_name, directory, scan, lookup, iat, kept, entry>>

NotLoaded ==
    /\ pc = "parsed" /\ result.status # 0
    /\ Advance /\ pc' = "imports"
    /\ UNCHANGED <<file, image, dll_name, directory, scan, result, kept, entry>>

\* parse_dll returns compound literals of its own frame.  Its status is read at
\* once; the messages after it use the same stack before the value is read, which
\* may then be gone.
Loaded ==
    /\ pc = "parsed" /\ result.status = 0
    /\ \E live \in BOOLEAN :
         /\ result' = [result EXCEPT !.live = live]
         /\ kept' = (kept /\ live)
    /\ pc' = "resolve"
    /\ UNCHANGED <<file, image, dll_name, directory, scan, lookup, iat, entry>>

\* What resolving the import in the DLL of the result may give.
Resolved(fn) == IF result.live THEN {Resolve(result.dll, fn)} ELSE {Zero, Func(Undefined, fn)}

\* A slot outside the file is memory of somebody else.
Bind ==
    /\ pc = "resolve"
    /\ \E c \in {t \in Thunks(lookup) : Kind(t) = "rva"} :
         \E f \in Resolved(StringAt(Here(c[2]))) :
           image' = IF f = Zero \/ ~InImage(iat) THEN image ELSE [image EXCEPT ![iat - Base] = f]
    /\ Advance /\ pc' = "imports"
    /\ UNCHANGED <<file, dll_name, directory, scan, result, kept, entry>>

\* A value that is gone may point where nothing is mapped: the fault repeats.
Fault ==
    /\ pc = "resolve" /\ ~result.live
    /\ pc' = "fault"
    /\ UNCHANGED <<file, image, dll_name, directory, scan, lookup, iat, result, kept, entry>>

\* The terminator: the driver is started.
Start ==
    /\ pc = "imports"
    /\ Zero \in Thunks(lookup)
    /\ entry' = Here(file.entry)
    /\ pc' = "running"
    /\ UNCHANGED <<file, image, dll_name, directory, scan, lookup, iat, result, kept>>

\* main returns and the content is freed.
Exit ==
    /\ pc = "running"
    /\ pc' = "done"
    /\ UNCHANGED <<file, image, dll_name, directory, scan, lookup, iat, result, kept, entry>>

Next == \/ Panic \/ Open \/ NextName \/ Tables \/ ByOrdinalSkipped \/ ParseDll
        \/ NotLoaded \/ Loaded \/ Bind \/ Fault \/ Start \/ Exit

\* One processor runs the loader; nothing else is to be scheduled.
Spec == Init /\ [][Next]_vars /\ WF_vars(Next)

-----------------------------------------------------------------------------
(* Properties                                                              *)

\* What the slot of import w is to hold: the tables are the first descriptor's,
\* the name is the last one's.
LastDll == file.dlls[Len(file.dlls)]
Wanted(w) == IF w.descriptor = 1 /\ Parse(LastDll) = 0 /\ w.fn \in Dlls[LastDll].exported
               THEN Func(LastDll, w.fn) ELSE file.cells[w.slot]

\* When the driver starts, every import by name is bound to the function of that
\* name, if the DLL exports it, and is untouched if not; with several descriptors
\* this is so for the first one's imports in the last one's DLL, and the others
\* are untouched.  Only an import whose result was overwritten before it was read
\* may hold something else, and then it is still a first descriptor's
\* (driver_loader.c:61-130, dll_loader.c:52).
BoundRight ==
    pc \in {"running", "done"} =>
      \A w \in file.wanted :
        \/ image[w.slot] = Wanted(w)
        \/ ~kept /\ w.descriptor = 1 /\ image[w.slot] \in {file.cells[w.slot], Func(Undefined, w.fn)}

\* What an import table is in the loader: the cells of the driver's file, which of
\* them are to hold what, and whether the driver runs.
Table == IF pc \in {"start", "panic"} THEN file.cells ELSE image
Legal == [o \in {w.slot : w \in file.wanted} |->
            {Func(d, w.fn) : d \in DOMAIN Dlls \cup {Undefined},
                             w \in {v \in file.wanted : v.slot = o}}]
Running == pc \in {"running", "done"}
Imports == INSTANCE ImportTable WITH
    given <- file.cells, table <- Table, legal <- Legal, running <- Running

\* load_driver fills an import table: it writes a slot at most once, with a
\* function of the name the slot asks for, writes nothing else of the driver's
\* file, and nothing at all once the driver runs, also where the lookup table it
\* walks is the table it fills (driver_loader.c:68-130).
FillsTable == Imports!Spec

\* Every descriptor and every table entry the loader reads, and every slot it is about
\* to write, is a cell of the driver's file: it walks neither low memory nor what the
\* heap has behind the file (driver_loader.c:61-128).
LookupInImage ==
    /\ pc = "names" => InImage(directory) /\ InImage(scan)
    /\ pc \in {"imports", "parsed", "resolve"} => InImage(lookup)
    /\ pc \in {"parsed", "resolve"} => InImage(iat)

\* The loader comes to an end: the driver has run, or the kernel has stopped,
\* unless a result was gone when it was read.
Terminates == <>(pc \in {"done", "panic"} \/ ~kept)

-----------------------------------------------------------------------------
(* Conditions under which the theorems hold: what a linker's files are like.  *)
(* They say where a table lies without following the code's pointers.         *)

\* The file offset of an RVA.
LiesAt(f, rva, o) ==
    \E i \in DOMAIN f.sections : Holds(f.sections[i], rva) /\ o = Raw(f.sections[i], rva)
InFile(f, rva) == rva \in Nat /\ \E o \in DOMAIN f.cells : LiesAt(f, rva, o)
At(f, rva) == CHOOSE o \in DOMAIN f.cells : LiesAt(f, rva, o)

SectionsApart(f) ==
    \A i, j \in DOMAIN f.sections :
      i # j => \/ f.sections[i].va + f.sections[i].size <= f.sections[j].va
               \/ f.sections[j].va + f.sections[j].size <= f.sections[i].va

\* A cell that gives the RVA of a cell, and that cell.
Points(f, c) == Kind(c) = "rva" /\ InFile(f, c[2])
Target(f, c) == f.cells[At(f, c[2])]

\* Where the first descriptor's two tables begin.
FirstDescriptor(f) == f.cells[At(f, f.imports)]
LookupAt(f) == At(f, LookupRva(FirstDescriptor(f)))
IatAt(f) == At(f, IatRva(FirstDescriptor(f)))

\* The descriptors: one with a name for each DLL, and the terminator.
DescriptorsFormed(f) ==
    LET D == At(f, f.imports)
    IN  /\ f.dlls \in Seq(STRING) /\ f.dlls # <<>>
        /\ InFile(f, f.imports)
        /\ \A j \in 1 .. Len(f.dlls) :
             /\ D + j - 1 \in DOMAIN f.cells
             /\ LET c == f.cells[D + j - 1]
                IN  /\ Kind(c) = "descriptor" /\ c[2] # 0
                    /\ InFile(f, c[2]) /\ f.cells[At(f, c[2])] = NameCell(f.dlls[j])
        /\ D + Len(f.dlls) \in DOMAIN f.cells /\ f.cells[D + Len(f.dlls)] = Zero

\* The m entries of the first descriptor's tables, in file and in the list of
\* what is wanted; the IAT is the lookup table or apart from it, and no text.
TablesFormed(f, m) ==
    LET L == LookupAt(f)
        I == IatAt(f)
        Slots == I .. I + m - 1
    IN  /\ InFile(f, LookupRva(FirstDescriptor(f))) /\ InFile(f, IatRva(FirstDescriptor(f)))
        /\ L + m \in DOMAIN f.cells /\ f.cells[L + m] = Zero
        /\ L = I \/ L + m < I \/ I + m <= L
        /\ \A k \in 0 .. m - 1 :
             /\ L + k \in DOMAIN f.cells /\ I + k \in DOMAIN f.cells
             /\ LET c == f.cells[L + k]
                IN  c = OrdinalFlag
                    \/ /\ Points(f, c) /\ Kind(Target(f, c)) = "name" /\ At(f, c[2]) \notin Slots
                       /\ \E w \in f.wanted :
                            w.descriptor = 1 /\ w.slot = I + k /\ w.fn = Target(f, c)[2]
        /\ \A w \in f.wanted :
             IF w.descriptor = 1
               THEN \E k \in 0 .. m - 1 :
                      /\ w.slot = I + k /\ f.cells[L + k] # OrdinalFlag
                      /\ w.fn = Target(f, f.cells[L + k])[2]
               ELSE w.slot \in DOMAIN f.cells \ Slots

ImportsFormed(f) ==
    /\ SectionsApart(f)
    /\ DescriptorsFormed(f)
    /\ \E m \in 0 .. Cardinality(DOMAIN f.cells) : TablesFormed(f, m)

\* The i-th name of an export directory is x, and its ordinal leads to x.
Exports(n, i, x) ==
    LET d == Dlls[n]
        N == At(d, d.names) + i
        O == At(d, d.ordinals) + i
        F == At(d, d.functions) + d.cells[O][2]
    IN  /\ N \in DOMAIN d.cells /\ O \in DOMAIN d.cells /\ F \in DOMAIN d.cells
        /\ Points(d, d.cells[N]) /\ Target(d, d.cells[N]) = NameCell(x)
        /\ Kind(d.cells[O]) = "number" /\ d.cells[O][2] \in Nat
        /\ Points(d, d.cells[F]) /\ Target(d, d.cells[F]) = Func(n, x)

\* Its names are those of the functions exported.
ExportsFormed(n) ==
    LET d == Dlls[n]
    IN  /\ SectionsApart(d)
        /\ InFile(d, d.names) /\ InFile(d, d.ordinals) /\ InFile(d, d.functions)
        /\ \A i \in 0 .. d.count - 1 : \E x \in d.exported : Exports(n, i, x)
        /\ \A x \in d.exported : \E i \in 0 .. d.count - 1 : Exports(n, i, x)

FilesFormed ==
    /\ \A f \in Drivers : f.found /\ f.mz => ImportsFormed(f)
    /\ \A n \in DOMAIN Dlls : Dlls[n].mz /\ Dlls[n].exports # 0 => ExportsFormed(n)
=============================================================================
