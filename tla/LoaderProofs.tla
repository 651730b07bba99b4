---------------------------- MODULE LoaderProofs ----------------------------
(***************************************************************************)
(* Proofs about Loader: with files as a linker makes them, whatever becomes *)
(* of the results of parse_dll, the walk of the import loop stays in the    *)
(* driver's file, and the table it leaves is bound right.                   *)
(***************************************************************************)
EXTENDS Loader, TLAPS, NaturalsInduction, WellFoundedInduction

-----------------------------------------------------------------------------
(* The inductive invariant                                                 *)

\* The number of entries of a file's tables.
EntriesOf(f) == CHOOSE m \in 0 .. Cardinality(DOMAIN f.cells) : TablesFormed(f, m)
Entries == EntriesOf(file)

Places == {"start", "panic", "names", "imports", "parsed", "resolve", "fault", "running", "done"}

\* A file is walked once it is known to be one.
FileInv ==
    /\ file \in Drivers /\ pc \in Places
    /\ pc \notin {"start", "panic"} => file.found /\ file.mz

\* The walk over the descriptors: the name is that of the one before.
NamesInv ==
    pc = "names" =>
      /\ image = file.cells
      /\ directory = Base + At(file, file.imports)
      /\ \E j \in 0 .. Len(file.dlls) :
           /\ scan = Base + At(file, file.imports) + j
           /\ j > 0 => dll_name = file.dlls[j]

\* What the slot of an import may hold when the loader is past it.
SlotRight(w) ==
    \/ image[w.slot] = Wanted(w)
    \/ ~kept /\ w.descriptor = 1 /\ image[w.slot] \in {file.cells[w.slot], Func(Undefined, w.fn)}

\* The first k slots are filled, and no other cell has changed.
Filled(k) ==
    LET Past == IatAt(file) .. IatAt(file) + k - 1
    IN  /\ DOMAIN image = DOMAIN file.cells
        /\ \A o \in DOMAIN file.cells \ Past : image[o] = file.cells[o]
        /\ \A w \in file.wanted : w.slot \in Past => SlotRight(w)

\* The walk over the two tables, in step.
TablesInv ==
    pc \in {"imports", "parsed", "resolve"} =>
      /\ dll_name = LastDll
      /\ \E k \in 0 .. Entries :
           /\ lookup = Base + LookupAt(file) + k /\ iat = Base + IatAt(file) + k
           /\ Filled(k)
           /\ pc # "imports" => k < Entries /\ Kind(file.cells[LookupAt(file) + k]) = "rva"

\* What parse_dll gives for the last descriptor's DLL.
ResultOf(live) ==
    [status |-> Parse(LastDll), live |-> live,
     dll |-> IF Parse(LastDll) = 0 THEN Dlls[LastDll] ELSE NoDll]
ResultInv ==
    /\ pc = "parsed" => result = ResultOf(TRUE)
    /\ pc = "resolve" => Parse(LastDll) = 0 /\ \E live \in BOOLEAN :
                           result = ResultOf(live) /\ (kept => live)

\* The driver runs with all its slots filled.
DoneInv == pc \in {"running", "done"} => Filled(Entries)

LoaderInv == FileInv /\ NamesInv /\ TablesInv /\ ResultInv /\ DoneInv

-----------------------------------------------------------------------------
(* Pointers                                                                *)

\* What a section's header is made of.
LEMMA SectionFields ==
  ASSUME NEW S \in Seq(Section), NEW i \in DOMAIN S
  PROVE  S[i].va \in Nat /\ S[i].size \in Nat /\ S[i].raw \in Nat
<1>1. S[i] \in Section
  OBVIOUS
<1>2. QED
  BY <1>1 DEF Section

\* The code's pointer for an RVA of the file is that of the cell it means: of the
\* sections, which lie apart, just one holds it.
LEMMA PointerIsRight ==
  ASSUME NEW f, f.sections \in Seq(Section), SectionsApart(f), NEW rva, InFile(f, rva)
  PROVE  /\ At(f, rva) \in DOMAIN f.cells /\ At(f, rva) \in Nat
         /\ RvaToPointer(f.sections, rva) = Base + At(f, rva)
<1>1. At(f, rva) \in DOMAIN f.cells /\ LiesAt(f, rva, At(f, rva)) /\ rva \in Nat
  BY DEF InFile, At
<1>2. PICK i \in DOMAIN f.sections :
        Holds(f.sections[i], rva) /\ At(f, rva) = Raw(f.sections[i], rva)
  BY <1>1 DEF LiesAt
<1>3. At(f, rva) \in Nat
  BY <1>1, <1>2, SectionFields DEF Holds, Raw
<1>4. \A j \in DOMAIN f.sections : Holds(f.sections[j], rva) => j = i
  <2> SUFFICES ASSUME NEW j \in DOMAIN f.sections, Holds(f.sections[j], rva), j # i
               PROVE  FALSE
    OBVIOUS
  <2>1. /\ f.sections[i].va \in Nat /\ f.sections[i].size \in Nat
        /\ f.sections[j].va \in Nat /\ f.sections[j].size \in Nat
    BY SectionFields
  <2>2. \/ f.sections[i].va + f.sections[i].size <= f.sections[j].va
        \/ f.sections[j].va + f.sections[j].size <= f.sections[i].va
    BY DEF SectionsApart
  <2>3. QED
    BY <1>1, <1>2, <2>1, <2>2 DEF Holds
<1>5. {j \in DOMAIN f.sections : Holds(f.sections[j], rva)} = {i}
  BY <1>2, <1>4
<1>6. Min({i}) = i
  <2>1. i \in Nat
    OBVIOUS
  <2>2. QED
    BY <2>1 DEF Min
<1>7. RvaToPointer(f.sections, rva) = Base + Raw(f.sections[i], rva)
  BY <1>5, <1>6, Zenon DEF RvaToPointer
<1>8. QED
  BY <1>1, <1>2, <1>3, <1>7

-----------------------------------------------------------------------------
(* The driver's file                                                       *)

\* What is known of a file that is walked.
LEMMA DriverFormed ==
  ASSUME FilesFormed, NEW f \in Drivers, f.found, f.mz
  PROVE  /\ f.sections \in Seq(Section) /\ SectionsApart(f) /\ DescriptorsFormed(f)
         /\ EntriesOf(f) \in Nat /\ TablesFormed(f, EntriesOf(f))
<1>1. f.sections \in Seq(Section)
  BY LoaderAssumption DEF DriverHeaders
<1>2. ImportsFormed(f)
  BY DEF FilesFormed
<1>3. \E m \in 0 .. Cardinality(DOMAIN f.cells) : TablesFormed(f, m)
  BY <1>2 DEF ImportsFormed
<1>4. EntriesOf(f) \in 0 .. Cardinality(DOMAIN f.cells) /\ TablesFormed(f, EntriesOf(f))
  BY <1>3, Zenon DEF EntriesOf
<1>5. QED
  BY <1>1, <1>2, <1>4 DEF ImportsFormed

\* A cell of the driver's file, read through a pointer to it.
LEMMA ReadCell ==
  ASSUME NEW o \in Nat, o \in DOMAIN image
  PROVE  /\ Read(Base + o) = image[o] /\ InImage(Base + o)
         /\ IsThunk(image[o]) => Thunks(Base + o) = {image[o]}
         /\ IsDescriptor(image[o]) => Descriptors(Base + o) = {image[o]}
<1>1. (Base + o) - Base = o
  BY LoaderAssumption
<1>2. Read(Base + o) = image[o] /\ InImage(Base + o)
  BY <1>1 DEF Read, InImage
<1>3. QED
  BY <1>2 DEF Thunks, Descriptors

\* The descriptors of a file and their DLL names.
LEMMA DescriptorCells ==
  ASSUME FilesFormed, NEW f \in Drivers, f.found, f.mz, NEW j \in 1 .. Len(f.dlls)
  PROVE  LET o == At(f, f.imports) + j - 1
             c == f.cells[o]
         IN  /\ o \in DOMAIN f.cells /\ o \in Nat
             /\ Kind(c) = "descriptor" /\ c[2] # 0
             /\ At(f, c[2]) \in DOMAIN f.cells /\ At(f, c[2]) \in Nat
             /\ RvaToPointer(f.sections, c[2]) = Base + At(f, c[2])
             /\ f.cells[At(f, c[2])] = NameCell(f.dlls[j])
<1> DEFINE o == At(f, f.imports) + j - 1
           c == f.cells[o]
<1>1. /\ o \in DOMAIN f.cells /\ Kind(c) = "descriptor" /\ c[2] # 0 /\ InFile(f, c[2])
      /\ f.cells[At(f, c[2])] = NameCell(f.dlls[j])
  BY DriverFormed DEF DescriptorsFormed
<1>2. InFile(f, f.imports)
  BY DriverFormed DEF DescriptorsFormed
<1>3. At(f, f.imports) \in Nat
  BY <1>2, DriverFormed, PointerIsRight
<1>4. o \in Nat
  BY <1>3
<1>5. /\ At(f, c[2]) \in DOMAIN f.cells /\ At(f, c[2]) \in Nat
      /\ RvaToPointer(f.sections, c[2]) = Base + At(f, c[2])
  <2> HIDE DEF o
  <2>1. InFile(f, c[2])
    BY <1>1
  <2> HIDE DEF c
  <2>2. QED
    BY <2>1, DriverFormed, PointerIsRight
<1>6. QED
  BY <1>1, <1>4, <1>5

\* The terminator.
LEMMA Terminator ==
  ASSUME FilesFormed, NEW f \in Drivers, f.found, f.mz
  PROVE  LET o == At(f, f.imports) + Len(f.dlls)
         IN  /\ Len(f.dlls) \in Nat \ {0}
             /\ At(f, f.imports) \in Nat
             /\ RvaToPointer(f.sections, f.imports) = Base + At(f, f.imports)
             /\ o \in DOMAIN f.cells /\ f.cells[o] = Zero
<1>1. InFile(f, f.imports) /\ f.dlls \in Seq(STRING) /\ f.dlls # <<>>
  BY DriverFormed DEF DescriptorsFormed
<1>2. Len(f.dlls) \in Nat \ {0}
  BY <1>1
<1>3. /\ At(f, f.imports) + Len(f.dlls) \in DOMAIN f.cells
      /\ f.cells[At(f, f.imports) + Len(f.dlls)] = Zero
  BY DriverFormed DEF DescriptorsFormed
<1>4. QED
  BY <1>1, <1>2, <1>3, DriverFormed, PointerIsRight

\* The tables of a file, each up to its terminator.  A cell of the lookup table is
\* read before it is written, if ever.
LEMMA TablePlaces ==
  ASSUME FilesFormed, NEW f \in Drivers, f.found, f.mz
  PROVE  LET L == LookupAt(f)
             I == IatAt(f)
             m == EntriesOf(f)
         IN  /\ L \in Nat /\ I \in Nat /\ m \in Nat
             /\ RvaToPointer(f.sections, LookupRva(FirstDescriptor(f))) = Base + L
             /\ RvaToPointer(f.sections, IatRva(FirstDescriptor(f))) = Base + I
             /\ L + m \in DOMAIN f.cells /\ f.cells[L + m] = Zero
             /\ \A k \in 0 .. m - 1 : L + k \in DOMAIN f.cells /\ I + k \in DOMAIN f.cells
             /\ \A k \in 0 .. m : L + k \notin I .. I + k - 1
<1> DEFINE L == LookupAt(f)
           I == IatAt(f)
           m == EntriesOf(f)
<1>1. TablesFormed(f, m) /\ m \in Nat
  BY DriverFormed
<1>2. /\ InFile(f, LookupRva(FirstDescriptor(f))) /\ InFile(f, IatRva(FirstDescriptor(f)))
      /\ L + m \in DOMAIN f.cells /\ f.cells[L + m] = Zero
      /\ L = I \/ L + m < I \/ I + m <= L
      /\ \A k \in 0 .. m - 1 : L + k \in DOMAIN f.cells /\ I + k \in DOMAIN f.cells
  BY <1>1, Zenon DEF TablesFormed
<1>3. L \in Nat /\ RvaToPointer(f.sections, LookupRva(FirstDescriptor(f))) = Base + L
  BY <1>2, DriverFormed, PointerIsRight DEF LookupAt
<1>4. I \in Nat /\ RvaToPointer(f.sections, IatRva(FirstDescriptor(f))) = Base + I
  BY <1>2, DriverFormed, PointerIsRight DEF IatAt
<1>5. \A k \in 0 .. m : L + k \notin I .. I + k - 1
  <2> HIDE DEF L, I, m
  <2>1. QED
    BY <1>1, <1>2, <1>3, <1>4
<1>6. QED
  BY <1>1, <1>2, <1>3, <1>4, <1>5

\* The function the k-th entry asks for, if it asks by name.
FnOf(f, k) == Target(f, f.cells[LookupAt(f) + k])[2]

\* An entry by name leads to a name outside the slots, and is wanted.
LEMMA NamedEntry ==
  ASSUME FilesFormed, NEW f \in Drivers, f.found, f.mz,
         NEW k \in 0 .. EntriesOf(f) - 1, Kind(f.cells[LookupAt(f) + k]) = "rva"
  PROVE  LET o == At(f, f.cells[LookupAt(f) + k][2])
         IN  /\ o \in DOMAIN f.cells /\ o \in Nat
             /\ o \notin IatAt(f) .. IatAt(f) + EntriesOf(f) - 1
             /\ RvaToPointer(f.sections, f.cells[LookupAt(f) + k][2]) = Base + o
             /\ Kind(f.cells[o]) = "name" /\ f.cells[o][2] = FnOf(f, k)
             /\ \E w \in f.wanted : w.descriptor = 1 /\ w.slot = IatAt(f) + k /\ w.fn = FnOf(f, k)
<1> DEFINE c == f.cells[LookupAt(f) + k]
<1>1. c # OrdinalFlag
  BY DEF OrdinalFlag, Kind
<1>2. /\ Points(f, c) /\ Kind(Target(f, c)) = "name"
      /\ At(f, c[2]) \notin IatAt(f) .. IatAt(f) + EntriesOf(f) - 1
      /\ \E w \in f.wanted : w.descriptor = 1 /\ w.slot = IatAt(f) + k /\ w.fn = Target(f, c)[2]
  BY <1>1, DriverFormed DEF TablesFormed
<1> HIDE DEF c
<1>3. InFile(f, c[2])
  BY <1>2 DEF Points
<1>4. /\ At(f, c[2]) \in DOMAIN f.cells /\ At(f, c[2]) \in Nat
      /\ RvaToPointer(f.sections, c[2]) = Base + At(f, c[2])
  BY <1>3, DriverFormed, PointerIsRight
<1>5. QED
  BY <1>2, <1>4 DEF c, FnOf, Target

\* What is wanted: each slot of the first descriptor's table has its entry by name,
\* and every other slot lies elsewhere.
LEMMA WantedEntry ==
  ASSUME FilesFormed, NEW f \in Drivers, f.found, f.mz, NEW w \in f.wanted
  PROVE  /\ w.slot \in DOMAIN f.cells
         /\ w.descriptor # 1 => w.slot \notin IatAt(f) .. IatAt(f) + EntriesOf(f) - 1
         /\ w.descriptor = 1 =>
              \E k \in 0 .. EntriesOf(f) - 1 :
                /\ w.slot = IatAt(f) + k /\ w.fn = FnOf(f, k)
                /\ f.cells[LookupAt(f) + k] # OrdinalFlag
<1>1. IF w.descriptor = 1
        THEN \E k \in 0 .. EntriesOf(f) - 1 :
               /\ w.slot = IatAt(f) + k /\ f.cells[LookupAt(f) + k] # OrdinalFlag
               /\ w.fn = Target(f, f.cells[LookupAt(f) + k])[2]
        ELSE w.slot \in DOMAIN f.cells \ (IatAt(f) .. IatAt(f) + EntriesOf(f) - 1)
  BY DriverFormed DEF TablesFormed
<1>2. \A k \in 0 .. EntriesOf(f) - 1 : IatAt(f) + k \in DOMAIN f.cells
  BY TablePlaces
<1>3. QED
  BY <1>1, <1>2 DEF FnOf

-----------------------------------------------------------------------------
(* The DLLs' files                                                         *)

\* A cell of a DLL behind an RVA of its file.
LEMMA DllCellIs ==
  ASSUME NEW d, d.sections \in Seq(Section), SectionsApart(d), NEW rva, InFile(d, rva),
         NEW k \in Nat, At(d, rva) + k \in DOMAIN d.cells
  PROVE  DllCell(d, rva, k) = d.cells[At(d, rva) + k]
<1>1. At(d, rva) \in Nat /\ RvaToPointer(d.sections, rva) = Base + At(d, rva)
  BY PointerIsRight
<1>2. RvaToPointer(d.sections, rva) + k - Base = At(d, rva) + k
  BY <1>1, LoaderAssumption
<1>3. QED
  BY <1>2, Zenon DEF DllCell

\* What the code reads for the i-th name: the name, its ordinal, its function.
LEMMA EntryOfName ==
  ASSUME FilesFormed, NEW n \in DOMAIN Dlls, Dlls[n].mz, Dlls[n].exports # 0,
         NEW i \in 0 .. Dlls[n].count - 1, NEW x, Exports(n, i, x)
  PROVE  LET d == Dlls[n]
         IN  /\ Exported(d, i) = NameCell(x)
             /\ DllCell(d, DllCell(d, d.functions, ByOrdinal(d, i))[2], 0) = Func(n, x)
<1> DEFINE d == Dlls[n]
           N == d.cells[At(d, d.names) + i]
           O == d.cells[At(d, d.ordinals) + i]
           F == d.cells[At(d, d.functions) + O[2]]
<1>1. d.sections \in Seq(Section) /\ d.count \in Nat
  BY LoaderAssumption DEF ExportDirectory
<1>2. /\ SectionsApart(d)
      /\ InFile(d, d.names) /\ InFile(d, d.ordinals) /\ InFile(d, d.functions)
  BY DEF FilesFormed, ExportsFormed
<1>3. /\ At(d, d.names) + i \in DOMAIN d.cells
      /\ At(d, d.ordinals) + i \in DOMAIN d.cells
      /\ At(d, d.functions) + O[2] \in DOMAIN d.cells
      /\ Points(d, N) /\ Target(d, N) = NameCell(x) /\ O[2] \in Nat
      /\ Points(d, F) /\ Target(d, F) = Func(n, x)
  BY Zenon DEF Exports
<1>4. i \in Nat
  BY <1>1
<1>5. DllCell(d, d.names, i) = N
  BY <1>1, <1>2, <1>3, <1>4, DllCellIs, Zenon
<1>6. ByOrdinal(d, i) = O[2]
  BY <1>1, <1>2, <1>3, <1>4, DllCellIs, Zenon DEF ByOrdinal
<1>7. DllCell(d, d.functions, O[2]) = F
  BY <1>1, <1>2, <1>3, DllCellIs, Zenon
<1>8. ASSUME NEW c, Points(d, c)
      PROVE  DllCell(d, c[2], 0) = Target(d, c)
  <2>1. InFile(d, c[2])
    BY <1>8 DEF Points
  <2>2. At(d, c[2]) \in DOMAIN d.cells /\ At(d, c[2]) \in Nat
    BY <2>1, <1>1, <1>2, PointerIsRight
  <2>3. At(d, c[2]) + 0 = At(d, c[2])
    BY <2>2
  <2>4. QED
    BY <2>1, <2>2, <2>3, <1>1, <1>2, DllCellIs DEF Target
<1>9. Exported(d, i) = NameCell(x)
  BY <1>3, <1>5, <1>8, Zenon DEF Exported
<1>10. DllCell(d, F[2], 0) = Func(n, x)
  BY <1>3, <1>8, Zenon
<1>11. QED
  BY <1>6, <1>7, <1>9, <1>10, Zenon

\* The least of some naturals is one of them.
LEMMA MinIsIn ==
  ASSUME NEW S \in SUBSET Nat, S # {}
  PROVE  Min(S) \in S
<1>1. PICK m \in S : \A y \in S : ~(<<y, m>> \in OpToRel(<, Nat))
  BY NatLessThanWellFounded, WFMin, Zenon
<1>2. ASSUME NEW y \in S
      PROVE  ~(y < m)
  <2>1. <<y, m>> \in Nat \X Nat /\ <<y, m>>[1] = y /\ <<y, m>>[2] = m
    OBVIOUS
  <2>2. y < m => <<y, m>> \in OpToRel(<, Nat)
    BY <2>1, Zenon DEF OpToRel
  <2>3. QED
    BY <1>1, <2>2, Zenon
<1>3. \A y \in S : m <= y
  BY <1>2
<1>4. QED
  BY <1>1, <1>3, Zenon DEF Min

\* Resolving a name gives the function of that name, or nothing if the DLL does not
\* export it: the ordinal of the name found leads to it.
LEMMA ResolveIsRight ==
  ASSUME FilesFormed, NEW n \in DOMAIN Dlls, Dlls[n].mz, Dlls[n].exports # 0, NEW fn
  PROVE  Resolve(Dlls[n], fn) = IF fn \in Dlls[n].exported THEN Func(n, fn) ELSE Zero
<1> DEFINE d == Dlls[n]
           hit == {i \in 0 .. d.count - 1 : Exported(d, i) = NameCell(fn)}
<1>1. d.count \in Nat
  BY LoaderAssumption DEF ExportDirectory
<1>2. /\ \A i \in 0 .. d.count - 1 : \E x \in d.exported : Exports(n, i, x)
      /\ \A x \in d.exported : \E i \in 0 .. d.count - 1 : Exports(n, i, x)
  BY DEF FilesFormed, ExportsFormed
<1>3. \A x, y : NameCell(x) = NameCell(y) => x = y
  BY DEF NameCell
<1>4. CASE fn \in d.exported
  <2>1. PICK i \in 0 .. d.count - 1 : Exports(n, i, fn)
    BY <1>2, <1>4
  <2>2. i \in hit
    BY <2>1, EntryOfName
  <2>3. hit \in SUBSET Nat
    BY <1>1
  <2>4. Min(hit) \in hit
    BY <2>2, <2>3, MinIsIn
  <2> DEFINE q == Min(hit)
  <2>5. q \in 0 .. d.count - 1 /\ Exported(d, q) = NameCell(fn)
    BY <2>4
  <2> HIDE DEF q
  <2>6. PICK x \in d.exported : Exports(n, q, x)
    BY <2>5, <1>2
  <2>7. /\ Exported(d, q) = NameCell(x)
        /\ DllCell(d, DllCell(d, d.functions, ByOrdinal(d, q))[2], 0) = Func(n, x)
    BY <2>5, <2>6, EntryOfName, Zenon
  <2>8. x = fn
    BY <2>5, <2>7, <1>3
  <2>9. Resolve(d, fn) = DllCell(d, DllCell(d, d.functions, ByOrdinal(d, q))[2], 0)
    BY <2>2, Zenon DEF Resolve, q
  <2>10. QED
    BY <2>7, <2>8, <2>9, <1>4
<1>5. CASE fn \notin d.exported
  <2>1. hit = {}
    <3> SUFFICES ASSUME NEW i \in 0 .. d.count - 1, Exported(d, i) = NameCell(fn)
                 PROVE  FALSE
      OBVIOUS
    <3>1. PICK x \in d.exported : Exports(n, i, x)
      BY <1>2
    <3>2. Exported(d, i) = NameCell(x)
      BY <3>1, EntryOfName, Zenon
    <3>3. QED
      BY <3>1, <3>2, <1>3, <1>5
  <2>2. QED
    BY <2>1, <1>5, Zenon DEF Resolve
<1>6. QED
  BY <1>4, <1>5

\* A DLL that is loaded is one whose exports are formed.
LEMMA ParsedDll ==
  ASSUME NEW n, Parse(n) = 0
  PROVE  n \in DOMAIN Dlls /\ Dlls[n].mz /\ Dlls[n].exports # 0
BY DEF Parse

-----------------------------------------------------------------------------
(* One round of a walk                                                     *)

\* The driver's file is open.
FileOpen == file \in Drivers /\ file.found /\ file.mz

\* The string at a name.
LEMMA StringOf ==
  ASSUME NEW o \in Nat, o \in DOMAIN image, Kind(image[o]) = "name"
  PROVE  StringAt(Base + o) = image[o][2]
BY ReadCell DEF StringAt

\* An entry of the lookup table before its terminator.
LEMMA ThunkKinds ==
  ASSUME FilesFormed, FileOpen, NEW k \in 0 .. Entries - 1
  PROVE  LET c == file.cells[LookupAt(file) + k]
         IN  (c = OrdinalFlag \/ Kind(c) = "rva") /\ c # Zero
<1> DEFINE c == file.cells[LookupAt(file) + k]
<1>1. c = OrdinalFlag \/ Kind(c) = "rva"
  BY DriverFormed DEF TablesFormed, Points, FileOpen, Entries
<1> HIDE DEF c
<1>2. c # Zero
  BY <1>1 DEF OrdinalFlag, Kind, Zero
<1>3. QED
  BY <1>1, <1>2 DEF c

\* The k-th entry is read as the file has it, though k slots are filled.
LEMMA LookupCell ==
  ASSUME FilesFormed, FileOpen, NEW k \in 0 .. Entries, Filled(k),
         lookup = Base + LookupAt(file) + k
  PROVE  LET c == file.cells[LookupAt(file) + k]
         IN  Thunks(lookup) = {c} /\ Read(lookup) = c /\ InImage(lookup)
<1> DEFINE o == LookupAt(file) + k
<1>1. LookupAt(file) \in Nat /\ Entries \in Nat
  BY TablePlaces DEF FileOpen, Entries
<1>2. o \in Nat /\ lookup = Base + o
  BY <1>1, LoaderAssumption
<1>3. o \in DOMAIN file.cells /\ o \notin IatAt(file) .. IatAt(file) + k - 1
  <2>1. o \notin IatAt(file) .. IatAt(file) + k - 1
    BY TablePlaces DEF FileOpen, Entries
  <2>2. k \in 0 .. Entries - 1 \/ k = Entries
    BY <1>1
  <2>3. QED
    BY <2>1, <2>2, TablePlaces DEF FileOpen, Entries
<1>4. o \in DOMAIN image /\ image[o] = file.cells[o]
  BY <1>3 DEF Filled
<1>5. IsThunk(image[o])
  <2>1. CASE k = Entries
    <3>1. image[o] = Zero
      BY <1>4, <2>1, TablePlaces DEF FileOpen, Entries
    <3>2. QED
      BY <3>1 DEF IsThunk
  <2>2. CASE k # Entries
    <3>1. k \in 0 .. Entries - 1
      BY <1>1, <2>2
    <3>2. QED
      BY <1>4, <3>1, ThunkKinds DEF IsThunk
  <2>3. QED
    BY <2>1, <2>2
<1> HIDE DEF o
<1>6. Thunks(lookup) = {image[o]} /\ Read(lookup) = image[o] /\ InImage(lookup)
  BY <1>2, <1>4, <1>5, ReadCell, Zenon
<1>7. QED
  BY <1>4, <1>6 DEF o

\* One more slot is filled: the k-th is as it should be and the others are as before.
LEMMA SlotDone ==
  ASSUME FilesFormed, FileOpen, NEW k \in 0 .. Entries - 1, Filled(k),
         file' = file, kept' = kept, DOMAIN image' = DOMAIN image,
         \A o \in DOMAIN image : o # IatAt(file) + k => image'[o] = image[o],
         \A w \in file.wanted : w.descriptor = 1 /\ w.slot = IatAt(file) + k => SlotRight(w)'
  PROVE  Filled(k + 1)'
<1> DEFINE I == IatAt(file)
<1>1. I \in Nat /\ k \in Nat /\ Entries \in Nat
  BY TablePlaces DEF FileOpen, Entries
<1>2. IatAt(file') = I
  OBVIOUS
<1>3. /\ DOMAIN image = DOMAIN file.cells
      /\ \A o \in DOMAIN file.cells \ (I .. I + k - 1) : image[o] = file.cells[o]
      /\ \A w \in file.wanted : w.slot \in I .. I + k - 1 => SlotRight(w)
  BY DEF Filled
<1>4. \A o : o \in I .. I + (k + 1) - 1 <=> o \in I .. I + k - 1 \/ o = I + k
  <2> HIDE DEF I
  <2>1. QED
    BY <1>1
<1>5. \A o \in DOMAIN file.cells \ (I .. I + (k + 1) - 1) : image'[o] = file.cells[o]
  BY <1>3, <1>4
<1>6. ASSUME NEW w \in file.wanted, w.slot \in I .. I + (k + 1) - 1
      PROVE  SlotRight(w)'
  <2>1. CASE w.slot = I + k
    <3>1. I + k \in I .. I + Entries - 1
      <4> HIDE DEF I
      <4>1. QED
        BY <1>1
    <3>2. w.descriptor = 1
      BY <2>1, <3>1, WantedEntry DEF FileOpen, Entries
    <3>3. QED
      BY <2>1, <3>2
  <2>2. CASE w.slot \in I .. I + k - 1
    <3>1. w.slot \in DOMAIN file.cells /\ w.slot # I + k
      <4>1. w.slot # I + k
        <5> HIDE DEF I
        <5>1. QED
          BY <1>1, <2>2
      <4>2. QED
        BY <4>1, WantedEntry DEF FileOpen
    <3>2. image'[w.slot] = image[w.slot]
      BY <3>1, <1>3
    <3>3. SlotRight(w)
      BY <2>2, <1>3
    <3>4. QED
      BY <3>2, <3>3 DEF SlotRight, Wanted, LastDll
  <2>3. QED
    BY <2>1, <2>2, <1>4, <1>6
<1>7. QED
  BY <1>2, <1>3, <1>5, <1>6, Zenon DEF Filled

-----------------------------------------------------------------------------
(* The steps                                                               *)

LEMMA InitInv == Init => LoaderInv
<1> SUFFICES ASSUME Init PROVE LoaderInv
  OBVIOUS
<1>1. pc = "start" /\ file \in Drivers
  BY DEF Init
<1>2. QED
  BY <1>1 DEF LoaderInv, FileInv, Places, NamesInv, TablesInv, ResultInv, DoneInv

\* The walk over the descriptors begins at the first.
LEMMA OpenKeeps ==
  ASSUME FilesFormed, LoaderInv, Open
  PROVE  LoaderInv'
<1>1. FileOpen /\ pc' = "names" /\ file' = file
  BY DEF Open, LoaderInv, FileInv, FileOpen
<1>2. FileInv'
  BY <1>1 DEF FileInv, FileOpen, Places
<1>3. /\ Len(file.dlls) \in Nat
      /\ At(file, file.imports) \in Nat
      /\ RvaToPointer(file.sections, file.imports) = Base + At(file, file.imports)
  BY <1>1, Terminator DEF FileOpen
<1>4. NamesInv'
  <2>1. /\ image' = file.cells
        /\ directory' = Base + At(file, file.imports) /\ scan' = directory'
    BY <1>3 DEF Open, Here
  <2>2. scan' = Base + At(file, file.imports) + 0 /\ 0 \in 0 .. Len(file.dlls)
    BY <1>3, <2>1, LoaderAssumption
  <2>3. QED
    BY <1>1, <2>1, <2>2 DEF NamesInv
<1>5. QED
  BY <1>1, <1>2, <1>4 DEF LoaderInv, TablesInv, ResultInv, DoneInv

\* What the walk over the descriptors finds: as many as there are DLLs.
LEMMA DescriptorHere ==
  ASSUME FilesFormed, FileOpen, image = file.cells,
         NEW j \in 0 .. Len(file.dlls), scan = Base + At(file, file.imports) + j,
         NEW c \in Descriptors(scan)
  PROVE  /\ c = file.cells[At(file, file.imports) + j]
         /\ NameRva(c) # 0 <=> j < Len(file.dlls)
         /\ InImage(scan)
<1> DEFINE D == At(file, file.imports)
           n == Len(file.dlls)
<1>1. /\ n \in Nat \ {0} /\ D \in Nat
      /\ D + n \in DOMAIN file.cells /\ file.cells[D + n] = Zero
  BY Terminator DEF FileOpen
<1>2. D + j \in Nat /\ scan = Base + (D + j)
  BY <1>1, LoaderAssumption
<1>3. CASE j < n
  <2> DEFINE i == j + 1
  <2>1. i \in 1 .. n /\ D + i - 1 = D + j
    BY <1>1, <1>3
  <2>2. /\ D + i - 1 \in DOMAIN file.cells
        /\ Kind(file.cells[D + i - 1]) = "descriptor" /\ file.cells[D + i - 1][2] # 0
    <3> HIDE DEF i
    <3>1. QED
      BY <2>1, DescriptorCells DEF FileOpen
  <2>3. D + j \in DOMAIN image
    BY <2>1, <2>2
  <2>4. Descriptors(scan) = {image[D + j]} /\ InImage(scan)
    <3>1. IsDescriptor(image[D + j])
      BY <2>1, <2>2 DEF IsDescriptor
    <3>2. QED
      BY <1>2, <2>3, <3>1, ReadCell, Zenon
  <2>5. c = file.cells[D + j] /\ InImage(scan)
    BY <2>4
  <2>6. NameRva(c) # 0
    BY <2>5, <2>1, <2>2 DEF NameRva, Field
  <2>7. QED
    BY <1>3, <2>5, <2>6
<1>4. CASE j = n
  <2>1. IsDescriptor(image[D + j])
    BY <1>1, <1>4 DEF IsDescriptor, Zero, Kind
  <2>2. Descriptors(scan) = {image[D + j]} /\ InImage(scan)
    BY <1>1, <1>2, <1>4, <2>1, ReadCell, Zenon
  <2>3. c = Zero /\ InImage(scan)
    BY <1>1, <1>4, <2>2
  <2>4. NameRva(c) = 0
    BY <2>3 DEF NameRva, Field, Zero, Kind
  <2>5. QED
    BY <1>1, <1>4, <2>3, <2>4
<1>5. QED
  BY <1>1, <1>3, <1>4

LEMMA NextNameKeeps ==
  ASSUME FilesFormed, LoaderInv, NextName
  PROVE  LoaderInv'
<1> DEFINE D == At(file, file.imports)
           n == Len(file.dlls)
<1>1. /\ FileOpen /\ pc = "names" /\ pc' = "names" /\ file' = file
      /\ image' = image /\ directory' = directory /\ image = file.cells /\ directory = Base + D
  BY DEF NextName, LoaderInv, FileInv, FileOpen, NamesInv
<1>2. PICK j \in 0 .. n : scan = Base + D + j
  BY <1>1 DEF LoaderInv, NamesInv
<1>3. PICK c \in Descriptors(scan) : NameRva(c) # 0 /\ dll_name' = StringAt(Here(NameRva(c)))
  BY DEF NextName
<1>4. c = file.cells[D + j] /\ j < n
  BY <1>1, <1>2, <1>3, DescriptorHere
<1>5. n \in Nat \ {0} /\ D \in Nat
  BY <1>1, Terminator DEF FileOpen
<1> DEFINE i == j + 1
<1>6. i \in 1 .. n /\ i \in 0 .. n /\ i > 0 /\ D + i - 1 = D + j
  BY <1>4, <1>5
<1>7. /\ Kind(c) = "descriptor"
      /\ At(file, c[2]) \in DOMAIN file.cells /\ At(file, c[2]) \in Nat
      /\ RvaToPointer(file.sections, c[2]) = Base + At(file, c[2])
      /\ file.cells[At(file, c[2])] = NameCell(file.dlls[i])
  <2> HIDE DEF i
  <2>1. QED
    BY <1>1, <1>4, <1>6, DescriptorCells DEF FileOpen
<1>8. dll_name' = file.dlls[i]
  <2>1. Here(NameRva(c)) = Base + At(file, c[2])
    BY <1>7 DEF Here, NameRva, Field
  <2> DEFINE o == At(file, c[2])
  <2>2. /\ o \in Nat /\ o \in DOMAIN image /\ Kind(image[o]) = "name"
        /\ image[o][2] = file.dlls[i]
    BY <1>1, <1>7 DEF NameCell, Kind
  <2>3. Here(NameRva(c)) = Base + o
    BY <2>1
  <2> HIDE DEF o
  <2>4. StringAt(Base + o) = file.dlls[i]
    BY <2>2, StringOf
  <2>5. QED
    BY <1>3, <2>3, <2>4
<1>9. scan' = Base + D + i
  BY <1>2, <1>5, LoaderAssumption DEF NextName
<1>10. NamesInv'
  <2> HIDE DEF i
  <2>1. QED
    BY <1>1, <1>6, <1>8, <1>9 DEF NamesInv
<1>11. FileInv'
  BY <1>1 DEF FileInv, FileOpen, Places
<1>12. QED
  BY <1>1, <1>10, <1>11 DEF LoaderInv, TablesInv, ResultInv, DoneInv

\* The import directory's first descriptor is where the tables are taken from.
LEMMA FirstIsRead ==
  ASSUME FilesFormed, FileOpen, image = file.cells,
         directory = Base + At(file, file.imports)
  PROVE  Descriptors(directory) = {FirstDescriptor(file)} /\ InImage(directory)
<1> DEFINE D == At(file, file.imports)
           n == Len(file.dlls)
<1>1. n \in Nat \ {0} /\ D \in Nat
  BY Terminator DEF FileOpen
<1>2. D \in DOMAIN file.cells /\ IsDescriptor(file.cells[D])
  <2>1. 1 \in 1 .. n /\ D + 1 - 1 = D
    BY <1>1
  <2>2. D + 1 - 1 \in DOMAIN file.cells /\ Kind(file.cells[D + 1 - 1]) = "descriptor"
    BY <2>1, DescriptorCells DEF FileOpen
  <2> QED
    BY <2>1, <2>2 DEF IsDescriptor
<1> HIDE DEF D
<1>3. Descriptors(Base + D) = {image[D]} /\ InImage(Base + D)
  BY <1>1, <1>2, ReadCell, Zenon
<1> QED
  BY <1>3 DEF FirstDescriptor, D

LEMMA TablesKeeps ==
  ASSUME FilesFormed, LoaderInv, Tables
  PROVE  LoaderInv'
<1> DEFINE D == At(file, file.imports)
           n == Len(file.dlls)
<1>1. /\ FileOpen /\ pc = "names" /\ pc' = "imports" /\ file' = file
      /\ image' = image /\ dll_name' = dll_name
      /\ image = file.cells /\ directory = Base + D
  BY DEF Tables, LoaderInv, FileInv, FileOpen, NamesInv
<1>2. PICK j \in 0 .. n : scan = Base + D + j /\ (j > 0 => dll_name = file.dlls[j])
  BY <1>1 DEF LoaderInv, NamesInv
<1>3. PICK c \in Descriptors(scan) : NameRva(c) = 0
  BY DEF Tables
<1>4. n \in Nat \ {0} /\ D \in Nat
  BY <1>1, Terminator DEF FileOpen
<1>5. j = n
  BY <1>1, <1>2, <1>3, <1>4, DescriptorHere
<1>6. dll_name' = LastDll'
  BY <1>1, <1>2, <1>4, <1>5 DEF LastDll
<1>7. Descriptors(directory) = {FirstDescriptor(file)}
  BY <1>1, FirstIsRead
<1>8. /\ LookupAt(file) \in Nat /\ IatAt(file) \in Nat /\ Entries \in Nat
      /\ RvaToPointer(file.sections, LookupRva(FirstDescriptor(file))) = Base + LookupAt(file)
      /\ RvaToPointer(file.sections, IatRva(FirstDescriptor(file))) = Base + IatAt(file)
  BY <1>1, TablePlaces DEF FileOpen, Entries
<1>9. lookup' = Base + LookupAt(file) /\ iat' = Base + IatAt(file)
  BY <1>7, <1>8 DEF Tables, Here
<1>10. /\ lookup' = Base + LookupAt(file') + 0 /\ iat' = Base + IatAt(file') + 0
       /\ 0 \in 0 .. Entries' /\ Entries' = Entries
  BY <1>1, <1>8, <1>9, LoaderAssumption DEF Entries
<1>11. Filled(0)'
  <2>1. IatAt(file) .. IatAt(file) + 0 - 1 = {}
    BY <1>8
  <2>2. image' = file'.cells /\ IatAt(file') .. IatAt(file') + 0 - 1 = {}
    BY <1>1, <2>1
  <2>3. QED
    BY <2>2 DEF Filled
<1>12. TablesInv'
  BY <1>1, <1>6, <1>10, <1>11, Zenon DEF TablesInv
<1>13. FileInv'
  BY <1>1 DEF FileInv, FileOpen, Places
<1>14. QED
  BY <1>1, <1>12, <1>13 DEF LoaderInv, NamesInv, ResultInv, DoneInv

\* Where the import loop is.
LEMMA LoopPlace ==
  ASSUME FilesFormed, LoaderInv, pc \in {"imports", "parsed", "resolve"}
  PROVE  /\ FileOpen /\ dll_name = LastDll
         /\ LookupAt(file) \in Nat /\ IatAt(file) \in Nat /\ Entries \in Nat
         /\ \E k \in 0 .. Entries :
              /\ lookup = Base + LookupAt(file) + k /\ iat = Base + IatAt(file) + k
              /\ Filled(k)
              /\ pc # "imports" => k < Entries /\ Kind(file.cells[LookupAt(file) + k]) = "rva"
<1>1. FileOpen
  BY DEF LoaderInv, FileInv, FileOpen
<1>2. LookupAt(file) \in Nat /\ IatAt(file) \in Nat /\ Entries \in Nat
  BY <1>1, TablePlaces DEF FileOpen, Entries
<1>3. QED
  BY <1>1, <1>2 DEF LoaderInv, TablesInv

\* A round of the loop that fills the k-th slot as it should be.
LEMMA RoundKeeps ==
  ASSUME FilesFormed, LoaderInv, pc \in {"imports", "parsed", "resolve"},
         NEW k \in 0 .. Entries - 1, Filled(k),
         lookup = Base + LookupAt(file) + k, iat = Base + IatAt(file) + k,
         Advance, pc' = "imports", file' = file, kept' = kept, dll_name' = dll_name,
         DOMAIN image' = DOMAIN image,
         \A o \in DOMAIN image : o # IatAt(file) + k => image'[o] = image[o],
         \A w \in file.wanted : w.descriptor = 1 /\ w.slot = IatAt(file) + k => SlotRight(w)'
  PROVE  LoaderInv'
<1>1. /\ FileOpen /\ dll_name = LastDll
      /\ LookupAt(file) \in Nat /\ IatAt(file) \in Nat /\ Entries \in Nat
  BY LoopPlace
<1> DEFINE i == k + 1
<1>2. Filled(i)'
  BY <1>1, SlotDone
<1>3. /\ lookup' = Base + LookupAt(file) + i /\ iat' = Base + IatAt(file) + i
      /\ i \in 0 .. Entries
  BY <1>1, LoaderAssumption DEF Advance
<1>4. Entries' = Entries /\ LastDll' = LastDll
  BY DEF Entries, LastDll
<1> HIDE DEF i
<1>5. /\ i \in 0 .. Entries' /\ dll_name' = LastDll'
      /\ lookup' = Base + LookupAt(file') + i /\ iat' = Base + IatAt(file') + i
  BY <1>1, <1>3, <1>4, Zenon
<1>6. TablesInv'
  BY <1>2, <1>5 DEF TablesInv
<1>7. FileInv'
  BY <1>1 DEF LoaderInv, FileInv, FileOpen, Places
<1>8. QED
  BY <1>6, <1>7 DEF LoaderInv, NamesInv, ResultInv, DoneInv

\* An import by ordinal: nobody wants its slot filled.
LEMMA OrdinalKeeps ==
  ASSUME FilesFormed, LoaderInv, ByOrdinalSkipped
  PROVE  LoaderInv'
<1>1. pc = "imports" /\ Advance /\ OrdinalFlag \in Thunks(lookup)
  BY DEF ByOrdinalSkipped
<1>2. PICK k \in 0 .. Entries :
        /\ lookup = Base + LookupAt(file) + k /\ iat = Base + IatAt(file) + k
        /\ Filled(k)
  BY <1>1, LoopPlace
<1>3. /\ FileOpen /\ Entries \in Nat /\ IatAt(file) \in Nat
  BY <1>1, LoopPlace
<1>4. file.cells[LookupAt(file) + k] = OrdinalFlag
  BY <1>1, <1>2, <1>3, LookupCell
<1>5. k \in 0 .. Entries - 1
  <2>1. file.cells[LookupAt(file) + Entries] = Zero
    BY <1>3, TablePlaces DEF FileOpen, Entries
  <2>2. OrdinalFlag # Zero
    BY DEF OrdinalFlag, Zero
  <2>3. k # Entries
    BY <1>4, <2>1, <2>2
  <2>4. QED
    BY <1>3, <2>3
<1>6. ASSUME NEW w \in file.wanted, w.descriptor = 1, w.slot = IatAt(file) + k
      PROVE  FALSE
  <2>1. PICK j \in 0 .. Entries - 1 :
          w.slot = IatAt(file) + j /\ file.cells[LookupAt(file) + j] # OrdinalFlag
    BY <1>3, <1>6, WantedEntry DEF FileOpen, Entries
  <2>2. j = k
    BY <1>3, <1>5, <1>6, <2>1
  <2>3. QED
    BY <1>4, <2>1, <2>2
<1>7. QED
  BY <1>1, <1>2, <1>5, <1>6, RoundKeeps, Zenon DEF ByOrdinalSkipped

\* An import by name.
LEMMA ParseKeeps ==
  ASSUME FilesFormed, LoaderInv, ParseDll
  PROVE  LoaderInv'
<1>1. /\ pc = "imports" /\ pc' = "parsed"
      /\ file' = file /\ image' = image /\ dll_name' = dll_name
      /\ lookup' = lookup /\ iat' = iat /\ kept' = kept
  BY DEF ParseDll
<1>2. PICK k \in 0 .. Entries :
        /\ lookup = Base + LookupAt(file) + k /\ iat = Base + IatAt(file) + k
        /\ Filled(k)
  BY <1>1, LoopPlace
<1>3. /\ FileOpen /\ Entries \in Nat /\ dll_name = LastDll
  BY <1>1, LoopPlace
<1>4. Kind(file.cells[LookupAt(file) + k]) = "rva"
  <2>1. Thunks(lookup) = {file.cells[LookupAt(file) + k]}
    BY <1>2, <1>3, LookupCell
  <2>2. QED
    BY <2>1 DEF ParseDll
<1>5. k < Entries
  <2>1. file.cells[LookupAt(file) + Entries] = Zero
    BY <1>3, TablePlaces DEF FileOpen, Entries
  <2>2. k # Entries
    BY <1>4, <2>1 DEF Zero, Kind
  <2>3. QED
    BY <1>3, <2>2
<1>6. Entries' = Entries /\ LastDll' = LastDll
  BY <1>1 DEF Entries, LastDll
<1>7. Filled(k)'
  BY <1>1, <1>2 DEF Filled, SlotRight, Wanted, LastDll
<1>8. TablesInv'
  <2>1. /\ dll_name' = LastDll' /\ k \in 0 .. Entries'
        /\ lookup' = Base + LookupAt(file') + k /\ iat' = Base + IatAt(file') + k
        /\ k < Entries' /\ Kind(file'.cells[LookupAt(file') + k]) = "rva"
    BY <1>1, <1>2, <1>3, <1>4, <1>5, <1>6, Zenon
  <2>2. QED
    BY <2>1, <1>7 DEF TablesInv
<1>9. ResultInv'
  <2>1. result' = ResultOf(TRUE)
    BY <1>3, Zenon DEF ParseDll, ResultOf
  <2>2. ResultOf(TRUE)' = ResultOf(TRUE)
    BY <1>6 DEF ResultOf
  <2>3. QED
    BY <1>1, <2>1, <2>2 DEF ResultInv
<1>10. FileInv'
  BY <1>1, <1>3 DEF FileInv, FileOpen, Places
<1>11. QED
  BY <1>1, <1>8, <1>9, <1>10 DEF LoaderInv, NamesInv, DoneInv

\* A DLL that cannot be loaded: its imports stay as the file has them.
LEMMA NotLoadedKeeps ==
  ASSUME FilesFormed, LoaderInv, NotLoaded
  PROVE  LoaderInv'
<1>1. pc = "parsed" /\ result.status # 0 /\ Advance /\ kept' = kept /\ file' = file /\ image' = image
  BY DEF NotLoaded
<1>2. PICK k \in 0 .. Entries :
        /\ lookup = Base + LookupAt(file) + k /\ iat = Base + IatAt(file) + k
        /\ Filled(k) /\ k < Entries
  BY <1>1, LoopPlace
<1>3. FileOpen /\ Entries \in Nat /\ IatAt(file) \in Nat
  BY <1>1, LoopPlace
<1>4. k \in 0 .. Entries - 1
  BY <1>2, <1>3
<1>5. Parse(LastDll) # 0
  BY <1>1 DEF LoaderInv, ResultInv, ResultOf
<1>6. ASSUME NEW w \in file.wanted, w.descriptor = 1, w.slot = IatAt(file) + k
      PROVE  SlotRight(w)'
  <2>1. w.slot \in DOMAIN file.cells
    BY <1>3, WantedEntry DEF FileOpen
  <2>2. w.slot \notin IatAt(file) .. IatAt(file) + k - 1
    BY <1>3, <1>4, <1>6
  <2>3. image[w.slot] = file.cells[w.slot]
    BY <1>2, <2>1, <2>2 DEF Filled
  <2>4. Wanted(w) = file.cells[w.slot]
    BY <1>5 DEF Wanted
  <2>5. QED
    BY <1>1, <2>3, <2>4 DEF SlotRight, Wanted, LastDll
<1>7. QED
  BY <1>1, <1>2, <1>4, <1>6, RoundKeeps, Zenon DEF NotLoaded

\* The result is there when its status is read, and may be gone after.
LEMMA LoadedKeeps ==
  ASSUME FilesFormed, LoaderInv, Loaded
  PROVE  LoaderInv'
<1>1. /\ pc = "parsed" /\ pc' = "resolve" /\ result.status = 0
      /\ file' = file /\ image' = image /\ dll_name' = dll_name
      /\ lookup' = lookup /\ iat' = iat
  BY DEF Loaded
<1>2. PICK live \in BOOLEAN :
        result' = [result EXCEPT !.live = live] /\ kept' = (kept /\ live)
  BY DEF Loaded
<1>3. PICK k \in 0 .. Entries :
        /\ lookup = Base + LookupAt(file) + k /\ iat = Base + IatAt(file) + k
        /\ Filled(k) /\ k < Entries /\ Kind(file.cells[LookupAt(file) + k]) = "rva"
  BY <1>1, LoopPlace
<1>4. FileOpen /\ dll_name = LastDll
  BY <1>1, LoopPlace
<1>5. result = ResultOf(TRUE)
  BY <1>1 DEF LoaderInv, ResultInv
<1>6. Parse(LastDll) = 0 /\ result' = ResultOf(live)
  BY <1>1, <1>2, <1>5 DEF ResultOf
<1>7. Entries' = Entries /\ LastDll' = LastDll
  BY <1>1 DEF Entries, LastDll
<1>8. Filled(k)'
  <2>1. ASSUME NEW w, SlotRight(w)
        PROVE  SlotRight(w)'
    BY <1>1, <1>2, <2>1 DEF SlotRight, Wanted, LastDll
  <2>2. QED
    BY <1>1, <1>3, <2>1 DEF Filled
<1>9. TablesInv'
  <2>1. /\ dll_name' = LastDll' /\ k \in 0 .. Entries'
        /\ lookup' = Base + LookupAt(file') + k /\ iat' = Base + IatAt(file') + k
        /\ k < Entries' /\ Kind(file'.cells[LookupAt(file') + k]) = "rva"
    BY <1>1, <1>3, <1>4, <1>7, Zenon
  <2>2. QED
    BY <2>1, <1>8 DEF TablesInv
<1>10. ResultInv'
  <2>1. ResultOf(live)' = ResultOf(live) /\ Parse(LastDll') = 0
    BY <1>6, <1>7 DEF ResultOf
  <2>2. QED
    BY <1>1, <1>2, <1>6, <2>1 DEF ResultInv
<1>11. FileInv'
  BY <1>1, <1>4 DEF FileInv, FileOpen, Places
<1>12. QED
  BY <1>1, <1>9, <1>10, <1>11 DEF LoaderInv, NamesInv, DoneInv

\* What a round that resolves an import writes: the function of the name asked for
\* in the last DLL, or nothing; anything else only if the result was gone.
LEMMA BindWrites ==
  ASSUME FilesFormed, LoaderInv, Bind
  PROVE  \E k \in 0 .. Entries - 1 : \E g :
           /\ lookup = Base + LookupAt(file) + k /\ iat = Base + IatAt(file) + k
           /\ Filled(k)
           /\ IatAt(file) + k \in DOMAIN image
           /\ image[IatAt(file) + k] = file.cells[IatAt(file) + k]
           /\ image' = IF g = Zero THEN image ELSE [image EXCEPT ![IatAt(file) + k] = g]
           /\ Parse(LastDll) = 0
           /\ \/ g = IF FnOf(file, k) \in Dlls[LastDll].exported
                       THEN Func(LastDll, FnOf(file, k)) ELSE Zero
              \/ ~kept /\ g \in {Zero, Func(Undefined, FnOf(file, k))}
<1>1. pc = "resolve"
  BY DEF Bind
<1>2. PICK k \in 0 .. Entries :
        /\ lookup = Base + LookupAt(file) + k /\ iat = Base + IatAt(file) + k
        /\ Filled(k) /\ k < Entries /\ Kind(file.cells[LookupAt(file) + k]) = "rva"
  BY <1>1, LoopPlace
<1>3. FileOpen /\ Entries \in Nat /\ IatAt(file) \in Nat
  BY <1>1, LoopPlace
<1>4. k \in 0 .. Entries - 1
  BY <1>2, <1>3
<1> DEFINE c == file.cells[LookupAt(file) + k]
           o == At(file, c[2])
<1>5. /\ o \in DOMAIN file.cells /\ o \in Nat
      /\ o \notin IatAt(file) .. IatAt(file) + Entries - 1
      /\ RvaToPointer(file.sections, c[2]) = Base + o
      /\ Kind(file.cells[o]) = "name" /\ file.cells[o][2] = FnOf(file, k)
  BY <1>2, <1>3, <1>4, NamedEntry DEF FileOpen, Entries
<1>6. {t \in Thunks(lookup) : Kind(t) = "rva"} = {c} /\ InImage(lookup)
  BY <1>2, <1>3, LookupCell
<1> HIDE DEF c
<1>7. Here(c[2]) = Base + o
  BY <1>5 DEF Here
<1> HIDE DEF o
<1>8. o \in DOMAIN image /\ image[o] = file.cells[o]
  <2>1. o \notin IatAt(file) .. IatAt(file) + k - 1
    BY <1>3, <1>4, <1>5
  <2>2. QED
    BY <2>1, <1>2, <1>5 DEF Filled
<1>9. StringAt(Here(c[2])) = FnOf(file, k)
  <2>1. Kind(image[o]) = "name" /\ image[o][2] = FnOf(file, k)
    BY <1>5, <1>8
  <2>2. StringAt(Base + o) = image[o][2]
    BY <1>5, <1>8, <2>1, StringOf
  <2>3. QED
    BY <1>7, <2>1, <2>2
<1>10. iat - Base = IatAt(file) + k
  BY <1>2, <1>3, <1>4, LoaderAssumption
<1>11. /\ IatAt(file) + k \in DOMAIN image
       /\ image[IatAt(file) + k] = file.cells[IatAt(file) + k]
  <2>1. IatAt(file) + k \in DOMAIN file.cells
    BY <1>3, <1>4, TablePlaces DEF FileOpen, Entries
  <2>2. IatAt(file) + k \notin IatAt(file) .. IatAt(file) + k - 1
    BY <1>3, <1>4
  <2>3. QED
    BY <1>2, <2>1, <2>2 DEF Filled
<1>12. PICK g \in Resolved(FnOf(file, k)) :
         image' = IF g = Zero THEN image ELSE [image EXCEPT ![IatAt(file) + k] = g]
  <2>1. PICK t \in {u \in Thunks(lookup) : Kind(u) = "rva"} : \E f \in Resolved(StringAt(Here(t[2]))) :
           image' = IF f = Zero \/ ~InImage(iat) THEN image ELSE [image EXCEPT ![iat - Base] = f]
    BY Zenon DEF Bind
  <2>2. t = c
    BY <1>6, <2>1
  <2>3. InImage(iat)
    BY <1>10, <1>11 DEF InImage
  <2>4. QED
    BY <1>9, <1>10, <2>1, <2>2, <2>3, Zenon
<1>13. PICK live \in BOOLEAN : result = ResultOf(live) /\ (kept => live) /\ Parse(LastDll) = 0
  BY <1>1 DEF LoaderInv, ResultInv
<1>14. result.live = live /\ result.dll = Dlls[LastDll]
  BY <1>13 DEF ResultOf
<1>15. \/ g = IF FnOf(file, k) \in Dlls[LastDll].exported
                THEN Func(LastDll, FnOf(file, k)) ELSE Zero
       \/ ~kept /\ g \in {Zero, Func(Undefined, FnOf(file, k))}
  <2>1. CASE live
    <3>1. g = Resolve(Dlls[LastDll], FnOf(file, k))
      BY <2>1, <1>12, <1>14 DEF Resolved
    <3>2. LastDll \in DOMAIN Dlls /\ Dlls[LastDll].mz /\ Dlls[LastDll].exports # 0
      BY <1>13, ParsedDll
    <3>3. QED
      BY <3>1, <3>2, ResolveIsRight, Zenon
  <2>2. CASE ~live
    BY <2>2, <1>12, <1>13, <1>14 DEF Resolved
  <2>3. QED
    BY <2>1, <2>2
<1>16. QED
  BY <1>2, <1>4, <1>11, <1>12, <1>13, <1>15, Zenon

LEMMA FuncIsNotZero == \A d, n : Func(d, n) # Zero
BY DEF Func, Zero

LEMMA BindKeeps ==
  ASSUME FilesFormed, LoaderInv, Bind
  PROVE  LoaderInv'
<1>1. /\ pc = "resolve" /\ pc' = "imports" /\ Advance
      /\ file' = file /\ kept' = kept /\ dll_name' = dll_name
  BY DEF Bind
<1>2. PICK k \in 0 .. Entries - 1 : \E g :
        /\ lookup = Base + LookupAt(file) + k /\ iat = Base + IatAt(file) + k
        /\ Filled(k)
        /\ IatAt(file) + k \in DOMAIN image
        /\ image[IatAt(file) + k] = file.cells[IatAt(file) + k]
        /\ image' = IF g = Zero THEN image ELSE [image EXCEPT ![IatAt(file) + k] = g]
        /\ Parse(LastDll) = 0
        /\ \/ g = IF FnOf(file, k) \in Dlls[LastDll].exported
                    THEN Func(LastDll, FnOf(file, k)) ELSE Zero
           \/ ~kept /\ g \in {Zero, Func(Undefined, FnOf(file, k))}
  BY BindWrites, Zenon
<1> DEFINE s == IatAt(file) + k
           fn == FnOf(file, k)
<1>3. PICK g :
        /\ image' = IF g = Zero THEN image ELSE [image EXCEPT ![s] = g]
        /\ \/ g = IF fn \in Dlls[LastDll].exported THEN Func(LastDll, fn) ELSE Zero
           \/ ~kept /\ g \in {Zero, Func(Undefined, fn)}
  BY <1>2, Zenon
<1>4. FileOpen /\ Entries \in Nat /\ IatAt(file) \in Nat
  BY <1>1, LoopPlace
<1>5. s \in DOMAIN image /\ image[s] = file.cells[s] /\ Parse(LastDll) = 0
  BY <1>2, Zenon
<1>6. DOMAIN image' = DOMAIN image /\ \A o \in DOMAIN image : o # s => image'[o] = image[o]
  <2> HIDE DEF s
  <2>1. QED
    BY <1>3
<1>7. image'[s] = IF g = Zero THEN file.cells[s] ELSE g
  <2> HIDE DEF s
  <2>1. QED
    BY <1>3, <1>5
<1>8. ASSUME NEW w \in file.wanted, w.descriptor = 1, w.slot = s
      PROVE  SlotRight(w)'
  <2>1. PICK j \in 0 .. Entries - 1 : w.slot = IatAt(file) + j /\ w.fn = FnOf(file, j)
    BY <1>4, <1>8, WantedEntry DEF FileOpen, Entries
  <2>2. j = k
    BY <1>4, <1>8, <2>1
  <2>3. w.fn = fn
    BY <2>1, <2>2
  <2>4. Wanted(w) = IF fn \in Dlls[LastDll].exported THEN Func(LastDll, fn) ELSE file.cells[s]
    BY <1>5, <1>8, <2>3 DEF Wanted
  <2>5. Wanted(w)' = Wanted(w)
    BY <1>1 DEF Wanted, LastDll
  <2> HIDE DEF s, fn
  <2>6. CASE g = IF fn \in Dlls[LastDll].exported THEN Func(LastDll, fn) ELSE Zero
    <3>1. image'[s] = Wanted(w)
      BY <1>7, <2>4, <2>6, FuncIsNotZero
    <3>2. QED
      BY <1>8, <2>5, <3>1 DEF SlotRight
  <2>7. CASE ~kept /\ g \in {Zero, Func(Undefined, fn)}
    <3>1. image'[s] \in {file.cells[s], Func(Undefined, fn)}
      BY <1>7, <2>7
    <3>2. QED
      BY <1>1, <1>8, <2>3, <2>7, <3>1 DEF SlotRight
  <2>8. QED
    BY <1>3, <2>6, <2>7
<1>9. QED
  BY <1>1, <1>2, <1>6, <1>8, RoundKeeps, Zenon

\* The terminator of the lookup table is reached with every slot filled.
LEMMA StartKeeps ==
  ASSUME FilesFormed, LoaderInv, Start
  PROVE  LoaderInv'
<1>1. /\ pc = "imports" /\ pc' = "running"
      /\ file' = file /\ image' = image /\ kept' = kept
      /\ Zero \in Thunks(lookup)
  BY DEF Start
<1>2. PICK k \in 0 .. Entries :
        /\ lookup = Base + LookupAt(file) + k /\ iat = Base + IatAt(file) + k
        /\ Filled(k)
  BY <1>1, LoopPlace
<1>3. FileOpen /\ Entries \in Nat
  BY <1>1, LoopPlace
<1>4. Thunks(lookup) = {file.cells[LookupAt(file) + k]}
  BY <1>2, <1>3, LookupCell
<1>5. file.cells[LookupAt(file) + k] = Zero
  BY <1>1, <1>4
<1>6. k = Entries
  <2>1. k \notin 0 .. Entries - 1
    BY <1>3, <1>5, ThunkKinds
  <2>2. QED
    BY <1>3, <2>1
<1>7. DoneInv'
  BY <1>1, <1>2, <1>6 DEF DoneInv, Filled, SlotRight, Wanted, LastDll, Entries
<1>8. FileInv'
  BY <1>1, <1>3 DEF FileInv, FileOpen, Places
<1>9. QED
  BY <1>1, <1>7, <1>8 DEF LoaderInv, NamesInv, TablesInv, ResultInv

\* The driver has run; or the loader has stopped.
LEMMA EndKeeps ==
  ASSUME LoaderInv, Panic \/ Fault \/ Exit
  PROVE  LoaderInv'
<1>1. FileInv'
  BY DEF LoaderInv, FileInv, Panic, Fault, Exit, Places
<1>2. CASE Exit
  <2>1. /\ pc = "running" /\ pc' = "done" /\ file' = file /\ image' = image /\ kept' = kept
    BY <1>2 DEF Exit
  <2>2. DoneInv'
    BY <2>1 DEF LoaderInv, DoneInv, Filled, SlotRight, Wanted, LastDll, Entries
  <2>3. QED
    BY <1>1, <2>1, <2>2 DEF LoaderInv, NamesInv, TablesInv, ResultInv
<1>3. CASE Panic \/ Fault
  <2>1. pc' \in {"panic", "fault"}
    BY <1>3 DEF Panic, Fault
  <2>2. QED
    BY <1>1, <2>1 DEF LoaderInv, NamesInv, TablesInv, ResultInv, DoneInv
<1>4. QED
  BY <1>2, <1>3

LEMMA StepKeeps ==
  ASSUME FilesFormed, LoaderInv, [Next]_vars
  PROVE  LoaderInv'
<1>1. CASE Next
  BY <1>1, OpenKeeps, NextNameKeeps, TablesKeeps, OrdinalKeeps, ParseKeeps, NotLoadedKeeps,
     LoadedKeeps, BindKeeps, StartKeeps, EndKeeps, Zenon DEF Next
<1>2. CASE UNCHANGED vars
  BY <1>2 DEF vars, LoaderInv, FileInv, NamesInv, TablesInv, ResultInv, ResultOf, DoneInv,
              Filled, SlotRight, Wanted, LastDll, Entries
<1>3. QED
  BY <1>1, <1>2

-----------------------------------------------------------------------------
(* The theorems                                                            *)

\* With files as a linker makes them, the invariant above holds whatever becomes of
\* the results of parse_dll (driver_loader.c:12-148).
THEOREM LoaderInvariant ==
  ASSUME FilesFormed
  PROVE  Spec => []LoaderInv
<1>1. Init => LoaderInv
  BY InitInv
<1>2. LoaderInv /\ [Next]_vars => LoaderInv'
  BY StepKeeps
<1> QED
  BY <1>1, <1>2, PTL DEF Spec

\* Every import by name is bound to the function of that name, or untouched if the DLL
\* does not export it, whatever the number of imports and descriptors and wherever the
\* tables lie (driver_loader.c:61-130, dll_loader.c:52).
THEOREM ImportsAreBound ==
  ASSUME FilesFormed
  PROVE  Spec => []BoundRight
<1>1. LoaderInv => BoundRight
  <2> SUFFICES ASSUME LoaderInv, pc \in {"running", "done"}, NEW w \in file.wanted
               PROVE  SlotRight(w)
    BY DEF BoundRight, SlotRight
  <2>1. FileOpen /\ Filled(Entries)
    BY DEF LoaderInv, FileInv, FileOpen, DoneInv
  <2>2. CASE w.descriptor = 1
    <3>1. PICK k \in 0 .. Entries - 1 : w.slot = IatAt(file) + k
      BY <2>1, <2>2, WantedEntry DEF FileOpen, Entries
    <3>2. w.slot \in IatAt(file) .. IatAt(file) + Entries - 1
      BY <2>1, <3>1, TablePlaces DEF FileOpen, Entries
    <3>3. QED
      BY <2>1, <3>2 DEF Filled
  <2>3. CASE w.descriptor # 1
    <3>1. /\ w.slot \in DOMAIN file.cells
          /\ w.slot \notin IatAt(file) .. IatAt(file) + Entries - 1
      BY <2>1, <2>3, WantedEntry DEF FileOpen, Entries
    <3>2. image[w.slot] = file.cells[w.slot]
      BY <2>1, <3>1 DEF Filled
    <3>3. QED
      BY <2>3, <3>2 DEF SlotRight, Wanted
  <2>4. QED
    BY <2>2, <2>3
<1> QED
  BY <1>1, LoaderInvariant, PTL

\* With files as a linker makes them every descriptor and table entry the loader reads
\* and every slot it writes is a cell of the driver's file: neither walk passes the
\* end of its table, whatever the slots were filled with (driver_loader.c:61-128).
THEOREM WalkStaysInImage ==
  ASSUME FilesFormed
  PROVE  Spec => []LookupInImage
<1>1. ASSUME LoaderInv, pc = "names"
      PROVE  InImage(directory) /\ InImage(scan)
  <2>1. /\ FileOpen /\ image = file.cells /\ directory = Base + At(file, file.imports)
    BY <1>1 DEF LoaderInv, FileInv, FileOpen, NamesInv
  <2>2. PICK j \in 0 .. Len(file.dlls) : scan = Base + At(file, file.imports) + j
    BY <1>1 DEF LoaderInv, NamesInv
  <2>3. Descriptors(scan) # {}
    BY DEF Descriptors, AnyDescriptor
  <2>4. InImage(scan)
    BY <2>1, <2>2, <2>3, DescriptorHere
  <2>5. QED
    BY <2>1, <2>4, FirstIsRead
<1>2. ASSUME LoaderInv, pc \in {"imports", "parsed", "resolve"}
      PROVE  InImage(lookup) /\ (pc # "imports" => InImage(iat))
  <2>1. FileOpen /\ IatAt(file) \in Nat /\ Entries \in Nat
    BY <1>2, LoopPlace
  <2>2. PICK k \in 0 .. Entries :
          /\ lookup = Base + LookupAt(file) + k /\ iat = Base + IatAt(file) + k
          /\ Filled(k) /\ (pc # "imports" => k < Entries)
    BY <1>2, LoopPlace
  <2>3. InImage(lookup)
    BY <2>1, <2>2, LookupCell
  <2>4. ASSUME pc # "imports"
        PROVE  InImage(iat)
    <3>1. k \in 0 .. Entries - 1
      BY <2>1, <2>2, <2>4
    <3>2. IatAt(file) + k \in DOMAIN file.cells
      BY <2>1, <3>1, TablePlaces DEF FileOpen, Entries
    <3>3. iat - Base = IatAt(file) + k
      BY <2>1, <2>2, LoaderAssumption
    <3>4. QED
      BY <2>2, <3>2, <3>3 DEF Filled, InImage
  <2>5. QED
    BY <2>3, <2>4
<1>3. LoaderInv => LookupInImage
  BY <1>1, <1>2 DEF LookupInImage
<1> QED
  BY <1>3, LoaderInvariant, PTL

\* What the import table shows of the loader.
View == <<file.cells, Table, Legal, Running>>

\* A round that resolves an import fills a slot of the table, or none.
LEMMA BindFills ==
  ASSUME FilesFormed, LoaderInv, Bind
  PROVE  (\E s \in DOMAIN Legal : Imports!Fill(s)) \/ UNCHANGED View
<1>1. pc = "resolve" /\ pc' = "imports" /\ file' = file
  BY DEF Bind
<1>2. FileOpen
  BY <1>1, LoopPlace
<1>3. PICK k \in 0 .. Entries - 1 : \E g :
        /\ lookup = Base + LookupAt(file) + k /\ iat = Base + IatAt(file) + k
        /\ Filled(k)
        /\ IatAt(file) + k \in DOMAIN image
        /\ image[IatAt(file) + k] = file.cells[IatAt(file) + k]
        /\ image' = IF g = Zero THEN image ELSE [image EXCEPT ![IatAt(file) + k] = g]
        /\ Parse(LastDll) = 0
        /\ \/ g = IF FnOf(file, k) \in Dlls[LastDll].exported
                    THEN Func(LastDll, FnOf(file, k)) ELSE Zero
           \/ ~kept /\ g \in {Zero, Func(Undefined, FnOf(file, k))}
  BY BindWrites, Zenon
<1> DEFINE s == IatAt(file) + k
           fn == FnOf(file, k)
<1>4. PICK g :
        /\ image' = IF g = Zero THEN image ELSE [image EXCEPT ![s] = g]
        /\ \/ g = IF fn \in Dlls[LastDll].exported THEN Func(LastDll, fn) ELSE Zero
           \/ ~kept /\ g \in {Zero, Func(Undefined, fn)}
  BY <1>3, Zenon
<1>5. image[s] = file.cells[s] /\ LastDll \in DOMAIN Dlls
  BY <1>3, ParsedDll, Zenon
<1>6. PICK w \in file.wanted : w.slot = s /\ w.fn = fn
  <2>1. Kind(file.cells[LookupAt(file) + k]) = "rva"
    <3>1. PICK j \in 0 .. Entries :
            lookup = Base + LookupAt(file) + j /\ Kind(file.cells[LookupAt(file) + j]) = "rva"
      BY <1>1, LoopPlace
    <3>2. j = k
      BY <1>1, <1>3, <3>1, LoopPlace, LoaderAssumption
    <3>3. QED
      BY <3>1, <3>2
  <2>2. QED
    BY <1>2, <2>1, NamedEntry DEF FileOpen, Entries
<1> HIDE DEF s, fn
<1>7. /\ Table = image /\ Table' = image'
      /\ Running = FALSE /\ Running' = FALSE
      /\ Legal' = Legal /\ file'.cells = file.cells
  BY <1>1 DEF Table, Running, Legal
<1>8. CASE g = Zero
  BY <1>4, <1>7, <1>8 DEF View
<1>9. CASE g # Zero
  <2>1. \E d \in DOMAIN Dlls \cup {Undefined} : g = Func(d, fn)
    BY <1>4, <1>5, <1>9
  <2>2. s \in DOMAIN Legal
    BY <1>6 DEF Legal
  <2>3. g \in Legal[s]
    BY <1>6, <2>1 DEF Legal
  <2>4. Imports!Fill(s)
    <3>1. ~Running /\ Table[s] = file.cells[s]
      BY <1>5, <1>7
    <3>2. \E f \in Legal[s] : Table' = [Table EXCEPT ![s] = f]
      BY <1>4, <1>7, <1>9, <2>3
    <3>3. UNCHANGED <<file.cells, Legal, Running>>
      BY <1>7
    <3>4. QED
      BY <3>1, <3>2, <3>3, Zenon DEF Imports!Fill
  <2>5. QED
    BY <2>2, <2>4, Zenon
<1>10. QED
  BY <1>8, <1>9, Zenon

\* No other step but the last writes the table.
LEMMA StepFills ==
  ASSUME FilesFormed, LoaderInv, [Next]_vars
  PROVE  Imports!Next \/ UNCHANGED View
<1>1. CASE Bind
  BY <1>1, BindFills, Zenon DEF Imports!Next
<1>2. CASE Start
  <2>1. pc = "imports" /\ pc' = "running" /\ file' = file /\ image' = image
    BY <1>2 DEF Start
  <2>2. /\ ~Running /\ Running' /\ Table' = Table
        /\ Legal' = Legal /\ file'.cells = file.cells
    BY <2>1 DEF Running, Table, Legal
  <2>3. Imports!Run
    BY <2>2, Zenon DEF Imports!Run
  <2>4. QED
    BY <2>3, Zenon DEF Imports!Next
<1>3. CASE Open
  BY <1>3 DEF Open, View, Table, Legal, Running
<1>4. CASE Panic \/ Exit
  BY <1>4 DEF Panic, Exit, View, Table, Legal, Running
<1>5. CASE NextName \/ Tables \/ ByOrdinalSkipped \/ ParseDll \/ NotLoaded \/ Loaded \/ Fault
  <2>1. /\ file' = file /\ image' = image
        /\ pc \in {"names", "imports", "parsed", "resolve"}
        /\ pc' \in {"names", "imports", "parsed", "resolve", "fault"}
    BY <1>5 DEF NextName, Tables, ByOrdinalSkipped, ParseDll, NotLoaded, Loaded, Fault
  <2>2. QED
    BY <2>1 DEF View, Table, Legal, Running
<1>6. CASE UNCHANGED vars
  BY <1>6 DEF vars, View, Table, Legal, Running
<1>7. QED
  BY <1>1, <1>2, <1>3, <1>4, <1>5, <1>6, Zenon DEF Next

\* load_driver fills an import table: each slot once, with a function of the name
\* asked for, nothing else, and nothing once the driver runs (driver_loader.c:68-130).
THEOREM LoaderFillsTable ==
  ASSUME FilesFormed
  PROVE  Spec => FillsTable
<1>1. Init => Imports!Init
  BY DEF Init, Imports!Init, Table, Running
<1>2. LoaderInv /\ [Next]_vars => [Imports!Next]_<<file.cells, Table, Legal, Running>>
  BY StepFills DEF View
<1> QED
  BY <1>1, <1>2, LoaderInvariant, PTL DEF Spec, FillsTable, Imports!Spec

-----------------------------------------------------------------------------
(* The loader comes to an end                                              *)

\* The descriptors whose name is still to be read, and the entries still to be walked.
Names == Len(file.dlls)
NamesLeft == Base + At(file, file.imports) + Names - scan
EntriesLeft == Base + LookupAt(file) + Entries - lookup

\* What is left of load_driver: three steps for each entry, one for each descriptor.
Left == CASE pc = "start"   -> IF file.found /\ file.mz THEN Names + 3 * Entries + 5 ELSE 1
          [] pc = "names"   -> NamesLeft + 3 * Entries + 4
          [] pc = "imports" -> 3 * EntriesLeft + 3
          [] pc = "parsed"  -> 3 * EntriesLeft + 2
          [] pc = "resolve" -> 3 * EntriesLeft + 1
          [] pc = "running" -> 1
          [] OTHER          -> 0

\* A loader that has stopped at a fault has lost a result before.
FaultInv == pc = "fault" => ~kept

\* It has an end, and knows where: the driver has run, the kernel has stopped, or a
\* result was lost.
Ended == pc \in {"done", "panic"} \/ ~kept

\* In the walk over the names there are as many left as descriptors behind the one
\* that is read, and in the loop as many entries as behind the one it has come to.
LEMMA LeftInNames ==
  ASSUME FilesFormed, LoaderInv, pc = "names"
  PROVE  /\ NamesLeft \in Nat /\ Entries \in Nat /\ Names \in Nat
         /\ Base \in Nat /\ At(file, file.imports) \in Nat /\ scan \in Nat
<1>1. FileOpen
  BY DEF LoaderInv, FileInv, FileOpen
<1>2. Names \in Nat /\ At(file, file.imports) \in Nat /\ Base \in Nat
  BY <1>1, Terminator, LoaderAssumption DEF FileOpen, Names
<1>3. Entries \in Nat
  BY <1>1, TablePlaces DEF FileOpen, Entries
<1>4. PICK j \in 0 .. Names : scan = Base + At(file, file.imports) + j
  BY DEF LoaderInv, NamesInv, Names
<1> QED
  BY <1>2, <1>3, <1>4 DEF NamesLeft

LEMMA LeftInLoop ==
  ASSUME FilesFormed, LoaderInv, pc \in {"imports", "parsed", "resolve"}
  PROVE  /\ EntriesLeft \in Nat /\ (pc # "imports" => EntriesLeft > 0)
         /\ Entries \in Nat /\ LookupAt(file) \in Nat /\ Base \in Nat /\ lookup \in Nat
<1>1. LookupAt(file) \in Nat /\ Entries \in Nat /\ Base \in Nat
  BY LoopPlace, LoaderAssumption
<1>2. PICK k \in 0 .. Entries :
        lookup = Base + LookupAt(file) + k /\ (pc # "imports" => k < Entries)
  BY LoopPlace
<1> QED
  BY <1>1, <1>2 DEF EntriesLeft

LEMMA LeftIsNat ==
  ASSUME FilesFormed, LoaderInv
  PROVE  Left \in Nat
<1>1. pc \in Places /\ file \in Drivers
  BY DEF LoaderInv, FileInv
<1>2. CASE pc = "start" /\ file.found /\ file.mz
  <2>1. Names \in Nat /\ Entries \in Nat
    BY <1>1, <1>2, Terminator, TablePlaces DEF Entries, Names
  <2>2. Left = Names + 3 * Entries + 5
    BY <1>2 DEF Left
  <2> QED
    BY <2>1, <2>2
<1>3. CASE pc = "start" /\ ~(file.found /\ file.mz)
  BY <1>3 DEF Left
<1>4. CASE pc = "names"
  <2>1. NamesLeft \in Nat /\ Entries \in Nat
    BY <1>4, LeftInNames
  <2>2. Left = NamesLeft + 3 * Entries + 4
    BY <1>4 DEF Left
  <2> QED
    BY <2>1, <2>2
<1>5. CASE pc \in {"imports", "parsed", "resolve"}
  <2>1. EntriesLeft \in Nat
    BY <1>5, LeftInLoop
  <2>2. Left = 3 * EntriesLeft + 3 \/ Left = 3 * EntriesLeft + 2 \/ Left = 3 * EntriesLeft + 1
    BY <1>5 DEF Left
  <2> QED
    BY <2>1, <2>2
<1>6. CASE pc \in {"running", "done", "panic", "fault"}
  BY <1>6 DEF Left
<1> QED
  BY <1>1, <1>2, <1>3, <1>4, <1>5, <1>6 DEF Places

\* Each step of the loader leaves less of it, also where the next entry or descriptor
\* is read from the file.
LEMMA LoaderGoesDown ==
  ASSUME FilesFormed, LoaderInv, Next
  PROVE  Left' < Left
<1>1. CASE Panic
  <2>1. pc = "start" /\ pc' = "panic" /\ ~(file.found /\ file.mz)
    BY <1>1 DEF Panic
  <2>2. Left = 1 /\ Left' = 0
    BY <2>1 DEF Left
  <2> QED
    BY <2>2
<1>2. CASE Open
  <2>1. /\ pc = "start" /\ pc' = "names" /\ file' = file /\ file \in Drivers
        /\ file.found /\ file.mz /\ scan' = Here(file.imports)
    BY <1>2 DEF Open, LoaderInv, FileInv
  <2>2. /\ Names \in Nat /\ At(file, file.imports) \in Nat /\ Base \in Nat
        /\ RvaToPointer(file.sections, file.imports) = Base + At(file, file.imports)
    BY <2>1, Terminator, LoaderAssumption DEF Names
  <2>3. Entries \in Nat /\ Entries' = Entries
    BY <2>1, TablePlaces DEF Entries
  <2>4. scan' = Base + At(file, file.imports)
    BY <2>1, <2>2 DEF Here
  <2>5. NamesLeft' = Names
    <3>1. NamesLeft' = Base + At(file, file.imports) + Names - scan'
      BY <2>1 DEF NamesLeft, Names
    <3> QED
      BY <2>2, <2>4, <3>1
  <2>6. Left = Names + 3 * Entries + 5
    BY <2>1 DEF Left
  <2>7. Left' = NamesLeft' + 3 * Entries + 4
    BY <2>1, <2>3 DEF Left
  <2> QED
    BY <2>2, <2>3, <2>5, <2>6, <2>7
<1>3. CASE NextName
  <2>1. pc = "names" /\ pc' = "names" /\ file' = file /\ scan' = scan + 1
    BY <1>3 DEF NextName
  <2>2. /\ NamesLeft \in Nat /\ Entries \in Nat /\ Names \in Nat
        /\ Base \in Nat /\ At(file, file.imports) \in Nat /\ scan \in Nat
    BY <2>1, LeftInNames
  <2>3. Entries' = Entries
    BY <2>1 DEF Entries
  <2>4. NamesLeft' = NamesLeft - 1
    <3>1. NamesLeft' = Base + At(file, file.imports) + Names - (scan + 1)
      BY <2>1 DEF NamesLeft, Names
    <3> QED
      BY <2>2, <3>1 DEF NamesLeft
  <2>5. Left = NamesLeft + 3 * Entries + 4
    BY <2>1 DEF Left
  <2>6. Left' = NamesLeft' + 3 * Entries + 4
    BY <2>1, <2>3 DEF Left
  <2> QED
    BY <2>2, <2>4, <2>5, <2>6
<1>4. CASE Tables
  <2>1. pc = "names" /\ pc' = "imports" /\ file' = file
    BY <1>4 DEF Tables
  <2>2. NamesLeft \in Nat /\ Entries \in Nat
    BY <2>1, LeftInNames
  <2>3. /\ LookupAt(file) \in Nat /\ Base \in Nat /\ Entries' = Entries
        /\ lookup' = Base + LookupAt(file)
    <3>1. /\ FileOpen
          /\ directory = Base + At(file, file.imports) /\ image = file.cells
      BY <2>1 DEF LoaderInv, FileInv, FileOpen, NamesInv
    <3>2. Descriptors(directory) = {FirstDescriptor(file)}
      BY <3>1, FirstIsRead
    <3>3. /\ LookupAt(file) \in Nat
          /\ RvaToPointer(file.sections, LookupRva(FirstDescriptor(file))) = Base + LookupAt(file)
      BY <3>1, TablePlaces DEF FileOpen
    <3> QED
      BY <1>4, <2>1, <3>2, <3>3, LoaderAssumption DEF Tables, Here, Entries
  <2>4. EntriesLeft' = Entries
    <3>1. EntriesLeft' = Base + LookupAt(file) + Entries - lookup'
      BY <2>1, <2>3 DEF EntriesLeft
    <3> QED
      BY <2>2, <2>3, <3>1
  <2>5. Left = NamesLeft + 3 * Entries + 4
    BY <2>1 DEF Left
  <2>6. Left' = 3 * EntriesLeft' + 3
    BY <2>1 DEF Left
  <2> QED
    BY <2>2, <2>4, <2>5, <2>6
<1>5. ASSUME pc \in {"imports", "parsed", "resolve"}, pc' = "imports", file' = file, Advance
      PROVE  Left' < Left
  <2>1. /\ EntriesLeft \in Nat /\ Entries \in Nat /\ LookupAt(file) \in Nat
        /\ Base \in Nat /\ lookup \in Nat
    BY <1>5, LeftInLoop
  <2>2. EntriesLeft' = EntriesLeft - 1
    <3>1. Entries' = Entries /\ lookup' = lookup + 1
      BY <1>5 DEF Advance, Entries
    <3>2. EntriesLeft' = Base + LookupAt(file) + Entries - (lookup + 1)
      BY <1>5, <3>1 DEF EntriesLeft
    <3> QED
      BY <2>1, <3>2 DEF EntriesLeft
  <2>3. Left = 3 * EntriesLeft + 3 \/ Left = 3 * EntriesLeft + 2 \/ Left = 3 * EntriesLeft + 1
    BY <1>5 DEF Left
  <2>4. Left' = 3 * EntriesLeft' + 3
    BY <1>5 DEF Left
  <2> QED
    BY <2>1, <2>2, <2>3, <2>4
<1>6. CASE ByOrdinalSkipped \/ NotLoaded \/ Bind
  <2>1. pc \in {"imports", "parsed", "resolve"} /\ pc' = "imports" /\ file' = file /\ Advance
    BY <1>6 DEF ByOrdinalSkipped, NotLoaded, Bind
  <2> QED
    BY <1>5, <2>1
<1>7. CASE ParseDll \/ Loaded
  <2>1. /\ <<pc, pc'>> \in {<<"imports", "parsed">>, <<"parsed", "resolve">>}
        /\ file' = file /\ lookup' = lookup
    BY <1>7 DEF ParseDll, Loaded
  <2>2. EntriesLeft \in Nat
    BY <2>1, LeftInLoop
  <2>3. EntriesLeft' = EntriesLeft
    BY <2>1 DEF EntriesLeft, Entries
  <2>4. \/ Left = 3 * EntriesLeft + 3 /\ Left' = 3 * EntriesLeft + 2
        \/ Left = 3 * EntriesLeft + 2 /\ Left' = 3 * EntriesLeft + 1
    BY <2>1, <2>3 DEF Left
  <2> QED
    BY <2>2, <2>4
<1>8. CASE Fault \/ Start
  <2>1. /\ pc \in {"resolve", "imports"} /\ pc' \in {"fault", "running"}
    BY <1>8 DEF Fault, Start
  <2>2. EntriesLeft \in Nat /\ (pc = "resolve" => EntriesLeft > 0)
    BY <2>1, LeftInLoop
  <2>3. /\ Left = 3 * EntriesLeft + 3 \/ (pc = "resolve" /\ Left = 3 * EntriesLeft + 1)
        /\ Left' = 0 \/ Left' = 1
    BY <2>1 DEF Left
  <2> QED
    BY <2>2, <2>3
<1>9. CASE Exit
  <2>1. pc = "running" /\ pc' = "done"
    BY <1>9 DEF Exit
  <2>2. Left = 1 /\ Left' = 0
    BY <2>1 DEF Left
  <2> QED
    BY <2>2
<1> QED
  BY <1>1, <1>2, <1>3, <1>4, <1>6, <1>7, <1>8, <1>9 DEF Next

LEMMA FaultKeeps ==
  ASSUME LoaderInv, FaultInv, [Next]_vars
  PROVE  FaultInv'
<1>1. CASE Fault
  <2>1. pc = "resolve" /\ ~result.live /\ kept' = kept
    BY <1>1 DEF Fault
  <2>2. PICK live \in BOOLEAN : result = ResultOf(live) /\ (kept => live)
    BY <2>1 DEF LoaderInv, ResultInv
  <2>3. ~kept
    BY <2>1, <2>2 DEF ResultOf
  <2> QED
    BY <2>1, <2>3 DEF FaultInv
<1>2. CASE ~Fault
  BY <1>2 DEF FaultInv, Next, Panic, Open, NextName, Tables, ByOrdinalSkipped, ParseDll, NotLoaded,
              Loaded, Bind, Start, Exit, vars
<1> QED
  BY <1>1, <1>2

\* Where nothing is left of it the loader has ended.
LEMMA NothingLeft ==
  ASSUME FilesFormed, LoaderInv, FaultInv, Left = 0
  PROVE  Ended
<1>1. pc \in Places /\ file \in Drivers
  BY DEF LoaderInv, FileInv
<1>2. pc \notin {"imports", "parsed", "resolve"}
  <2> SUFFICES ASSUME pc \in {"imports", "parsed", "resolve"} PROVE FALSE
    OBVIOUS
  <2>1. EntriesLeft \in Nat
    BY LeftInLoop
  <2>2. Left = 3 * EntriesLeft + 3 \/ Left = 3 * EntriesLeft + 2 \/ Left = 3 * EntriesLeft + 1
    BY DEF Left
  <2> QED
    BY <2>1, <2>2
<1>3. pc # "names"
  <2> SUFFICES ASSUME pc = "names" PROVE FALSE
    OBVIOUS
  <2>1. NamesLeft \in Nat /\ Entries \in Nat
    BY LeftInNames
  <2>2. Left = NamesLeft + 3 * Entries + 4
    BY DEF Left
  <2> QED
    BY <2>1, <2>2
<1>4. pc # "start"
  <2> SUFFICES ASSUME pc = "start" PROVE FALSE
    OBVIOUS
  <2>1. CASE file.found /\ file.mz
    <3>1. Names \in Nat /\ Entries \in Nat
      BY <1>1, <2>1, Terminator, TablePlaces DEF Entries, Names
    <3>2. Left = Names + 3 * Entries + 5
      BY <2>1 DEF Left
    <3> QED
      BY <3>1, <3>2
  <2>2. CASE ~(file.found /\ file.mz)
    BY <2>2 DEF Left
  <2> QED
    BY <2>1, <2>2
<1>5. pc # "running"
  BY DEF Left
<1> QED
  BY <1>1, <1>2, <1>3, <1>4, <1>5 DEF Places, Ended, FaultInv

LEMMA FaultInvariant ==
  ASSUME FilesFormed
  PROVE  Spec => []FaultInv
<1>1. Init => FaultInv
  BY DEF Init, FaultInv
<1>2. LoaderInv /\ FaultInv /\ [Next]_vars => FaultInv'
  BY FaultKeeps
<1> QED
  BY <1>1, <1>2, LoaderInvariant, PTL DEF Spec

\* No step of load_driver is ever undone or repeated: the number of descriptors and
\* entries left goes down to nothing, and there the driver has run, the kernel has
\* stopped or a result was lost, whatever the number of imports and descriptors and
\* also where the loop overwrites the table it walks (driver_loader.c:12-148).
THEOREM LoaderDescends ==
  ASSUME FilesFormed
  PROVE  Spec => [](Left \in Nat /\ (Left = 0 => Ended)) /\ [][Left' < Left]_vars
<1>1. LoaderInv /\ FaultInv => Left \in Nat /\ (Left = 0 => Ended)
  BY LeftIsNat, NothingLeft
<1>2. LoaderInv /\ [Next]_vars => [Left' < Left]_vars
  BY LoaderGoesDown
<1> QED
  BY <1>1, <1>2, LoaderInvariant, FaultInvariant, PTL DEF Spec

\* When load_driver has a next step: the guards of its actions.
Ready ==
    \/ pc \in {"start", "parsed", "running"}
    \/ /\ pc = "names" /\ Walkable(scan)
       /\ \E c \in Descriptors(scan) : NameRva(c) # 0
    \/ /\ pc = "names" /\ Descriptors(directory) # {}
       /\ \E c \in Descriptors(scan) : NameRva(c) = 0
    \/ pc = "imports" /\ Walkable(lookup) /\ OrdinalFlag \in Thunks(lookup)
    \/ pc = "imports" /\ Walkable(lookup) /\ \E c \in Thunks(lookup) : Kind(c) = "rva"
    \/ pc = "imports" /\ Zero \in Thunks(lookup)
    \/ pc = "resolve" /\ \E c \in Thunks(lookup) : Kind(c) = "rva"

\* Every cell the loader comes to in a well-formed file is one that it knows what to do
\* with: nowhere but at its end is there nothing that it may do.
LEMMA LoaderIsReady ==
  ASSUME FilesFormed, LoaderInv, FaultInv, ~Ended
  PROVE  Ready
<1>1. pc \in Places
  BY DEF LoaderInv, FileInv
<1>2. CASE pc = "names"
  <2>1. FileOpen
    BY <1>2 DEF LoaderInv, FileInv, FileOpen
  <2>2. PICK j \in 0 .. Len(file.dlls) : scan = Base + At(file, file.imports) + j
    BY <1>2 DEF LoaderInv, NamesInv
  <2>3. image = file.cells /\ directory = Base + At(file, file.imports)
    BY <1>2 DEF LoaderInv, NamesInv
  <2>4. Descriptors(directory) # {} /\ Descriptors(scan) # {}
    BY DEF Descriptors, AnyDescriptor
  <2>5. InImage(scan)
    BY <2>1, <2>2, <2>3, <2>4, DescriptorHere
  <2>6. Walkable(scan)
    <3>1. scan - 0 = scan
      <4>1. At(file, file.imports) \in Nat /\ Base \in Nat /\ j \in Nat
        BY <1>2, LeftInNames
      <4> DEFINE o == At(file, file.imports)
      <4> HIDE DEF o
      <4>2. QED
        BY <2>2, <4>1 DEF o
    <3>2. 0 \in 0 .. StrayBound
      BY LoaderAssumption
    <3> QED
      BY <2>5, <3>1, <3>2 DEF Walkable
  <2> QED
    BY <1>2, <2>4, <2>6 DEF Ready
<1>3. CASE pc = "imports"
  <2>1. PICK k \in 0 .. Entries : lookup = Base + LookupAt(file) + k /\ Filled(k)
    BY <1>3, LoopPlace
  <2>2. FileOpen /\ Entries \in Nat
    BY <1>3, LoopPlace
  <2> DEFINE c == file.cells[LookupAt(file) + k]
  <2>3. Thunks(lookup) = {c} /\ InImage(lookup)
    BY <2>1, <2>2, LookupCell
  <2>4. c = OrdinalFlag \/ Kind(c) = "rva" \/ c = Zero
    <3>1. CASE k = Entries
      BY <2>2, <3>1, TablePlaces DEF FileOpen, Entries
    <3>2. CASE k \in 0 .. Entries - 1
      BY <2>2, <3>2, ThunkKinds
    <3> QED
      BY <2>2, <3>1, <3>2
  <2>5. Walkable(lookup)
    <3>1. LookupAt(file) \in Nat /\ Base \in Nat /\ k \in Nat
      BY <1>3, <2>2, LoopPlace, LoaderAssumption
    <3>2. lookup - 0 = lookup
      BY <2>1, <3>1
    <3>3. 0 \in 0 .. StrayBound
      BY LoaderAssumption
    <3> QED
      BY <2>3, <3>2, <3>3 DEF Walkable
  <2> HIDE DEF c
  <2> QED
    BY <1>3, <2>3, <2>4, <2>5 DEF Ready
<1>4. CASE pc = "resolve"
  <2>1. PICK k \in 0 .. Entries : /\ lookup = Base + LookupAt(file) + k /\ Filled(k)
                                 /\ Kind(file.cells[LookupAt(file) + k]) = "rva"
    BY <1>4, LoopPlace
  <2>2. FileOpen
    BY <1>4, LoopPlace
  <2>3. Thunks(lookup) = {file.cells[LookupAt(file) + k]}
    BY <2>1, <2>2, LookupCell
  <2> QED
    BY <1>4, <2>1, <2>3 DEF Ready
<1>5. CASE pc \in {"start", "parsed", "running"}
  BY <1>5 DEF Ready
<1> QED
  BY <1>1, <1>2, <1>3, <1>4, <1>5 DEF Places, Ended, FaultInv

\* A step whose guard holds can be taken.
CanGoOn == Ready => ENABLED <<Next>>_vars

\* With n steps of it left the loader gets on: it ends, or comes to where fewer are
\* left.  Terminates is this for every n and that no natural number can be left
\* behind for ever (driver_loader.c:35-130).
THEOREM LoaderGetsOn ==
  ASSUME FilesFormed, NEW n \in Nat
  PROVE  Spec /\ []CanGoOn => (Left = n ~> (Left < n \/ Ended))
<1>1. LoaderInv /\ Left = n /\ [Next]_vars => (Left = n)' \/ (Left < n)'
  <2> SUFFICES ASSUME LoaderInv, Left = n, [Next]_vars PROVE Left' = n \/ Left' < n
    OBVIOUS
  <2>1. CASE Next
    BY <2>1, LoaderGoesDown
  <2>2. CASE UNCHANGED vars
    <3>1. UNCHANGED <<pc, file, scan, lookup>>
      BY <2>2 DEF vars
    <3>2. Left' = Left
      BY <3>1 DEF Left, NamesLeft, Names, EntriesLeft, Entries
    <3> QED
      BY <3>2
  <2> QED
    BY <2>1, <2>2
<1>2. LoaderInv /\ Left = n /\ <<Next>>_vars => (Left < n)'
  BY LoaderGoesDown
<1>3. LoaderInv /\ FaultInv /\ CanGoOn => Ended \/ ENABLED <<Next>>_vars
  BY LoaderIsReady DEF CanGoOn
<1> QED
  BY <1>1, <1>2, <1>3, LoaderInvariant, FaultInvariant, PTL DEF Spec
=============================================================================
