------------------------------ MODULE MCLoader ------------------------------
(***************************************************************************)
(* Small PE files for TLC.  Every file has its code at RVA 16, file offset  *)
(* 1, and its tables at RVA 32, file offset 5: the distance between the two *)
(* is not the same, so an RVA is never an offset.                            *)
(***************************************************************************)
EXTENDS Loader, SequencesExt, TLC

Sections == <<[va |-> 16, size |-> 4, raw |-> 1], [va |-> 32, size |-> 40, raw |-> 5]>>
Off(rva) == 5 + (rva - 32)

\* A DLL that exports p, q and r; the ordinals are not in the order of the names.
DllCells(n) ==
    [o \in 1 .. 3 |-> Func(n, <<"p", "q", "r">>[o])]
    @@ [o \in Off(32) .. Off(34) |-> Rva(41 + (o - Off(32)))]
    @@ (Off(35) :> Number(2)) @@ (Off(36) :> Number(0))
    @@ (Off(37) :> Number(1))
    @@ (Off(38) :> Rva(17)) @@ (Off(39) :> Rva(18)) @@ (Off(40) :> Rva(16))
    @@ [o \in Off(41) .. Off(43) |-> NameCell(<<"p", "q", "r">>[o - Off(41) + 1])]

Dll(n) == [mz |-> TRUE, sections |-> Sections, exports |-> 32, names |-> 32, ordinals |-> 35,
           functions |-> 38, count |-> 3, cells |-> DllCells(n), exported |-> {"p", "q", "r"}]

\* A driver whose descriptors are at RVA 32; the tables of the d-th descriptor are
\* at 36 + 12 * (d - 1): lookup 0-3, IAT 4-7, the DLL's name 8, the functions' 9-11.
T(d) == 36 + 12 * (d - 1)
Thunk(d, fns, k) == IF k > Len(fns) THEN Zero
                    ELSE IF fns[k] = "#" THEN OrdinalFlag ELSE Rva(T(d) + 8 + k)
TablesOf(d, dll, fns, oft) ==
    [o \in Off(T(d)) .. Off(T(d) + 3) |-> IF oft THEN Thunk(d, fns, o - Off(T(d)) + 1) ELSE Zero]
    @@ [o \in Off(T(d) + 4) .. Off(T(d) + 7) |-> Thunk(d, fns, o - Off(T(d) + 3))]
    @@ (Off(T(d) + 8) :> NameCell(dll))
    @@ [o \in Off(T(d) + 9) .. Off(T(d) + 8 + Len(fns)) |-> NameCell(fns[o - Off(T(d) + 8)])]
Slots(d, fns) ==
    {[descriptor |-> d, fn |-> fns[k], slot |-> Off(T(d) + 3 + k)] : k \in {i \in 1 .. Len(fns) : fns[i] # "#"}}

\* imports: sequence of [dll, fns]; oft: whether the descriptors have a lookup
\* table of their own beside the IAT.
Root(imports, oft) ==
    LET n == Len(imports)
    IN  [o \in 1 .. 2 \cup Off(32) .. Off(32) + n |->
           IF o <= 2 THEN Func("driver", <<"helper", "main">>[o])
           ELSE LET i == o - Off(32) + 1
                IN  IF i > n THEN Zero
                    ELSE Descriptor(T(i) + 8, IF oft THEN T(i) ELSE 0, T(i) + 4)]

\* A file has every cell up to its last; zeros are what a linker pads with.
Padded(c) == [o \in 0 .. Max(DOMAIN c) |-> IF o \in DOMAIN c THEN c[o] ELSE Zero]

Driver(imports, oft) ==
    [found |-> TRUE, mz |-> TRUE, sections |-> Sections, imports |-> 32, entry |-> 17, main |-> 2,
     dlls |-> [d \in 1 .. Len(imports) |-> imports[d].dll],
     cells |-> Padded(FoldLeft(LAMBDA c, d : c @@ TablesOf(d, imports[d].dll, imports[d].fns, oft),
                               Root(imports, oft), [d \in 1 .. Len(imports) |-> d])),
     wanted |-> UNION {Slots(d, imports[d].fns) : d \in 1 .. Len(imports)}]

One(dll, fns) == <<[dll |-> dll, fns |-> fns]>>

\* Lists of up to three imports of one DLL, by name or ordinal, known or not.
FnLists == {<<a>> : a \in {"p", "q", "zz"}} \cup {<<a, b>> : a \in {"p", "#"}, b \in {"r", "zz", "q"}}
           \cup {<<"q", "#", "p">>, <<"zz", "p", "r">>, <<"#", "#", "q">>}

MCDlls == [n \in {"a.dll", "b.dll"} |-> Dll(n)]
          @@ ("text.dll" :> [mz |-> FALSE]) @@ ("bare.dll" :> [mz |-> TRUE, exports |-> 0])

\* Two descriptors: both DLLs export r, only the imports' names differ; and a
\* second one whose DLL is not there.
Two(dll, fns) == <<[dll |-> "a.dll", fns |-> <<"p", "r">>], [dll |-> dll, fns |-> fns]>>
MCTwoDlls == {Driver(Two(dll, <<"r", "q">>), oft) : dll \in {"b.dll", "gone.dll"}, oft \in BOOLEAN}

\* Drivers that import from one DLL, one that is no driver and one that is not there.
Text == [Driver(<<>>, TRUE) EXCEPT !.mz = FALSE]
MCOneDll == {Driver(One("a.dll", fns), oft) : fns \in FnLists, oft \in BOOLEAN}
            \cup {Driver(One(dll, <<"p", "#">>), TRUE) : dll \in {"b.dll", "text.dll", "bare.dll", "gone.dll"}}
            \cup {Text, [Text EXCEPT !.found = FALSE]}
MCDrivers == MCOneDll \cup MCTwoDlls
MCNoImports == {Driver(<<>>, TRUE)}

\* The theorems' conditions hold of the files of loader_bind.
ASSUME MCFilesFormed ==
    FilesFormed \/ Drivers = MCNoImports
=============================================================================
