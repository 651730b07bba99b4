------------------------------ MODULE MCMonoFs ------------------------------
(* Images for MonoFs, with the code's own header sizes and heap base. *)
EXTENDS MonoFs

MCBase == 1048576
MCWord == 1073741824
MCLength == 60000
MCBlockHdr == 12
MCEntryHdr == 12

\* An image is given by its files in order, as <<name, length of name, data>>.
ImageOf(files) == [f \in DOMAIN files |-> [name |-> files[f][1], data |-> files[f][3]]]
NameLenOf(files) ==
    [n \in {files[f][1] : f \in DOMAIN files} |->
       files[CHOOSE f \in DOMAIN files : files[f][1] = n][2]]

\* Seven files asked for by literals, two more than the table has slots, and as build.py
\* packs them an empty file and the entry of a directory.
SevenFiles == << <<"a", 5, 100>>, <<"boot.cfg", 8, 0>>, <<"b", 9, 700>>, <<"c", 6, 300>>,
                 <<"d", 8, 40>>, <<"e", 7, 900>>, <<"f", 5, 512>>, <<"dll", 3, 0>>, <<"g", 5, 60>> >>
SevenImage == ImageOf(SevenFiles)
SevenNameLen == NameLenOf(SevenFiles)
SevenLiterals == {"a", "b", "c", "d", "e", "f", "g"}
NoDll == [d \in {} |-> "a"]

\* Two drivers, one of which names a DLL the image does not have, and a directory entry.
\* The lengths are such that an import's path buffer comes to hold another file's name.
PairFiles == << <<"cfg", 67, 700>>, <<"one.kdr", 49, 2000>>, <<"two.kdr", 23, 4000>>,
                <<"dll", 3, 0>>, <<"dll/lib.dll", 136, 700>> >>
PairImage == ImageOf(PairFiles)
PairNameLen == NameLenOf(PairFiles \o << <<"dll/none.dll", 71, 0>> >>)
PairLiterals == {"one.kdr", "two.kdr", "cfg"}
PairDll == [d \in {"one.kdr", "two.kdr"} |->
              IF d = "one.kdr" THEN "dll/lib.dll" ELSE "dll/none.dll"]

\* Two drivers with a DLL each, whose paths are longer than the debug message
\* beside them.
LongFiles == << <<"one.kdr", 7, 700>>, <<"dll/b.dll", 120, 100>>, <<"two.kdr", 7, 400>>,
                <<"cfg", 20, 20>>, <<"dll/a.dll", 70, 400>> >>
LongImage == ImageOf(LongFiles)
LongNameLen == NameLenOf(LongFiles)
LongLiterals == {"one.kdr", "two.kdr", "cfg"}
LongDll == [d \in {"one.kdr", "two.kdr"} |->
              IF d = "one.kdr" THEN "dll/a.dll" ELSE "dll/b.dll"]

ASSUME ConditionsHold == SizesFit /\ BelowHeap /\ RoomToOpen
=============================================================================
