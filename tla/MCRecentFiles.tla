---------------------------- MODULE MCRecentFiles ----------------------------
(* MonoFs with a record of who was asked for last, to hold the table against *)
(* what its comments say of it.                                              *)
EXTENDS MCMonoFs

VARIABLE recent     \* the files get_file_content has given, in the order of last use

Others(name) == SelectSeq(recent, LAMBDA n : n # name)

RecentInit == Init /\ recent = <<>>

RecentNext ==
    \/ \E name \in Literals : OpenLiteral(name) /\ recent' = Append(Others(name), name)
    \/ (Mount \/ \E c \in Lent : Close(c)) /\ UNCHANGED recent

RecentSpec == RecentInit /\ [][RecentNext]_<<vars, recent>>

InTable == {NameAt(text, virtual_file_list[i].file_name) : i \in {k \in Slots : Filled(virtual_file_list, k)}}

\* The table holds the five files used last, or as many as have been used
\* (mono_fs.c:9 "5 most recently used files", mono_fs.c:47 "find the least recently
\* used file").
FiveMostRecent ==
    InTable = {recent[k] : k \in {k \in DOMAIN recent : k > Len(recent) - Cardinality(Slots)}}
=============================================================================
