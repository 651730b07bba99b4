----------------------------- MODULE FileStore ------------------------------
(***************************************************************************)
(* What get_file_content and free_file_content promise their callers, with  *)
(* no disk, no table and no heap: a handle nobody else holds gives the file *)
(* that was asked for, from the call that returned it until it is freed.    *)
(***************************************************************************)

CONSTANT Stored     \* the names of the files there are

VARIABLE handles    \* handle -> [asked, gives]

Init == handles = [h \in {} |-> {}]

Open(name) ==
    \E h \in DOMAIN handles' \ DOMAIN handles :
      handles' = [g \in DOMAIN handles \cup {h} |->
                    IF g = h THEN [asked |-> name, gives |-> name] ELSE handles[g]]

Close(h) == handles' = [g \in DOMAIN handles \ {h} |-> handles[g]]

Next == (\E name \in Stored : Open(name)) \/ (\E h \in DOMAIN handles : Close(h))

Spec == Init /\ [][Next]_handles
=============================================================================
