---------------------------- MODULE ImportTable ----------------------------
(***************************************************************************)
(* What loading promises of a driver's import table: cells that are to hold *)
(* functions are filled one at a time, each at most once, and only until    *)
(* the driver runs.                                                         *)
(***************************************************************************)
VARIABLES
    given,    \* the cells as the file has them
    table,    \* the cells now
    legal,    \* cell -> the functions it may be filled with
    running   \* whether the driver has been started

Init == table = given /\ ~running

Fill(s) ==
    /\ ~running /\ table[s] = given[s]
    /\ \E f \in legal[s] : table' = [table EXCEPT ![s] = f]
    /\ UNCHANGED <<given, legal, running>>

Run ==
    /\ ~running /\ running'
    /\ UNCHANGED <<given, legal, table>>

Next == (\E s \in DOMAIN legal : Fill(s)) \/ Run

Spec == Init /\ [][Next]_<<given, table, legal, running>>
=============================================================================
