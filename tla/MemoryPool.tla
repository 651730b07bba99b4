----------------------------- MODULE MemoryPool -----------------------------
(***************************************************************************)
(* What malloc and free promise their callers, with no list and no         *)
(* headers: a set of held areas, each inside the pool, no two of which     *)
(* share a byte or a pointer.  A request may always be refused.            *)
(***************************************************************************)
EXTENDS Integers

CONSTANTS Lo, Hi,   \* the pool is the bytes Lo .. Hi - 1
          Requests  \* sizes that are asked for

VARIABLE held       \* pointer -> size of every area handed out and not released

Separate(p, m, q, n) == p # q /\ (p + m <= q \/ q + n <= p)

Init == held = [p \in {} |-> 0]

Grant(p, s) ==
    /\ Lo <= p /\ p + s <= Hi
    /\ \A q \in DOMAIN held : Separate(p, s, q, held[q])
    /\ held' = [q \in DOMAIN held \cup {p} |-> IF q = p THEN s ELSE held[q]]

Release(p) ==
    /\ p \in DOMAIN held
    /\ held' = [q \in DOMAIN held \ {p} |-> held[q]]

Next == \/ \E s \in Requests : \E p \in Lo .. Hi : Grant(p, s)
        \/ \E p \in DOMAIN held : Release(p)

Spec == Init /\ [][Next]_held
=============================================================================
