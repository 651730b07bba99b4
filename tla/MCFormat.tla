------------------------------ MODULE MCFormat ------------------------------
(* The directives alone and together, with the numbers where digits change. *)
EXTENDS DebugLog

\* The last arguments stand for what va_arg would find behind the others.
Further == <<0, 0>>
One(d, arg) == [fmt |-> <<"%", d>>, args |-> <<arg>> \o Further]

Edges == {0, 1, 9, 10, 15, 16, 255, 256, 1000, 65536, 2147483647, -2147483647, -10, -1, MinInt}

Mixed ==
    {One("c", "z"),
     [fmt |-> <<"d", "l", "l", "/", "%", "s">>, args |-> <<<<"a", ".", "d">>>> \o Further],
     [fmt |-> <<"%", "%", "%", "d", "%", "q", "!">>, args |-> <<-12>> \o Further],
     [fmt |-> <<"%", "s", ":", "%", "u", "%", "c">>, args |-> <<<<"o", "k">>, 40, "z">> \o Further],
     [fmt |-> <<"8", "%">>, args |-> Further],
     [fmt |-> <<>>, args |-> Further]}

MCCalls == {One(d, n) : d \in {"d", "u", "x", "p"}, n \in Edges}
           \cup {One("s", s) : s \in {<<>>, <<"k">>, <<"k", "d", "r">>}} \cup Mixed

MCSizes == {1, 2, 3, 4, 5, 8, 11, 20, RowSize}
MCRest == <<"?", "%", "u">>

\* No region, one with blocks, and twenty of which the last has the widest numbers there are.
Block(s, d) == [size |-> s, data |-> d]
Plain == [used |-> 100, free |-> 0, blocks |-> <<Block(8, 1048600), Block(-2147483647, -2)>>]
Wide == [used |-> -2147483647, free |-> -2147483647, blocks |-> <<Block(MinInt, 2147483647)>>]
Bare == [used |-> 0, free |-> 65536, blocks |-> <<>>]
MCHeaps == {<<>>, <<Plain>>, [i \in 1 .. 20 |-> IF i = 20 THEN Wide ELSE Bare]}

\* The theorems' conditions hold of these calls and heaps.
ASSUME MCTyped == CallsTyped /\ MessagesTyped /\ HeapsTyped
=============================================================================
