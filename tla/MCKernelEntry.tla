--------------------------- MODULE MCKernelEntry ---------------------------
(* Every combination of CPU features, and small memory maps. *)
EXTENDS KernelEntry

MCCpus == {c \in [pae: BOOLEAN, ext: BOOLEAN, lm: BOOLEAN, vendorBit: BOOLEAN, la57: BOOLEAN] :
             (c.lm => c.pae /\ c.ext) /\ (c.la57 => c.lm)}

\* Addresses in units of 1 MB: low memory, the region at 1 MB, a hole, one above
\* it and one above 4 GB.
Low == [base |-> 0, type |-> 1]
Main == [base |-> 1, type |-> 1]
Hole == [base |-> 3071, type |-> 2]
High == [base |-> 4096, type |-> 1]
Extra == [base |-> 16, type |-> 1]

\* The map of the makefile's machine, and others that are longer, shorter, without
\* the region at 1 MB, or not there at all.
OneRegion == {<<Low, Main, Hole>>, <<Low, Hole, Main>>, <<Low, Hole>>, <<Low>>, <<Low, Extra>>, <<>>}
TwoRegions == {<<Low, Main, Hole, High>>, <<Low, Main, Extra>>}

\* With room for two usable entries and a map of four: one too many of each.
TooMany == {<<Low, Main, Extra, High>>, <<Low, Main, Hole, Hole, Hole>>}

\* The list of modes lies in the caller's block or in the ROM at C000.
MCFirmwares == [map: OneRegion \cup TwoRegions \cup TooMany, last: BOOLEAN, modes: {0, 49152}]
=============================================================================
