---------------------------- MODULE MCInterrupts ----------------------------
(* The exceptions a 32-bit CPU without CET or SEV has, and three numbers. *)
EXTENDS Interrupts

MCExceptions == {0, 1, 3, 4, 5, 6, 7, 8, 10, 11, 12, 13, 14, 16, 17, 18, 19, 20}
MCWithError == {8, 10, 11, 12, 13, 14, 17}
MCNumbers == {0, 1, 7}

ASSUME MCStubsMatch == StubsMatch
=============================================================================
