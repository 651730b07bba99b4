------------------------------- MODULE MCAta -------------------------------
(* A file system of seven small sectors behind a boot sector for TLC. *)
EXTENDS FsDisk

MCValues == {0, 1}

\* With two words of image header, three of file header and four in a sector: the
\* first file's header lies across a border; the second starts inside a sector and
\* its data cross the second border behind it; the third has a name and nothing else; the
\* fourth ends with its sector, and the image with it.
MCFiles == <<[name |-> 1, data |-> 3], [name |-> 2, data |-> 3], [name |-> 1, data |-> 0],
             [name |-> 1, data |-> 3]>>
MCGuesses == {0, 1, 5}
=============================================================================
