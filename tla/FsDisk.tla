------------------------------- MODULE FsDisk -------------------------------
(***************************************************************************)
(* How mono_fs.c reads the image through the ATA driver: _fs_read_bytes goes *)
(* sector by sector, dumb_file_search walks the file headers with it, and    *)
(* get_file_content reads the found file's sectors whole.  Under each sector *)
(* lie the steps of module Ata, the drive's among them.  What the calls do   *)
(* to heap and file table is MonoFs; here every search starts with an empty  *)
(* table.  A byte of the C code is a word here, a sector LBA_SIZE of them.   *)
(***************************************************************************)
EXTENDS Ata, Sequences

CONSTANTS
    FsStart,    \* the sector MONO_FS_START_ADDRESS is in
    FsHdr,      \* sizeof(FsHeader)
    FileHdr,    \* sizeof(FileHeader)
    Files,      \* the image as build.py packs it: [name, data], lengths
    Guesses     \* bound: what a header field read from behind the sector may say

LBA_SIZE == Words
START == FsStart * LBA_SIZE

Total(f) == FileHdr + Files[f].name + Files[f].data

\* Where each file ends, one written behind the other.
Ends[f \in 0 .. Len(Files)] == IF f = 0 THEN FsHdr ELSE Ends[f - 1] + Total(f)
Offset(f) == Ends[f - 1]
End == Ends[Len(Files)]

SectorsUpTo(n) == (n + LBA_SIZE - 1) \div LBA_SIZE

\* Every file has a name, the image is on the disk, and the bound lets every file be read.
ASSUME FsDiskAssumption ==
    /\ FsStart \in Nat \ {0} /\ FsHdr \in 1 .. LBA_SIZE /\ FileHdr \in Nat \ {0}
    /\ Files \in Seq([name: Nat \ {0}, data: Nat])
    /\ FsStart + SectorsUpTo(End) <= Reach /\ 0 \in Values /\ Guesses \subseteq Nat
    /\ \A f \in 1 .. Len(Files) :
         SectorsUpTo(Total(f) + ((START + Offset(f)) % LBA_SIZE)) <= MaxCount

\* Whatever lies behind the sector says something.
ASSUME GuessesAssumption == Guesses # {}

VARIABLES
    at,         \* where the call is
    fs_size,    \* fs_header.size, 0 before mono_fs_init
    asked,      \* the file asked for, 0 for a name the image does not have
    fs_offset,  \* dumb_file_search's offset
    rd,         \* _fs_read_bytes: its offset, what remains, what it has copied
    found,      \* the header of the file read last: [file, size, name]
    content     \* what get_file_content returned

fsvars == <<at, fs_size, asked, fs_offset, rd, found, content>>
allvars == <<vars, fsvars>>

-----------------------------------------------------------------------------
(* What the image holds                                                    *)

Nothing == <<"nothing", 0, 0>>

FileAt(o) == CHOOSE f \in 1 .. Len(Files) : Offset(f) <= o /\ o < Offset(f) + Total(f)

\* The byte at an offset of the image: part, file and index.
CellAt(o) ==
    IF o < 0 \/ o >= End THEN Nothing
    ELSE IF o < FsHdr THEN <<"fs", 0, o>>
    ELSE LET f == FileAt(o)
             r == o - Offset(f)
         IN  IF r < FileHdr THEN <<"header", f, r>>
             ELSE IF r < FileHdr + Files[f].name THEN <<"name", f, r - FileHdr>>
             ELSE <<"data", f, r - FileHdr - Files[f].name>>

\* The byte behind a word of the caller's buffer; words say where they are from.
Cell(k) == IF buffer[k] = Junk THEN Nothing ELSE CellAt(buffer[k][1] * Words + buffer[k][3] - START)
Cells(from, n) == [k \in 1 .. n |-> Cell(from + k - 1)]

\* The part of a file as a whole.
Part(part, f, n) == [k \in 1 .. n |-> <<part, f, k - 1>>]

NotFound == [file |-> 0, size |-> 0, name |-> 0]
Header(f) == [file |-> f, size |-> Total(f), name |-> Files[f].name]

\* The headers some bytes may be: one if they are a file's, any if they are not.
HeadersIn(cells) ==
    LET whole == {f \in 1 .. Len(Files) : cells = Part("header", f, FileHdr)}
    IN  IF whole # {} THEN {Header(f) : f \in whole}
        ELSE {[file |-> 0, size |-> s, name |-> n] : s \in Guesses, n \in Guesses}

-----------------------------------------------------------------------------
(* _fs_read_bytes                                                          *)

Idle == [offset |-> 0, left |-> 0, out |-> <<>>, busy |-> FALSE]
Reading(offset, size) == [offset |-> offset, left |-> size, out |-> <<>>, busy |-> FALSE]

Lba(offset) == (START + offset) \div LBA_SIZE

\* A sector of the range: ata_read28 into the local buffer.
ReadSector ==
    /\ at \in {"header", "name"} /\ rd.left > 0 /\ ~rd.busy
    /\ ReadLbas(Lba(rd.offset), 1)
    /\ rd' = [rd EXCEPT !.busy = TRUE]
    /\ UNCHANGED <<at, fs_size, asked, fs_offset, found, content>>

\* to_copy
ToCopyWhole == IF LBA_SIZE > rd.left THEN rd.left ELSE LBA_SIZE        \* mutant
ToCopy == LET rest == LBA_SIZE - (rd.offset % LBA_SIZE)
          IN  IF rest > rd.left THEN rd.left ELSE rest

CopySector ==
    /\ pc = "idle" /\ rd.busy
    /\ rd' = [offset |-> rd.offset + ToCopy, left |-> rd.left - ToCopy, busy |-> FALSE,
              out |-> rd.out \o Cells(rd.offset % LBA_SIZE, ToCopy)]
    /\ UNCHANGED <<vars, at, fs_size, asked, fs_offset, found, content>>

RangeRead == rd.left = 0 /\ ~rd.busy

-----------------------------------------------------------------------------
(* mono_fs_init and dumb_file_search                                       *)

\* mono_fs_init reads the first sector.
Mount ==
    /\ at = "idle" /\ fs_size = 0
    /\ ReadLbas(FsStart, 1)
    /\ at' = "mount"
    /\ UNCHANGED <<fs_size, asked, fs_offset, rd, found, content>>

\* The header is kept whatever its signature says, which is only reported.
Mounted ==
    /\ at = "mount" /\ pc = "idle"
    /\ fs_size' \in IF Cells(0, FsHdr) = Part("fs", 0, FsHdr) THEN {End} ELSE Guesses
    /\ at' = "idle"
    /\ UNCHANGED <<vars, asked, fs_offset, rd, found, content>>

\* The loop's test, and the header it reads next.
LookAt(offset) ==
    /\ fs_offset' = offset
    /\ IF offset < fs_size THEN at' = "header" /\ rd' = Reading(offset, FileHdr)
                           ELSE at' = "done" /\ rd' = Idle

Open(f) ==
    /\ at = "idle" /\ pc = "idle" /\ fs_size # 0
    /\ asked' = f /\ found' = NotFound /\ content' = <<>>
    /\ LookAt(FsHdr)
    /\ UNCHANGED <<vars, fs_size>>

NameNext ==
    /\ at = "header" /\ RangeRead
    /\ \E h \in HeadersIn(rd.out) :
         found' = h /\ rd' = Reading(fs_offset + FileHdr, h.name)
    /\ at' = "name"
    /\ UNCHANGED <<vars, fs_size, asked, fs_offset, content>>

\* strcmp of the name that was read.
Named == asked # 0 /\ rd.out = Part("name", asked, Files[asked].name)

\* The next file's header, behind this one's size.
SkipNameOnly == LookAt(fs_offset + found.name)                         \* mutant
Skip == LookAt(fs_offset + found.size)

SkipFile ==
    /\ at = "name" /\ RangeRead /\ ~Named
    /\ found' = NotFound /\ Skip
    /\ UNCHANGED <<vars, fs_size, asked, content>>

\* The disk address: sector and offset in it.
Sector == (START + fs_offset) \div LBA_SIZE
InSector == (START + fs_offset) % LBA_SIZE

-----------------------------------------------------------------------------
(* get_file_content                                                        *)

\* The header once more, out of the sector it starts in.
ReadHead ==
    /\ at = "name" /\ RangeRead /\ Named
    /\ ReadLbas(Sector, 1)
    /\ at' = "head"
    /\ UNCHANGED <<fs_size, asked, fs_offset, rd, found, content>>

\* The bytes behind the sector are some of the caller's stack.
HeadCells == [k \in 1 .. FileHdr |-> IF InSector + k <= LBA_SIZE THEN Cell(InSector + k - 1) ELSE Nothing]

LbasOneMore(h) == SectorsUpTo(h.size + InSector) + 1                   \* mutant
Lbas(h) == SectorsUpTo(h.size + InSector)

\* A size that makes no sense is not followed further: the copy below it would be
\* of some four billion bytes.
Sane(h) == h.size >= FileHdr + h.name /\ Lbas(h) <= MaxCount /\ Sector + Lbas(h) <= Reach

ReadWhole ==
    /\ at = "head" /\ pc = "idle"
    /\ \E h \in HeadersIn(HeadCells) :
         /\ Sane(h) /\ found' = h
         /\ ReadLbas(Sector, Lbas(h))
    /\ at' = "whole"
    /\ UNCHANGED <<fs_size, asked, fs_offset, rd, content>>

ReadAstray ==
    /\ at = "head" /\ pc = "idle"
    /\ \E h \in HeadersIn(HeadCells) : ~Sane(h)
    /\ at' = "astray"
    /\ UNCHANGED <<vars, fs_size, asked, fs_offset, rd, found, content>>

\* The data behind header and name are copied out of the sectors.
Deliver ==
    /\ at = "whole" /\ pc = "idle"
    /\ content' = Cells(InSector + FileHdr + found.name, found.size - FileHdr - found.name)
    /\ at' = "done"
    /\ UNCHANGED <<vars, fs_size, asked, fs_offset, rd, found>>

Close ==
    /\ at = "done"
    /\ at' = "idle" /\ rd' = Idle /\ found' = NotFound /\ content' = <<>>
    /\ asked' = 0 /\ fs_offset' = 0
    /\ UNCHANGED <<vars, fs_size>>

-----------------------------------------------------------------------------

FsInit ==
    /\ Init /\ disk = [s \in 0 .. Reach - 1 |-> 0]
    /\ at = "idle" /\ fs_size = 0 /\ asked = 0 /\ fs_offset = 0
    /\ rd = Idle /\ found = NotFound /\ content = <<>>

\* The kernel's own steps: the driver's, and those of the calls above it.
Kernel == \/ Driver /\ UNCHANGED fsvars
          \/ ReadSector \/ CopySector \/ Mounted \/ NameNext \/ SkipFile
          \/ ReadHead \/ ReadWhole \/ ReadAstray \/ Deliver

\* Calls come one after another; a write is to a sector in front of the image.
FsNext ==
    \/ Kernel
    \/ Mount \/ \E f \in 0 .. Len(Files) : Open(f)
    \/ Close
    \/ \E lba \in {0, Reach}, v \in Values : at = "idle" /\ Write28(lba, v) /\ UNCHANGED fsvars
    \/ Drive /\ UNCHANGED fsvars

\* The driver only polls, the loops above it never wait for anything else, and the
\* drive ends every command it was given.
FsSpec == FsInit /\ [][FsNext]_allvars /\ WF_allvars(Kernel) /\ WF_vars(Drive)

-----------------------------------------------------------------------------
(* Properties                                                              *)

\* A file whose header lies across a sector border.
Straddles(f) == ((START + Offset(f)) % LBA_SIZE) + FileHdr > LBA_SIZE

\* get_file_content returns the file's data, all of it and nothing else, in order,
\* wherever in the sectors its header, name and data lie, and nothing for a name
\* the image does not have; also for the files behind one whose own header lies
\* across a sector border, for which alone this fails (mono_fs.c:11-32, 73-151).
FileExact ==
    at = "done" =>
      \/ asked = 0 /\ content = <<>>
      \/ asked # 0 /\ (Straddles(asked) \/ content = Part("data", asked, Files[asked].data))

\* No sector but the image's is read in a search or for a file, and no call goes
\* astray, unless the header of the file asked for lies across a sector border
\* (mono_fs.c:16-20, 126-134).
ImageOnly ==
    /\ rd.busy \/ at = "head" \/ (at = "whole" /\ ~Straddles(asked)) =>
         call.lba >= FsStart /\ call.lba + call.count <= FsStart + SectorsUpTo(End)
    /\ at = "astray" => Straddles(asked)

\* A call to the file system ends, whatever the order of files, unless the drive
\* reports an error or a header across a sector border was misread.
FsEnds == (at # "idle") ~> (at \in {"idle", "done", "astray"} \/ dev.failed)
=============================================================================
