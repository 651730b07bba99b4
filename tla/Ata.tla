-------------------------------- MODULE Ata --------------------------------
(***************************************************************************)
(* The polling ATA driver of ata.c beside the drive it polls.  The drive is *)
(* not in src/: it is modelled from how the driver uses it, by the rules    *)
(* the driver counts on: some time after a command BSY goes up, it goes     *)
(* down when the drive has something to say, and DRQ is up exactly while    *)
(* the drive has words to move.  Every inb, outb or word is a step, so the  *)
(* drive may move between any two of them.                                  *)
(***************************************************************************)
EXTENDS Integers

CONSTANTS
    Reach,      \* 2^28: the sectors 28 bits of LBA can name
    Words,      \* 256 words in a sector
    Values,     \* what a sector can hold
    MaxCount,   \* bound: sectors one ata_read_lbas asks for
    MayFail     \* whether a command may end in an error

ASSUME AtaAssumption ==
    /\ Reach \in Nat \ {0} /\ Words \in Nat \ {0} /\ MaxCount \in Nat \ {0}
    /\ Values # {} /\ MayFail \in BOOLEAN

VARIABLES
    pc,         \* where the driver is
    call,       \* the call it serves: op, lba, count, value written; i: sectors done
    word,       \* words of the current sector moved
    buffer,     \* the caller's buffer, a word per index
    dev,        \* the drive: status bits, command accepted, sector, words moved, failure
    disk        \* sector -> value

vars == <<pc, call, word, buffer, dev, disk>>

\* 28 bits of the LBA reach the drive.
Lba28(lba) == lba % Reach

Word(lba, v, k) == <<lba, v, k>>
Junk == <<-1, -1, -1>>

Init ==
    /\ pc = "idle" /\ word = 0
    /\ call = [op |-> "none", lba |-> 0, count |-> 0, value |-> 0, i |-> 0]
    /\ buffer = [k \in 0 .. MaxCount * Words - 1 |-> Junk]
    /\ dev = [bsy |-> FALSE, drq |-> FALSE, failed |-> FALSE,
              cmd |-> "none", lba |-> 0, word |-> 0]
    /\ disk \in [0 .. Reach - 1 -> Values]

-----------------------------------------------------------------------------
(* The driver                                                              *)

ReadLbas(lba, count) ==
    /\ pc = "idle"
    /\ call' = [op |-> "read", lba |-> lba, count |-> count, value |-> 0, i |-> 0]
    /\ buffer' = [k \in DOMAIN buffer |-> Junk]
    /\ pc' = "ready"
    /\ UNCHANGED <<word, dev, disk>>

Write28(lba, v) ==
    /\ pc = "idle"
    /\ call' = [op |-> "write", lba |-> lba, count |-> 1, value |-> v, i |-> 0]
    /\ pc' = "ready"
    /\ UNCHANGED <<word, buffer, dev, disk>>

\* ata_wait_busy: the loop ends when a status read has BSY clear.
NotBusyAlways == TRUE                                                  \* mutant
NotBusy == ~dev.bsy

\* ata_wait_drq: the loop ends when a status read has DRQ set; nothing else ends it.
SeesDrq == dev.drq

WaitReady ==
    /\ pc = "ready" /\ NotBusy
    /\ pc' = "command"
    /\ UNCHANGED <<call, word, buffer, dev, disk>>

\* The task file and the command; a busy drive takes neither.
Command ==
    /\ pc = "command"
    /\ dev' = IF dev.bsy THEN dev
              ELSE [dev EXCEPT !.drq = FALSE, !.failed = FALSE, !.word = 0,
                                !.cmd = call.op, !.lba = Lba28(call.lba + call.i)]
    /\ word' = 0 /\ pc' = "busy"
    /\ UNCHANGED <<call, buffer, disk>>

WaitBusy ==
    /\ pc = "busy" /\ NotBusy
    /\ pc' = "drq"
    /\ UNCHANGED <<call, word, buffer, dev, disk>>

WaitDrq ==
    /\ pc = "drq" /\ SeesDrq
    /\ pc' = "data"
    /\ UNCHANGED <<call, word, buffer, dev, disk>>

\* The buffer index of the current word: buffer + i * 512.
AtFirst == word                                                        \* mutant
At == call.i * Words + word

\* The drive side of one word on the data port.
Moved == IF ~dev.drq THEN dev
         ELSE [dev EXCEPT !.word = @ + 1, !.drq = dev.word + 1 < Words,
                          !.bsy = dev.cmd = "write" /\ dev.word + 1 = Words,
                          !.cmd = IF dev.cmd = "read" /\ dev.word + 1 = Words THEN "none" ELSE @]

\* One word of "rep insw": the port's word, whatever the drive has there.
InWord ==
    /\ pc = "data" /\ call.op = "read" /\ word < Words
    /\ buffer' = [buffer EXCEPT ![At] = IF dev.drq
                                          THEN Word(dev.lba, disk[dev.lba], dev.word) ELSE Junk]
    /\ dev' = Moved /\ word' = word + 1
    /\ UNCHANGED <<pc, call, disk>>

\* One outw of ata_write28; the last one starts the write.
OutWord ==
    /\ pc = "data" /\ call.op = "write" /\ word < Words
    /\ dev' = Moved /\ word' = word + 1
    /\ UNCHANGED <<pc, call, buffer, disk>>

\* ata_read28 returns; ata_read_lbas goes on or returns.
SectorRead ==
    /\ pc = "data" /\ call.op = "read" /\ word = Words
    /\ call' = [call EXCEPT !.i = @ + 1]
    /\ pc' = IF call.i + 1 < call.count THEN "ready" ELSE "idle"
    /\ UNCHANGED <<word, buffer, dev, disk>>

\* The command 0xf7 after the last word, written without a look at BSY: a busy
\* drive ignores it, and one that is done has nothing to do for it.
Flush ==
    /\ pc = "data" /\ call.op = "write" /\ word = Words
    /\ pc' = "flush"
    /\ UNCHANGED <<call, word, buffer, dev, disk>>

WaitFlush ==
    /\ pc = "flush" /\ NotBusy
    /\ pc' = "idle"
    /\ UNCHANGED <<call, word, buffer, dev, disk>>

Driver == \/ WaitReady \/ Command \/ WaitBusy \/ WaitDrq \/ InWord \/ OutWord
          \/ SectorRead \/ Flush \/ WaitFlush

-----------------------------------------------------------------------------
(* The drive                                                               *)

\* A command is noticed: BSY goes up, perhaps after the driver's first polls.
DevStarts ==
    /\ ~dev.bsy /\ ~dev.drq /\ dev.cmd # "none"
    /\ dev' = [dev EXCEPT !.bsy = TRUE]
    /\ UNCHANGED <<pc, call, word, buffer, disk>>

\* The first half of a command: the drive is ready to move the sector's words.
DevReady ==
    /\ dev.bsy /\ dev.cmd \in {"read", "write"} /\ dev.word = 0
    /\ dev' = [dev EXCEPT !.bsy = FALSE, !.drq = TRUE]
    /\ UNCHANGED <<pc, call, word, buffer, disk>>

\* All words of a write have arrived.
DevWritten ==
    /\ dev.bsy /\ dev.cmd = "write" /\ dev.word = Words
    /\ disk' = [disk EXCEPT ![dev.lba] = call.value]
    /\ dev' = [dev EXCEPT !.bsy = FALSE, !.cmd = "none"]
    /\ UNCHANGED <<pc, call, word, buffer>>

\* A command ends in an error: BSY goes down and DRQ stays down.
DevFails ==
    /\ dev.bsy /\ MayFail
    /\ dev' = [dev EXCEPT !.bsy = FALSE, !.failed = TRUE, !.cmd = "none"]
    /\ UNCHANGED <<pc, call, word, buffer, disk>>

Drive == DevStarts \/ DevReady \/ DevWritten \/ DevFails

-----------------------------------------------------------------------------
(* Properties                                                              *)

\* When ata_read_lbas returns, the buffer holds the sectors asked for, each word
\* in its place (ata.c:55-59): no word was taken while the drive was not ready,
\* even if BSY had not gone up yet when it was first polled (ata.c:42).
ReadIsExact ==
    pc = "idle" /\ call.op = "read" =>
      \A i \in 0 .. call.count - 1, k \in 0 .. Words - 1 :
         buffer[i * Words + k] = Word(call.lba + i, disk[call.lba + i], k)

\* When ata_write28 returns, the sector has the new value unless the drive failed
\* (ata.c:12-30): the wait after the flush command also waits for the write,
\* although the command itself may have met a busy drive.
WriteLands ==
    pc = "idle" /\ call.op = "write" /\ ~dev.failed => disk[Lba28(call.lba)] = call.value
=============================================================================
