------------------------------ MODULE DebugLog ------------------------------
(***************************************************************************)
(* What reaches the debug port: debug_printf of log.c with its number        *)
(* buffers, and print_memory_allocations of alloc.c, which formats each row   *)
(* of its table with snprintf, pads it in place and sends it.                *)
(***************************************************************************)
EXTENDS Format, FiniteSetsExt, SequencesExt

CONSTANTS
    Messages,   \* the calls of debug_printf: [fmt, args]
    Heaps       \* what print_memory_allocations finds: sequences of regions
                \* [used, free, blocks], blocks of [size, data]

RowSize == 95
NoRow == -1

ASSUME DebugLogAssumption == RowSize \in Sizes

VARIABLES
    report,     \* the rows of the table, <<>> outside print_memory_allocations
    row,        \* the row at work, NoRow outside print_memory_allocations
    port,       \* what was sent to the port
    over        \* bytes stored behind a number buffer so far

logvars == <<vars, report, row, port, over>>

-----------------------------------------------------------------------------
(* debug_printf                                                            *)

LogHex(n) == Nibbles(8, n)
LogPointer(n) == <<"0", "x">> \o Nibbles(8, n)

Logged(d, arg) ==
    CASE d = "d" -> Signed(arg)
      [] d = "u" -> Unsigned(arg)
      [] d = "s" -> arg
      [] d = "c" -> <<arg>>
      [] d = "x" -> LogHex(arg)
      [] d = "p" -> LogPointer(arg)
      [] OTHER   -> <<d>>

\* The bytes of a directive's number buffer, and those it stores there, NUL and all;
\* a zero and a sign are sent without it.
BufSizeTight == [d |-> 12, u |-> 10, x |-> 9, p |-> 9, s |-> 0, c |-> 1]  \* mutant
BufSize == [d |-> 12, u |-> 11, x |-> 9, p |-> 9, s |-> 0, c |-> 1]
Stored(d, arg) ==
    CASE d = "d" -> IF arg = 0 THEN 0 ELSE Len(IF arg < 0 THEN Negated(arg) ELSE Digits[arg]) + 1
      [] d = "u" -> IF arg = 0 THEN 0 ELSE Len(Digits[arg]) + 1
      [] d \in {"x", "p"} -> Len(Logged(d, arg)) + 1
      [] OTHER -> 0
Behind(d, arg) == IF d \in DOMAIN BufSize /\ Stored(d, arg) > BufSize[d]
                    THEN Stored(d, arg) - BufSize[d] ELSE 0

Say ==
    /\ pc = "log" /\ Char(f) \notin {NUL, "%"}
    /\ port' = Append(port, Char(f))
    /\ f' = f + 1
    /\ UNCHANGED <<pc, call, size, a, todo, written, buffer, report, row, over>>

SayDirective ==
    /\ pc = "log" /\ Char(f) = "%"
    /\ LET d == Char(f + 1)
       IN  /\ port' = port \o Logged(d, call.args[a])
           /\ over' = Max({over, Behind(d, call.args[a])})
           /\ a' = NextArg(d)
    /\ f' = f + 2
    /\ UNCHANGED <<pc, call, size, todo, written, buffer, report, row>>

SayEnd ==
    /\ pc = "log" /\ Char(f) = NUL
    /\ pc' = "sent"
    /\ UNCHANGED <<call, size, f, a, todo, written, buffer, report, row, port, over>>

-----------------------------------------------------------------------------
(* print_memory_allocations                                                *)

\* Literal text of n characters: the rows' wording is of no matter, its length is.
Lit(n) == [i \in 1 .. n |-> "."]
RegionRow(i, used, free, first) ==
    [fmt  |-> Lit(14) \o <<"%", "d">> \o Lit(8) \o <<"%", "d">> \o Lit(7) \o <<"%", "d">>
              \o Lit(21) \o <<"%", "p">>,
     args |-> <<i, used, free, first>>]
BlockRow(length, data, next) ==
    [fmt  |-> Lit(26) \o <<"%", "d">> \o Lit(10) \o <<"%", "p">> \o Lit(7) \o <<"%", "p">>,
     args |-> <<length, data, next>>]

\* One row per region and one per block of its list, where next is the block behind.
RowsOf(i, region) ==
    LET n == Len(region.blocks)
        At(k) == IF k > n THEN 0 ELSE region.blocks[k].data
    IN  <<RegionRow(i - 1, region.used, region.free, At(1))>>
        \o [k \in 1 .. n |-> BlockRow(region.blocks[k].size, At(k), At(k + 1))]
Report(heap) == FlattenSeq([i \in 1 .. Len(heap) |-> RowsOf(i, heap[i])])

Strlen(b) == Min({i \in DOMAIN b : b[i] = NUL})
String(b) == [i \in 1 .. Strlen(b) |-> b[i - 1]]

\* The last three bytes of a row.
Frame(i) == CASE i = RowSize - 3 -> "|" [] i = RowSize - 2 -> "newline" [] OTHER -> NUL

\* memset of the local buffer, what lies behind it left alone.
Filled(c) == [i \in 0 .. Memory - 1 |-> IF i < RowSize THEN c ELSE Old]
Border == [i \in 1 .. RowSize - 1 |-> IF i = 1 THEN "|" ELSE IF i > RowSize - 3 THEN Frame(i - 1) ELSE "-"]

\* The line above the first row and below the last.
SendBorder ==
    /\ pc = "border"
    /\ port' = port \o Border
    /\ pc' = IF port = <<>> THEN "next" ELSE "sent"
    /\ UNCHANGED <<call, size, f, a, todo, written, buffer, report, row, over>>

\* A row begins with a blank buffer and snprintf.
NextRow ==
    /\ pc = "next" /\ row < Len(report)
    /\ row' = row + 1 /\ call' = report[row + 1]
    /\ buffer' = Filled(" ")
    /\ size' = RowSize /\ f' = 1 /\ a' = 1 /\ todo' = <<>> /\ written' = 0
    /\ pc' = "scan"
    /\ UNCHANGED <<report, port, over>>

LastRow ==
    /\ pc = "next" /\ row = Len(report)
    /\ pc' = "border"
    /\ UNCHANGED <<call, size, f, a, todo, written, buffer, report, row, port, over>>

\* From strlen on blanks, then the frame.
PadFromWritten(i) == i > Strlen(buffer)                                \* mutant
Padded(i) == i >= Strlen(buffer)
PadRow ==
    /\ pc = "done" /\ row # NoRow
    /\ buffer' = [i \in DOMAIN buffer |->
                    IF i >= RowSize THEN buffer[i]
                    ELSE IF i >= RowSize - 3 THEN Frame(i)
                    ELSE IF Padded(i) THEN " " ELSE buffer[i]]
    /\ pc' = "row"
    /\ UNCHANGED <<call, size, f, a, todo, written, report, row, port, over>>

SendRow ==
    /\ pc = "row"
    /\ port' = port \o String(buffer)
    /\ pc' = "next"
    /\ UNCHANGED <<call, size, f, a, todo, written, buffer, report, row, over>>

-----------------------------------------------------------------------------

\* A call of snprintf, of debug_printf or of print_memory_allocations.
LogInit ==
    /\ port = <<>> /\ over = 0
    /\ \/ Init /\ report = <<>> /\ row = NoRow
       \/ /\ \/ pc = "log" /\ call \in Messages /\ report = <<>> /\ row = NoRow
             \/ /\ pc = "border" /\ call = [fmt |-> <<>>, args |-> <<>>]
                /\ report \in {Report(h) : h \in Heaps} /\ row = 0
          /\ size = RowSize /\ f = 1 /\ a = 1 /\ todo = <<>> /\ written = 0
          /\ buffer = [i \in 0 .. Memory - 1 |-> Old]

Snprintf == Next /\ UNCHANGED <<report, row, port, over>>

LogNext == \/ Snprintf \/ Say \/ SayDirective \/ SayEnd
           \/ SendBorder \/ NextRow \/ LastRow \/ PadRow \/ SendRow

\* One processor runs the call; nothing else is to be scheduled.
LogSpec == LogInit /\ [][LogNext]_logvars /\ WF_logvars(LogNext)

-----------------------------------------------------------------------------
(* Properties                                                              *)

\* What a directive of debug_printf means: a pointer has eight places, and what is
\* no directive stands for itself.
LogMeaning(d, arg) ==
    CASE d = "p" -> <<"0", "x">> \o Hex(arg)
      [] d \in {"d", "u", "x", "s", "c"} -> Meaning(d, arg)
      [] OTHER -> <<d>>

\* A row that holds the whole text, between the same edges as every other.
Line(text) == [i \in 1 .. 94 |-> IF i = 93 THEN "|" ELSE IF i = 94 THEN "newline"
                                 ELSE IF i <= Len(text) THEN text[i] ELSE " "]

\* The port gets the text of the message, and a table all of whose rows are of one
\* width and have room for their text, whatever the numbers in it (log.c:37-116,
\* alloc.c:182-221).
PortExact ==
    pc = "sent" =>
      IF row = NoRow THEN WellFormed(call.fmt) => port = TextOf(call, LogMeaning)
      ELSE LET text == [k \in 1 .. Len(report) |-> TextOf(report[k], Meaning)]
           IN  /\ \A k \in 1 .. Len(report) : Len(text[k]) <= 92
               /\ port = Border \o FlattenSeq([k \in 1 .. Len(report) |-> Line(text[k])]) \o Border

\* No number buffer of debug_printf is too small, for any number; only that of a
\* pointer is, by two bytes (log.c:12, 57, 71, 87).
LocalRoom ==
    over # 0 => over = 2 /\ \E i \in 1 .. f - 2 : Char(i) = "%" /\ Char(i + 1) = "p"

\* Every call comes to its end.
LogEnds == <>(pc = "sent" \/ (pc = "done" /\ row = NoRow))

-----------------------------------------------------------------------------
(* Conditions under which the theorems hold                                *)

MessagesTyped == Rest \in Seq(AnyCharacter) /\ \A c \in Messages : Typed(c)

\* A region's place in the table has two digits, as ram_memmap has 20 entries.
HeapsTyped ==
    \A h \in Heaps :
      h \in Seq([used: Numbers, free: Numbers, blocks: Seq([size: Numbers, data: Numbers])])
      /\ Len(h) <= 100
=============================================================================
