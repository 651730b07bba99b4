------------------------------- MODULE Format -------------------------------
(***************************************************************************)
(* snprintf of stdio.c: the format is walked character by character, each   *)
(* directive puts its characters through the same bound, and the buffer is   *)
(* closed with a NUL.                                                        *)
(***************************************************************************)
EXTENDS Integers, Sequences

CONSTANTS
    Calls,      \* the calls: [fmt, args], fmt a sequence of characters
    Sizes,      \* the sizes they give their buffer
    Memory,     \* bytes of memory from the start of the buffer on
    Rest,       \* the characters behind a format's NUL, up to the next NUL
    Old         \* what a byte holds that was never written

ASSUME FormatAssumption ==
    /\ Sizes \subseteq Nat \ {0}
    /\ Memory \in Nat /\ \A s \in Sizes : s <= Memory

NUL == "NUL"

VARIABLES
    pc,         \* "scan" a character, "emit" a directive, "done"
    call, size, \* the arguments
    f, a,       \* next character of the format, next variadic argument
    todo,       \* what the directive has still to write
    written,    \* bytes written
    buffer      \* memory from the start of the buffer on

vars == <<pc, call, size, f, a, todo, written, buffer>>

-----------------------------------------------------------------------------
(* What a directive writes                                                 *)

Digit(d) == <<"0", "1", "2", "3", "4", "5", "6", "7",
              "8", "9", "a", "b", "c", "d", "e", "f">>[d + 1]

\* A number is 32 bits, held here as a signed one; as an unsigned one a negative
\* n stands for 2^32 + n, where 2^32 is 10 * 429496729 + 6 and 16 * 268435456.
MaxInt == 2147483647
MinInt == -MaxInt - 1
Numbers == MinInt .. MaxInt
DivTen(n) == IF n < 0 THEN 429496729 + (n \div 10) + (((n % 10) + 6) \div 10) ELSE n \div 10
ModTen(n) == IF n < 0 THEN ((n % 10) + 6) % 10 ELSE n % 10
ShiftFour(n) == IF n < 0 THEN 268435456 + (n \div 16) ELSE n \div 16

\* num % 10 and num / 10 until nothing is left, then read backwards.
Digits[n \in Numbers] == IF n = 0 THEN <<>> ELSE Append(Digits[DivTen(n)], Digit(ModTen(n)))

\* num & 0xf and num >>= 4, k times, written from the end of hex_buf.
NibblesOf[w \in (0 .. 16) \X Numbers] ==
    LET k == w[1]
        n == w[2]
    IN  IF k = 0 THEN <<>> ELSE Append(NibblesOf[<<k - 1, ShiftFour(n)>>], Digit(n % 16))
Nibbles(k, n) == NibblesOf[<<k, n>>]

UnsignedNoZero(n) == Digits[n]                                         \* mutant
Unsigned(n) == IF n = 0 THEN <<"0">> ELSE Digits[n]
\* num = -num leaves the smallest number as it is, and its loop then writes nothing.
Negated(n) == IF n = MinInt THEN <<>> ELSE Unsigned(-n)
Signed(n) == IF n < 0 THEN <<"-">> \o Negated(n) ELSE Unsigned(n)

Written(d, arg) ==
    CASE d = "d" -> Signed(arg)
      [] d = "u" -> Unsigned(arg)
      [] d = "s" -> arg
      [] d = "c" -> <<arg>>
      [] d = "x" -> Nibbles(8, arg)
      [] d = "p" -> <<"0", "x">> \o Nibbles(16, arg)
      [] d = "%" -> <<"%">>
      [] OTHER   -> <<>>

TakesArg == {"d", "u", "s", "c", "x", "p"}

-----------------------------------------------------------------------------

Init ==
    /\ pc = "scan" /\ call \in Calls /\ size \in Sizes
    /\ f = 1 /\ a = 1 /\ todo = <<>> /\ written = 0
    /\ buffer = [i \in 0 .. Memory - 1 |-> Old]

\* written < size - 1, the bound of every store but the last.
RoomForNul == written < size                                           \* mutant
Room == written < size - 1

\* The memory a format is read from.
CharOf(fmt, i) ==
    LET n == Len(fmt)
    IN  IF i <= n THEN fmt[i]
        ELSE IF i \in n + 2 .. n + 1 + Len(Rest) THEN Rest[i - n - 1] ELSE NUL
Char(i) == CharOf(call.fmt, i)

More == Char(f) # NUL /\ Room

Put(c) ==
    /\ buffer' = [buffer EXCEPT ![written] = c]
    /\ written' = written + 1

Literal ==
    /\ pc = "scan" /\ More /\ Char(f) # "%"
    /\ Put(Char(f))
    /\ f' = f + 1
    /\ UNCHANGED <<pc, call, size, a, todo>>

\* The character after '%' selects what is written and whether va_arg is called.
NextArg(d) == IF d \in TakesArg THEN a + 1 ELSE a
Directive ==
    /\ pc = "scan" /\ More /\ Char(f) = "%"
    /\ LET d == Char(f + 1)
       IN  /\ todo' = Written(d, call.args[a])
           /\ a' = NextArg(d)
    /\ f' = f + 1 /\ pc' = "emit"
    /\ UNCHANGED <<call, size, written, buffer>>

Emit ==
    /\ pc = "emit" /\ todo # <<>> /\ Room
    /\ Put(Head(todo))
    /\ todo' = Tail(todo)
    /\ UNCHANGED <<pc, call, size, f, a>>

EmitWhole ==                                                           \* mutant
    /\ pc = "emit" /\ todo = <<>>
    /\ f' = f + 1 /\ pc' = "scan"
    /\ UNCHANGED <<call, size, a, todo, written, buffer>>

\* The directive is written, or cut off at the bound.
EmitDone ==
    /\ pc = "emit" /\ (todo = <<>> \/ ~Room)
    /\ f' = f + 1 /\ todo' = <<>> /\ pc' = "scan"
    /\ UNCHANGED <<call, size, a, written, buffer>>

Close ==
    /\ pc = "scan" /\ ~More
    /\ buffer' = [buffer EXCEPT ![written] = NUL]
    /\ pc' = "done"
    /\ UNCHANGED <<call, size, f, a, todo, written>>

Next == Literal \/ Directive \/ Emit \/ EmitDone \/ Close

Spec == Init /\ [][Next]_vars /\ WF_vars(Next)

-----------------------------------------------------------------------------
(* Properties                                                              *)

\* No byte behind the buffer is written, whatever the format and the arguments
\* (stdio.c:26, 34-117, 124).
NoOverrun == \A i \in DOMAIN buffer : i >= size => buffer[i] = Old

\* What the places of a number count, the last one first.
Tens == <<1, 10, 100, 1000, 10000, 100000, 1000000, 10000000, 100000000, 1000000000>>
Sixteens == <<1, 16, 256, 4096, 65536, 1048576, 16777216, 268435456>>

\* The last w places of a number.
Places(n, unit, w) == [k \in 1 .. w |-> Digit((n \div unit[w - k + 1]) % unit[2])]
Width(n) == CHOOSE w \in 1 .. 10 : n \div Tens[w] \in (IF w = 1 THEN 0 ELSE 1) .. 9

\* A negative n stands for 2^31 + m: 2^31 is 21474 and 83648 in two halves of five
\* places, and 8 in the first of eight hexadecimal ones.
Upper(n) == n + MaxInt + 1
Lower(n) == 83648 + (Upper(n) % 100000)
LastFive(n) == Lower(n) % 100000
FirstFive(n) == 21474 + (Upper(n) \div 100000) + (Lower(n) \div 100000)
Decimal(n) == IF n >= 0 THEN Places(n, Tens, Width(n))
              ELSE Places(FirstFive(n), Tens, 5) \o Places(LastFive(n), Tens, 5)
Hex(n) ==
    IF n >= 0 THEN Places(n, Sixteens, 8)
    ELSE <<Digit(8 + (Upper(n) \div Sixteens[8]))>> \o Places(Upper(n) % Sixteens[8], Sixteens, 7)

\* What one directive means.
Meaning(d, arg) ==
    CASE d = "d" -> (IF arg < 0 THEN <<"-">> ELSE <<>>)
                    \o (IF arg = MinInt THEN <<>> ELSE Decimal(IF arg < 0 THEN -arg ELSE arg))
      [] d = "u" -> Decimal(arg)
      [] d = "x" -> Hex(arg)
      [] d = "p" -> <<"0", "x">> \o [k \in 1 .. 8 |-> "0"] \o Hex(arg)
      [] d = "c" -> <<arg>>
      [] OTHER   -> IF d = "s" THEN arg ELSE IF d = "%" THEN <<"%">> ELSE <<>>

\* The place <<character, argument>> of a walk over a format after w.
After(fmt, w) ==
    IF CharOf(fmt, w[1]) # "%" THEN <<w[1] + 1, w[2]>>
    ELSE <<w[1] + 2, IF CharOf(fmt, w[1] + 1) \in TakesArg THEN w[2] + 1 ELSE w[2]>>

\* The text of call c from a place of its format on, each directive meaning what M
\* says, and the whole.
TextFrom(c, M(_, _)) ==
    LET piece(w) == IF c.fmt[w[1]] = "%" THEN M(c.fmt[w[1] + 1], c.args[w[2]]) ELSE <<c.fmt[w[1]]>>
        text[w \in Nat \X Nat] ==
          IF w[1] > Len(c.fmt) THEN <<>> ELSE piece(w) \o text[After(c.fmt, w)]
    IN  text
TextOf(c, M(_, _)) == TextFrom(c, M)[<<1, 1>>]

\* No '%' is the last character: the walk would step over the NUL behind it.
WellFormedFrom(fmt) ==
    LET ok[w \in Nat \X Nat] ==
          IF w[1] > Len(fmt) THEN TRUE
          ELSE (fmt[w[1]] = "%" => w[1] < Len(fmt)) /\ ok[After(fmt, w)]
    IN  ok
WellFormed(fmt) == WellFormedFrom(fmt)[<<1, 1>>]

\* The buffer ends up with the text of the call, cut to fit, and a NUL
\* (stdio.c:21-126); a buffer of the text's length and one more gets all of it, and
\* nothing behind the format gets in.  Only of the smallest number the sign is left.
Exact ==
    pc = "done" /\ WellFormed(call.fmt) =>
      LET text == TextOf(call, Meaning)
          n    == IF Len(text) < size THEN Len(text) ELSE size - 1
      IN  /\ \A i \in 1 .. n : buffer[i - 1] = text[i]
          /\ buffer[n] = NUL

-----------------------------------------------------------------------------
(* Conditions under which the theorems hold                                *)

\* All but NUL, those first that are named in this module.
Characters == {"0", "1", "2", "3", "4", "5", "6", "7", "8", "9", "a", "b", "c", "d", "e", "f",
               "x", "p", "-", "%", "."} \cup (STRING \ {NUL})
AnyCharacter == Characters \cup {NUL}

\* The argument of a directive is of its kind.
Suits(d, arg) ==
    /\ d \in {"d", "u", "x", "p"} => arg \in Numbers
    /\ d = "s" => arg \in Seq(Characters)
    /\ d = "c" => arg \in AnyCharacter

\* That is so of every directive the walk over a format meets, before its NUL and
\* behind it.
SuitsFrom(c) ==
    LET suits[w \in Nat \X Nat] ==
          IF w[1] > Len(c.fmt) + 1 + Len(Rest) \/ CharOf(c.fmt, w[1]) = NUL THEN TRUE
          ELSE /\ CharOf(c.fmt, w[1]) = "%" => Suits(CharOf(c.fmt, w[1] + 1), c.args[w[2]])
               /\ suits[After(c.fmt, w)]
    IN  suits
Typed(c) == c.fmt \in Seq(Characters) /\ SuitsFrom(c)[<<1, 1>>]

CallsTyped == Rest \in Seq(AnyCharacter) /\ \A c \in Calls : Typed(c)
=============================================================================
