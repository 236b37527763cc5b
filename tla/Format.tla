------------------------------- MODULE Format -------------------------------
(***************************************************************************)
(* printf, sprintf and snprintf (lib/stdio/sprintf.c, vprintf.c, printf.c) *)
(* and strtol (lib/stdlib/strtol.c).  One action is one turn of the loop   *)
(* of vsnprintf over the format, or what happens after it.  printf calls   *)
(* vsnprintf twice: to measure, without a buffer, then to fill a buffer of *)
(* the size measured.                                                      *)
(*                                                                         *)
(* A format is made of items, a character or a whole conversion; the code  *)
(* sees its characters only.  The argument list has one slot of the size   *)
(* of a long for every conversion, and is read again from its start by the *)
(* second call: va_list is a pointer passed by value on RISC-V.            *)
(***************************************************************************)
EXTENDS Integers, SequencesExt, FiniteSets

CONSTANTS
  Items,      \* the items formats are made of: sequences of characters
  MaxItems,   \* bound: items in a format
  IntBytes,   \* sizeof(int)
  LongBytes,  \* sizeof(long)
  Numbers,    \* the numbers passed for numeric conversions
  Texts,      \* the strings passed for %s
  Sizes,      \* the sizes of buffers given to snprintf
  SPRINTF_UNLIMITED

VARIABLES
  parts,                   \* the items of the format, with their arguments
  caller,                  \* the function called, and
  n,                       \* the size of the buffer it gives to vsnprintf
  pc,                      \* "measure" (out is NULL), "fill" or "done"
  s, format, longarg, pos, \* the locals of vsnprintf
  va,                      \* the slot of the next argument
  cells                    \* what was written to the buffer, by index

locals == <<s, format, longarg, pos, va>>
vars   == <<parts, caller, n, pc, locals, cells>>

ASSUME FormatAssumption ==
  /\ MaxItems \in Nat /\ IntBytes \in Nat \ {0} /\ LongBytes >= IntBytes
  /\ Numbers \subseteq Int /\ Sizes \subseteq Nat
  /\ \A i \in Items : Len(i) > 0
-----------------------------------------------------------------------------
(* Characters and machine integers *)

Numerals == << "0", "1", "2", "3", "4", "5", "6", "7", "8", "9" >>
LowerCase ==
  << "a", "b", "c", "d", "e", "f", "g", "h", "i", "j", "k", "l", "m",
     "n", "o", "p", "q", "r", "s", "t", "u", "v", "w", "x", "y", "z" >>
UpperCase ==
  << "A", "B", "C", "D", "E", "F", "G", "H", "I", "J", "K", "L", "M",
     "N", "O", "P", "Q", "R", "S", "T", "U", "V", "W", "X", "Y", "Z" >>
DigitChars == Numerals \o LowerCase
VT == "VT"         \* vertical tab
Spaces == {" ", "\f", "\n", "\r", "\t", VT}
NUL  == "NUL"
Junk == "junk"     \* a character that is no digit, or a cell never written

Digit(d) == IF d \in 0..15 THEN DigitChars[d + 1] ELSE Junk

Unsigned(v, bytes) == v % 256^bytes
Signed(v, bytes) ==
  LET u == Unsigned(v, bytes)
  IN IF 2 * u >= 256^bytes THEN u - 256^bytes ELSE u

Magnitude(v) == IF v < 0 THEN -v ELSE v
\* C division truncates towards zero, and the remainder has v's sign.
Div(v, d) == IF v < 0 THEN -((-v) \div d) ELSE v \div d
Rem(v, d) == v - d * Div(v, d)
-----------------------------------------------------------------------------
(* Inputs *)

Letter(part)     == Last(part.item)
Conversion(part) == Head(part.item) = "%"
Numeric(part)    == Conversion(part) /\ Letter(part) \in {"d", "u", "x", "p"}
IsLong(part)     == Letter(part) = "p" \/ "l" \in Range(part.item)

\* Every item with a fitting argument: a number for the numeric conversions
\* (an int is passed sign-extended), a string for %s, a character for %c.
Part(i, num, text) == [item |-> i, num |-> num, text |-> text]
Bell == 7
Parts ==
  {part \in {Part(i, num, t) : i \in Items, num \in Numbers \cup {0, Bell},
                              t \in Texts \cup {<< >>}} :
     /\ Conversion(part) /\ Letter(part) = "s" => part.text \in Texts
     /\ ~(Conversion(part) /\ Letter(part) = "s") => part.text = << >>
     /\ Numeric(part) => /\ part.num \in Numbers
                         /\ IsLong(part) \/ Signed(part.num, IntBytes) = part.num
     /\ ~Numeric(part) => part.num = IF Letter(part) = "c" THEN Bell ELSE 0}

\* A string is not printed after a character: see case_c.
Formats ==
  {f \in BoundedSeq(Parts, MaxItems) :
     \A j, k \in DOMAIN f :
        j < k /\ Conversion(f[j]) /\ Conversion(f[k])
          => ~(Letter(f[j]) = "c" /\ Letter(f[k]) = "s")}

Chars == FlattenSeq([k \in DOMAIN parts |-> parts[k].item])
Slots == SelectSeq(parts, Conversion)

Init ==
  /\ parts \in Formats
  /\ \/ caller = "snprintf" /\ n \in Sizes
     \/ caller = "sprintf"  /\ n = SPRINTF_UNLIMITED
     \/ caller = "printf"   /\ n = 0
  /\ pc = IF caller = "printf" THEN "measure" ELSE "fill"
  /\ s = 1 /\ format = FALSE /\ longarg = FALSE /\ pos = 0 /\ va = 1
  /\ cells = << >>
-----------------------------------------------------------------------------
(* vsnprintf *)

\* The cell behind the last one that may be written.
Limit_Inclusive == n + 1
Limit == n

\* text goes to the buffer from pos on, as far as there is a buffer; pos
\* counts all of it.
Put(text) ==
  /\ cells' = IF pc = "measure" THEN cells
              ELSE [i \in pos..Min({pos + Len(text), Limit}) - 1 |-> text[i - pos + 1]]
                   @@ cells
  /\ pos' = pos + Len(text)

InLoop ==
  /\ pc # "done" /\ s <= Len(Chars)
  /\ s' = s + 1 /\ UNCHANGED <<parts, caller, n, pc>>

literal ==
  /\ InLoop /\ ~format /\ Chars[s] # "%"
  /\ Put(<<Chars[s]>>)
  /\ UNCHANGED <<format, longarg, va>>

percent ==
  /\ InLoop /\ ~format /\ Chars[s] = "%"
  /\ format' = TRUE
  /\ UNCHANGED <<longarg, pos, va, cells>>

\* A conversion with one of these letters.
Case(letters) == InLoop /\ format /\ Chars[s] \in letters
\* The end of a conversion.
Converted == format' = FALSE /\ longarg' = FALSE

case_l ==
  /\ Case({"l"}) /\ longarg' = TRUE
  /\ UNCHANGED <<format, pos, va, cells>>

\* Flags and widths are skipped, as is any character that is no conversion.
default ==
  /\ InLoop /\ format /\ Chars[s] \notin {"l", "p", "x", "u", "d", "s", "c"}
  /\ UNCHANGED <<format, longarg, pos, va, cells>>

\* va_arg for a number: the low bytes of the slot.
Bytes(long) == IF long THEN LongBytes ELSE IntBytes
HexDigits(bytes) == 2 * bytes

\* All hexadecimal digits, leading zeros included; %p puts 0x before them.
Hexadecimal(num, bytes) ==
  LET w == HexDigits(bytes) IN [i \in 1..w |-> Digit((num \div 16^(w - i)) % 16)]

case_p_x ==
  /\ Case({"p", "x"})
  /\ LET long == longarg \/ Chars[s] = "p"
         hex  == Hexadecimal(Signed(Slots[va].num, Bytes(long)), Bytes(long))
     IN Put(IF Chars[s] = "p" THEN <<"0", "x">> \o hex ELSE hex)
  /\ va' = va + 1 /\ Converted

\* The number of digits of nn, a long.
DigitCount[nn \in Int] == IF Div(nn, 10) = 0 THEN 1 ELSE 1 + DigitCount[Div(nn, 10)]
digits_ZeroHasNone(num) == IF num = 0 THEN 0 ELSE DigitCount[Signed(num, LongBytes)]
digits(num) == DigitCount[Signed(num, LongBytes)]

\* The last digits of num, written from the right.
Decimal(num) ==
  LET k == digits(num) IN [i \in 1..k |-> Digit(Rem(Div(num, 10^(k - i)), 10))]

case_u ==
  /\ Case({"u"})
  /\ Put(Decimal(Unsigned(Slots[va].num, Bytes(longarg))))
  /\ va' = va + 1 /\ Converted

\* The negative of the least long is itself.
case_d ==
  /\ Case({"d"})
  /\ LET num == Signed(Slots[va].num, Bytes(longarg))
     IN Put((IF num < 0 THEN <<"-">> ELSE << >>)
            \o Decimal(Signed(Magnitude(num), LongBytes)))
  /\ va' = va + 1 /\ Converted

case_s ==
  /\ Case({"s"})
  /\ Put(Slots[va].text)
  /\ va' = va + 1 /\ Converted

\* The argument is fetched only if it is written: without a buffer, or past
\* its end, the next conversion reads this one's argument.
case_c ==
  /\ Case({"c"})
  /\ Put(<<"bell">>)
  /\ va' = IF pc = "fill" /\ pos < n THEN va + 1 ELSE va
  /\ Converted

\* After the loop the text is terminated.  printf has then measured, and
\* fills a buffer of that size; the others return.
Terminated ==
  IF pos < n THEN (pos :> NUL) @@ cells
  ELSE IF n > 0 THEN (n - 1 :> NUL) @@ cells ELSE cells

end_measure ==
  /\ pc = "measure" /\ s > Len(Chars)
  /\ pc' = "fill" /\ n' = pos + 1
  /\ s' = 1 /\ format' = FALSE /\ longarg' = FALSE /\ pos' = 0 /\ va' = 1
  /\ UNCHANGED <<parts, caller, cells>>

end_fill ==
  /\ pc = "fill" /\ s > Len(Chars)
  /\ pc' = "done" /\ cells' = Terminated
  /\ UNCHANGED <<parts, caller, n, locals>>

Next ==
  \/ literal \/ percent \/ default
  \/ case_l \/ case_p_x \/ case_u \/ case_d \/ case_s \/ case_c
  \/ end_measure \/ end_fill

Spec == Init /\ [][Next]_vars
-----------------------------------------------------------------------------
(* strtol *)

DigitValue(c) ==
  LET letters == IF Contains(UpperCase, c) THEN UpperCase ELSE LowerCase
  IN SelectInSeq(Numerals \o letters, LAMBDA d : d = c) - 1
DigitIn(c, base) == DigitValue(c) \in 0..base - 1

\* The value of text, which ends with NUL, and the number of characters read.
\* A plus sign is not skipped.
Negative_Never(c) == FALSE
Negative(c) == c = "-"

strtol(text, base) ==
  LET blank  == SelectInSeq(text, LAMBDA c : c \notin Spaces)
      first  == IF Negative(text[blank]) THEN blank + 1 ELSE blank
      prefix == /\ base \in {0, 16}
                /\ text[first] = "0" /\ text[first + 1] \in {"x", "X"}
      from   == IF prefix THEN first + 2 ELSE first
      radix  == IF prefix THEN 16
                ELSE IF base # 0 THEN base
                ELSE IF text[from] = "0" THEN 8 ELSE 10
      stop   == SelectInSubSeq(text, from, Len(text),
                               LAMBDA c : ~DigitIn(c, radix))
      v      == FoldLeft(LAMBDA acc, c : acc * radix + DigitValue(c), 0,
                         SubSeq(text, from, stop - 1))
  IN [value |-> Signed(IF Negative(text[blank]) THEN -v ELSE v, LongBytes),
      read  |-> stop - 1]
-----------------------------------------------------------------------------
(* What the functions promise *)

\* The digits of num >= 0 in a base, without leading zeros.
Numeral(num, base) ==
  LET digit[m \in Nat] == IF m < base THEN <<Digit(m)>>
                          ELSE Append(digit[m \div base], Digit(m % base))
  IN digit[num]

Zeros(k) == [i \in 1..k |-> "0"]

\* The number an argument stands for.
Meant(part) ==
  IF Letter(part) = "d" THEN part.num ELSE Unsigned(part.num, Bytes(IsLong(part)))

TextOf(part) ==
  IF ~Conversion(part) THEN part.item
  ELSE CASE Letter(part) = "s" -> part.text
         [] Letter(part) = "c" -> <<"bell">>
         [] Letter(part) = "u" -> Numeral(Meant(part), 10)
         [] Letter(part) = "d" -> (IF part.num < 0 THEN <<"-">> ELSE << >>)
                                  \o Numeral(Magnitude(part.num), 10)
         [] OTHER -> LET hex == Numeral(Meant(part), 16)
                         w   == 2 * Bytes(IsLong(part))
                     IN (IF Letter(part) = "p" THEN <<"0", "x">> ELSE << >>)
                        \o Zeros(w - Len(hex)) \o hex

Expected == FlattenSeq([k \in DOMAIN parts |-> TextOf(parts[k])])

\* No argument follows the argument of a %c.
CharacterLast == \A j, k \in DOMAIN Slots : Letter(Slots[j]) = "c" => k <= j

\* The least long has no magnitude, and half of the unsigned longs no long.
FitsLong(part) ==
  Numeric(part) /\ Letter(part) \in {"d", "u"} =>
    Magnitude(Meant(part)) = Signed(Magnitude(Meant(part)), LongBytes)

\* The text in the buffer, and what printf hands to cons_write.
Cell(i) == IF i \in DOMAIN cells THEN cells[i] ELSE Junk
FirstCells(k) == [i \in 1..k |-> Cell(i - 1)]

\* printf prints exactly what the format and its arguments ask for, and
\* sprintf and snprintf return its length and leave its text, cut to fit, in
\* the buffer: the two passes of vsnprintf agree (vprintf.c:14,16).
PrintsWhatIsAsked ==
  pc = "done" /\ CharacterLast /\ (\A k \in DOMAIN parts : FitsLong(parts[k])) =>
    /\ pos = Len(Expected)
    /\ IF caller = "printf" THEN FirstCells(n - 1) = Expected
       ELSE n > 0 => LET k == Min({Len(Expected), n - 1})
                     IN FirstCells(k + 1) = Append(SubSeq(Expected, 1, k), NUL)

\* Whatever the format and the arguments, also where the two passes of printf
\* differ in length, no character is written outside the buffer, and the text
\* in it is terminated.
StaysInBuffer ==
  /\ DOMAIN cells \subseteq 0..n - 1
  /\ pc = "done" /\ n > 0 => NUL \in Range(cells)

\* strtol reads back the numbers sprintf writes, blanks before them included,
\* and stops behind them.
ReadsBack ==
  pc = "done" /\ caller = "sprintf" /\ Len(parts) \in 1..2 =>
    LET part == Last(parts)
        base == CASE Letter(part) = "x" -> 16 [] Letter(part) = "p" -> 0 [] OTHER -> 10
    IN /\ Numeric(part)
       /\ Len(parts) = 2 => parts[1].item = <<" ">>
       /\ FitsLong(part) /\ Meant(part) = Signed(Meant(part), LongBytes)
       => strtol(FirstCells(pos + 1), base) = [value |-> Meant(part), read |-> pos]
=============================================================================
