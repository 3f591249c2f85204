------------------------------ MODULE Decimals ------------------------------
(***************************************************************************)
(* Numbers as the screen shows them (stellarlib/src/display.rs).  A text   *)
(* is a sequence of characters.  The number of decimal places is a         *)
(* parameter, 7 in the code, so that small numbers reach both sides of the *)
(* decimal point.                                                          *)
(***************************************************************************)
EXTENDS Integers, SequencesExt

CONSTANT STELLAR_NATIVE_DECIMAL_PLACES

ASSUME PlacesAssumption == STELLAR_NATIVE_DECIMAL_PLACES \in Nat

\* to_string of an integer.
Digit == <<"0", "1", "2", "3", "4", "5", "6", "7", "8", "9">>
Digits[n \in Nat] ==
  IF n < 10 THEN <<Digit[n + 1]>>
  ELSE Append(Digits[n \div 10], Digit[(n % 10) + 1])
ToText(n) == IF n < 0 THEN <<"-">> \o Digits[-n] ELSE Digits[n]

\* strip_prefix('-'): each function works on what follows the sign and puts
\* the sign back.
Negative(text) == text # << >> /\ Head(text) = "-"
Sign(text) == IF Negative(text) THEN <<"-">> ELSE << >>
Unsigned(text) == IF Negative(text) THEN Tail(text) ELSE text

Zeros(n) == [i \in 1..n |-> "0"]

\* A faulty rendering that pads a fraction with one zero too few.
FormatDecimalUnpadded(n, places) ==
  LET digits == Unsigned(ToText(n))
      split  == Len(digits) - places
  IN  IF places = 0 THEN ToText(n)
      ELSE Sign(ToText(n)) \o
           IF split < 0
           THEN <<"0", ".">> \o Zeros(-split - 1) \o digits
           ELSE SubSeq(digits, 1, split) \o <<".">>
                \o SubSeq(digits, split + 1, Len(digits))

\* format_decimal.
FormatDecimal(n, places) ==
  LET digits == Unsigned(ToText(n))
      split  == Len(digits) - places
  IN  IF places = 0 THEN ToText(n)
      ELSE Sign(ToText(n)) \o
           IF split <= 0
           THEN <<"0", ".">> \o Zeros(-split) \o digits
           ELSE SubSeq(digits, 1, split) \o <<".">>
                \o SubSeq(digits, split + 1, Len(digits))

\* add_commas_to_integer: a comma before every third character from the end.
AddCommas(text) ==
  LET digits == Unsigned(text)
      piece(i) == IF i > 1 /\ (Len(digits) - i + 1) % 3 = 0
                  THEN <<",", digits[i]>> ELSE <<digits[i]>>
  IN  Sign(text) \o FlattenSeq([i \in 1..Len(digits) |-> piece(i)])

\* The text without its trailing zeros.
TrimZeros(text) ==
  SubSeq(text, 1, SelectLastInSeq(text, LAMBDA ch : ch # "0"))

\* format_number_with_commas: separators before the point, and no trailing
\* zeros (nor a point) after it.
FormatNumberWithCommas(text) ==
  LET number   == Unsigned(text)
      point    == SelectInSeq(number, LAMBDA ch : ch = ".")
      fraction == TrimZeros(SubSeq(number, point + 1, Len(number)))
  IN  Sign(text) \o
      IF point = 0 THEN AddCommas(number)
      ELSE AddCommas(SubSeq(number, 1, point - 1))
           \o IF fraction = << >> THEN << >> ELSE <<".">> \o fraction

\* The numbers of a contract value: format_number_with_commas of to_string.
WithCommas(n) == FormatNumberWithCommas(ToText(n))

\* format_token_amount and format_native_amount.
FormatTokenAmount(amount, decimals) ==
  FormatNumberWithCommas(FormatDecimal(amount, decimals))
FormatNativeAmount(stroops) ==
  FormatTokenAmount(stroops, STELLAR_NATIVE_DECIMAL_PLACES)

\* format_duration: leading units that are zero are left out, the others kept.
FormatDuration(seconds) ==
  LET count == <<seconds \div 86400, (seconds % 86400) \div 3600,
                 (seconds % 3600) \div 60, seconds % 60>>
      unit  == <<"d", "h", "m", "s">>
      first == SelectInSeq(count, LAMBDA c : c > 0)
      part(i) == Append(IF i = 1 THEN WithCommas(count[i]) ELSE ToText(count[i]),
                        unit[i])
  IN  IF seconds = 0 THEN <<"0", "s">>
      ELSE FlattenSeq([k \in 1..(5 - first) |-> part(first + k - 1)])

\* For the properties: what a text says without its separators.
WithoutCommas(text) ==
  FlattenSeq([i \in DOMAIN text |-> IF text[i] = "," THEN << >> ELSE <<text[i]>>])
=============================================================================
