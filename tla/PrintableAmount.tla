-------------------------- MODULE PrintableAmount --------------------------
(***************************************************************************)
(* The amount Exchange shows for a swap (swap-utils/src/format.rs): a      *)
(* second implementation of the conversion of Decimals, without allocation *)
(* and into a buffer of fixed size.  DECIMAL_PLACES, I64_MAX and           *)
(* BUFFER_SIZE are 7, 2^63 - 1 and 32 in the code.                         *)
(***************************************************************************)
EXTENDS Integers, SequencesExt

CONSTANTS DECIMAL_PLACES, I64_MAX, BUFFER_SIZE

\* The array of write_integer_u64: no 64-bit number has more digits.
SLOTS == 20

ASSUME AmountAssumption ==
  /\ DECIMAL_PLACES \in 0..SLOTS
  /\ I64_MAX \in Nat /\ BUFFER_SIZE \in Nat

TenTo[n \in 0..SLOTS] == IF n = 0 THEN 1 ELSE 10 * TenTo[n - 1]

DIVISOR == TenTo[DECIMAL_PLACES]

\* What is left of a number after each division by ten.
Quotients(value) ==
  LET rest[i \in 0..SLOTS] == IF i = 0 THEN value ELSE rest[i - 1] \div 10
  IN  rest

\* The buffer of handle_printable_amount_command has room for the longest
\* text: the digits of the whole part of the largest amount, the point, the
\* places and the unit.
ASSUME BufferAssumption ==
  \E n \in 1..(SLOTS - DECIMAL_PLACES) :
    /\ Quotients(I64_MAX)[DECIMAL_PLACES + n] = 0
    /\ n + 1 + DECIMAL_PLACES + 4 <= BUFFER_SIZE

\* BufferWriter: what is written, its length being pos, and whether every
\* write so far fitted; after one that did not, `?' leaves the rest out.
NewWriter == [written |-> << >>, ok |-> TRUE]

\* A faulty writer that keeps one byte of the buffer for itself.
WriteBytesKeepingOne(w, bytes) ==
  IF w.ok /\ Len(w.written) + Len(bytes) < BUFFER_SIZE
  THEN [written |-> w.written \o bytes, ok |-> TRUE]
  ELSE [w EXCEPT !.ok = FALSE]

\* write_byte, write_bytes and push_str.
WriteBytes(w, bytes) ==
  IF w.ok /\ Len(w.written) + Len(bytes) <= BUFFER_SIZE
  THEN [written |-> w.written \o bytes, ok |-> TRUE]
  ELSE [w EXCEPT !.ok = FALSE]

Ascii(d) == <<"0", "1", "2", "3", "4", "5", "6", "7", "8", "9">>[d + 1]

\* The lowest digits of a number, in their order: each is what a division by
\* ten leaves over.
Slots(value, count) ==
  [i \in 1..count |-> Ascii(Quotients(value)[count - i] % 10)]

\* The divisions until nothing is left.
DigitCount(value) ==
  CHOOSE n \in 0..SLOTS :
    /\ Quotients(value)[n] = 0
    /\ \A i \in 0..(n - 1) : Quotients(value)[i] # 0

\* write_integer_u64.
WriteInteger(w, value) ==
  WriteBytes(w, IF value = 0 THEN <<"0">> ELSE Slots(value, DigitCount(value)))

\* write_decimal_digits_u64: one slot for each place, up to the last that is
\* not zero.
WriteDecimalDigits(w, value, places) ==
  LET slots == Slots(value, places)
  IN  WriteBytes(w, SubSeq(slots, 1, SelectLastInSeq(slots, LAMBDA ch : ch # "0")))

\* format_xlm_amount.
FormatXlmAmount(w, num) ==
  LET whole == WriteInteger(w, num \div DIVISOR)
      part  == num % DIVISOR
  IN  IF num = 0 THEN WriteBytes(w, <<"0">>)
      ELSE IF part = 0 THEN whole
      ELSE WriteDecimalDigits(WriteBytes(whole, <<".">>), part, DECIMAL_PLACES)

\* format_printable_amount: an amount beyond the signed range is an error.
FormatPrintableAmount(amount) ==
  IF amount > I64_MAX THEN [NewWriter EXCEPT !.ok = FALSE]
  ELSE WriteBytes(FormatXlmAmount(NewWriter, amount), <<" ", "X", "L", "M">>)

-----------------------------------------------------------------------------
(* What a text says, by a reader that knows nothing of how it was written. *)

\* The digit a character is.
DigitOf(ch) == CHOOSE d \in 0..9 : Ascii(d) = ch

\* The number a text with at most places decimals denotes, as a whole number
\* of its smallest unit.
Reads(text, places) ==
  LET IsPoint(i) == text[i] = "."
      value[i \in 0..Len(text)] ==
        IF i = 0 THEN 0
        ELSE IF IsPoint(i) THEN value[i - 1]
        ELSE 10 * value[i - 1] + DigitOf(text[i])
      after == IF \E i \in DOMAIN text : IsPoint(i)
               THEN Len(text) - (CHOOSE i \in DOMAIN text : IsPoint(i)) ELSE 0
  IN  value[Len(text)] * TenTo[places - after]

\* No zero at the end of a fraction, and no point without one.
IsShort(text) == \A i \in DOMAIN text : text[i] = "." => Len(text) > i /\ Last(text) # "0"
=============================================================================
