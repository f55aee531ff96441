------------------------------ MODULE Numerals ------------------------------
(***************************************************************************)
(* Integers to text and back: UInt32ToStrBaseSign and UInt64ToStrBaseSign  *)
(* of libscpi/src/utils.c, SCPI_ResultInt32 and the like, and what         *)
(* ParamSignToUInt32 and ParamSignToUInt64 make of the text.  The two      *)
(* widths differ in constants only and are one parameter here.             *)
(*                                                                         *)
(* A numeral is [minus, digits, base]; a digit is its value.               *)
(***************************************************************************)
EXTENDS Integers, Sequences, SequencesExt, FiniteSetsExt

CONSTANTS
  Width,       \* bits of the integers: 32 and 64 in the code
  LongWidth    \* bits of what strtol and strtoul return: Width or more

Bases == {2, 8, 10, 16}
Modulus == 2 ^ Width
Values == 0 .. Modulus - 1

\* A value as a signed integer.
Signed(val) == IF val >= Modulus \div 2 THEN val - Modulus ELSE val

\* The power of the base each switch starts from, the greatest that fits.
TopPower(base) == Max({base ^ k : k \in 0 .. Width - 1} \cap Values)

\* "remove leading zeros"
RECURSIVE FirstPower(_, _, _)
FirstPower(uval, x, base) == IF uval \div x = 0 THEN FirstPower(uval, x \div base, base) ELSE x

\* The loop that adds a digit for each power, while there is room.
RECURSIVE DigitsFrom(_, _, _, _)
DigitsFrom(uval, x, base, room) ==
  IF x = 0 \/ room <= 0 THEN << >>
  ELSE <<uval \div x>> \o DigitsFrom(uval % x, x \div base, base, room - 1)

\* UInt32ToStrBaseSign, UInt64ToStrBaseSign into a buffer of len characters
ToStrBaseSign(val, len, base, sign) ==
  LET minus == sign /\ Signed(val) < 0 /\ base = 10
      uval  == IF minus THEN (Modulus - val) % Modulus ELSE val
  IN  [minus |-> minus /\ len > 0, base |-> base,
       digits |-> IF val = 0 THEN SubSeq(<<0>>, 1, Min({1, len}))
                  ELSE DigitsFrom(uval, FirstPower(uval, TopPower(base), base), base,
                                  len - (IF minus THEN 1 ELSE 0))]

\* resultUInt32BaseSign, resultUInt64BaseSign: the buffer has one place more than bits.
Result(val, base, sign) == ToStrBaseSign(val, Width + 1, base, sign)

\* The number a numeral names.
Number(numeral) ==
  LET magnitude == FoldLeft(LAMBDA n, d : n * numeral.base + d, 0, numeral.digits)
  IN  IF numeral.minus THEN - magnitude ELSE magnitude

\* strtol and strtoul of the C library stop at the ends of their type.
Strtol(numeral) ==
  Max({- (2 ^ (LongWidth - 1)), Min({2 ^ (LongWidth - 1) - 1, Number(numeral)})})
Strtoul(numeral) == Min({2 ^ LongWidth - 1, Number(numeral)}) % 2 ^ LongWidth

\* Mutant: each numeral is read with the sign asked for.
SignedAlways(numeral, sign) == (IF sign THEN Strtol(numeral) ELSE Strtoul(numeral)) % Modulus

\* ParamSignToUInt32, ParamSignToUInt64: only decimal numbers are read signed.
ParamSignToUInt(numeral, sign) ==
  (IF sign /\ numeral.base = 10 THEN Strtol(numeral) ELSE Strtoul(numeral)) % Modulus

\* The digits of a result are digits of its base, and what is read from it has the bits that were written, when it is read with
\* the sign it was written with, or read signed but written in another base than 10.
ReadsBack(val, base, sign) ==
  LET numeral == Result(val, base, sign)
  IN  /\ Range(numeral.digits) \subseteq 0 .. base - 1
      /\ \A read \in {sign} \cup {base # 10} : ParamSignToUInt(numeral, read) = val

=============================================================================
