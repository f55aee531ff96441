------------------------------- MODULE Blocks -------------------------------
(***************************************************************************)
(* Blocks and arrays: SCPI_ResultArbitraryBlock and the SCPI_ResultArray   *)
(* functions of libscpi/src/parser.c, and the recogniser of lexer.c that   *)
(* finds a block, scpiLex_ArbitraryBlockProgramData.                       *)
(*                                                                         *)
(* A response is [text, output_count, arbitrary_remaining], what the       *)
(* context keeps of it.  An item is the sequence of its bytes, the most    *)
(* significant one first; in memory they are in the order of the machine.  *)
(***************************************************************************)
EXTENDS Integers, Sequences, SequencesExt

DigitChars == <<"0", "1", "2", "3", "4", "5", "6", "7", "8", "9">>
IsDigit(c) == c \in Range(DigitChars)
ValueOf(c) == CHOOSE d \in 0 .. 9 : DigitChars[d + 1] = c

\* SCPI_UInt32ToStrBase in base 10, see Numerals
Decimal(n) ==
    LET digits == CHOOSE k \in 1 .. 10 : 10 ^ (k - 1) <= n /\ n < 10 ^ k
    IN  IF n = 0 THEN <<"0">>
        ELSE [i \in 1 .. digits |-> DigitChars[((n \div 10 ^ (digits - i)) % 10) + 1]]

Delimited(response) ==
    IF response.output_count > 0 THEN Append(response.text, ",") ELSE response.text

\* SCPI_ResultArbitraryBlockHeader: how many digits, and the digits.
BlockHeader(response, len) ==
    [response EXCEPT
        !.text = Delimited(response) \o <<"#", DigitChars[Len(Decimal(len)) + 1]>> \o Decimal(len),
        !.arbitrary_remaining = len]

\* SCPI_ResultArbitraryBlockData, which the block has room for.
BlockData(response, data) ==
    [text |-> response.text \o data,
     arbitrary_remaining |-> response.arbitrary_remaining - Len(data),
     output_count |-> response.output_count
        + (IF response.arbitrary_remaining = Len(data) THEN 1 ELSE 0)]

ResultBlock(response, data) == BlockData(BlockHeader(response, Len(data)), data)

\* An item in the memory of the machine.
InMemory(item, native) == IF native = "NORMAL" THEN item ELSE Reverse(item)

\* Mutant: the bytes of an item change places in pairs only.
SwapPairs(bytes) ==
    [i \in DOMAIN bytes |-> bytes[IF i % 2 = 1 THEN i + 1 ELSE i - 1]]

\* SCPI_Swap16, SCPI_Swap32, SCPI_Swap64
Swap(bytes) == Reverse(bytes)

\* produceResultArrayBinary: items of one byte are data as they are, others are swapped and
\* written one by one.
ResultBinary(response, items, size, format, native) ==
    LET stored == [i \in DOMAIN items |-> InMemory(items[i], native)]
        data   == FlattenSeq(stored)
    IN  IF format = native THEN ResultBlock(response, data)
        ELSE IF size = 1 THEN BlockData(BlockHeader(response, Len(data)), data)
        ELSE FoldLeft(LAMBDA r, item : BlockData(r, Swap(item)),
                      BlockHeader(response, size * Len(items)), stored)

\* A value as text, which its first byte stands for.
ResultItem(response, item) ==
    [response EXCEPT !.text = Delimited(response) \o <<Head(item)>>, !.output_count = @ + 1]

\* The SCPI_ResultArray functions
ResultArray(response, items, size, format, native) ==
    IF format = "ASCII" THEN FoldLeft(ResultItem, response, items)
    ELSE ResultBinary(response, items, size, format, native)

\* Mutant: a block that ends the text counts as cut.
IncludedBeforeEnd(end, t) == end < Len(t)

\* The end of a block lies in the text.
Included(end, t) == end <= Len(t)

\* scpiLex_ArbitraryBlockProgramData at the start of t: the data, or how there is none.
BlockToken(t) ==
    LET at(i)  == IF i <= Len(t) THEN t[i] ELSE "end"
        count  == IF IsDigit(at(2)) THEN ValueOf(at(2)) ELSE 0
        good   == \A i \in 3 .. count + 2 : IsDigit(at(i))
        length == FoldLeft(LAMBDA n, c : 10 * n + ValueOf(c), 0, SubSeq(t, 3, count + 2))
        end    == count + 2 + length
        cut    == \E n \in 1 .. count + 1 :
                    n = Len(t) /\ \A i \in 3 .. n : IsDigit(at(i))
    IN  IF at(1) # "#" THEN [type |-> "unknown", end |-> 0]
        ELSE IF count > 0 /\ good THEN
               IF Included(end, t)
                 THEN [type |-> "block", data |-> SubSeq(t, count + 3, end), end |-> end]
                 ELSE [type |-> "unknown", end |-> Len(t)]
        ELSE [type |-> "unknown", end |-> IF Len(t) = 1 \/ (count > 0 /\ cut) THEN Len(t) ELSE 0]

-----------------------------------------------------------------------------
\* A block that a response carries is found in it to its last byte, whatever is behind it;
\* of a response that is cut inside the block nothing is found.
BlockReadsBack(data, behind) ==
    LET text == ResultBlock([text |-> << >>, output_count |-> 0, arbitrary_remaining |-> 0], data).text
    IN  /\ BlockToken(text \o behind) = [type |-> "block", data |-> data, end |-> Len(text)]
        /\ \A n \in 1 .. Len(text) - 1 : BlockToken(SubSeq(text, 1, n)) = [type |-> "unknown", end |-> n]

\* On either machine an array is one block of its items in the byte order that was asked for,
\* or a value for each item; it is set off from what was written before it and counted, so
\* that the next result is set off from it; except the swapped block of no items, which is
\* not counted.
ArrayAsAsked(items, size, format, native, before) ==
    LET response == [text |-> IF before = 0 THEN << >> ELSE <<"before">>,
                     output_count |-> before, arbitrary_remaining |-> 0]
        after == ResultArray(response, items, size, format, native)
        data  == FlattenSeq([i \in DOMAIN items |-> InMemory(items[i], format)])
        block == <<"#", DigitChars[Len(Decimal(Len(data))) + 1]>> \o Decimal(Len(data)) \o data
        uncounted == items = << >> /\ size > 1 /\ format # native
        written == IF format = "ASCII" THEN Len(items) ELSE IF uncounted THEN 0 ELSE 1
    IN  /\ after.arbitrary_remaining = 0
        /\ after.output_count = before + written
        /\ IF format = "ASCII"
             THEN SelectSeq(after.text, LAMBDA c : c # ",")
                    = response.text \o [i \in DOMAIN items |-> Head(items[i])]
                  /\ \A i \in DOMAIN after.text : after.text[i] = "," <=> i % 2 = 0
             ELSE after.text = Delimited(response) \o block

=============================================================================
