------------------------- MODULE InputBufferProofs -------------------------
(***************************************************************************)
(* Proofs about InputBuffer, for every size of the buffer and every stream *)
(* a controller may send, with blocks of any length: however the stream is *)
(* cut, both loops advance, and what is executed is what arrived, once.    *)
(***************************************************************************)
EXTENDS InputBuffer, ListProofs

(***************************************************************************)
(* Least elements                                                          *)
(***************************************************************************)

LEMMA MinFacts ==
  ASSUME NEW S, S \subseteq Nat, S # {}
  PROVE  Min(S) \in S /\ \A m \in S : Min(S) <= m
BY Least DEF Min

(***************************************************************************)
(* The scanner stays in the text                                           *)
(***************************************************************************)

LEMMA CharFacts ==
  /\ Digits = {"0", "1", "2", "3", "4", "5", "6", "7", "8", "9"}
  /\ "eos" \notin Chars /\ Digits \subseteq Chars
  /\ {"a"} \subseteq Chars /\ {"SP"} \subseteq Chars /\ {"a"} \cup Digits \subseteq Chars
<1>1. DOMAIN Numerals = {1, 2, 3, 4, 5, 6, 7, 8, 9, 10}
  BY DEF Numerals
<1>2. Digits = {Numerals[i] : i \in {1, 2, 3, 4, 5, 6, 7, 8, 9, 10}}
  BY <1>1 DEF Digits, Range
<1>3. Digits = {"0", "1", "2", "3", "4", "5", "6", "7", "8", "9"}
  BY <1>2 DEF Numerals
<1> QED
  BY <1>3 DEF Chars

LEMMA ValueOfFacts ==
  ASSUME NEW c \in Digits
  PROVE  ValueOf(c) \in Nat
<1>1. DOMAIN Numerals = 1 .. 10
  BY DEF Numerals
<1>2. PICK i \in 1 .. 10 : c = Numerals[i]
  BY <1>1 DEF Digits, Range
<1>3. i - 1 \in 0 .. 9 /\ (i - 1) + 1 = i
  OBVIOUS
<1>4. \E d \in 0 .. 9 : Numerals[d + 1] = c
  BY <1>2, <1>3
<1>5. ValueOf(c) \in 0 .. 9
  BY <1>4 DEF ValueOf
<1> QED
  BY <1>5

LEMMA AtFacts ==
  ASSUME NEW s \in Seq(Chars), NEW p \in Nat
  PROVE  /\ p < Len(s) => At(s, p) \in Chars
         /\ p >= Len(s) => At(s, p) = "eos"
         /\ Len(s) \in Nat
<1>1. Len(s) \in Nat
  OBVIOUS
<1>2. ASSUME p < Len(s)
      PROVE  At(s, p) \in Chars
  <2>1. p + 1 \in 1 .. Len(s)
    BY <1>1, <1>2
  <2> QED
    BY <1>2, <2>1, ElementOfSeq DEF At
<1>3. p >= Len(s) => At(s, p) = "eos"
  BY <1>1 DEF At
<1> QED
  BY <1>1, <1>2, <1>3

(* Skipping ends in the text, behind characters of these classes and at    *)
(* one of another class.                                                   *)
LEMMA SkipFacts ==
  ASSUME NEW s \in Seq(Chars), NEW p \in 0 .. Len(s), NEW chars \in SUBSET Chars
  PROVE  /\ Skip(s, p, chars) \in p .. Len(s)
         /\ At(s, Skip(s, p, chars)) \notin chars
         /\ \A q \in p .. Skip(s, p, chars) - 1 : At(s, q) \in chars
<1> DEFINE S == { q \in p .. Len(s) : At(s, q) \notin chars }
<1>1. Len(s) \in Nat /\ At(s, Len(s)) = "eos" /\ "eos" \notin chars
  BY AtFacts, CharFacts
<1>2. S \subseteq Nat /\ Len(s) \in S
  BY <1>1
<1>3. Min(S) \in S /\ \A m \in S : Min(S) <= m
  BY <1>2, MinFacts
<1>4. Min(S) \in p .. Len(s) /\ At(s, Min(S)) \notin chars
  BY <1>3
<1>5. ASSUME NEW q \in p .. Min(S) - 1
      PROVE  At(s, q) \in chars
  <2>1. q \in p .. Len(s) /\ ~ (Min(S) <= q)
    BY <1>1, <1>4
  <2> QED
    BY <1>3, <2>1
<1> QED
  BY <1>4, <1>5 DEF Skip

LEMMA MnemonicEndFacts ==
  ASSUME NEW s \in Seq(Chars), NEW p \in 0 .. Len(s)
  PROVE  MnemonicEnd(s, p) \in p .. Len(s)
<1>1. Skip(s, p, {"a"} \cup Digits) \in p .. Len(s)
  BY CharFacts, SkipFacts
<1> QED
  BY <1>1 DEF MnemonicEnd

LEMMA NumberEndFacts ==
  ASSUME NEW s \in Seq(Chars), NEW p \in 0 .. Len(s)
  PROVE  NumberEnd(s, p) \in p .. Len(s)
<1> DEFINE number  == Skip(s, p, Digits)
           blanks  == Skip(s, number, {"SP"})
           letters == Skip(s, blanks, {"a"})
<1>1. NumberEnd(s, p) = IF letters = blanks THEN number
                        ELSE IF At(s, letters) \in Digits THEN letters + 1 ELSE letters
  BY DEF NumberEnd
<1>2. Len(s) \in Nat
  OBVIOUS
<1>3. number \in p .. Len(s)
  BY CharFacts, SkipFacts
<1> HIDE DEF number
<1>4. number \in 0 .. Len(s)
  BY <1>2, <1>3
<1>5. blanks \in number .. Len(s)
  BY <1>4, CharFacts, SkipFacts
<1> HIDE DEF blanks
<1>6. blanks \in 0 .. Len(s)
  BY <1>2, <1>4, <1>5
<1>7. letters \in blanks .. Len(s)
  BY <1>6, CharFacts, SkipFacts
<1> HIDE DEF letters
<1>8. At(s, letters) \in Digits => letters < Len(s)
  <2>1. letters = Len(s) => At(s, letters) = "eos"
    BY <1>2, AtFacts
  <2> QED
    BY <1>2, <1>6, <1>7, <2>1, CharFacts
<1> QED
  BY <1>1, <1>2, <1>3, <1>4, <1>5, <1>6, <1>7, <1>8

LEMMA TextEndFacts ==
  ASSUME NEW s \in Seq(Chars), NEW p \in 0 .. Len(s)
  PROVE  TextEnd(s, p) \in p .. Len(s)
<1> DEFINE quotes(q) == { i \in p + 1 .. q : At(s, i) = "QUOTE" }
           closing == { q \in p + 1 .. Len(s) - 1 :
                          /\ At(s, q) = "QUOTE" /\ At(s, q + 1) # "QUOTE"
                          /\ Cardinality(quotes(q)) % 2 = 1 }
<1>1. TextEnd(s, p) = IF closing = {} THEN p ELSE Min(closing) + 1
  BY DEF TextEnd
<1>2. Len(s) \in Nat
  OBVIOUS
<1>3. \A q \in closing : q \in p + 1 .. Len(s) - 1
  OBVIOUS
<1> HIDE DEF closing
<1>4. closing # {} => Min(closing) \in closing
  <2>1. closing \subseteq Nat
    BY <1>2, <1>3
  <2> QED
    BY <2>1, MinFacts
<1>5. closing # {} => Min(closing) \in p + 1 .. Len(s) - 1
  BY <1>3, <1>4
<1> DEFINE m == Min(closing)
<1>6. m \in p + 1 .. Len(s) - 1 => m + 1 \in p .. Len(s)
  <2> HIDE DEF m
  <2> QED
    BY <1>2
<1> QED
  BY <1>1, <1>2, <1>5, <1>6

(* Digits write a number, which the recursion over them gives. *)
LEMMA ValueFacts ==
  ASSUME NEW s, NEW p \in Nat, NEW n \in Nat, \A q \in p .. p + n - 1 : At(s, q) \in Digits
  PROVE  Value(s, p, n) \in Nat
<1> DEFINE Step(f, i) == IF i = 0 THEN 0 ELSE 10 * f[i - 1] + ValueOf(At(s, p + i - 1))
           Writing(f) == f = [i \in 0 .. n |-> Step(f, i)]
           upTo == CHOOSE f : Writing(f)
           g == [pair \in (1 .. n) \X Nat |-> 10 * pair[2] + ValueOf(At(s, p + pair[1] - 1))]
<1>1. Value(s, p, n) = upTo[n]
  BY DEF Value
<1>2. ASSUME NEW i \in 1 .. n
      PROVE  ValueOf(At(s, p + i - 1)) \in Nat
  <2>1. p + i - 1 \in p .. p + n - 1
    OBVIOUS
  <2> QED
    BY <2>1, ValueOfFacts
<1>3. ASSUME NEW i \in 1 .. n, NEW x \in Nat
      PROVE  10 * x + ValueOf(At(s, p + i - 1)) \in Nat
  <2> DEFINE v == ValueOf(At(s, p + i - 1))
  <2>1. v \in Nat
    BY <1>2
  <2> HIDE DEF v
  <2>2. 10 * x + v \in Nat
    BY <2>1
  <2> QED
    BY <2>2 DEF v
<1>4. Goes(g, n, Nat)
  BY <1>3 DEF Goes
<1>5. \A i \in 1 .. n, x \in Nat : g[<<i, x>>] = 10 * x + ValueOf(At(s, p + i - 1))
  OBVIOUS
<1> HIDE DEF g, upTo
<1>6. PICK f : Recurs(f, 0, g, n, Nat)
  BY <1>4, Recursion
<1>7. ASSUME NEW i \in 0 .. n
      PROVE  f[i] = Step(f, i)
  <2>1. CASE i = 0
    BY <1>6, <2>1 DEF Recurs
  <2>2. CASE i # 0
    <3>1. i \in 1 .. n /\ i - 1 \in 0 .. n
      BY <2>2
    <3>2. f[i - 1] \in Nat /\ f[i] = g[<<i, f[i - 1]>>]
      BY <1>6, <3>1 DEF Recurs
    <3> QED
      BY <1>5, <2>2, <3>1, <3>2
  <2> QED
    BY <2>1, <2>2
<1>8. f = [i \in 0 .. n |-> f[i]]
  BY <1>6 DEF Recurs
<1>9. Writing(f)
  <2> DEFINE F(i) == Step(f, i)
  <2>1. \A i \in 0 .. n : f[i] = F(i)
    BY <1>7
  <2> HIDE DEF F
  <2>2. f = [i \in 0 .. n |-> F(i)]
    BY <1>8, <2>1
  <2> QED
    BY <2>2 DEF F
<1>10. upTo = [i \in 0 .. n |-> Step(upTo, i)]
  <2> HIDE DEF Writing
  <2>1. Writing(upTo)
    BY <1>9 DEF upTo
  <2> QED
    BY <2>1 DEF Writing
<1> DEFINE natural == {i \in 0 .. n : upTo[i] \in Nat}
<1>11. 0 \in natural
  BY <1>10
<1>12. ASSUME NEW k \in 0 .. n - 1, k \in natural
       PROVE  k + 1 \in natural
  <2>1. k + 1 \in 1 .. n /\ k + 1 \in 0 .. n /\ (k + 1) - 1 = k /\ k + 1 # 0
    OBVIOUS
  <2>2. upTo[k + 1] = 10 * upTo[k] + ValueOf(At(s, p + (k + 1) - 1))
    BY <1>10, <2>1
  <2> QED
    BY <1>3, <1>12, <2>1, <2>2
<1>13. n \in natural
  <2> HIDE DEF natural
  <2>1. 0 .. n \subseteq natural
    BY <1>11, <1>12, UpTo
  <2> QED
    BY <2>1
<1> QED
  BY <1>1, <1>13

(* A block ends in the text, and behind its # if it was found. *)
LEMMA BlockEndFacts ==
  ASSUME NEW s \in Seq(Chars), NEW p \in Nat, p < Len(s)
  PROVE  /\ BlockEnd(s, p).end \in p .. Len(s)
         /\ BlockEnd(s, p).found \in BOOLEAN
         /\ BlockEnd(s, p).found => BlockEnd(s, p).end > p
<1> DEFINE counted == At(s, p + 1) \in Digits \ {"0"}
           count   == IF counted THEN ValueOf(At(s, p + 1)) ELSE 0
           stop    == IF counted THEN Skip(s, p + 2, Digits) ELSE p + 1
           data    == p + 2 + count
           end     == data + Value(s, p + 2, count)
           found   == [end |-> end, found |-> TRUE]
           cut     == [end |-> Len(s), found |-> FALSE]
           none    == [end |-> p, found |-> FALSE]
<1>1. BlockEnd(s, p) = IF counted /\ data <= stop THEN IF end <= Len(s) THEN found ELSE cut
                       ELSE IF stop = Len(s) THEN cut ELSE none
  BY DEF BlockEnd, Cut
<1>2. Len(s) \in Nat
  OBVIOUS
<1>3. count \in Nat
  BY ValueOfFacts
<1> HIDE DEF count
<1>4. data \in Nat /\ data >= p + 2
  BY <1>3
<1>5. ASSUME counted, data <= stop, end <= Len(s)
      PROVE  end \in p .. Len(s) /\ end > p
  <2>1. p + 1 < Len(s)
    <3>1. p + 1 >= Len(s) => At(s, p + 1) = "eos"
      BY <1>2, AtFacts
    <3> QED
      BY <1>2, <1>5, <3>1, CharFacts
  <2>2. p + 2 \in 0 .. Len(s)
    BY <1>2, <2>1
  <2>3. /\ stop \in p + 2 .. Len(s)
        /\ \A q \in p + 2 .. stop - 1 : At(s, q) \in Digits
    BY <1>5, <2>2, CharFacts, SkipFacts
  <2> HIDE DEF stop, counted
  <2>4. \A q \in p + 2 .. p + 2 + count - 1 : q \in p + 2 .. stop - 1
    BY <1>3, <1>5, <2>3
  <2>5. Value(s, p + 2, count) \in Nat
    BY <1>3, <2>3, <2>4, ValueFacts
  <2> DEFINE value == Value(s, p + 2, count)
  <2>6. end = data + value /\ value \in Nat
    BY <2>5
  <2> HIDE DEF value, end
  <2> QED
    BY <1>2, <1>4, <1>5, <2>6
<1> HIDE DEF counted, stop, data, end
<1>6. BlockEnd(s, p) \in {found, cut, none} /\ (BlockEnd(s, p) = found => counted /\ data <= stop /\ end <= Len(s))
  BY <1>1
<1>7. CASE BlockEnd(s, p) = found
  BY <1>5, <1>6, <1>7
<1>8. CASE BlockEnd(s, p) = cut
  BY <1>2, <1>8
<1>9. CASE BlockEnd(s, p) = none
  BY <1>2, <1>9
<1> QED
  BY <1>6, <1>7, <1>8, <1>9

(* A parameter that was found takes at least one character. *)
LEMMA ProgramDataFacts ==
  ASSUME NEW s \in Seq(Chars), NEW p \in 0 .. Len(s)
  PROVE  /\ ProgramData(s, p).end \in p .. Len(s)
         /\ ProgramData(s, p).found \in BOOLEAN
         /\ ProgramData(s, p).found => ProgramData(s, p).end > p
<1> DEFINE from == Skip(s, p, {"SP"})
           c    == At(s, from)
           to   == IF c = "QUOTE" THEN TextEnd(s, from)
                   ELSE IF c = "HASH" THEN BlockEnd(s, from).end
                   ELSE IF c \in Digits THEN NumberEnd(s, from)
                   ELSE MnemonicEnd(s, from)
           found == IF c = "HASH" THEN BlockEnd(s, from).found ELSE to > from
<1>1. ProgramData(s, p) = [end |-> Skip(s, to, {"SP"}), found |-> found]
  BY DEF ProgramData
<1>2. Len(s) \in Nat
  OBVIOUS
<1>3. from \in p .. Len(s)
  BY CharFacts, SkipFacts
<1>4. from \in 0 .. Len(s)
  BY <1>2, <1>3
<1> HIDE DEF from
<1>5. /\ TextEnd(s, from) \in from .. Len(s)
      /\ NumberEnd(s, from) \in from .. Len(s)
      /\ MnemonicEnd(s, from) \in from .. Len(s)
  BY <1>4, TextEndFacts, NumberEndFacts, MnemonicEndFacts
<1>6. ASSUME c = "HASH"
      PROVE  /\ BlockEnd(s, from).end \in from .. Len(s)
             /\ BlockEnd(s, from).found \in BOOLEAN
             /\ BlockEnd(s, from).found => BlockEnd(s, from).end > from
  <2>1. from \in Nat /\ from < Len(s)
    <3>1. from >= Len(s) => At(s, from) = "eos"
      BY <1>4, AtFacts
    <3> QED
      BY <1>2, <1>4, <1>6, <3>1
  <2> QED
    BY <2>1, BlockEndFacts
<1>7. to \in from .. Len(s)
  BY <1>5, <1>6
<1>8. found \in BOOLEAN /\ (found => to > from)
  <2>1. CASE c = "HASH"
    <3>1. to = BlockEnd(s, from).end /\ found = BlockEnd(s, from).found
      BY <2>1
    <3> HIDE DEF to, found
    <3> QED
      BY <1>6, <2>1, <3>1
  <2>2. CASE c # "HASH"
    <3> DEFINE further == to > from
    <3>1. further \in BOOLEAN
      <4> HIDE DEF to
      <4> QED
        OBVIOUS
    <3>2. found = further
      BY <2>2
    <3>3. further => to > from
      OBVIOUS
    <3> HIDE DEF to, found, further
    <3> QED
      BY <3>1, <3>2, <3>3, Zenon
  <2> QED
    BY <2>1, <2>2
<1> HIDE DEF to, found
<1>9. to \in 0 .. Len(s)
  BY <1>2, <1>4, <1>7
<1>10. Skip(s, to, {"SP"}) \in to .. Len(s)
  BY <1>9, CharFacts, SkipFacts
<1>11. /\ ProgramData(s, p).end = Skip(s, to, {"SP"})
       /\ ProgramData(s, p).found = found
  BY <1>1
<1> QED
  BY <1>2, <1>3, <1>7, <1>8, <1>10, <1>11

(* One place of scpiParser_parseAllProgramData, with all[q] the end of     *)
(* what follows the comma before q.                                        *)
DataFrom(all, s, q) ==
  IF ProgramData(s, q).found /\ At(s, ProgramData(s, q).end) = "COMMA"
    THEN all[ProgramData(s, q).end + 1] ELSE ProgramData(s, q).end

AllFrom(all, s, a) == all = [q \in a .. Len(s) |-> DataFrom(all, s, q)]

(* A comma is followed by a place further on, if it is the last. *)
LEMMA CommaFacts ==
  ASSUME NEW s \in Seq(Chars), NEW q \in 0 .. Len(s),
         ProgramData(s, q).found, At(s, ProgramData(s, q).end) = "COMMA"
  PROVE  ProgramData(s, q).end + 1 \in q + 1 .. Len(s)
<1> DEFINE e == ProgramData(s, q).end
<1>1. e \in q .. Len(s) /\ Len(s) \in Nat
  BY ProgramDataFacts
<1> HIDE DEF e
<1>2. e \in Nat
  BY <1>1
<1>3. ~ (e >= Len(s))
  <2>1. At(s, e) = "COMMA"
    BY DEF e
  <2> QED
    BY <1>2, <2>1, AtFacts
<1>4. e + 1 \in q + 1 .. Len(s)
  BY <1>1, <1>2, <1>3
<1> QED
  BY <1>4 DEF e

(* The recursion is defined: from the end of the text to its beginning. *)
LEMMA AllFromExists ==
  ASSUME NEW s \in Seq(Chars)
  PROVE  \E all : AllFrom(all, s, 0)
<1> DEFINE S == {k \in 0 .. Len(s) : \E all : AllFrom(all, s, Len(s) - k)}
<1>1. Len(s) \in Nat
  OBVIOUS
<1>2. 0 \in S
  <2> DEFINE n == Len(s)
             all == [q \in n .. n |-> ProgramData(s, q).end]
  <2>1. \A q \in n .. n : DataFrom(all, s, q) = ProgramData(s, q).end
    <3>1. ASSUME NEW q \in n .. n
          PROVE  ~ (ProgramData(s, q).found /\ At(s, ProgramData(s, q).end) = "COMMA")
      <4>1. SUFFICES ASSUME ProgramData(s, q).found, At(s, ProgramData(s, q).end) = "COMMA"
                     PROVE  FALSE
        OBVIOUS
      <4>2. q \in 0 .. Len(s) /\ q = Len(s)
        BY <1>1
      <4>3. ProgramData(s, q).end + 1 \in q + 1 .. Len(s)
        BY <4>1, <4>2, CommaFacts
      <4> QED
        BY <1>1, <4>2, <4>3
    <3> QED
      BY <3>1 DEF DataFrom
  <2>2. AllFrom(all, s, n)
    BY <2>1 DEF AllFrom
  <2>3. Len(s) - 0 = n /\ 0 \in 0 .. Len(s)
    BY <1>1
  <2> QED
    BY <2>2, <2>3
<1>3. ASSUME NEW k \in 0 .. Len(s) - 1, k \in S
      PROVE  k + 1 \in S
  <2> DEFINE n == Len(s)
             a == n - (k + 1)
  <2>1. PICK all : AllFrom(all, s, n - k)
    BY <1>3
  <2>2. n - k = a + 1 /\ a \in 0 .. n - 1 /\ n \in Nat
    BY <1>1
  <2> HIDE DEF n, a
  <2> DEFINE more == [q \in a .. n |-> IF q = a THEN DataFrom(all, s, a) ELSE all[q]]
  <2>3. ASSUME NEW q \in a .. n
        PROVE  DataFrom(more, s, q) = DataFrom(all, s, q)
    <3> DEFINE e == ProgramData(s, q).end
    <3>1. CASE ProgramData(s, q).found /\ At(s, e) = "COMMA"
      <4>1. q \in 0 .. Len(s)
        BY <2>2 DEF n
      <4>2. e + 1 \in q + 1 .. n
        BY <3>1, <4>1, CommaFacts DEF n
      <4> HIDE DEF e
      <4>3. e + 1 \in a .. n /\ e + 1 # a
        BY <2>2, <4>2
      <4>4. more[e + 1] = all[e + 1]
        BY <4>3
      <4> HIDE DEF more
      <4> QED
        BY <4>4 DEF DataFrom, e
    <3>2. CASE ~ (ProgramData(s, q).found /\ At(s, e) = "COMMA")
      <4> HIDE DEF more
      <4> QED
        BY <3>2 DEF DataFrom
    <3> QED
      BY <3>1, <3>2
  <2>4. ASSUME NEW q \in a .. n
        PROVE  more[q] = DataFrom(more, s, q)
    <3>1. CASE q = a
      <4>1. more[q] = DataFrom(all, s, q)
        BY <3>1
      <4> QED
        BY <2>3, <4>1
    <3>2. CASE q # a
      <4>1. q \in a + 1 .. n
        BY <2>2, <3>2
      <4>2. all[q] = DataFrom(all, s, q)
        BY <2>1, <2>2, <4>1 DEF AllFrom, n
      <4>3. more[q] = all[q]
        BY <3>2
      <4> QED
        BY <2>3, <4>2, <4>3
    <3> QED
      BY <3>1, <3>2
  <2>5. more = [q \in a .. n |-> DataFrom(more, s, q)]
    <3> DEFINE F(q) == DataFrom(more, s, q)
    <3>1. \A q \in a .. n : more[q] = F(q)
      BY <2>4
    <3>2. more = [q \in a .. n |-> more[q]]
      OBVIOUS
    <3> HIDE DEF F, more
    <3>3. [q \in a .. n |-> more[q]] = [q \in a .. n |-> F(q)]
      BY <3>1
    <3>4. more = [q \in a .. n |-> F(q)]
      BY <3>2, <3>3
    <3> QED
      BY <3>4 DEF F
  <2>6. AllFrom(more, s, a)
    <3> HIDE DEF more
    <3> QED
      BY <2>5 DEF AllFrom, n
  <2>7. Len(s) - (k + 1) = a /\ k + 1 \in 0 .. Len(s)
    BY <1>1 DEF a, n
  <2> QED
    BY <2>6, <2>7
<1>4. Len(s) \in S
  <2> HIDE DEF S
  <2>1. 0 .. Len(s) \subseteq S
    BY <1>1, <1>2, <1>3, UpTo
  <2> QED
    BY <1>1, <2>1
<1>5. Len(s) - Len(s) = 0
  BY <1>1
<1> QED
  BY <1>4, <1>5

LEMMA AllProgramDataFacts ==
  ASSUME NEW s \in Seq(Chars), NEW p \in 0 .. Len(s)
  PROVE  AllProgramData(s, p) \in p .. Len(s)
<1> DEFINE all == CHOOSE all : AllFrom(all, s, 0)
           n == Len(s)
<1>1. AllProgramData(s, p) = all[p]
  BY DEF AllProgramData, AllFrom, DataFrom
<1>2. AllFrom(all, s, 0)
  BY AllFromExists
<1> HIDE DEF all
<1>3. n \in Nat
  OBVIOUS
<1>4. \A q \in 0 .. n : all[q] = DataFrom(all, s, q)
  BY <1>2 DEF AllFrom
<1> DEFINE Good == {k \in 0 .. n : \A q \in n - k .. n : all[q] \in q .. n}
<1>5. ASSUME NEW q \in 0 .. n, \A r \in q + 1 .. n : all[r] \in r .. n
      PROVE  all[q] \in q .. n
  <2> DEFINE e == ProgramData(s, q).end
  <2>1. e \in q .. n
    BY <1>5, ProgramDataFacts
  <2>2. CASE ProgramData(s, q).found /\ At(s, e) = "COMMA"
    <3>1. e + 1 \in q + 1 .. n
      BY <2>2, CommaFacts
    <3>2. all[q] = all[e + 1]
      BY <1>4, <2>2 DEF DataFrom
    <3> HIDE DEF e
    <3>3. all[e + 1] \in e + 1 .. n
      BY <1>5, <3>1
    <3> QED
      BY <1>3, <3>1, <3>2, <3>3
  <2>3. CASE ~ (ProgramData(s, q).found /\ At(s, e) = "COMMA")
    BY <1>4, <2>1, <2>3 DEF DataFrom
  <2> QED
    BY <2>2, <2>3
<1>6. 0 \in Good
  <2>1. ASSUME NEW q \in n - 0 .. n
        PROVE  all[q] \in q .. n
    <3>1. q \in 0 .. n /\ \A r \in q + 1 .. n : FALSE
      BY <1>3
    <3> QED
      BY <1>5, <3>1
  <2> QED
    BY <1>3, <2>1
<1>7. ASSUME NEW k \in 0 .. n - 1, k \in Good
      PROVE  k + 1 \in Good
  <2>1. ASSUME NEW q \in n - (k + 1) .. n
        PROVE  all[q] \in q .. n
    <3>1. q \in 0 .. n /\ \A r \in q + 1 .. n : r \in n - k .. n
      BY <1>3
    <3>2. \A r \in q + 1 .. n : all[r] \in r .. n
      BY <1>7, <3>1
    <3> QED
      BY <1>5, <3>1, <3>2
  <2>2. k + 1 \in 0 .. n
    BY <1>3
  <2> QED
    BY <2>1, <2>2
<1>8. n \in Good
  <2> HIDE DEF Good, n
  <2>1. 0 .. n \subseteq Good
    BY <1>3, <1>6, <1>7, UpTo
  <2> QED
    BY <1>3, <2>1
<1>9. p \in n - n .. n
  BY <1>3
<1> QED
  BY <1>1, <1>8, <1>9

(* The first unit of a text lies in it, and is of some length unless the   *)
(* text is empty.  What is executed of it ends before the next unit.       *)
LEMMA UnitFacts ==
  ASSUME NEW s \in Seq(Chars)
  PROVE  LET unit == Unit(s)
             to   == IF unit.kind = "invalid" THEN unit.end ELSE unit.to
         IN  /\ unit.end \in 0 .. Len(s)
             /\ unit.from \in Nat
             /\ to \in Nat
             /\ unit.kind # "none" => unit.from < to /\ to <= unit.end
             /\ unit.end > 0 \/ (unit.kind = "none" /\ unit.termination = "NONE" /\ s = << >>)
<1> DEFINE from   == Skip(s, 0, {"SP"})
           header == MnemonicEnd(s, from)
           data   == IF At(s, header) = "SP" THEN AllProgramData(s, header) ELSE header
           next   == At(s, data)
           kind   == IF next \notin {"CR", "NL", "SEMI", "eos"} THEN "invalid"
                     ELSE IF header > from THEN "header" ELSE "none"
           termination == IF next \in {"CR", "NL"} THEN "NL"
                          ELSE IF next = "SEMI" THEN "SEMICOLON" ELSE "NONE"
           end == UnitEnd(s, data)
<1>1. Unit(s) = [from |-> from, to |-> data, end |-> end, kind |-> kind,
                 termination |-> termination]
  BY DEF Unit, UnitOf
<1>2. Len(s) \in Nat
  OBVIOUS
<1>3. from \in 0 .. Len(s)
  <2>1. 0 \in 0 .. Len(s)
    BY <1>2
  <2> QED
    BY <2>1, CharFacts, SkipFacts
<1> HIDE DEF from
<1>4. header \in from .. Len(s)
  BY <1>3, MnemonicEndFacts
<1> HIDE DEF header
<1>5. data \in header .. Len(s)
  <2>1. header \in 0 .. Len(s)
    BY <1>2, <1>3, <1>4
  <2>2. AllProgramData(s, header) \in header .. Len(s)
    BY <2>1, AllProgramDataFacts
  <2> QED
    BY <2>1, <2>2
<1> HIDE DEF data
<1>6. data \in Nat /\ from \in Nat /\ header \in Nat
  BY <1>2, <1>3, <1>4, <1>5
<1>7. data = Len(s) => next = "eos"
  BY <1>6, AtFacts
<1>8. data < Len(s) => next \in Chars
  BY <1>6, AtFacts
<1>9. /\ NewLineEnd(s, data) \in {data, data + 1, data + 2}
      /\ NewLineEnd(s, data) <= Len(s)
      /\ next \notin {"CR", "NL"} => NewLineEnd(s, data) = data
  <2> DEFINE q == IF next = "CR" THEN data + 1 ELSE data
  <2>1. NewLineEnd(s, data) = IF At(s, q) = "NL" THEN q + 1 ELSE q
    BY DEF NewLineEnd
  <2>2. q \in {data, data + 1} /\ q <= Len(s) /\ q \in Nat
    <3>1. next = "CR" => data < Len(s)
      BY <1>2, <1>5, <1>6, <1>7
    <3> HIDE DEF next
    <3> QED
      BY <1>2, <1>5, <1>6, <3>1
  <2>3. At(s, q) = "NL" => q < Len(s)
    <3>1. q = Len(s) => At(s, q) = "eos"
      BY <2>2, AtFacts
    <3> HIDE DEF q
    <3> QED
      BY <1>2, <2>2, <3>1
  <2>4. next \notin {"CR", "NL"} => q = data /\ At(s, q) # "NL"
    OBVIOUS
  <2> HIDE DEF q, next
  <2> QED
    BY <1>2, <1>6, <2>1, <2>2, <2>3, <2>4
<1>10. /\ end \in data .. Len(s)
       /\ data < Len(s) => end > data
       /\ data < Len(s) /\ next \notin {"CR", "NL"} => end = data + 1
  BY <1>2, <1>5, <1>6, <1>9 DEF UnitEnd
<1> HIDE DEF end
<1>11. kind = "invalid" => data < Len(s) /\ end = data + 1
  <2>1. kind = "invalid" => next \notin {"CR", "NL", "SEMI", "eos"}
    OBVIOUS
  <2> HIDE DEF kind, next
  <2> QED
    BY <1>2, <1>5, <1>6, <1>7, <1>10, <2>1
<1>12. kind = "header" => header > from
  OBVIOUS
<1>13. kind \in {"invalid", "header", "none"}
  OBVIOUS
<1>14. s = << >> => kind = "none" /\ termination = "NONE"
  <2>1. s = << >> => data = Len(s) /\ header = from
    BY <1>3, <1>4, <1>5, <1>6
  <2>2. s = << >> => next = "eos" /\ ~ (header > from)
    BY <1>6, <1>7, <2>1
  <2> QED
    BY <2>2
<1>15. s # << >> => Len(s) > 0
  BY EmptySeq
<1> HIDE DEF kind, termination, next
<1> DEFINE to == IF Unit(s).kind = "invalid" THEN Unit(s).end ELSE Unit(s).to
<1>16. /\ Unit(s).from = from /\ Unit(s).end = end /\ Unit(s).kind = kind
       /\ Unit(s).termination = termination /\ Unit(s).to = data
  BY <1>1
<1>17. to = IF kind = "invalid" THEN end ELSE data
  BY <1>16
<1> HIDE DEF to
<1>18. end \in 0 .. Len(s) /\ end \in Nat
  BY <1>2, <1>6, <1>10
<1>19. to \in Nat
  BY <1>6, <1>17, <1>18
<1>20. kind # "none" => from < to /\ to <= end
  <2>1. CASE kind = "invalid"
    BY <1>4, <1>5, <1>6, <1>11, <1>17, <1>18, <2>1
  <2>2. CASE kind = "header"
    BY <1>4, <1>5, <1>6, <1>10, <1>12, <1>17, <1>18, <2>2
  <2> QED
    BY <1>13, <2>1, <2>2
<1>21. end > 0 \/ (kind = "none" /\ termination = "NONE" /\ s = << >>)
  <2>1. s # << >> => end > 0
    BY <1>2, <1>5, <1>6, <1>10, <1>15, <1>18
  <2> QED
    BY <1>14, <2>1
<1> QED
  BY <1>6, <1>16, <1>18, <1>19, <1>20, <1>21 DEF to

(***************************************************************************)
(* The inductive invariant                                                 *)
(***************************************************************************)

(* Bytes a + 1 to b of the stream. *)
Stretch(a, b) == [i \in 1 .. b - a |-> a + i]

(* The bytes before the buffer, and before the end of the message. *)
Begin == received - Len(buffer)
End == IF pc = "parse" THEN Begin + totcmdlen ELSE received

(* The bytes that are done with. *)
Done == IF pc \in {"parse", "flush"} THEN End - Len(message) ELSE Begin

(* The buffer is what was received last, and what SCPI_Parse has before it *)
(* is the rest of what SCPI_Input has scanned of it, or of all of it.      *)
Framed ==
  /\ Begin \in Nat
  /\ buffer = Stretch(Begin, received)
  /\ pc \in {"idle", "flush"} => totcmdlen = 0
  /\ pc \in {"parse", "flush"} => /\ End - Len(message) \in Begin .. End
                                  /\ message = Stretch(End - Len(message), End)

(* What was executed lies before what is yet to be parsed; what was lost,  *)
(* before the buffer.                                                      *)
Behind ==
  /\ executed \in Seq([first : Nat, last : Nat])
  /\ \A i \in DOMAIN executed : executed[i].last <= Done
  /\ lost \subseteq 0 .. Begin

IInv == script \in Scripts /\ TypeOK /\ Framed /\ Behind /\ ExecutedOnce

(***************************************************************************)
(* Stretches of the stream                                                 *)
(***************************************************************************)

LEMMA StretchFacts ==
  ASSUME NEW a \in Nat, NEW b \in Nat, a <= b
  PROVE  /\ Stretch(a, b) \in Seq(Nat)
         /\ Len(Stretch(a, b)) = b - a
         /\ DOMAIN Stretch(a, b) = 1 .. b - a
         /\ \A i \in 1 .. b - a : Stretch(a, b)[i] = a + i
<1>1. b - a \in Nat
  OBVIOUS
<1> QED
  BY <1>1 DEF Stretch

LEMMA StretchPart ==
  ASSUME NEW a \in Nat, NEW b \in Nat, NEW c \in Nat, NEW d \in Nat, a <= b, b <= c, c <= d
  PROVE  SubSeq(Stretch(a, d), b - a + 1, c - a) = Stretch(b, c)
<1> DEFINE s == Stretch(a, d)
           t == SubSeq(s, b - a + 1, c - a)
<1>1. /\ s \in Seq(Nat) /\ Len(s) = d - a
      /\ \A i \in 1 .. d - a : s[i] = a + i
  BY StretchFacts
<1> HIDE DEF s
<1>2. b - a + 1 \in Int /\ c - a \in Int /\ \A i \in b - a + 1 .. c - a : s[i] \in Nat
  BY <1>1
<1>3. /\ t \in Seq(Nat)
      /\ Len(t) = IF b - a + 1 <= c - a THEN c - a - (b - a + 1) + 1 ELSE 0
      /\ \A i \in 1 .. c - a - (b - a + 1) + 1 : t[i] = s[b - a + 1 + i - 1]
  BY <1>2, SubSeqProperties
<1> HIDE DEF t
<1>4. Len(t) = c - b
  BY <1>3
<1>5. ASSUME NEW i \in 1 .. c - b
      PROVE  t[i] = b + i
  <2>1. /\ i \in 1 .. c - a - (b - a + 1) + 1 /\ b - a + 1 + i - 1 = b - a + i
        /\ b - a + i \in 1 .. d - a /\ a + (b - a + i) = b + i
    OBVIOUS
  <2> QED
    BY <1>1, <1>3, <2>1
<1>6. /\ Stretch(b, c) \in Seq(Nat) /\ Len(Stretch(b, c)) = c - b
      /\ \A i \in 1 .. c - b : Stretch(b, c)[i] = b + i
  BY StretchFacts
<1>7. t = Stretch(b, c)
  BY <1>3, <1>4, <1>5, <1>6, SeqEqual
<1> QED
  BY <1>7 DEF t, s

LEMMA StretchStart ==
  ASSUME NEW a \in Nat, NEW n \in Nat, NEW d \in Nat, a + n <= d
  PROVE  SubSeq(Stretch(a, d), 1, n) = Stretch(a, a + n)
<1>1. a + n \in Nat /\ a <= a /\ a <= a + n /\ a - a + 1 = 1 /\ (a + n) - a = n
  OBVIOUS
<1>2. SubSeq(Stretch(a, d), a - a + 1, (a + n) - a) = Stretch(a, a + n)
  BY <1>1, StretchPart
<1> QED
  BY <1>1, <1>2

LEMMA StretchRest ==
  ASSUME NEW a \in Nat, NEW b \in Nat, NEW n \in Nat, a + n <= b
  PROVE  Rest(Stretch(a, b), n) = Stretch(a + n, b)
<1>1. /\ a + n \in Nat /\ a <= a + n /\ b <= b /\ a <= b
      /\ (a + n) - a + 1 = n + 1
  OBVIOUS
<1>2. Len(Stretch(a, b)) = b - a
  BY <1>1, StretchFacts
<1>3. SubSeq(Stretch(a, b), (a + n) - a + 1, b - a) = Stretch(a + n, b)
  BY <1>1, StretchPart
<1> QED
  BY <1>1, <1>2, <1>3 DEF Rest

LEMMA StretchJoin ==
  ASSUME NEW a \in Nat, NEW b \in Nat, NEW c \in Nat, a <= b, b <= c
  PROVE  Stretch(a, b) \o Stretch(b, c) = Stretch(a, c)
<1> DEFINE s == Stretch(a, b)
           t == Stretch(b, c)
           u == Stretch(a, c)
<1>1. /\ s \in Seq(Nat) /\ Len(s) = b - a /\ \A i \in 1 .. b - a : s[i] = a + i
      /\ t \in Seq(Nat) /\ Len(t) = c - b /\ \A i \in 1 .. c - b : t[i] = b + i
      /\ u \in Seq(Nat) /\ Len(u) = c - a /\ \A i \in 1 .. c - a : u[i] = a + i
  <2>1. a <= c
    OBVIOUS
  <2> QED
    BY <2>1, StretchFacts
<1> HIDE DEF s, t, u
<1>2. /\ s \o t \in Seq(Nat) /\ Len(s \o t) = Len(s) + Len(t)
      /\ \A i \in 1 .. Len(s) + Len(t) :
           (s \o t)[i] = IF i <= Len(s) THEN s[i] ELSE t[i - Len(s)]
  BY <1>1, ConcatProperties
<1>3. Len(s \o t) = Len(u)
  BY <1>1, <1>2
<1>4. ASSUME NEW i \in 1 .. Len(u)
      PROVE  (s \o t)[i] = u[i]
  <2>1. i \in 1 .. c - a /\ i \in 1 .. Len(s) + Len(t)
    BY <1>1, <1>2, <1>3
  <2>2. CASE i <= Len(s)
    <3>1. i \in 1 .. b - a
      BY <1>1, <2>1, <2>2
    <3> QED
      BY <1>1, <1>2, <2>1, <2>2, <3>1
  <2>3. CASE ~ (i <= Len(s))
    <3>1. i - Len(s) \in 1 .. c - b /\ b + (i - Len(s)) = a + i
      BY <1>1, <2>1, <2>3
    <3> QED
      BY <1>1, <1>2, <2>1, <2>3, <3>1
  <2> QED
    BY <2>2, <2>3
<1>5. s \o t = u
  BY <1>1, <1>2, <1>3, <1>4, SeqEqual
<1> QED
  BY <1>5 DEF s, t, u

(* What was received is text. *)
LEMMA TextOf ==
  ASSUME script \in Scripts, received \in 0 .. Len(script.stream),
         NEW a \in Nat, NEW b \in Nat, a <= b, b <= received
  PROVE  Text(Stretch(a, b)) \in Seq(Chars) /\ Len(Text(Stretch(a, b))) = b - a
<1>1. script.stream \in Seq(Chars) /\ Len(script.stream) \in Nat /\ received \in Nat
  BY StreamsAssumption
<1>2. /\ DOMAIN Stretch(a, b) = 1 .. b - a
      /\ \A i \in 1 .. b - a : Stretch(a, b)[i] = a + i
  BY StretchFacts
<1>3. ASSUME NEW i \in 1 .. b - a
      PROVE  script.stream[Stretch(a, b)[i]] \in Chars
  <2>1. a + i \in 1 .. Len(script.stream)
    BY <1>1
  <2>2. script.stream[a + i] \in Chars
    BY <1>1, <2>1, ElementOfSeq
  <2> QED
    BY <1>2, <2>2
<1> DEFINE t == [i \in 1 .. b - a |-> script.stream[Stretch(a, b)[i]]]
<1>4. b - a \in Nat
  OBVIOUS
<1>5. t \in Seq(Chars) /\ Len(t) = b - a
  BY <1>3, <1>4
<1>6. Text(Stretch(a, b)) = t
  BY <1>2 DEF Text
<1> HIDE DEF t
<1> QED
  BY <1>5, <1>6

(***************************************************************************)
(* The actions                                                             *)
(***************************************************************************)

LEMMA InitStep == Init => IInv
<1> SUFFICES ASSUME Init
             PROVE  IInv
  OBVIOUS
<1>1. /\ script \in Scripts /\ received = 0 /\ buffer = << >> /\ pc = "idle"
      /\ totcmdlen = 0 /\ executed = << >> /\ lost = {} /\ torn = FALSE
  BY DEF Init
<1>2. Len(script.stream) \in Nat
  BY <1>1, StreamsAssumption
<1>3. Len(buffer) = 0 /\ DOMAIN buffer = {} /\ Len(executed) = 0 /\ DOMAIN executed = {}
  BY <1>1
<1>4. TypeOK
  <2>1. received \in 0 .. Len(script.stream) /\ totcmdlen \in 0 .. Len(buffer)
    BY <1>1, <1>2, <1>3
  <2>2. Len(buffer) < BufferLength
    BY <1>3, InputAssumption
  <2>3. \A i \in DOMAIN buffer : buffer[i] \in 1 .. received
    BY <1>3
  <2>4. torn \in BOOLEAN /\ pc \in {"idle", "scan", "parse", "flush"}
    BY <1>1
  <2> QED
    BY <2>1, <2>2, <2>3, <2>4 DEF TypeOK
<1>5. Begin = 0
  <2>1. received = 0 /\ Len(buffer) = 0
    BY <1>1, <1>3
  <2> HIDE <1>1, <1>3
  <2> QED
    BY <2>1 DEF Begin
<1>6. Framed
  <2>1. Stretch(0, 0) \in Seq(Nat) /\ Len(Stretch(0, 0)) = 0
    BY StretchFacts
  <2>2. Stretch(0, 0) = << >>
    BY <2>1, EmptySeq
  <2> QED
    BY <1>1, <1>5, <2>2 DEF Framed
<1>7. Behind
  BY <1>1, <1>3 DEF Behind
<1>8. ExecutedOnce
  BY <1>3 DEF ExecutedOnce
<1> QED
  BY <1>1, <1>4, <1>6, <1>7, <1>8 DEF IInv

(* The numbers in which the invariant speaks of the buffer. *)
LEMMA IInvFacts ==
  ASSUME IInv
  PROVE  /\ received \in Nat /\ Len(buffer) \in Nat /\ totcmdlen \in Nat /\ Begin \in Nat
         /\ received - Begin = Len(buffer) /\ Begin <= received
         /\ totcmdlen <= Len(buffer) /\ Len(buffer) < BufferLength /\ BufferLength \in Nat
         /\ Len(script.stream) \in Nat /\ received <= Len(script.stream)
         /\ buffer = Stretch(Begin, received)
<1>1. Len(script.stream) \in Nat
  BY StreamsAssumption DEF IInv
<1>2. received \in Nat /\ received <= Len(script.stream)
  BY <1>1 DEF IInv, TypeOK
<1>3. Begin \in Nat /\ buffer = Stretch(Begin, received)
  BY DEF IInv, Framed
<1>4. Len(buffer) \in Nat
  <2>1. CASE Begin <= received
    BY <1>2, <1>3, <2>1, StretchFacts
  <2>2. CASE ~ (Begin <= received)
    <3>1. 1 .. received - Begin = {}
      BY <1>2, <1>3, <2>2
    <3>2. buffer = << >>
      BY <1>3, <3>1 DEF Stretch
    <3> QED
      BY <3>2
  <2> QED
    BY <2>1, <2>2
<1>5. received - Begin = Len(buffer) /\ Begin <= received
  BY <1>2, <1>3, <1>4 DEF Begin
<1>6. totcmdlen \in Nat /\ totcmdlen <= Len(buffer) /\ Len(buffer) < BufferLength
  BY <1>4 DEF IInv, TypeOK
<1> QED
  BY <1>1, <1>2, <1>3, <1>4, <1>5, <1>6, InputAssumption

LEMMA StretchIs ==
  ASSUME NEW a \in Nat, NEW b \in Nat, a <= b, NEW s, s = Stretch(a, b)
  PROVE  /\ Len(s) = b - a /\ Len(s) \in Nat /\ b - Len(s) = a
         /\ \A i \in DOMAIN s : s[i] \in 1 .. b /\ s[i] > a
         /\ a = b => s = << >>
<1>1. s \in Seq(Nat) /\ Len(s) = b - a /\ DOMAIN s = 1 .. b - a /\ \A i \in 1 .. b - a : s[i] = a + i
  BY StretchFacts
<1>2. ASSUME NEW i \in DOMAIN s
      PROVE  s[i] \in 1 .. b /\ s[i] > a
  <2>1. i \in 1 .. b - a /\ a + i \in 1 .. b /\ a + i > a
    BY <1>1
  <2> QED
    BY <1>1, <2>1
<1>3. b - a \in Nat /\ b - (b - a) = a /\ (a = b => b - a = 0)
  OBVIOUS
<1> QED
  BY <1>1, <1>2, <1>3, EmptySeq

LEMMA BufferIs ==
  ASSUME NEW b \in Nat, received' \in Nat, b <= received', buffer' = Stretch(b, received')
  PROVE  /\ Begin' = b /\ Len(buffer') = received' - b /\ Len(buffer') \in Nat
         /\ \A i \in DOMAIN buffer' : buffer'[i] \in 1 .. received'
<1> DEFINE r == received'
           s == buffer'
<1>1. r \in Nat /\ b <= r /\ s = Stretch(b, r)
  OBVIOUS
<1>2. Begin' = r - Len(s)
  BY DEF Begin
<1> HIDE DEF r, s
<1>3. /\ Len(s) = r - b /\ Len(s) \in Nat /\ r - Len(s) = b
      /\ \A i \in DOMAIN s : s[i] \in 1 .. r
  BY <1>1, StretchIs
<1> QED
  BY <1>2, <1>3 DEF r, s

LEMMA PlacesOf ==
  ASSUME NEW e \in Seq([first : Nat, last : Nat]), NEW i \in DOMAIN e
  PROVE  e[i] \in [first : Nat, last : Nat] /\ e[i].first \in Nat /\ e[i].last \in Nat
<1>1. i \in 1 .. Len(e)
  OBVIOUS
<1>2. e[i] \in [first : Nat, last : Nat]
  BY <1>1, ElementOfSeq
<1> QED
  BY <1>2

(* What is thrown away was not executed. *)
LEMMA ExecutedKept ==
  ASSUME IInv, executed' = executed, Done \in Nat, \A b \in lost' : b \in lost \/ b > Done
  PROVE  ExecutedOnce'
<1>1. /\ executed \in Seq([first : Nat, last : Nat])
      /\ \A i \in DOMAIN executed : executed[i].last <= Done
      /\ lost \subseteq 0 .. Begin
  BY DEF IInv, Behind
<1>2. /\ \A i \in DOMAIN executed : executed[i].first <= executed[i].last
      /\ \A i, j \in DOMAIN executed : i < j => executed[i].last < executed[j].first
      /\ \A i \in DOMAIN executed : executed[i].first .. executed[i].last \cap lost = {}
  BY DEF IInv, ExecutedOnce
<1>3. ASSUME NEW i \in DOMAIN executed
      PROVE  executed[i].first .. executed[i].last \cap lost' = {}
  <2>2. executed[i].first \in Nat /\ executed[i].last \in Nat /\ executed[i].last <= Done
    BY <1>1, PlacesOf
  <2>3. ASSUME NEW b \in executed[i].first .. executed[i].last, b \in lost'
        PROVE  FALSE
    <3>1. b \in Nat /\ ~ (b > Done)
      BY <2>2
    <3>2. b \in lost
      BY <2>3, <3>1
    <3> QED
      BY <1>2, <3>2
  <2> QED
    BY <2>3
<1> QED
  BY <1>2, <1>3 DEF ExecutedOnce

LEMMA ChunkIs ==
  ASSUME received \in Nat, NEW n \in Nat
  PROVE  Chunk(n) = Stretch(received, received + n)
<1>1. received + n - received = n
  OBVIOUS
<1> QED
  BY <1>1 DEF Chunk, Stretch

LEMMA Arrived ==
  ASSUME IInv, NEW n \in 1 .. Len(script.stream), Arrive(n)
  PROVE  /\ n \in Nat /\ received' = received + n /\ received' \in 0 .. Len(script.stream)
         /\ received' \in Nat /\ Begin <= received' /\ pc = "idle" /\ totcmdlen = 0
         /\ script' = script /\ executed' = executed /\ torn' \in BOOLEAN
         /\ Done = Begin /\ buffer \o Chunk(n) = Stretch(Begin, received')
<1>1. /\ pc = "idle" /\ received + n <= Len(script.stream) /\ received' = received + n
      /\ torn' = (torn \/ received + n \in script.tears) /\ script' = script /\ executed' = executed
  BY DEF Arrive
<1>2. /\ received \in Nat /\ Begin \in Nat /\ Begin <= received /\ Len(script.stream) \in Nat
      /\ buffer = Stretch(Begin, received)
  BY IInvFacts
<1>3. n \in Nat /\ received' \in 0 .. Len(script.stream) /\ received' \in Nat /\ Begin <= received'
  BY <1>1, <1>2
<1>4. totcmdlen = 0
  BY <1>1 DEF IInv, Framed
<1>5. Done = Begin
  BY <1>1 DEF Done
<1>6. buffer \o Chunk(n) = Stretch(Begin, received')
  <2>1. Chunk(n) = Stretch(received, received + n)
    BY <1>2, <1>3, ChunkIs
  <2>2. received + n \in Nat /\ received <= received + n
    BY <1>2, <1>3
  <2>3. Stretch(Begin, received) \o Stretch(received, received + n) = Stretch(Begin, received + n)
    BY <1>2, <2>2, StretchJoin
  <2> QED
    BY <1>1, <1>2, <2>1, <2>3
<1>7. torn' \in BOOLEAN
  BY <1>1
<1> QED
  BY <1>1, <1>3, <1>4, <1>5, <1>6, <1>7

LEMMA OverrunStep ==
  ASSUME IInv, NEW n \in 1 .. Len(script.stream), Overrun(n)
  PROVE  IInv'
<1>1. /\ n \in Nat /\ received' = received + n /\ received' \in 0 .. Len(script.stream)
      /\ received' \in Nat /\ Begin <= received' /\ pc = "idle" /\ totcmdlen = 0
      /\ script' = script /\ executed' = executed /\ torn' \in BOOLEAN
      /\ Done = Begin /\ buffer \o Chunk(n) = Stretch(Begin, received')
  BY Arrived DEF Overrun
<1>2. /\ lost' = lost \cup Range(buffer \o Chunk(n)) /\ buffer' = << >>
      /\ pc' = pc /\ totcmdlen' = totcmdlen
  BY DEF Overrun
<1>3. Begin \in Nat /\ received \in Nat /\ Begin <= received
  BY IInvFacts
<1>4. buffer' = Stretch(received', received')
  <2> DEFINE r == received'
  <2>1. r \in Nat
    BY <1>1
  <2> HIDE DEF r
  <2>2. Stretch(r, r) = << >>
    BY <2>1, StretchIs
  <2> QED
    BY <1>2, <2>2 DEF r
<1>5. /\ Begin' = received' /\ Len(buffer') = received' - received'
      /\ \A i \in DOMAIN buffer' : buffer'[i] \in 1 .. received'
  BY <1>1, <1>4, BufferIs
<1>6. TypeOK'
  <2>1. Len(buffer') = 0 /\ Len(buffer') < BufferLength
    BY <1>1, <1>5, InputAssumption
  <2>2. totcmdlen' \in 0 .. Len(buffer')
    BY <1>1, <1>2, <2>1
  <2>3. received' \in 0 .. Len(script'.stream) /\ pc' \in {"idle", "scan", "parse", "flush"}
    BY <1>1, <1>2
  <2> QED
    BY <1>1, <1>5, <2>1, <2>2, <2>3 DEF TypeOK
<1>7. Framed'
  BY <1>1, <1>2, <1>4, <1>5 DEF Framed
<1>8. Done' = received'
  BY <1>1, <1>2, <1>5 DEF Done
<1>9. ASSUME NEW b \in Range(buffer \o Chunk(n))
      PROVE  b \in Nat /\ b > Begin /\ b <= received'
  <2>1. /\ DOMAIN Stretch(Begin, received') = 1 .. received' - Begin
        /\ \A i \in 1 .. received' - Begin : Stretch(Begin, received')[i] = Begin + i
    BY <1>1, <1>3, StretchFacts
  <2>2. PICK i \in 1 .. received' - Begin : b = Begin + i
    BY <1>1, <1>9, <2>1 DEF Range
  <2> QED
    BY <1>1, <1>3, <2>2
<1>10. Behind'
  <2>1. /\ executed \in Seq([first : Nat, last : Nat])
        /\ \A i \in DOMAIN executed : executed[i].last <= Begin
        /\ lost \subseteq 0 .. Begin
    BY <1>1 DEF IInv, Behind
  <2>2. ASSUME NEW i \in DOMAIN executed
        PROVE  executed[i].last <= received'
    <3>2. executed[i].last \in Nat /\ executed[i].last <= Begin
      BY <2>1, PlacesOf
    <3> QED
      BY <1>1, <1>3, <3>2
  <2>3. lost' \subseteq 0 .. received'
    <3>1. ASSUME NEW b \in lost'
          PROVE  b \in 0 .. received'
      BY <1>1, <1>2, <1>3, <1>9, <2>1
    <3> QED
      BY <3>1
  <2> QED
    BY <1>1, <1>5, <1>8, <2>1, <2>2, <2>3 DEF Behind
<1>11. ExecutedOnce'
  <2>1. \A b \in lost' : b \in lost \/ b > Done
    BY <1>1, <1>2, <1>9
  <2> QED
    BY <1>1, <1>3, <2>1, ExecutedKept
<1> QED
  BY <1>1, <1>6, <1>7, <1>10, <1>11 DEF IInv

LEMMA CollectStep ==
  ASSUME IInv, NEW n \in 1 .. Len(script.stream), Collect(n)
  PROVE  IInv'
<1>1. /\ n \in Nat /\ received' = received + n /\ received' \in 0 .. Len(script.stream)
      /\ received' \in Nat /\ Begin <= received' /\ pc = "idle" /\ totcmdlen = 0
      /\ script' = script /\ executed' = executed /\ torn' \in BOOLEAN
      /\ Done = Begin /\ buffer \o Chunk(n) = Stretch(Begin, received')
  BY Arrived DEF Collect
<1>2. /\ ~ (n > BufferLength - Len(buffer) - 1) /\ buffer' = buffer \o Chunk(n) /\ totcmdlen' = 0
      /\ pc' = "scan" /\ lost' = lost
  BY DEF Collect, Overruns
<1>3. /\ Begin \in Nat /\ received \in Nat /\ Len(buffer) = received - Begin /\ Len(buffer) \in Nat
      /\ BufferLength \in Nat
  BY IInvFacts
<1>4. /\ Begin' = Begin /\ Len(buffer') = received' - Begin
      /\ \A i \in DOMAIN buffer' : buffer'[i] \in 1 .. received'
  <2>1. buffer' = Stretch(Begin, received')
    BY <1>1, <1>2
  <2> QED
    BY <1>1, <1>3, <2>1, BufferIs
<1>5. TypeOK'
  <2>1. Len(buffer') < BufferLength /\ totcmdlen' \in 0 .. Len(buffer')
    BY <1>1, <1>2, <1>3, <1>4
  <2> QED
    BY <1>1, <1>2, <1>4, <2>1 DEF TypeOK
<1>6. Framed'
  BY <1>1, <1>2, <1>3, <1>4 DEF Framed
<1>7. Behind'
  <2>1. Done' = Begin
    BY <1>2, <1>4 DEF Done
  <2> QED
    BY <1>1, <1>2, <1>4, <2>1 DEF IInv, Behind
<1>8. ExecutedOnce'
  BY <1>1, <1>2, <1>3, ExecutedKept
<1> QED
  BY <1>1, <1>5, <1>6, <1>7, <1>8 DEF IInv

LEMMA TimeoutStep ==
  ASSUME IInv, Timeout
  PROVE  IInv'
<1>1. /\ pc = "idle" /\ message' = buffer /\ pc' = "flush" /\ script' = script
      /\ received' = received /\ buffer' = buffer /\ totcmdlen' = totcmdlen
      /\ executed' = executed /\ lost' = lost /\ torn' = torn
  BY DEF Timeout
<1>2. /\ Begin \in Nat /\ received \in Nat /\ received - Len(buffer) = Begin /\ Begin <= received
      /\ buffer = Stretch(Begin, received)
  BY IInvFacts DEF Begin
<1>3. Begin' = Begin /\ End' = received /\ Done' = Begin /\ Done = Begin
  BY <1>1, <1>2 DEF Begin, End, Done
<1>4. TypeOK'
  BY <1>1 DEF IInv, TypeOK
<1>5. Framed'
  BY <1>1, <1>2, <1>3 DEF IInv, Framed
<1>6. Behind'
  BY <1>1, <1>3 DEF IInv, Behind
<1>7. ExecutedOnce'
  BY <1>1 DEF IInv, ExecutedOnce
<1> QED
  BY <1>1, <1>4, <1>5, <1>6, <1>7 DEF IInv

(* What SCPI_Input has yet to scan. *)
LEMMA Unscanned ==
  ASSUME IInv
  PROVE  LET text == Text(Rest(buffer, totcmdlen))
         IN  text \in Seq(Chars) /\ Len(text) = Len(buffer) - totcmdlen
<1>1. /\ Begin \in Nat /\ received \in Nat /\ totcmdlen \in Nat /\ Len(buffer) \in Nat
      /\ received - Begin = Len(buffer) /\ totcmdlen <= Len(buffer)
      /\ buffer = Stretch(Begin, received)
  BY IInvFacts
<1>2. /\ Begin + totcmdlen \in Nat /\ Begin + totcmdlen <= received /\ received <= received
      /\ received - (Begin + totcmdlen) = Len(buffer) - totcmdlen
  BY <1>1
<1>3. Rest(buffer, totcmdlen) = Stretch(Begin + totcmdlen, received)
  BY <1>1, <1>2, StretchRest
<1>4. script \in Scripts /\ received \in 0 .. Len(script.stream)
  BY DEF IInv, TypeOK
<1> QED
  BY <1>1, <1>2, <1>3, <1>4, TextOf

LEMMA ScanUnitStep ==
  ASSUME IInv, ScanUnit
  PROVE  IInv'
<1> DEFINE unit == Unit(Text(Rest(buffer, totcmdlen)))
           scanned == totcmdlen + unit.end
           last == \/ unit.kind = "none" /\ unit.termination = "NONE"
                   \/ scanned >= Len(buffer)
<1>1. /\ pc = "scan" /\ script' = script /\ received' = received /\ buffer' = buffer
      /\ executed' = executed /\ lost' = lost /\ torn' = torn
  BY DEF ScanUnit
<1>2. \/ message' = SubSeq(buffer, 1, scanned) /\ totcmdlen' = scanned /\ pc' = "parse"
      \/ pc' = "idle" /\ totcmdlen' = 0
      \/ totcmdlen' = scanned /\ pc' = "scan"
  BY <1>1 DEF ScanUnit
<1>3. /\ Begin \in Nat /\ received \in Nat /\ totcmdlen \in Nat /\ Len(buffer) \in Nat
      /\ received - Begin = Len(buffer) /\ Begin <= received /\ totcmdlen <= Len(buffer)
      /\ buffer = Stretch(Begin, received)
  BY IInvFacts
<1>4. scanned \in 0 .. Len(buffer)
  <2>1. unit.end \in 0 .. Len(buffer) - totcmdlen
    BY Unscanned, UnitFacts
  <2> HIDE DEF unit
  <2> QED
    BY <1>3, <2>1
<1> HIDE DEF scanned
<1>5. Begin' = Begin /\ Done = Begin
  BY <1>1 DEF Begin, Done
<1>6. pc' = "parse" => /\ message' = Stretch(Begin, Begin + scanned) /\ Len(message') = scanned
                       /\ totcmdlen' = scanned
  <2>1. SUFFICES ASSUME pc' = "parse"
                 PROVE  /\ message' = Stretch(Begin, Begin + scanned) /\ Len(message') = scanned
                        /\ totcmdlen' = scanned
    OBVIOUS
  <2>2. message' = SubSeq(buffer, 1, scanned) /\ totcmdlen' = scanned
    BY <1>2, <2>1
  <2>3. /\ scanned \in Nat /\ Begin + scanned \in Nat /\ Begin <= Begin + scanned
        /\ Begin + scanned <= received /\ (Begin + scanned) - Begin = scanned
    BY <1>3, <1>4
  <2>4. SubSeq(Stretch(Begin, received), 1, scanned) = Stretch(Begin, Begin + scanned)
    BY <1>3, <2>3, StretchStart
  <2>5. Len(Stretch(Begin, Begin + scanned)) = scanned
    BY <1>3, <2>3, StretchFacts
  <2> QED
    BY <1>3, <2>2, <2>3, <2>4, <2>5
<1>7. pc' = "parse" => End' = Begin + scanned /\ End' - Len(message') = Begin
  <2>1. SUFFICES ASSUME pc' = "parse"
                 PROVE  End' = Begin + scanned /\ End' - Len(message') = Begin
    OBVIOUS
  <2>2. End' = Begin + scanned
    BY <1>5, <1>6, <2>1 DEF End
  <2> QED
    BY <1>3, <1>4, <1>6, <2>1, <2>2
<1>8. Done' = Begin
  BY <1>2, <1>5, <1>7 DEF Done
<1>9. TypeOK'
  <2>1. totcmdlen' \in 0 .. Len(buffer')
    BY <1>1, <1>2, <1>3, <1>4
  <2> QED
    BY <1>1, <1>2, <2>1 DEF IInv, TypeOK
<1>10. Framed'
  <2>1. pc' \in {"idle", "flush"} => totcmdlen' = 0
    BY <1>2
  <2>2. pc' \in {"parse", "flush"} => /\ End' - Len(message') \in Begin' .. End'
                                     /\ message' = Stretch(End' - Len(message'), End')
    <3>1. Begin \in Begin .. Begin + scanned
      BY <1>3, <1>4
    <3> QED
      BY <1>2, <1>5, <1>6, <1>7, <3>1
  <2> QED
    BY <1>1, <1>3, <1>5, <2>1, <2>2 DEF Framed
<1>11. Behind'
  BY <1>1, <1>5, <1>8 DEF IInv, Behind
<1>12. ExecutedOnce'
  BY <1>1 DEF IInv, ExecutedOnce
<1> QED
  BY <1>1, <1>9, <1>10, <1>11, <1>12 DEF IInv

(* What SCPI_Parse has before it. *)
LEMMA Unparsed ==
  ASSUME IInv, pc \in {"parse", "flush"}
  PROVE  /\ Done \in Nat /\ End \in Nat /\ Len(message) \in Nat /\ Done + Len(message) = End
         /\ message = Stretch(Done, End) /\ Begin <= Done /\ Begin \in Nat /\ End <= received
         /\ Text(message) \in Seq(Chars) /\ Len(Text(message)) = Len(message)
<1>1. /\ Begin \in Nat /\ received \in Nat /\ totcmdlen \in Nat /\ Len(buffer) \in Nat
      /\ received - Begin = Len(buffer) /\ Begin <= received /\ totcmdlen <= Len(buffer)
  BY IInvFacts
<1>2. End \in Nat /\ End <= received
  BY <1>1 DEF End
<1>3. Done = End - Len(message) /\ Done \in Begin .. End /\ message = Stretch(Done, End)
  BY DEF IInv, Framed, Done
<1>4. Done \in Nat /\ Begin <= Done /\ Done <= End
  BY <1>1, <1>2, <1>3
<1>5. Len(message) = End - Done /\ Len(message) \in Nat /\ Done + Len(message) = End
  <2>1. Len(message) = End - Done
    BY <1>2, <1>3, <1>4, StretchFacts
  <2> QED
    BY <1>2, <1>4, <2>1
<1>6. script \in Scripts /\ received \in 0 .. Len(script.stream)
  BY DEF IInv, TypeOK
<1>7. Text(message) \in Seq(Chars) /\ Len(Text(message)) = End - Done
  BY <1>2, <1>3, <1>4, <1>6, TextOf
<1> QED
  BY <1>1, <1>2, <1>3, <1>4, <1>5, <1>7

(* A unit that is executed comes behind the ones before it. *)
LEMMA Appended ==
  ASSUME IInv, Done \in Nat, Begin \in Nat, Begin <= Done, lost' = lost,
         NEW e \in Nat,
         \/ executed' = executed
         \/ \E r \in [first : Nat, last : Nat] :
              /\ executed' = Append(executed, r)
              /\ Done < r.first /\ r.first <= r.last /\ r.last <= Done + e
  PROVE  /\ executed' \in Seq([first : Nat, last : Nat])
         /\ \A i \in DOMAIN executed' : executed'[i].last <= Done + e
         /\ ExecutedOnce'
<1>1. /\ executed \in Seq([first : Nat, last : Nat])
      /\ \A i \in DOMAIN executed : executed[i].last <= Done
      /\ lost \subseteq 0 .. Begin
  BY DEF IInv, Behind
<1>2. /\ \A i \in DOMAIN executed : executed[i].first <= executed[i].last
      /\ \A i, j \in DOMAIN executed : i < j => executed[i].last < executed[j].first
      /\ \A i \in DOMAIN executed : executed[i].first .. executed[i].last \cap lost = {}
  BY DEF IInv, ExecutedOnce
<1>3. \A i \in DOMAIN executed : executed[i].last <= Done + e
  BY <1>1, PlacesOf
<1>4. CASE executed' = executed
  <2>1. ExecutedOnce'
    BY <1>2, <1>4 DEF ExecutedOnce
  <2> QED
    BY <1>1, <1>3, <1>4, <2>1
<1>5. CASE \E r \in [first : Nat, last : Nat] :
              /\ executed' = Append(executed, r)
              /\ Done < r.first /\ r.first <= r.last /\ r.last <= Done + e
  <2>1. PICK r \in [first : Nat, last : Nat] :
              /\ executed' = Append(executed, r)
              /\ Done < r.first /\ r.first <= r.last /\ r.last <= Done + e
    BY <1>5
  <2> DEFINE n == Len(executed)
             x == executed'
  <2>2. /\ n \in Nat /\ DOMAIN executed = 1 .. n /\ x \in Seq([first : Nat, last : Nat])
        /\ DOMAIN x = 1 .. n + 1 /\ x[n + 1] = r /\ \A i \in 1 .. n : x[i] = executed[i]
    BY <1>1, <2>1, AppendProperties
  <2>3. x = executed'
    OBVIOUS
  <2> HIDE DEF n, x
  <2>4. r.first \in Nat /\ r.last \in Nat
    OBVIOUS
  <2>5. ASSUME NEW i \in 1 .. n + 1
        PROVE  /\ x[i].last <= Done + e /\ x[i].first <= x[i].last
               /\ x[i].first .. x[i].last \cap lost = {}
    <3>1. CASE i \in 1 .. n
      BY <1>2, <1>3, <2>2, <3>1
    <3>2. CASE i = n + 1
      <4>1. \A b \in r.first .. r.last : b \notin lost
        BY <1>1, <2>1, <2>4
      <4> QED
        BY <2>1, <2>2, <3>2, <4>1
    <3> QED
      BY <2>2, <3>1, <3>2
  <2>6. ASSUME NEW i \in 1 .. n + 1, NEW j \in 1 .. n + 1, i < j
        PROVE  x[i].last < x[j].first
    <3>1. i \in 1 .. n
      BY <2>2, <2>6
    <3>2. x[i].last \in Nat /\ x[i].last <= Done
      BY <1>1, <2>2, <3>1, PlacesOf
    <3>3. CASE j \in 1 .. n
      BY <1>2, <2>2, <2>6, <3>1, <3>3
    <3>4. CASE j = n + 1
      BY <2>1, <2>2, <2>4, <3>2, <3>4
    <3> QED
      BY <2>2, <3>3, <3>4
  <2>7. ExecutedOnce'
    BY <2>2, <2>3, <2>5, <2>6 DEF ExecutedOnce
  <2> QED
    BY <2>2, <2>3, <2>5, <2>7
<1> QED
  BY <1>4, <1>5

LEMMA ParseUnitStep ==
  ASSUME IInv, ParseUnit
  PROVE  IInv'
<1> DEFINE unit == Unit(Text(message))
           to   == IF unit.kind = "invalid" THEN unit.end ELSE unit.to
           e    == unit.end
           from == unit.from
           none == unit.kind = "none"
<1>1. /\ pc \in {"parse", "flush"} /\ script' = script /\ received' = received
      /\ lost' = lost /\ torn' = torn /\ message' = Rest(message, e)
      /\ executed' = IF none THEN executed
                     ELSE Append(executed, [first |-> message[from + 1], last |-> message[to]])
      /\ IF e < Len(message) THEN pc' = pc /\ buffer' = buffer /\ totcmdlen' = totcmdlen
         ELSE Leave
  BY DEF ParseUnit
<1>2. /\ Done \in Nat /\ End \in Nat /\ Len(message) \in Nat /\ Done + Len(message) = End
      /\ message = Stretch(Done, End) /\ Begin <= Done /\ Begin \in Nat /\ End <= received
      /\ Text(message) \in Seq(Chars) /\ Len(Text(message)) = Len(message)
  BY <1>1, Unparsed
<1>3. /\ e \in 0 .. Len(message) /\ from \in Nat /\ to \in Nat
      /\ ~ none => from < to /\ to <= e
  BY <1>2, UnitFacts
<1> HIDE DEF to, e, from, none
<1>4. e \in Nat /\ e <= Len(message)
  BY <1>2, <1>3
<1>5. message' = Stretch(Done + e, End) /\ Len(message') = Len(message) - e
  <2>1. Done + e <= End /\ Done + e \in Nat /\ End - (Done + e) = Len(message) - e
    BY <1>2, <1>4
  <2>2. Rest(message, e) = Stretch(Done + e, End)
    BY <1>2, <1>4, <2>1, StretchRest
  <2>3. Len(Stretch(Done + e, End)) = End - (Done + e)
    BY <1>2, <2>1, StretchFacts
  <2> QED
    BY <1>1, <2>1, <2>2, <2>3
<1>6. \/ executed' = executed
      \/ \E r \in [first : Nat, last : Nat] :
           /\ executed' = Append(executed, r)
           /\ Done < r.first /\ r.first <= r.last /\ r.last <= Done + e
  <2>1. CASE none
    BY <1>1, <2>1
  <2>2. CASE ~ none
    <3> DEFINE r == [first |-> message[from + 1], last |-> message[to]]
    <3>1. /\ from + 1 \in 1 .. End - Done /\ to \in 1 .. End - Done /\ Done <= End
          /\ from + 1 <= to
      BY <1>2, <1>3, <1>4, <2>2
    <3>2. message[from + 1] = Done + (from + 1) /\ message[to] = Done + to
      <4>1. message = Stretch(Done, End) /\ Done \in Nat /\ End \in Nat /\ Done <= End
        BY <1>2, <3>1
      <4>2. \A i \in 1 .. End - Done : Stretch(Done, End)[i] = Done + i
        BY <4>1, StretchFacts
      <4> QED
        BY <3>1, <4>1, <4>2
    <3>3. /\ Done + (from + 1) \in Nat /\ Done + to \in Nat /\ Done < Done + (from + 1)
          /\ Done + (from + 1) <= Done + to /\ Done + to <= Done + e
      BY <1>2, <1>3, <1>4, <2>2, <3>1
    <3>4. /\ r \in [first : Nat, last : Nat] /\ Done < r.first /\ r.first <= r.last
          /\ r.last <= Done + e
      BY <3>2, <3>3
    <3>5. executed' = Append(executed, r)
      BY <1>1, <2>2
    <3> QED
      BY <3>4, <3>5
  <2> QED
    BY <2>1, <2>2
<1>7. /\ executed' \in Seq([first : Nat, last : Nat])
      /\ \A i \in DOMAIN executed' : executed'[i].last <= Done + e
      /\ ExecutedOnce'
  BY <1>1, <1>2, <1>4, <1>6, Appended
<1>8. lost \subseteq 0 .. Begin
  BY DEF IInv, Behind
<1>9. TypeOK /\ script \in Scripts
  BY DEF IInv
<1>10. CASE e < Len(message)
  <2>1. pc' = pc /\ buffer' = buffer /\ totcmdlen' = totcmdlen
    BY <1>1, <1>10
  <2>2. Begin' = Begin /\ End' = End
    BY <1>1, <2>1 DEF Begin, End
  <2>3. End' - Len(message') = Done + e /\ Done' = Done + e
    <3>1. End' - Len(message') = Done + e
      BY <1>2, <1>4, <1>5, <2>2
    <3> QED
      BY <1>1, <2>1, <3>1 DEF Done
  <2>4. TypeOK'
    BY <1>1, <1>9, <2>1 DEF TypeOK
  <2>5. Framed'
    <3>1. Done + e \in Begin .. End
      BY <1>2, <1>4
    <3>2. message' = Stretch(End' - Len(message'), End') /\ End' - Len(message') \in Begin' .. End'
      BY <1>5, <2>2, <2>3, <3>1
    <3> QED
      BY <1>1, <2>1, <2>2, <3>2 DEF IInv, Framed
  <2>6. Behind'
    BY <1>1, <1>7, <1>8, <2>2, <2>3 DEF Behind
  <2> QED
    BY <1>1, <1>7, <1>9, <2>4, <2>5, <2>6 DEF IInv
<1>11. CASE ~ (e < Len(message))
  <2>1. Leave
    BY <1>1, <1>11
  <2>2. /\ received \in Nat /\ Len(buffer) \in Nat /\ totcmdlen \in Nat /\ totcmdlen <= Len(buffer)
        /\ received - Begin = Len(buffer) /\ Len(buffer) < BufferLength /\ BufferLength \in Nat
        /\ buffer = Stretch(Begin, received)
    BY IInvFacts
  <2>3. buffer' = Stretch(End, received)
    <3>1. CASE pc = "parse"
      <4>1. End = Begin + totcmdlen /\ buffer' = Rest(buffer, totcmdlen)
        BY <2>1, <3>1 DEF End, Leave
      <4> QED
        BY <1>2, <2>2, <4>1, StretchRest
    <3>2. CASE pc = "flush"
      <4>1. End = received /\ buffer' = << >>
        BY <2>1, <3>2 DEF End, Leave
      <4>2. Stretch(received, received) = << >>
        BY <2>2, StretchIs
      <4> QED
        BY <4>1, <4>2
    <3> QED
      BY <1>1, <3>1, <3>2
  <2>4. /\ Begin' = End /\ Len(buffer') = received - End /\ Len(buffer') \in Nat
        /\ \A i \in DOMAIN buffer' : buffer'[i] \in 1 .. received'
    BY <1>1, <1>2, <2>2, <2>3, BufferIs
  <2>5. pc' \in {"idle", "scan"} /\ totcmdlen' = 0
    BY <2>1 DEF Leave
  <2>6. Done' = End /\ Done + e = End
    BY <1>2, <1>4, <1>11, <2>4, <2>5 DEF Done
  <2>7. TypeOK'
    <3>1. Len(buffer') < BufferLength /\ totcmdlen' \in 0 .. Len(buffer')
      BY <1>2, <2>2, <2>4, <2>5
    <3> QED
      BY <1>1, <1>9, <2>4, <2>5, <3>1 DEF TypeOK
  <2>8. Framed'
    BY <1>1, <1>2, <2>3, <2>4, <2>5 DEF Framed
  <2>9. Behind'
    <3>1. lost' \subseteq 0 .. End
      BY <1>1, <1>2, <1>8
    <3> QED
      BY <1>7, <2>4, <2>6, <3>1 DEF Behind
  <2> QED
    BY <1>1, <1>7, <1>9, <2>7, <2>8, <2>9 DEF IInv
<1> QED
  BY <1>10, <1>11

LEMMA StutterStep ==
  ASSUME IInv, UNCHANGED vars
  PROVE  IInv'
BY DEF IInv, vars, TypeOK, Framed, Behind, ExecutedOnce, Begin, End, Done

LEMMA Inductive == IInv /\ [Next]_vars => IInv'
<1> SUFFICES ASSUME IInv, [Next]_vars
             PROVE  IInv'
  OBVIOUS
<1>1. CASE \E n \in 1 .. Len(script.stream) : Overrun(n) \/ Collect(n)
  BY <1>1, OverrunStep, CollectStep
<1>2. CASE Timeout
  BY <1>2, TimeoutStep
<1>3. CASE ScanUnit
  BY <1>3, ScanUnitStep
<1>4. CASE ParseUnit
  BY <1>4, ParseUnitStep
<1>5. CASE UNCHANGED vars
  BY <1>5, StutterStep
<1> QED
  BY <1>1, <1>2, <1>3, <1>4, <1>5 DEF Next

LEMMA Invariant == Spec => []IInv
<1> QED
  BY InitStep, Inductive, PTL DEF Spec

(***************************************************************************)
(* The theorems                                                            *)
(***************************************************************************)

(* The buffer never takes more than BufferLength - 1 bytes, so that the    *)
(* zero SCPI_Input writes behind them lies inside it, and SCPI_Input never *)
(* scans beyond what the buffer holds.                                     *)
THEOREM TypeCorrect == Spec => []TypeOK
<1>1. IInv => TypeOK
  BY DEF IInv
<1> QED
  BY <1>1, Invariant, PTL

(* However SCPI_Input is given the stream, and whatever overruns and       *)
(* timeouts come between: every unit that reaches command lookup is one    *)
(* stretch of the stream, behind the unit before it and apart from every   *)
(* byte an overrun threw away.                                             *)
THEOREM UnitsOnce == Spec => []ExecutedOnce
<1>1. IInv => ExecutedOnce
  BY DEF IInv
<1> QED
  BY <1>1, Invariant, PTL

(* Every turn of SCPI_Input's loop and of SCPI_Parse's consumes characters *)
(* or is the last one, for every text that can stand in the buffer.        *)
THEOREM TurnsConsume == Spec => []LoopsAdvance
<1>1. IInv => LoopsAdvance
  <2> SUFFICES ASSUME IInv
               PROVE  LoopsAdvance
    OBVIOUS
  <2>1. LET unit == Unit(Text(Rest(buffer, totcmdlen)))
        IN  unit.end > 0 \/ (unit.kind = "none" /\ unit.termination = "NONE")
    BY Unscanned, UnitFacts
  <2>2. ASSUME pc \in {"parse", "flush"}
        PROVE  message = << >> \/ Unit(Text(message)).end > 0
    <3>1. /\ Text(message) \in Seq(Chars) /\ Len(Text(message)) = Len(message)
          /\ message = Stretch(Done, End) /\ Done \in Nat /\ End \in Nat
          /\ Done + Len(message) = End /\ Len(message) \in Nat
      BY <2>2, Unparsed
    <3>2. Unit(Text(message)).end > 0 \/ Text(message) = << >>
      BY <3>1, UnitFacts
    <3>3. Text(message) = << >> => Done = End
      BY <3>1
    <3>4. Done = End => message = << >>
      BY <3>1, StretchIs
    <3> QED
      BY <3>2, <3>3, <3>4
  <2> QED
    BY <2>1, <2>2 DEF LoopsAdvance
<1> QED
  BY <1>1, Invariant, PTL

=============================================================================
