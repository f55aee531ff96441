------------------------ MODULE ErrorInfoHeapProofs ------------------------
(***************************************************************************)
(* Proofs about ErrorInfoHeap, for every size of the heap and of the       *)
(* queue and every set of texts: whatever is stored, freed and rolled      *)
(* back, the texts stay whole and the room is accounted for.               *)
(***************************************************************************)
EXTENDS ErrorInfoHeap, ListProofs

(***************************************************************************)
(* The ring of cells                                                       *)
(***************************************************************************)

Wrap(y) == IF y < HeapSize THEN y ELSE y - HeapSize

Heaps == [data : [Cells -> Characters \cup {NUL}], wr : Cells, count : 0 .. HeapSize]

Entries ==
  {e \in [at : Cells \cup {NULL}, text : Texts \cup {<< >>}] : e.at = NULL <=> e.text = << >>}

LEMMA TextFacts ==
  ASSUME NEW text \in Texts
  PROVE  /\ Len(text) \in Nat \ {0}
         /\ text \in Seq(Characters \cup {NUL})
         /\ \A k \in 1 .. Len(text) : text[k] \in Characters /\ text[k] # NUL
<1>1. text \in Seq(Characters \ {NUL}) /\ text # << >>
  BY HeapAssumption
<1>2. Len(text) \in Nat \ {0}
  BY <1>1, EmptySeq
<1>3. \A k \in 1 .. Len(text) : text[k] \in Characters \ {NUL}
  BY <1>1, ElementOfSeq
<1>4. text \in Seq(Characters \cup {NUL})
  BY <1>1, SeqMonotonic
<1> QED
  BY <1>2, <1>3, <1>4

(* From any cell on, the ring is gone through once. *)
LEMMA RingFacts ==
  ASSUME NEW b \in Cells
  PROVE  /\ \A x \in 0 .. HeapSize - 1 : Wrap(b + x) \in Cells
         /\ \A c \in Cells : \E x \in 0 .. HeapSize - 1 : c = Wrap(b + x)
         /\ \A x, y \in 0 .. HeapSize - 1 : Wrap(b + x) = Wrap(b + y) => x = y
         /\ \A x, y \in 0 .. HeapSize : x + y <= HeapSize => Wrap(Wrap(b + x) + y) = Wrap(b + x + y)
<1>1. HeapSize \in Nat \ {0}
  BY HeapAssumption
<1>2. \A x \in 0 .. HeapSize - 1 : Wrap(b + x) \in Cells
  BY <1>1 DEF Wrap, Cells
<1>3. ASSUME NEW c \in Cells
      PROVE  \E x \in 0 .. HeapSize - 1 : c = Wrap(b + x)
  <2>1. CASE b <= c
    <3>1. c - b \in 0 .. HeapSize - 1 /\ c = Wrap(b + (c - b))
      BY <1>1, <2>1 DEF Wrap, Cells
    <3> QED
      BY <3>1
  <2>2. CASE ~ (b <= c)
    <3>1. c - b + HeapSize \in 0 .. HeapSize - 1 /\ c = Wrap(b + (c - b + HeapSize))
      BY <1>1, <2>2 DEF Wrap, Cells
    <3> QED
      BY <3>1
  <2> QED
    BY <2>1, <2>2
<1>4. \A x, y \in 0 .. HeapSize - 1 : Wrap(b + x) = Wrap(b + y) => x = y
  BY <1>1 DEF Wrap, Cells
<1>5. \A x, y \in 0 .. HeapSize : x + y <= HeapSize => Wrap(Wrap(b + x) + y) = Wrap(b + x + y)
  BY <1>1 DEF Wrap, Cells
<1> QED
  BY <1>2, <1>3, <1>4, <1>5

(* The len cells from place q on, where a place is the distance from b. *)
LEMMA SpanFacts ==
  ASSUME NEW b \in Cells, NEW q \in 0 .. HeapSize, NEW len \in 1 .. HeapSize,
         q + len <= HeapSize, NEW x \in 0 .. HeapSize - 1
  PROVE  LET at == Wrap(b + q)
             c  == Wrap(b + x)
         IN  /\ (c >= at /\ c < at + len) \/ c < at + len - HeapSize <=> x >= q /\ x < q + len
             /\ c >= at /\ c < at + len => c - at = x - q
             /\ c < at => (c < len - (HeapSize - at) => HeapSize - at + c = x - q)
<1>1. HeapSize \in Nat \ {0}
  BY HeapAssumption
<1> QED
  BY <1>1 DEF Wrap, Cells

(***************************************************************************)
(* One text                                                                *)
(***************************************************************************)

(* The text, and the zero behind it, start at cell at. *)
Stands(data, at, text) ==
  /\ \A k \in 1 .. Len(text) : data[Wrap(at + k - 1)] = text[k]
  /\ data[Wrap(at + Len(text))] = NUL

LEMMA StrNLenIs ==
  ASSUME NEW data, NEW from \in Int, NEW max \in Nat, NEW k \in 0 .. max,
         k = max \/ data[from + k] = NUL, \A j \in 0 .. k - 1 : data[from + j] # NUL
  PROVE  StrNLen(data, from, max) = k
<1> DEFINE Ends(n) == /\ n = max \/ data[from + n] = NUL
                      /\ \A j \in 0 .. n - 1 : data[from + j] # NUL
<1>1. ASSUME NEW n \in 0 .. max, Ends(n)
      PROVE  n = k
  <2>1. ~ (n < k)
    <3> SUFFICES ASSUME n < k
                 PROVE  FALSE
      OBVIOUS
    <3>1. n \in 0 .. k - 1 /\ n # max
      OBVIOUS
    <3> QED
      BY <1>1, <3>1
  <2>2. ~ (k < n)
    <3> SUFFICES ASSUME k < n
                 PROVE  FALSE
      OBVIOUS
    <3>1. k \in 0 .. n - 1 /\ k # max
      OBVIOUS
    <3> QED
      BY <1>1, <3>1
  <2> QED
    BY <2>1, <2>2
<1>2. Ends(k)
  OBVIOUS
<1> HIDE DEF Ends
<1>3. (CHOOSE n \in 0 .. max : Ends(n)) = k
  BY <1>1, <1>2
<1> QED
  BY <1>3 DEF StrNLen, Ends

(* How scpiheap_get_parts finds a text: up to the zero or the last cell,   *)
(* and then from cell 0 on.                                                *)
LEMMA PartsOf ==
  ASSUME NEW h \in Heaps, NEW at \in Cells, NEW text \in Texts,
         Len(text) + 1 <= HeapSize, Stands(h.data, at, text)
  PROVE  /\ h.data[at] # NUL
         /\ IF at + Len(text) < HeapSize
            THEN Len1(h, at) = Len(text) /\ ~ IsSplit(h, at) /\ Len2(h, at) = 0
            ELSE /\ Len1(h, at) = HeapSize - at /\ IsSplit(h, at)
                 /\ Len2(h, at) = Len(text) - (HeapSize - at)
<1> DEFINE d == h.data
           len == Len(text)
           rem == HeapSize - at
<1>1. HeapSize \in Nat \ {0} /\ len \in Nat \ {0} /\ at \in 0 .. HeapSize - 1 /\ rem \in 1 .. HeapSize
  BY TextFacts, HeapAssumption DEF Cells
<1>2. \A k \in 1 .. len : d[Wrap(at + k - 1)] = text[k] /\ text[k] # NUL
  BY TextFacts DEF Stands
<1>3. d[Wrap(at + len)] = NUL
  BY DEF Stands
<1>4. d[at] # NUL
  <2>1. 1 \in 1 .. len /\ at + 1 - 1 = at /\ Wrap(at) = at
    BY <1>1 DEF Wrap
  <2> QED
    BY <1>2, <2>1
<1>5. ASSUME NEW j \in 0 .. len - 1
      PROVE  d[Wrap(at + j)] # NUL
  <2>1. j + 1 \in 1 .. len /\ at + (j + 1) - 1 = at + j
    BY <1>1
  <2> QED
    BY <1>2, <2>1
<1>6. ASSUME at + len < HeapSize
      PROVE  Len1(h, at) = len /\ ~ IsSplit(h, at) /\ Len2(h, at) = 0
  <2>1. len \in 0 .. rem /\ rem \in Nat /\ Wrap(at + len) = at + len
    BY <1>1, <1>6 DEF Wrap
  <2>2. \A j \in 0 .. len - 1 : d[at + j] # NUL
    <3> SUFFICES ASSUME NEW j \in 0 .. len - 1
                 PROVE  d[at + j] # NUL
      OBVIOUS
    <3>1. Wrap(at + j) = at + j
      BY <1>1, <1>6 DEF Wrap
    <3> QED
      BY <1>5, <3>1
  <2>3. StrNLen(d, at, rem) = len
    <3>1. at \in Int /\ rem \in Nat /\ len \in 0 .. rem /\ (len = rem \/ d[at + len] = NUL)
      BY <1>1, <1>3, <2>1
    <3> HIDE DEF d, len, rem
    <3> QED
      BY <2>2, <3>1, StrNLenIs
  <2>4. Len1(h, at) = len
    BY <2>3 DEF Len1
  <2> QED
    BY <1>1, <1>6, <2>4 DEF IsSplit, Len2
<1>7. ASSUME ~ (at + len < HeapSize)
      PROVE  Len1(h, at) = rem /\ IsSplit(h, at) /\ Len2(h, at) = len - rem
  <2>1. rem \in 0 .. rem /\ rem \in Nat /\ len - rem \in 0 .. HeapSize /\ HeapSize \in Nat
    BY <1>1, <1>7
  <2>2. \A j \in 0 .. rem - 1 : d[at + j] # NUL
    <3> SUFFICES ASSUME NEW j \in 0 .. rem - 1
                 PROVE  d[at + j] # NUL
      OBVIOUS
    <3>1. Wrap(at + j) = at + j /\ j \in 0 .. len - 1
      BY <1>1, <1>7 DEF Wrap
    <3> QED
      BY <1>5, <3>1
  <2>3. StrNLen(d, at, rem) = rem
    <3>1. at \in Int /\ rem \in Nat /\ rem \in 0 .. rem /\ (rem = rem \/ d[at + rem] = NUL)
      BY <1>1, <2>1
    <3> HIDE DEF d, len, rem
    <3> QED
      BY <2>2, <3>1, StrNLenIs
  <2>4. Len1(h, at) = rem
    BY <2>3 DEF Len1
  <2>5. IsSplit(h, at)
    BY <1>1, <2>4 DEF IsSplit
  <2>6. \A j \in 0 .. (len - rem) - 1 : d[0 + j] # NUL
    <3> SUFFICES ASSUME NEW j \in 0 .. (len - rem) - 1
                 PROVE  d[0 + j] # NUL
      OBVIOUS
    <3>1. rem + j \in 0 .. len - 1 /\ Wrap(at + (rem + j)) = 0 + j
      BY <1>1, <1>7, <2>1 DEF Wrap
    <3> QED
      BY <1>5, <3>1
  <2>7. Wrap(at + len) = 0 + (len - rem)
    BY <1>1, <1>7 DEF Wrap
  <2>8. StrNLen(d, 0, HeapSize) = len - rem
    BY <1>3, <2>1, <2>6, <2>7, StrNLenIs
  <2> QED
    BY <2>4, <2>5, <2>8 DEF Len2
<1> QED
  BY <1>4, <1>6, <1>7

(* SCPI_ResultError prints the text as it was given. *)
LEMMA ReadsBack ==
  ASSUME NEW h \in Heaps, NEW at \in Cells, NEW text \in Texts,
         Len(text) + 1 <= HeapSize, Stands(h.data, at, text)
  PROVE  TextAt(h, at) = text
<1> DEFINE d == h.data
           one == [i \in 1 .. Len1(h, at) |-> d[at + i - 1]]
           two == [i \in 1 .. Len2(h, at) |-> d[i - 1]]
           len == Len(text)
           C == Characters \cup {NUL}
<1>1. /\ HeapSize \in Nat \ {0} /\ len \in Nat \ {0} /\ at \in 0 .. HeapSize - 1
      /\ len + 1 <= HeapSize /\ d \in [0 .. HeapSize - 1 -> C] /\ text \in Seq(C)
  BY TextFacts, HeapAssumption DEF Cells, Heaps
<1>2. \A k \in 1 .. len : d[Wrap(at + k - 1)] = text[k]
  BY DEF Stands
<1>3. /\ Len1(h, at) \in 0 .. HeapSize - at /\ Len2(h, at) \in 0 .. at
      /\ Len1(h, at) + Len2(h, at) = len
      /\ Len2(h, at) # 0 => Len1(h, at) = HeapSize - at
  <2>1. IF at + Len(text) < HeapSize
        THEN Len1(h, at) = Len(text) /\ ~ IsSplit(h, at) /\ Len2(h, at) = 0
        ELSE /\ Len1(h, at) = HeapSize - at /\ IsSplit(h, at)
             /\ Len2(h, at) = Len(text) - (HeapSize - at)
    BY PartsOf
  <2> QED
    BY <1>1, <2>1
<1> DEFINE m == Len1(h, at)
           n == Len2(h, at)
<1> HIDE DEF m, n
<1>4. /\ m \in 0 .. HeapSize - at /\ n \in 0 .. at /\ m + n = len
      /\ n # 0 => m = HeapSize - at
  BY <1>3 DEF m, n
<1>5. one = [i \in 1 .. m |-> d[at + i - 1]] /\ two = [i \in 1 .. n |-> d[i - 1]]
  BY DEF m, n
<1> HIDE DEF one, two
<1>6. one \in Seq(C) /\ Len(one) = m
  <2>1. one \in [1 .. m -> C] /\ m \in Nat
    <3>1. ASSUME NEW i \in 1 .. m
          PROVE  d[at + i - 1] \in C
      <4>1. at + i - 1 \in 0 .. HeapSize - 1
        BY <1>1, <1>4
      <4> QED
        BY <1>1, <4>1
    <3>2. m \in Nat
      BY <1>1, <1>4
    <3> HIDE DEF d, C
    <3> QED
      BY <1>5, <3>1, <3>2
  <2> QED
    BY <2>1
<1>7. two \in Seq(C) /\ Len(two) = n
  <2>1. two \in [1 .. n -> C] /\ n \in Nat
    <3>1. \A i \in 1 .. n : d[i - 1] \in C
      BY <1>1, <1>4
    <3> QED
      BY <1>1, <1>4, <1>5, <3>1
  <2> QED
    BY <2>1
<1>8. /\ one \o two \in Seq(C) /\ Len(one \o two) = Len(one) + Len(two)
      /\ \A i \in 1 .. Len(one) + Len(two) :
           (one \o two)[i] = IF i <= Len(one) THEN one[i] ELSE two[i - Len(one)]
  BY <1>6, <1>7, ConcatProperties
<1>9. ASSUME NEW i \in 1 .. len
      PROVE  (one \o two)[i] = text[i]
  <2>1. CASE i <= m
    <3>1. (one \o two)[i] = d[at + i - 1]
      BY <1>4, <1>5, <1>6, <1>7, <1>8, <2>1
    <3>2. Wrap(at + i - 1) = at + i - 1
      BY <1>1, <1>4, <2>1 DEF Wrap
    <3> QED
      BY <1>2, <3>1, <3>2
  <2>2. CASE ~ (i <= m)
    <3>1. i - m \in 1 .. n /\ n # 0
      BY <1>1, <1>4, <2>2
    <3>2. (one \o two)[i] = d[(i - m) - 1]
      BY <1>4, <1>5, <1>6, <1>7, <1>8, <2>2, <3>1
    <3>3. Wrap(at + i - 1) = (i - m) - 1
      BY <1>1, <1>4, <2>2, <3>1 DEF Wrap
    <3> QED
      BY <1>2, <3>2, <3>3
  <2> QED
    BY <2>1, <2>2
<1>10. one \o two = text
  BY <1>1, <1>4, <1>6, <1>7, <1>8, <1>9, SeqEqual
<1> QED
  BY <1>10 DEF TextAt, one, two

(* scpiheap_free finds the cells of the text and its zero, and no other.   *)
LEMMA FreesIt ==
  ASSUME NEW h \in Heaps, NEW at \in Cells, NEW text \in Texts,
         Len(text) + 1 <= HeapSize, Stands(h.data, at, text)
  PROVE  /\ Freed(h, at) = Len(text) + 1
         /\ Wiped(h, at) \in [Cells -> Characters \cup {NUL}]
         /\ \A c \in Cells :
              Wiped(h, at)[c] =
                IF (c >= at /\ c < at + (Len(text) + 1)) \/ c < at + (Len(text) + 1) - HeapSize
                THEN NUL ELSE h.data[c]
<1>1. /\ HeapSize \in Nat \ {0} /\ Len(text) \in Nat \ {0} /\ at \in 0 .. HeapSize - 1
      /\ h.data \in [Cells -> Characters \cup {NUL}]
  BY TextFacts, HeapAssumption DEF Cells, Heaps
<1>2. IF at + Len(text) < HeapSize
      THEN Len1(h, at) = Len(text) /\ ~ IsSplit(h, at) /\ Len2(h, at) = 0
      ELSE /\ Len1(h, at) = HeapSize - at /\ IsSplit(h, at)
           /\ Len2(h, at) = Len(text) - (HeapSize - at)
  BY PartsOf
<1>3. Freed(h, at) = Len(text) + 1
  BY <1>1, <1>2 DEF Freed
<1>4. ASSUME NEW c \in Cells
      PROVE  Wiped(h, at)[c] =
               IF (c >= at /\ c < at + (Len(text) + 1)) \/ c < at + (Len(text) + 1) - HeapSize
               THEN NUL ELSE h.data[c]
  <2>1. c \in 0 .. HeapSize - 1
    BY DEF Cells
  <2>2. CASE at + Len(text) < HeapSize
    BY <1>1, <1>2, <2>1, <2>2 DEF Wiped
  <2>3. CASE ~ (at + Len(text) < HeapSize)
    BY <1>1, <1>2, <2>1, <2>3 DEF Wiped
  <2> QED
    BY <2>2, <2>3
<1>5. Wiped(h, at) \in [Cells -> Characters \cup {NUL}]
  BY <1>1 DEF Wiped
<1> QED
  BY <1>3, <1>4, <1>5

(***************************************************************************)
(* The texts in the heap                                                   *)
(***************************************************************************)

(* Entry i of s takes the room between the places p[i - 1] and p[i].       *)
Places(s, p) ==
  /\ p \in [0 .. Len(s) -> 0 .. HeapSize] /\ p[0] = 0
  /\ \A i \in 1 .. Len(s) : p[i] = p[i - 1] + Room(s[i])
  /\ \A i, j \in 0 .. Len(s) : i <= j => p[i] <= p[j]

(* The texts of s lie one behind the other from cell b on, and everything  *)
(* behind them is free.                                                    *)
Layout(h, s, b, p) ==
  /\ b \in Cells /\ Places(s, p)
  /\ h.count = HeapSize - p[Len(s)] /\ h.wr = Wrap(b + p[Len(s)])
  /\ p[Len(s)] = 0 => b = 0
  /\ \A i \in 1 .. Len(s) :
       s[i].at # NULL => s[i].at = Wrap(b + p[i - 1]) /\ Stands(h.data, s[i].at, s[i].text)
  /\ \A x \in p[Len(s)] .. HeapSize - 1 : h.data[Wrap(b + x)] = NUL

Sound(h, s) == h \in Heaps /\ s \in Seq(Entries) /\ \E b, p : Layout(h, s, b, p)

LEMMA EntryFacts ==
  ASSUME NEW e \in Entries
  PROVE  /\ Room(e) \in Nat
         /\ e.at = NULL => Room(e) = 0
         /\ e.at # NULL => /\ e.text \in Texts /\ e.at \in Cells
                           /\ Room(e) = Len(e.text) + 1 /\ Room(e) > 1
<1>1. e.at = NULL \/ (e.at \in Cells /\ e.text \in Texts)
  BY DEF Entries
<1> QED
  BY <1>1, TextFacts DEF Room

LEMMA StandsKept ==
  ASSUME NEW b \in Cells, NEW q \in 0 .. HeapSize, NEW text \in Texts,
         q + Len(text) + 1 <= HeapSize, NEW d, NEW e, Stands(d, Wrap(b + q), text),
         \A x \in q .. q + Len(text) : e[Wrap(b + x)] = d[Wrap(b + x)]
  PROVE  Stands(e, Wrap(b + q), text)
<1> DEFINE at == Wrap(b + q)
           len == Len(text)
<1>1. HeapSize \in Nat \ {0} /\ len \in Nat \ {0} /\ b \in 0 .. HeapSize - 1
  BY TextFacts, HeapAssumption DEF Cells
<1>2. ASSUME NEW j \in 0 .. len
      PROVE  e[Wrap(at + j)] = d[Wrap(at + j)]
  <2>1. q \in 0 .. HeapSize /\ j \in 0 .. HeapSize /\ q + j <= HeapSize /\ q + j \in q .. q + len
    BY <1>1
  <2>2. Wrap(at + j) = Wrap(b + q + j)
    BY <2>1, RingFacts
  <2>3. b + q + j = b + (q + j)
    BY <1>1
  <2> QED
    BY <2>1, <2>2, <2>3
<1>3. ASSUME NEW k \in 1 .. len
      PROVE  e[Wrap(at + k - 1)] = d[Wrap(at + k - 1)]
  <2>1. k - 1 \in 0 .. len /\ at + k - 1 = at + (k - 1)
    BY <1>1 DEF Wrap
  <2> QED
    BY <1>2, <2>1
<1>4. len \in 0 .. len
  BY <1>1
<1> QED
  BY <1>2, <1>3, <1>4 DEF Stands

(* A heap without a text. *)
LEMMA Emptied ==
  ASSUME NEW h \in Heaps, NEW s \in Seq(Entries),
         \A i \in 1 .. Len(s) : s[i].at = NULL,
         \A c \in Cells : h.data[c] = NUL, h.wr = 0, h.count = HeapSize
  PROVE  Sound(h, s)
<1> DEFINE p == [i \in 0 .. Len(s) |-> 0]
<1>1. HeapSize \in Nat \ {0} /\ Len(s) \in Nat /\ 0 \in Cells
  BY LenProperties, HeapAssumption DEF Cells
<1>2. \A i \in 1 .. Len(s) : Room(s[i]) = 0
  BY EntryFacts, ElementOfSeq
<1>3. p \in [0 .. Len(s) -> 0 .. HeapSize] /\ \A i \in 0 .. Len(s) : p[i] = 0
  BY <1>1
<1> HIDE DEF p
<1>4. \A x \in 0 .. HeapSize - 1 : Wrap(0 + x) \in Cells
  BY <1>1, RingFacts
<1>5. 0 \in 0 .. Len(s) /\ Len(s) \in 0 .. Len(s) /\ \A i \in 1 .. Len(s) : i - 1 \in 0 .. Len(s) /\ i \in 0 .. Len(s)
  BY <1>1
<1>6. Wrap(0 + 0) = 0
  BY <1>1 DEF Wrap
<1>7. Places(s, p)
  <2>1. \A i \in 1 .. Len(s) : p[i] = p[i - 1] + Room(s[i])
    BY <1>2, <1>3, <1>5
  <2>2. \A i, j \in 0 .. Len(s) : p[i] <= p[j]
    BY <1>3
  <2> QED
    BY <1>3, <1>5, <2>1, <2>2 DEF Places
<1>8. p[Len(s)] = 0
  BY <1>3, <1>5
<1>9. \A x \in 0 .. HeapSize - 1 : h.data[Wrap(0 + x)] = NUL
  BY <1>4
<1>10. h.count = HeapSize - 0
  BY <1>1
<1>11. Layout(h, s, 0, p)
  BY <1>1, <1>6, <1>7, <1>8, <1>9, <1>10 DEF Layout
<1> QED
  BY <1>11 DEF Sound

(* The list t is s with the entry e behind it. *)
Longer(s, t, e) ==
  Len(t) = Len(s) + 1 /\ t[Len(s) + 1] = e /\ \A i \in 1 .. Len(s) : t[i] = s[i]

LEMMA LongerPlaces ==
  ASSUME NEW s \in Seq(Entries), NEW t \in Seq(Entries), NEW e \in Entries,
         Longer(s, t, e), NEW p, Places(s, p), p[Len(s)] + Room(e) <= HeapSize
  PROVE  \E r : /\ Places(t, r) /\ r[Len(t)] = p[Len(s)] + Room(e)
                /\ \A i \in 0 .. Len(s) : r[i] = p[i]
<1> DEFINE n == Len(s)
<1>1. n \in Nat /\ Len(t) = n + 1 /\ t[n + 1] = e /\ \A i \in 1 .. n : t[i] = s[i]
  BY LenProperties DEF Longer
<1>2. /\ p \in [0 .. n -> 0 .. HeapSize] /\ p[0] = 0
      /\ \A i \in 1 .. n : p[i] = p[i - 1] + Room(s[i])
      /\ \A i, j \in 0 .. n : i <= j => p[i] <= p[j]
      /\ p[n] + Room(e) <= HeapSize
  BY DEF Places
<1> HIDE DEF n
<1> DEFINE q == p[n] + Room(e)
           r == [i \in 0 .. n + 1 |-> IF i <= n THEN p[i] ELSE q]
<1>3. HeapSize \in Nat \ {0} /\ Room(e) \in Nat /\ p[n] \in 0 .. HeapSize /\ q \in 0 .. HeapSize
      /\ p[n] <= q /\ n \in 0 .. n
  BY <1>1, <1>2, EntryFacts, HeapAssumption
<1>4. r \in [0 .. n + 1 -> 0 .. HeapSize] /\ r[n + 1] = q /\ \A i \in 0 .. n : r[i] = p[i]
  BY <1>1, <1>2, <1>3
<1>5. q = p[n] + Room(e)
  OBVIOUS
<1> HIDE DEF r, q
<1>6. r[0] = 0
  BY <1>1, <1>2, <1>4
<1>7. ASSUME NEW i \in 1 .. n + 1
      PROVE  r[i] = r[i - 1] + Room(t[i])
  <2>1. CASE i = n + 1
    BY <1>1, <1>3, <1>4, <1>5, <2>1
  <2>2. CASE i # n + 1
    <3>1. i \in 1 .. n /\ i \in 0 .. n /\ i - 1 \in 0 .. n
      BY <1>1, <2>2
    <3> QED
      BY <1>1, <1>2, <1>4, <3>1
  <2> QED
    BY <2>1, <2>2
<1>8. ASSUME NEW i \in 0 .. n + 1, NEW j \in 0 .. n + 1, i <= j
      PROVE  r[i] <= r[j]
  <2>1. CASE j = n + 1
    <3>1. CASE i = n + 1
      BY <1>3, <1>4, <2>1, <3>1
    <3>2. CASE i # n + 1
      <4>1. i \in 0 .. n /\ i <= n
        BY <1>1, <3>2
      <4>2. r[i] = p[i] /\ p[i] <= p[n] /\ p[i] \in 0 .. HeapSize
        BY <1>2, <1>3, <1>4, <4>1
      <4> QED
        BY <1>3, <1>4, <2>1, <4>2
    <3> QED
      BY <3>1, <3>2
  <2>2. CASE j # n + 1
    <3>1. i \in 0 .. n /\ j \in 0 .. n
      BY <1>1, <1>8, <2>2
    <3> QED
      BY <1>2, <1>4, <1>8, <3>1
  <2> QED
    BY <2>1, <2>2
<1>9. Places(t, r)
  <2>1. \A i \in 1 .. n + 1 : r[i] = r[i - 1] + Room(t[i])
    BY <1>7
  <2>2. \A i, j \in 0 .. n + 1 : i <= j => r[i] <= r[j]
    BY <1>8
  <2> QED
    BY <1>1, <1>4, <1>6, <2>1, <2>2 DEF Places
<1> QED
  BY <1>1, <1>4, <1>5, <1>9 DEF n

(* An error without a text changes nothing. *)
LEMMA AddsNothing ==
  ASSUME NEW h, NEW s, Sound(h, s), NEW t \in Seq(Entries),
         NEW e \in Entries, e.at = NULL, Longer(s, t, e)
  PROVE  Sound(h, t)
<1> DEFINE n == Len(s)
<1>1. PICK b, p : Layout(h, s, b, p)
  BY DEF Sound
<1>2. /\ n \in Nat /\ s \in Seq(Entries) /\ Len(t) = n + 1 /\ t[n + 1] = e /\ Room(e) = 0
      /\ \A i \in 1 .. n : t[i] = s[i]
  BY LenProperties DEF Sound, Longer, Room
<1>3. HeapSize \in Nat \ {0} /\ p[n] \in 0 .. HeapSize
  BY <1>1, <1>2, HeapAssumption DEF Layout, Places
<1>4. PICK r : Places(t, r) /\ r[Len(t)] = p[n] + 0 /\ \A i \in 0 .. n : r[i] = p[i]
  <2>1. Places(s, p) /\ p[n] + Room(e) <= HeapSize
    BY <1>1, <1>2, <1>3 DEF Layout
  <2> QED
    BY <1>2, <2>1, LongerPlaces
<1>5. /\ b \in Cells /\ h.count = HeapSize - p[n] /\ h.wr = Wrap(b + p[n])
      /\ p[n] = 0 => b = 0
      /\ \A i \in 1 .. n :
           s[i].at # NULL => s[i].at = Wrap(b + p[i - 1]) /\ Stands(h.data, s[i].at, s[i].text)
      /\ \A x \in p[n] .. HeapSize - 1 : h.data[Wrap(b + x)] = NUL
  BY <1>1 DEF Layout
<1> HIDE DEF n
<1>6. ASSUME NEW i \in 1 .. n + 1, t[i].at # NULL
      PROVE  t[i].at = Wrap(b + r[i - 1]) /\ Stands(h.data, t[i].at, t[i].text)
  <2>1. i \in 1 .. n /\ i - 1 \in 0 .. n
    BY <1>2, <1>6
  <2> QED
    BY <1>2, <1>4, <1>5, <1>6, <2>1
<1>7. r[Len(t)] = p[n]
  BY <1>3, <1>4
<1>8. Layout(h, t, b, r)
  BY <1>2, <1>4, <1>5, <1>6, <1>7 DEF Layout
<1> QED
  BY <1>8 DEF Sound

(* What scpiheap_strndup writes, by places. *)
LEMMA Writes ==
  ASSUME NEW h \in Heaps, NEW text \in Texts, NEW b \in Cells,
         NEW q \in 0 .. HeapSize, q + Len(text) + 1 <= HeapSize,
         h.wr = Wrap(b + q), h.count = HeapSize - q
  PROVE  LET g == StrNDup(h, text)
         IN  /\ g \in Heaps /\ g.wr = Wrap(b + (q + (Len(text) + 1)))
             /\ g.count = HeapSize - (q + (Len(text) + 1))
             /\ Stands(g.data, h.wr, text)
             /\ \A x \in 0 .. HeapSize - 1 :
                  x < q \/ x >= q + (Len(text) + 1) =>
                    g.data[Wrap(b + x)] = h.data[Wrap(b + x)]
<1> DEFINE g == StrNDup(h, text)
           src == Terminated(text)
           len == Len(src)
           at == h.wr
           rem == HeapSize - at
           C == Characters \cup {NUL}
<1>1. /\ HeapSize \in Nat \ {0} /\ Len(text) \in Nat \ {0} /\ b \in 0 .. HeapSize - 1
      /\ at \in Cells /\ at \in 0 .. HeapSize - 1 /\ h.data \in [Cells -> C]
      /\ h.count \in 0 .. HeapSize
  BY TextFacts, HeapAssumption DEF Cells, Heaps
<1>2. /\ len = Len(text) + 1 /\ src[len] = NUL
      /\ \A k \in 1 .. Len(text) : src[k] = text[k]
      /\ \A k \in 1 .. len : src[k] \in C
  <2>1. text \in Seq(C) /\ NUL \in C
    BY TextFacts
  <2>2. /\ src \in Seq(C) /\ len = Len(text) + 1 /\ src[len] = NUL
        /\ \A k \in 1 .. Len(text) : src[k] = text[k]
    BY <2>1 DEF Terminated
  <2> QED
    BY <2>2, ElementOfSeq
<1>3. /\ g.data = [i \in Cells |->
                     IF i >= at /\ i < at + len THEN src[i - at + 1]
                     ELSE IF len >= rem /\ i < len - rem THEN src[rem + i + 1]
                     ELSE h.data[i]]
      /\ g.wr = IF len >= rem THEN len - rem ELSE at + len
      /\ g.count = h.count - len
      /\ g = [data |-> g.data, wr |-> g.wr, count |-> g.count]
  BY DEF StrNDup
<1> HIDE DEF g, src
<1>4. len \in 2 .. HeapSize /\ rem \in 1 .. HeapSize /\ q + len <= HeapSize
  BY <1>1, <1>2
<1> DEFINE m == len
<1>5. /\ m = Len(text) + 1 /\ m = len /\ m \in 2 .. HeapSize /\ q + m <= HeapSize
      /\ rem = HeapSize - at /\ at = Wrap(b + q) /\ at = h.wr /\ h.count = HeapSize - q
  BY <1>2, <1>4
<1> HIDE DEF m, rem, at, len
<1>ints. /\ HeapSize \in Nat \ {0} /\ m \in 2 .. HeapSize /\ q + m <= HeapSize
         /\ b \in 0 .. HeapSize - 1 /\ at \in 0 .. HeapSize - 1 /\ rem = HeapSize - at
  BY <1>1, <1>5
<1>6. ASSUME NEW x \in 0 .. HeapSize - 1
      PROVE  g.data[Wrap(b + x)] = IF x >= q /\ x < q + m THEN src[x - q + 1] ELSE h.data[Wrap(b + x)]
  <2> DEFINE c == Wrap(b + x)
  <2>1. c \in Cells /\ c \in 0 .. HeapSize - 1
    BY RingFacts DEF Cells
  <2>2. m \in 1 .. HeapSize /\ q + m <= HeapSize
    BY <1>ints
  <2>3. /\ (c >= at /\ c < at + m) \/ c < at + m - HeapSize <=> x >= q /\ x < q + m
        /\ c >= at /\ c < at + m => c - at = x - q
        /\ c < at => (c < m - (HeapSize - at) => HeapSize - at + c = x - q)
    BY <1>5, <2>2, SpanFacts
  <2>4. g.data[c] = IF c >= at /\ c < at + m THEN src[c - at + 1]
                    ELSE IF m >= rem /\ c < m - rem THEN src[rem + c + 1]
                    ELSE h.data[c]
    BY <1>3, <1>5, <2>1
  <2> HIDE DEF c
  <2>5. CASE c >= at /\ c < at + m
    <3>1. g.data[c] = src[c - at + 1] /\ c - at = x - q /\ x >= q /\ x < q + m
      BY <2>3, <2>4, <2>5
    <3> QED
      BY <3>1 DEF c
  <2>6. CASE ~ (c >= at /\ c < at + m) /\ c < m - rem
    <3>1. m >= rem /\ c < at /\ c < at + m - HeapSize /\ c < m - (HeapSize - at)
      <4>1. /\ c \in Int /\ c >= 0 /\ at \in Int /\ m \in Int /\ m <= HeapSize /\ HeapSize \in Int
            /\ rem = HeapSize - at
        BY <1>ints, <2>1, <2>2
      <4>2. c < m - (HeapSize - at)
        BY <2>6, <4>1
      <4>3. c < at + m - HeapSize /\ c < at /\ m >= rem
        BY <4>1, <4>2
      <4> QED
        BY <4>2, <4>3
    <3>2. g.data[c] = src[rem + c + 1] /\ rem + c = x - q /\ x >= q /\ x < q + m
      BY <1>1, <1>5, <2>1, <2>3, <2>4, <2>6, <3>1
    <3> QED
      BY <3>2 DEF c
  <2>7. CASE ~ (c >= at /\ c < at + m) /\ ~ (c < m - rem)
    <3>1. ~ (c < at + m - HeapSize)
      <4>1. c \in Int /\ at \in Int /\ m \in Int /\ HeapSize \in Int /\ rem = HeapSize - at
        BY <1>ints, <2>1, <2>2
      <4> QED
        BY <2>7, <4>1
    <3>2. g.data[c] = h.data[c] /\ ~ (x >= q /\ x < q + m)
      BY <1>5, <2>3, <2>4, <2>7, <3>1
    <3> QED
      BY <3>2 DEF c
  <2> QED
    BY <2>5, <2>6, <2>7
<1>7. g.wr = Wrap(b + (q + m)) /\ g.wr \in Cells
  <2>1. g.wr = IF m >= rem THEN m - rem ELSE at + m
    BY <1>3, <1>5
  <2>2. m \in 2 .. HeapSize /\ at \in 0 .. HeapSize - 1 /\ HeapSize \in Nat \ {0} /\ rem = HeapSize - at
    BY <1>1, <1>5
  <2>3. g.wr = Wrap(at + m) /\ g.wr \in Cells
    BY <2>1, <2>2 DEF Wrap, Cells
  <2>4. q \in 0 .. HeapSize /\ m \in 0 .. HeapSize /\ q + m <= HeapSize /\ b + q + m = b + (q + m)
    <3>1. m \in 0 .. HeapSize /\ q + m <= HeapSize
      BY <1>5, <2>2
    <3>2. b \in Int /\ q \in Int /\ m \in Int
      BY <1>ints
    <3> QED
      BY <3>1, <3>2
  <2>5. Wrap(Wrap(b + q) + m) = Wrap(b + q + m)
    BY <2>4, RingFacts
  <2> QED
    BY <1>5, <2>3, <2>4, <2>5
<1>8. g.count = HeapSize - (q + m) /\ g.count \in 0 .. HeapSize
  <2>1. g.count = HeapSize - q - m
    BY <1>3, <1>5
  <2> QED
    BY <1>1, <1>5, <2>1
<1>9. g.data \in [Cells -> C]
  <2>1. ASSUME NEW c \in Cells
        PROVE  g.data[c] \in C
    <3>1. PICK x \in 0 .. HeapSize - 1 : c = Wrap(b + x)
      BY RingFacts
    <3>2. CASE x >= q /\ x < q + m
      <4>1. x - q + 1 \in 1 .. m
        BY <1>ints, <3>2
      <4> QED
        BY <1>2, <1>5, <1>6, <3>1, <3>2, <4>1
    <3>3. CASE ~ (x >= q /\ x < q + m)
      BY <1>1, <1>6, <3>1, <3>3
    <3> QED
      BY <3>2, <3>3
  <2>2. DOMAIN g.data = Cells /\ g.data = [c \in Cells |-> g.data[c]]
    BY <1>3
  <2> HIDE DEF C
  <2> QED
    BY <2>1, <2>2
<1>10. g \in Heaps
  BY <1>3, <1>7, <1>8, <1>9 DEF Heaps
<1>11. ASSUME NEW j \in 0 .. m - 1
       PROVE  g.data[Wrap(at + j)] = src[j + 1]
  <2>1. q \in 0 .. HeapSize /\ j \in 0 .. HeapSize /\ q + j <= HeapSize /\ q + j \in 0 .. HeapSize - 1
    BY <1>ints
  <2>2. Wrap(Wrap(b + q) + j) = Wrap(b + q + j)
    BY <2>1, RingFacts
  <2>3. b + q + j = b + (q + j) /\ q + j >= q /\ q + j < q + m /\ (q + j) - q + 1 = j + 1
    BY <1>ints
  <2> QED
    BY <1>5, <1>6, <2>1, <2>2, <2>3
<1>12. Stands(g.data, at, text)
  <2>1. ASSUME NEW k \in 1 .. Len(text)
        PROVE  g.data[Wrap(at + k - 1)] = text[k]
    <3>1. k - 1 \in 0 .. m - 1 /\ at + k - 1 = at + (k - 1) /\ (k - 1) + 1 = k
      BY <1>5, <1>ints
    <3> QED
      BY <1>2, <1>11, <3>1
  <2>2. g.data[Wrap(at + Len(text))] = NUL
    <3>1. Len(text) \in 0 .. m - 1 /\ Len(text) + 1 = len
      BY <1>1, <1>2, <1>5
    <3> QED
      BY <1>2, <1>11, <3>1
  <2> QED
    BY <2>1, <2>2 DEF Stands
<1>13. \A x \in 0 .. HeapSize - 1 :
         x < q \/ x >= q + (Len(text) + 1) => g.data[Wrap(b + x)] = h.data[Wrap(b + x)]
  <2>1. ASSUME NEW x \in 0 .. HeapSize - 1, x < q \/ x >= q + m
        PROVE  g.data[Wrap(b + x)] = h.data[Wrap(b + x)]
    <3>1. ~ (x >= q /\ x < q + m)
      BY <1>ints, <2>1
    <3> QED
      BY <1>6, <3>1
  <2> QED
    BY <1>5, <2>1
<1> QED
  BY <1>5, <1>7, <1>8, <1>10, <1>12, <1>13 DEF g

(* A text that is accepted lies behind those before it. *)
LEMMA Stores ==
  ASSUME NEW h, NEW s, Sound(h, s), NEW text \in Texts, ~ Refuses(h, text),
         NEW t \in Seq(Entries), Longer(s, t, Entry(h.wr, text))
  PROVE  Sound(StrNDup(h, text), t)
<1> DEFINE n == Len(s)
           e == Entry(h.wr, text)
           g == StrNDup(h, text)
<1>1. PICK b, p : Layout(h, s, b, p)
  BY DEF Sound
<1>2. /\ n \in Nat /\ s \in Seq(Entries) /\ Len(t) = n + 1 /\ t[n + 1] = e
      /\ \A i \in 1 .. n : t[i] = s[i]
  BY LenProperties DEF Sound, Longer
<1>3. /\ HeapSize \in Nat \ {0} /\ h \in Heaps /\ p \in [0 .. n -> 0 .. HeapSize]
      /\ b \in Cells /\ h.count = HeapSize - p[n] /\ h.wr = Wrap(b + p[n])
  BY <1>1, HeapAssumption DEF Layout, Places, Sound
<1>4. /\ e \in Entries /\ e.at = h.wr /\ e.text = text /\ e.at # NULL
      /\ Room(e) = Len(text) + 1 /\ Len(text) \in Nat \ {0}
  <2>1. h.wr \in Cells /\ h.wr # NULL /\ text # << >> /\ NULL \notin Cells
    BY <1>3, HeapAssumption DEF Heaps, Cells, NULL
  <2> QED
    BY <2>1, TextFacts DEF Entry, Entries, Room
<1>5. p[n] \in 0 .. HeapSize /\ p[n] + Len(text) + 1 <= HeapSize
  <2>1. h.count \in Int /\ Len(text) + 1 <= h.count
    BY <1>3, <1>4 DEF Refuses, Heaps
  <2> QED
    BY <1>2, <1>3, <1>4, <2>1
<1> HIDE DEF e
<1>6. PICK r : Places(t, r) /\ r[Len(t)] = p[n] + Room(e) /\ \A i \in 0 .. n : r[i] = p[i]
  <2>1. Places(s, p) /\ p[n] + Room(e) <= HeapSize /\ Longer(s, t, e)
    BY <1>1, <1>3, <1>4, <1>5 DEF Layout, e
  <2> QED
    BY <1>2, <1>4, <2>1, LongerPlaces
<1>7. /\ g \in Heaps /\ g.wr = Wrap(b + (p[n] + (Len(text) + 1)))
      /\ g.count = HeapSize - (p[n] + (Len(text) + 1))
      /\ Stands(g.data, h.wr, text)
      /\ \A x \in 0 .. HeapSize - 1 :
           x < p[n] \/ x >= p[n] + (Len(text) + 1) => g.data[Wrap(b + x)] = h.data[Wrap(b + x)]
  BY <1>3, <1>5, Writes
<1> HIDE DEF g
<1>8. /\ \A i \in 1 .. n :
           s[i].at # NULL => s[i].at = Wrap(b + p[i - 1]) /\ Stands(h.data, s[i].at, s[i].text)
      /\ \A x \in p[n] .. HeapSize - 1 : h.data[Wrap(b + x)] = NUL
      /\ \A i \in 1 .. n : p[i] = p[i - 1] + Room(s[i])
      /\ \A i, j \in 0 .. n : i <= j => p[i] <= p[j]
  BY <1>1 DEF Layout, Places
<1> HIDE DEF n
<1>9. ASSUME NEW i \in 1 .. n, s[i].at # NULL
      PROVE  s[i].at = Wrap(b + p[i - 1]) /\ Stands(g.data, s[i].at, s[i].text)
  <2>1. /\ i - 1 \in 0 .. n /\ i \in 0 .. n /\ n \in 0 .. n /\ i <= n
    BY <1>2
  <2>2. s[i] \in Entries
    BY <1>2, ElementOfSeq DEF n
  <2>3. s[i].text \in Texts /\ Room(s[i]) = Len(s[i].text) + 1 /\ Len(s[i].text) \in Nat \ {0}
    BY <1>9, <2>2, EntryFacts, TextFacts
  <2>4. /\ s[i].at = Wrap(b + p[i - 1]) /\ Stands(h.data, s[i].at, s[i].text)
        /\ p[i] = p[i - 1] + Room(s[i]) /\ p[i] <= p[n] /\ p[i - 1] \in 0 .. HeapSize
        /\ p[i] \in 0 .. HeapSize
    BY <1>3, <1>8, <1>9, <2>1
  <2>5. p[i - 1] + Len(s[i].text) + 1 <= HeapSize
    BY <1>5, <2>3, <2>4
  <2>6. \A x \in p[i - 1] .. p[i - 1] + Len(s[i].text) :
          g.data[Wrap(b + x)] = h.data[Wrap(b + x)]
    <3> SUFFICES ASSUME NEW x \in p[i - 1] .. p[i - 1] + Len(s[i].text)
                 PROVE  g.data[Wrap(b + x)] = h.data[Wrap(b + x)]
      OBVIOUS
    <3>1. x \in 0 .. HeapSize - 1 /\ x < p[n]
      <4>1. /\ x \in Int /\ x >= p[i - 1] /\ x <= p[i - 1] + Len(s[i].text)
            /\ p[i] = p[i - 1] + (Len(s[i].text) + 1)
        BY <2>3, <2>4
      <4>2. p[i] \in Int /\ p[i - 1] \in Int /\ p[i - 1] >= 0 /\ p[n] \in Int /\ p[n] < HeapSize
        BY <1>3, <1>4, <1>5, <2>4
      <4>3. Len(s[i].text) \in Int /\ p[i] <= p[n] /\ HeapSize \in Int
        BY <1>3, <2>3, <2>4
      <4>4. x >= 0 /\ x < p[n]
        BY <4>1, <4>2, <4>3
      <4> QED
        BY <4>1, <4>2, <4>3, <4>4
    <3> QED
      BY <1>7, <3>1
  <2>7. Stands(g.data, Wrap(b + p[i - 1]), s[i].text)
    <3>1. Stands(h.data, Wrap(b + p[i - 1]), s[i].text)
      BY <2>4
    <3> QED
      BY <1>3, <2>3, <2>4, <2>5, <2>6, <3>1, StandsKept
  <2> QED
    BY <2>4, <2>7
<1>10. ASSUME NEW i \in 1 .. n + 1, t[i].at # NULL
       PROVE  t[i].at = Wrap(b + r[i - 1]) /\ Stands(g.data, t[i].at, t[i].text)
  <2>1. CASE i = n + 1
    <3>1. r[i - 1] = p[n] /\ t[i] = e
      BY <1>2, <1>6, <2>1
    <3> QED
      BY <1>3, <1>4, <1>7, <3>1
  <2>2. CASE i # n + 1
    <3>1. i \in 1 .. n /\ i - 1 \in 0 .. n
      BY <1>2, <2>2
    <3>2. t[i] = s[i] /\ r[i - 1] = p[i - 1]
      BY <1>2, <1>6, <3>1
    <3> QED
      BY <1>9, <1>10, <3>1, <3>2
  <2> QED
    BY <2>1, <2>2
<1>11. r[Len(t)] = p[n] + (Len(text) + 1) /\ r[Len(t)] # 0
  BY <1>4, <1>5, <1>6
<1>12. ASSUME NEW x \in r[Len(t)] .. HeapSize - 1
       PROVE  g.data[Wrap(b + x)] = NUL
  <2>1. x \in 0 .. HeapSize - 1 /\ x >= p[n] + (Len(text) + 1) /\ x \in p[n] .. HeapSize - 1
    BY <1>3, <1>4, <1>5, <1>11
  <2> QED
    BY <1>7, <1>8, <2>1
<1>13. Layout(g, t, b, r)
  BY <1>2, <1>3, <1>6, <1>7, <1>10, <1>11, <1>12 DEF Layout
<1> QED
  BY <1>7, <1>13 DEF Sound, g

(* Where a layout puts entry i. *)
LEMMA LayoutFacts ==
  ASSUME NEW h \in Heaps, NEW s \in Seq(Entries), NEW b, NEW p,
         Layout(h, s, b, p), NEW i \in 1 .. Len(s)
  PROVE  /\ p[i - 1] \in 0 .. HeapSize /\ p[i] \in 0 .. HeapSize /\ p[Len(s)] \in 0 .. HeapSize
         /\ p[i] <= p[Len(s)] /\ p[i] = p[i - 1] + Room(s[i])
         /\ s[i].at = NULL => p[i] = p[i - 1]
         /\ s[i].at # NULL =>
              /\ s[i].text \in Texts /\ Len(s[i].text) \in Nat \ {0}
              /\ p[i] = p[i - 1] + (Len(s[i].text) + 1) /\ p[i - 1] + Len(s[i].text) + 1 <= HeapSize
              /\ s[i].at = Wrap(b + p[i - 1])
              /\ Stands(h.data, Wrap(b + p[i - 1]), s[i].text)
<1>1. Len(s) \in Nat /\ HeapSize \in Nat \ {0} /\ s[i] \in Entries
  BY LenProperties, ElementOfSeq, HeapAssumption
<1>2. i - 1 \in 0 .. Len(s) /\ i \in 0 .. Len(s) /\ Len(s) \in 0 .. Len(s) /\ i <= Len(s)
  BY <1>1
<1>3. /\ p[i - 1] \in 0 .. HeapSize /\ p[i] \in 0 .. HeapSize /\ p[Len(s)] \in 0 .. HeapSize
      /\ p[i] <= p[Len(s)] /\ p[i] = p[i - 1] + Room(s[i])
  BY <1>2 DEF Layout, Places
<1>4. s[i].at = NULL => p[i] = p[i - 1]
  BY <1>1, <1>3, EntryFacts
<1>5. ASSUME s[i].at # NULL
      PROVE  /\ s[i].text \in Texts /\ Len(s[i].text) \in Nat \ {0}
             /\ p[i] = p[i - 1] + (Len(s[i].text) + 1) /\ p[i - 1] + Len(s[i].text) + 1 <= HeapSize
             /\ s[i].at = Wrap(b + p[i - 1])
             /\ Stands(h.data, Wrap(b + p[i - 1]), s[i].text)
  <2>1. s[i].text \in Texts /\ Room(s[i]) = Len(s[i].text) + 1
    BY <1>1, <1>5, EntryFacts
  <2>2. Len(s[i].text) \in Nat \ {0}
    BY <2>1, TextFacts
  <2>3. p[i] = p[i - 1] + (Len(s[i].text) + 1) /\ p[i - 1] + Len(s[i].text) + 1 <= HeapSize
    BY <1>1, <1>3, <2>1, <2>2
  <2>4. s[i].at = Wrap(b + p[i - 1]) /\ Stands(h.data, s[i].at, s[i].text)
    BY <1>5 DEF Layout
  <2> QED
    BY <2>1, <2>2, <2>3, <2>4
<1> QED
  BY <1>3, <1>4, <1>5

(* What scpiheap_free wipes, by places. *)
LEMMA Clears ==
  ASSUME NEW h \in Heaps, NEW b \in Cells, NEW q \in 0 .. HeapSize,
         NEW text \in Texts, q + Len(text) + 1 <= HeapSize, Stands(h.data, Wrap(b + q), text)
  PROVE  /\ Wrap(b + q) \in Cells /\ h.data[Wrap(b + q)] # NUL
         /\ Freed(h, Wrap(b + q)) = Len(text) + 1
         /\ Wiped(h, Wrap(b + q)) \in [Cells -> Characters \cup {NUL}]
         /\ \A x \in 0 .. HeapSize - 1 :
              Wiped(h, Wrap(b + q))[Wrap(b + x)] =
                IF x >= q /\ x < q + (Len(text) + 1) THEN NUL ELSE h.data[Wrap(b + x)]
<1> DEFINE at == Wrap(b + q)
           len == Len(text) + 1
<1>1. HeapSize \in Nat \ {0} /\ Len(text) \in Nat \ {0} /\ q \in 0 .. HeapSize - 1 /\ len \in 1 .. HeapSize
      /\ q + len <= HeapSize
  BY TextFacts, HeapAssumption
<1>2. at \in Cells
  BY <1>1, RingFacts
<1>3. Len(text) + 1 <= HeapSize
  BY <1>1
<1>4. h.data[at] # NUL /\ Freed(h, at) = len /\ Wiped(h, at) \in [Cells -> Characters \cup {NUL}]
  BY <1>2, <1>3, PartsOf, FreesIt
<1>5. \A c \in Cells :
        Wiped(h, at)[c] =
          IF (c >= at /\ c < at + (Len(text) + 1)) \/ c < at + (Len(text) + 1) - HeapSize
          THEN NUL ELSE h.data[c]
  BY <1>2, <1>3, FreesIt
<1>6. ASSUME NEW x \in 0 .. HeapSize - 1
      PROVE  Wiped(h, at)[Wrap(b + x)] = IF x >= q /\ x < q + len THEN NUL ELSE h.data[Wrap(b + x)]
  <2>1. Wrap(b + x) \in Cells
    BY RingFacts
  <2> DEFINE c == Wrap(b + x)
  <2>2. (c >= at /\ c < at + len) \/ c < at + len - HeapSize <=> x >= q /\ x < q + len
    <3> HIDE DEF len
    <3> QED
      BY <1>1, SpanFacts
  <2> QED
    BY <1>5, <2>1, <2>2
<1> QED
  BY <1>2, <1>4, <1>6

(* Freeing the text of the first entry leaves those behind it. *)
LEMMA FreesOldest ==
  ASSUME NEW h, NEW s, Sound(h, s), NEW t \in Seq(Entries),
         Len(s) = Len(t) + 1, \A i \in 1 .. Len(t) : t[i] = s[i + 1]
  PROVE  Sound(Free(h, s[1].at, FALSE), t)
<1> DEFINE n == Len(s)
           m == Len(t)
           g == Free(h, s[1].at, FALSE)
<1>1. PICK b, p : Layout(h, s, b, p)
  BY DEF Sound
<1>2. /\ HeapSize \in Nat \ {0} /\ h \in Heaps /\ s \in Seq(Entries) /\ m \in Nat /\ n = m + 1
      /\ \A i \in 1 .. m : t[i] = s[i + 1]
  BY LenProperties, HeapAssumption DEF Sound
<1>3. /\ b \in Cells /\ p \in [0 .. n -> 0 .. HeapSize] /\ p[0] = 0
      /\ h.count = HeapSize - p[n] /\ h.wr = Wrap(b + p[n])
      /\ p[n] = 0 => b = 0
      /\ \A i \in 1 .. n : p[i] = p[i - 1] + Room(s[i])
      /\ \A i, j \in 0 .. n : i <= j => p[i] <= p[j]
      /\ \A x \in p[n] .. HeapSize - 1 : h.data[Wrap(b + x)] = NUL
  BY <1>1 DEF Layout, Places
<1>4. \A i \in 1 .. n :
        /\ p[i - 1] \in 0 .. HeapSize /\ p[i] \in 0 .. HeapSize /\ p[n] \in 0 .. HeapSize
        /\ p[i] <= p[n] /\ p[i] = p[i - 1] + Room(s[i])
        /\ s[i].at = NULL => p[i] = p[i - 1]
        /\ s[i].at # NULL =>
              /\ s[i].text \in Texts /\ Len(s[i].text) \in Nat \ {0}
              /\ p[i] = p[i - 1] + (Len(s[i].text) + 1) /\ p[i - 1] + Len(s[i].text) + 1 <= HeapSize
              /\ s[i].at = Wrap(b + p[i - 1])
              /\ Stands(h.data, Wrap(b + p[i - 1]), s[i].text)
  BY <1>1, <1>2, LayoutFacts
<1> HIDE DEF n, m
<1> DEFINE a == p[1]
           r == [i \in 0 .. m |-> p[i + 1] - a]
<1>5. 1 \in 1 .. n /\ 1 - 1 = 0 /\ 1 \in 0 .. n /\ n \in 0 .. n /\ m + 1 = n
  BY <1>2
<1>6. a \in 0 .. HeapSize /\ p[n] \in 0 .. HeapSize /\ a <= p[n] /\ b \in 0 .. HeapSize - 1
  BY <1>3, <1>4, <1>5 DEF Cells
<1>7. ASSUME NEW i \in 0 .. m
      PROVE  i + 1 \in 0 .. n /\ p[i + 1] \in 0 .. HeapSize /\ a <= p[i + 1] /\ p[i + 1] <= p[n]
  <2>1. i + 1 \in 0 .. n /\ 1 <= i + 1 /\ i + 1 <= n
    BY <1>2
  <2> QED
    BY <1>3, <1>5, <2>1
<1>8. /\ r \in [0 .. m -> 0 .. HeapSize] /\ r[0] = 0 /\ r[m] = p[n] - a
      /\ \A i \in 0 .. m : r[i] = p[i + 1] - a
  <2>1. \A i \in 0 .. m : p[i + 1] - a \in 0 .. HeapSize
    BY <1>2, <1>6, <1>7
  <2>2. 0 \in 0 .. m /\ m \in 0 .. m /\ 0 + 1 = 1
    BY <1>2
  <2> QED
    BY <1>5, <1>6, <2>1, <2>2
<1> HIDE DEF r, a
<1>9. Places(t, r)
  <2>1. ASSUME NEW i \in 1 .. m
        PROVE  r[i] = r[i - 1] + Room(t[i])
    <3>1. i + 1 \in 1 .. n /\ (i + 1) - 1 = i /\ i \in 0 .. m /\ i - 1 \in 0 .. m /\ (i - 1) + 1 = i
      BY <1>2
    <3>2. p[i + 1] = p[i] + Room(s[i + 1]) /\ p[i] \in Int /\ p[i + 1] \in Int
      BY <1>4, <3>1
    <3>3. Room(s[i + 1]) \in Nat
      BY <1>2, <3>1, EntryFacts, ElementOfSeq DEF n
    <3>4. r[i] = p[i + 1] - a /\ r[i - 1] = p[i] - a
      BY <1>8, <3>1
    <3> QED
      BY <1>2, <1>6, <3>2, <3>3, <3>4
  <2>2. ASSUME NEW i \in 0 .. m, NEW j \in 0 .. m, i <= j
        PROVE  r[i] <= r[j]
    <3>1. p[i + 1] <= p[j + 1]
      <4>1. i + 1 <= j + 1
        BY <2>2
      <4> QED
        BY <1>3, <1>7, <4>1
    <3> QED
      BY <1>6, <1>7, <1>8, <3>1
  <2>3. \A i \in 1 .. m : r[i] = r[i - 1] + Room(t[i])
    BY <2>1
  <2>4. \A i, j \in 0 .. m : i <= j => r[i] <= r[j]
    BY <2>2
  <2> QED
    BY <1>8, <2>3, <2>4 DEF Places, m
<1>10. CASE s[1].at = NULL
  <2>1. g = h /\ a = 0
    BY <1>3, <1>4, <1>5, <1>10 DEF Free, a
  <2>2. r[m] = p[n] /\ \A i \in 0 .. m : r[i] = p[i + 1]
    BY <1>6, <1>7, <1>8, <2>1
  <2>3. ASSUME NEW i \in 1 .. m, t[i].at # NULL
        PROVE  t[i].at = Wrap(b + r[i - 1]) /\ Stands(h.data, t[i].at, t[i].text)
    <3>1. i + 1 \in 1 .. n /\ (i + 1) - 1 = i /\ i - 1 \in 0 .. m /\ (i - 1) + 1 = i
      BY <1>2
    <3>2. t[i] = s[i + 1] /\ r[i - 1] = p[i]
      BY <1>2, <2>2, <3>1
    <3>3. s[i + 1].at = Wrap(b + p[i]) /\ Stands(h.data, Wrap(b + p[i]), s[i + 1].text)
      BY <1>4, <2>3, <3>1, <3>2
    <3> QED
      BY <3>2, <3>3
  <2>4. \A x \in r[m] .. HeapSize - 1 : h.data[Wrap(b + x)] = NUL
    BY <1>3, <2>2
  <2>5. Layout(h, t, b, r)
    BY <1>3, <1>9, <2>2, <2>3, <2>4 DEF Layout, m
  <2> QED
    BY <1>2, <2>1, <2>5 DEF Sound
<1>11. CASE s[1].at # NULL
  <2> DEFINE text == s[1].text
             w == Wiped(h, s[1].at)
  <2>1. /\ text \in Texts /\ Len(text) \in Nat \ {0} /\ a = Len(text) + 1
        /\ 0 + Len(text) + 1 <= HeapSize
        /\ s[1].at = Wrap(b + 0) /\ Stands(h.data, Wrap(b + 0), text)
    <3>1. p[1] = p[0] + (Len(text) + 1) /\ p[0] + Len(text) + 1 <= HeapSize
          /\ text \in Texts /\ Len(text) \in Nat \ {0} /\ s[1].at = Wrap(b + p[0])
          /\ Stands(h.data, Wrap(b + p[0]), text)
      BY <1>4, <1>5, <1>11
    <3> QED
      BY <1>3, <3>1 DEF a
  <2> HIDE DEF text
  <2>2. /\ s[1].at \in Cells /\ h.data[s[1].at] # NUL /\ Freed(h, s[1].at) = a
        /\ w \in [Cells -> Characters \cup {NUL}]
        /\ \A x \in 0 .. HeapSize - 1 :
             w[Wrap(b + x)] = IF x >= 0 /\ x < 0 + a THEN NUL ELSE h.data[Wrap(b + x)]
    <3>1. 0 \in 0 .. HeapSize
      BY <1>2
    <3> QED
      BY <1>2, <1>3, <2>1, <3>1, Clears
  <2>3. /\ g.data = w /\ g.count = h.count + a
        /\ g.wr = IF h.count + a = HeapSize THEN 0 ELSE h.wr
        /\ g = [data |-> g.data, wr |-> g.wr, count |-> g.count]
    BY <1>11, <2>2 DEF Free, WrAfterFree
  <2> HIDE DEF w, g
  <2>4. g.count = HeapSize - (p[n] - a) /\ g.count \in 0 .. HeapSize
    <3>1. g.count = HeapSize - p[n] + a
      BY <1>3, <2>3
    <3> HIDE DEF a
    <3>2. HeapSize \in Nat /\ p[n] \in 0 .. HeapSize /\ a \in 0 .. HeapSize /\ a <= p[n]
      BY <1>2, <1>6
    <3> DEFINE z == p[n]
    <3>3. g.count = HeapSize - z + a /\ z \in 0 .. HeapSize /\ a \in 0 .. HeapSize /\ a <= z
      BY <3>1, <3>2
    <3> HIDE DEF z
    <3>4. g.count = HeapSize - (z - a) /\ g.count \in 0 .. HeapSize
      BY <3>2, <3>3
    <3> QED
      BY <3>4 DEF z
  <2>5. g \in Heaps
    <3>1. h.wr \in Cells /\ 0 \in Cells
      BY <1>2 DEF Heaps, Cells
    <3> QED
      BY <2>2, <2>3, <2>4, <3>1 DEF Heaps
  <2>6. ASSUME NEW x \in 0 .. HeapSize - 1, x < a \/ x >= p[n]
        PROVE  w[Wrap(b + x)] = NUL
    <3>1. CASE x < a
      BY <1>6, <2>2, <3>1
    <3>2. CASE ~ (x < a)
      <4>1. x \in p[n] .. HeapSize - 1
        BY <1>6, <2>6, <3>2
      <4> QED
        BY <1>3, <1>6, <2>2, <3>2, <4>1
    <3> QED
      BY <3>1, <3>2
  <2>7. CASE p[n] = a
    <3>1. ASSUME NEW c \in Cells
          PROVE  g.data[c] = NUL
      <4>1. PICK x \in 0 .. HeapSize - 1 : c = Wrap(b + x)
        BY <1>3, RingFacts
      <4>2. x < a \/ x >= p[n]
        BY <1>6, <2>7, <4>1
      <4> QED
        BY <2>3, <2>6, <4>1, <4>2
    <3>2. g.wr = 0 /\ g.count = HeapSize
      BY <1>2, <1>3, <1>6, <2>3, <2>4, <2>7
    <3>3. ASSUME NEW i \in 1 .. m
          PROVE  t[i].at = NULL
      <4>1. /\ i + 1 \in 1 .. n /\ (i + 1) - 1 = i /\ i \in 0 .. m /\ i - 1 \in 0 .. m
            /\ (i - 1) + 1 = i
        BY <1>2
      <4>2. a <= p[i] /\ p[i + 1] <= p[n] /\ p[i] \in Int
        BY <1>7, <4>1
      <4>3. s[i + 1].at # NULL =>
              Len(s[i + 1].text) \in Nat \ {0} /\ p[i + 1] = p[i] + (Len(s[i + 1].text) + 1)
        BY <1>4, <4>1
      <4>4. s[i + 1].at = NULL
        BY <1>6, <2>7, <4>2, <4>3
      <4> QED
        BY <1>2, <4>4
    <3>4. Sound(g, t)
      BY <2>5, <3>1, <3>2, <3>3, Emptied DEF m
    <3> QED
      BY <3>4 DEF g
  <2>8. CASE p[n] # a
    <3> DEFINE f == Wrap(b + a)
    <3>1. a \in 0 .. HeapSize - 1 /\ f \in Cells /\ f \in 0 .. HeapSize - 1
      <4>1. a \in 0 .. HeapSize - 1
        <5>1. a < p[n]
          BY <1>6, <2>8
        <5> QED
          BY <1>2, <1>6, <5>1
      <4>2. f \in Cells
        BY <1>3, <4>1, RingFacts
      <4> QED
        BY <4>1, <4>2 DEF Cells
    <3>2. ASSUME NEW y \in 0 .. HeapSize, a + y <= HeapSize
          PROVE  Wrap(f + y) = Wrap(b + (a + y))
      <4>1. Wrap(Wrap(b + a) + y) = Wrap(b + a + y)
        BY <1>3, <1>6, <3>2, RingFacts
      <4>2. b + a + y = b + (a + y)
        BY <1>6
      <4> QED
        BY <4>1, <4>2
    <3> HIDE DEF f
    <3>3. g.wr = Wrap(f + r[m]) /\ g.count = HeapSize - r[m] /\ r[m] # 0
      <4>1. r[m] \in 0 .. HeapSize /\ a + r[m] = p[n] /\ r[m] = p[n] - a
        <5>1. m \in 0 .. m
          BY <1>2
        <5>2. r[m] \in 0 .. HeapSize /\ r[m] = p[n] - a
          BY <1>8, <5>1
        <5> QED
          BY <1>6, <5>2
      <4>2. Wrap(f + r[m]) = Wrap(b + p[n])
        BY <1>6, <3>2, <4>1
      <4>3. h.count + a # HeapSize
        BY <1>2, <1>3, <1>6, <2>8
      <4> QED
        BY <1>3, <1>6, <2>3, <2>4, <2>8, <4>1, <4>2, <4>3
    <3>4. ASSUME NEW i \in 1 .. m, t[i].at # NULL
          PROVE  t[i].at = Wrap(f + r[i - 1]) /\ Stands(g.data, t[i].at, t[i].text)
      <4>1. /\ i + 1 \in 1 .. n /\ (i + 1) - 1 = i /\ i \in 0 .. m /\ i - 1 \in 0 .. m
            /\ (i - 1) + 1 = i
        BY <1>2
      <4>2. /\ s[i + 1].text \in Texts /\ Len(s[i + 1].text) \in Nat \ {0}
            /\ p[i + 1] = p[i] + (Len(s[i + 1].text) + 1)
            /\ p[i] + Len(s[i + 1].text) + 1 <= HeapSize
            /\ s[i + 1].at = Wrap(b + p[i]) /\ Stands(h.data, Wrap(b + p[i]), s[i + 1].text)
            /\ p[i] \in 0 .. HeapSize
        BY <1>2, <1>4, <3>4, <4>1
      <4>3. a <= p[i] /\ p[i + 1] <= p[n] /\ r[i - 1] = p[i] - a /\ r[i - 1] \in 0 .. HeapSize
        BY <1>7, <1>8, <4>1
      <4>4. Wrap(f + r[i - 1]) = Wrap(b + p[i])
        <5>1. a + r[i - 1] = p[i] /\ a + r[i - 1] <= HeapSize
          BY <1>6, <4>2, <4>3
        <5> QED
          BY <3>2, <4>3, <5>1
      <4>5. \A x \in p[i] .. p[i] + Len(s[i + 1].text) : w[Wrap(b + x)] = h.data[Wrap(b + x)]
        <5> SUFFICES ASSUME NEW x \in p[i] .. p[i] + Len(s[i + 1].text)
                     PROVE  w[Wrap(b + x)] = h.data[Wrap(b + x)]
          OBVIOUS
        <5>1. x \in 0 .. HeapSize - 1 /\ ~ (x < 0 + a)
          <6> DEFINE u == p[i]
                     v == Len(s[i + 1].text)
          <6>1. u \in 0 .. HeapSize /\ v \in Nat \ {0} /\ u + v + 1 <= HeapSize /\ a <= u /\ x \in u .. u + v
            BY <4>2, <4>3
          <6> HIDE DEF u, v
          <6> QED
            BY <1>2, <1>6, <6>1
        <5> QED
          BY <2>2, <5>1
      <4>6. Stands(w, Wrap(b + p[i]), s[i + 1].text)
        BY <1>3, <4>2, <4>5, StandsKept
      <4> QED
        BY <1>2, <2>3, <4>2, <4>4, <4>6
    <3>5. ASSUME NEW x \in r[m] .. HeapSize - 1
          PROVE  g.data[Wrap(f + x)] = NUL
      <4>1. x \in 0 .. HeapSize - 1 /\ a + x >= p[n]
        BY <1>2, <1>6, <1>8
      <4>2. CASE a + x < HeapSize
        <5>1. Wrap(f + x) = Wrap(b + (a + x)) /\ a + x \in 0 .. HeapSize - 1
          BY <1>2, <1>6, <3>2, <4>1, <4>2
        <5> QED
          BY <2>3, <2>6, <4>1, <5>1
      <4>3. CASE ~ (a + x < HeapSize)
        <5> DEFINE y == a + x - HeapSize
        <5>1. y \in 0 .. HeapSize - 1 /\ y < a
          BY <1>2, <1>6, <3>1, <4>1, <4>3
        <5>2. Wrap(f + x) = Wrap(b + y)
          BY <1>2, <1>6, <3>1, <4>1, <4>3 DEF Wrap, f
        <5> QED
          BY <2>3, <2>6, <5>1, <5>2
      <4> QED
        BY <4>2, <4>3
    <3>6. Layout(g, t, f, r)
      BY <1>9, <3>1, <3>3, <3>4, <3>5 DEF Layout, m
    <3> QED
      BY <2>5, <3>6 DEF Sound, g
  <2> QED
    BY <2>7, <2>8
<1> QED
  BY <1>10, <1>11 DEF g

(* Rolling back the text of the last entry leaves those before it. *)
LEMMA FreesYoungest ==
  ASSUME NEW h, NEW s, Sound(h, s), NEW t \in Seq(Entries),
         Len(s) = Len(t) + 1, \A i \in 1 .. Len(t) : t[i] = s[i]
  PROVE  Sound(Free(h, s[Len(s)].at, TRUE), t)
<1> DEFINE n == Len(s)
           m == Len(t)
           g == Free(h, s[n].at, TRUE)
<1>1. PICK b, p : Layout(h, s, b, p)
  BY DEF Sound
<1>2. /\ HeapSize \in Nat \ {0} /\ h \in Heaps /\ s \in Seq(Entries) /\ m \in Nat /\ n = m + 1
      /\ \A i \in 1 .. m : t[i] = s[i]
  BY LenProperties, HeapAssumption DEF Sound
<1>3. /\ b \in Cells /\ p \in [0 .. n -> 0 .. HeapSize] /\ p[0] = 0
      /\ h.count = HeapSize - p[n] /\ h.wr = Wrap(b + p[n])
      /\ p[n] = 0 => b = 0
      /\ \A i \in 1 .. n : p[i] = p[i - 1] + Room(s[i])
      /\ \A i, j \in 0 .. n : i <= j => p[i] <= p[j]
      /\ \A x \in p[n] .. HeapSize - 1 : h.data[Wrap(b + x)] = NUL
  BY <1>1 DEF Layout, Places
<1>4. \A i \in 1 .. n :
        /\ p[i - 1] \in 0 .. HeapSize /\ p[i] \in 0 .. HeapSize /\ p[n] \in 0 .. HeapSize
        /\ p[i] <= p[n] /\ p[i] = p[i - 1] + Room(s[i])
        /\ s[i].at = NULL => p[i] = p[i - 1]
        /\ s[i].at # NULL =>
              /\ s[i].text \in Texts /\ Len(s[i].text) \in Nat \ {0}
              /\ p[i] = p[i - 1] + (Len(s[i].text) + 1) /\ p[i - 1] + Len(s[i].text) + 1 <= HeapSize
              /\ s[i].at = Wrap(b + p[i - 1])
              /\ Stands(h.data, Wrap(b + p[i - 1]), s[i].text)
  BY <1>1, <1>2, LayoutFacts
<1> HIDE DEF n, m
<1> DEFINE q == p[m]
           r == [i \in 0 .. m |-> p[i]]
<1>5. /\ n \in 1 .. n /\ n - 1 = m /\ m \in 0 .. m
      /\ \A i \in 0 .. m : i \in 0 .. n /\ i <= m
      /\ \A i \in 1 .. m : i \in 1 .. n /\ i - 1 \in 0 .. m /\ i \in 0 .. m
  BY <1>2
<1>6. q \in 0 .. HeapSize /\ p[n] \in 0 .. HeapSize /\ b \in 0 .. HeapSize - 1
  BY <1>3, <1>4, <1>5 DEF Cells
<1>7. /\ r \in [0 .. m -> 0 .. HeapSize] /\ r[0] = 0 /\ r[m] = q
      /\ \A i \in 0 .. m : r[i] = p[i]
  <2>1. \A i \in 0 .. m : p[i] \in 0 .. HeapSize
    BY <1>3, <1>5
  <2>2. 0 \in 0 .. m
    BY <1>2
  <2> QED
    BY <1>3, <1>5, <2>1, <2>2
<1>8. \A i \in 0 .. m : p[i] <= q
  BY <1>3, <1>5
<1> HIDE DEF r, q
<1>9. Places(t, r)
  <2>1. \A i \in 1 .. m : r[i] = r[i - 1] + Room(t[i])
    BY <1>2, <1>3, <1>5, <1>7
  <2>2. \A i, j \in 0 .. m : i <= j => r[i] <= r[j]
    BY <1>3, <1>5, <1>7
  <2> QED
    BY <1>7, <2>1, <2>2 DEF Places, m
<1>10. CASE s[n].at = NULL
  <2>1. g = h /\ p[n] = q
    BY <1>4, <1>5, <1>10 DEF Free, q
  <2>2. ASSUME NEW i \in 1 .. m, t[i].at # NULL
        PROVE  t[i].at = Wrap(b + r[i - 1]) /\ Stands(h.data, t[i].at, t[i].text)
    <3>1. t[i] = s[i] /\ r[i - 1] = p[i - 1]
      BY <1>2, <1>5, <1>7
    <3>2. s[i].at = Wrap(b + p[i - 1]) /\ Stands(h.data, Wrap(b + p[i - 1]), s[i].text)
      BY <1>4, <1>5, <2>2, <3>1
    <3> QED
      BY <3>1, <3>2
  <2>3. \A x \in r[m] .. HeapSize - 1 : h.data[Wrap(b + x)] = NUL
    BY <1>3, <1>7, <2>1
  <2>4. Layout(h, t, b, r)
    BY <1>3, <1>7, <1>9, <2>1, <2>2, <2>3 DEF Layout, m
  <2> QED
    BY <1>2, <2>1, <2>4 DEF Sound, n
<1>11. CASE s[n].at # NULL
  <2> DEFINE text == s[n].text
             len == Len(text) + 1
             w == Wiped(h, s[n].at)
  <2>1. /\ text \in Texts /\ Len(text) \in Nat \ {0} /\ p[n] = q + len
        /\ q + Len(text) + 1 <= HeapSize
        /\ s[n].at = Wrap(b + q) /\ Stands(h.data, Wrap(b + q), text)
    BY <1>4, <1>5, <1>11 DEF q
  <2> HIDE DEF text
  <2>2. /\ s[n].at \in Cells /\ h.data[s[n].at] # NUL /\ Freed(h, s[n].at) = len
        /\ w \in [Cells -> Characters \cup {NUL}]
        /\ \A x \in 0 .. HeapSize - 1 :
             w[Wrap(b + x)] = IF x >= q /\ x < q + (Len(text) + 1) THEN NUL ELSE h.data[Wrap(b + x)]
    <3>1. /\ Wrap(b + q) \in Cells /\ h.data[Wrap(b + q)] # NUL
          /\ Freed(h, Wrap(b + q)) = Len(text) + 1
          /\ Wiped(h, Wrap(b + q)) \in [Cells -> Characters \cup {NUL}]
          /\ \A x \in 0 .. HeapSize - 1 :
               Wiped(h, Wrap(b + q))[Wrap(b + x)] =
                 IF x >= q /\ x < q + (Len(text) + 1) THEN NUL ELSE h.data[Wrap(b + x)]
      <4> HIDE DEF w, len, g
      <4>1. /\ h \in Heaps /\ b \in Cells /\ q \in 0 .. HeapSize /\ text \in Texts
            /\ q + Len(text) + 1 <= HeapSize /\ Stands(h.data, Wrap(b + q), text)
        BY <1>2, <1>3, <1>6, <2>1
      <4> QED
        BY <4>1, Clears
    <3> QED
      BY <2>1, <3>1
  <2>3. len \in 2 .. HeapSize /\ q + len <= HeapSize
    BY <1>2, <1>6, <2>1
  <2>4. \A x \in 0 .. HeapSize - 1 :
          w[Wrap(b + x)] = IF x >= q /\ x < q + len THEN NUL ELSE h.data[Wrap(b + x)]
    BY <2>2
  <2> HIDE DEF len
  <2>5. /\ g.data = w /\ g.count = h.count + len
        /\ g.wr = IF h.count + len = HeapSize THEN 0
                  ELSE (IF len > h.wr THEN h.wr + HeapSize ELSE h.wr) - len
        /\ g = [data |-> g.data, wr |-> g.wr, count |-> g.count]
    <3> DEFINE wr == WrAfterFree(h.wr, h.count + len, len, TRUE)
    <3>1. g = [data |-> w, wr |-> wr, count |-> h.count + len]
      BY <1>11, <2>2 DEF Free
    <3>2. wr = IF h.count + len = HeapSize THEN 0
               ELSE (IF len > h.wr THEN h.wr + HeapSize ELSE h.wr) - len
      BY DEF WrAfterFree
    <3> HIDE DEF g, w, wr
    <3>3. /\ g.data = w /\ g.wr = wr /\ g.count = h.count + len
          /\ g = [data |-> g.data, wr |-> g.wr, count |-> g.count]
      BY <3>1
    <3> QED
      BY <3>2, <3>3
  <2> HIDE DEF w, g
  <2>6. g.count = HeapSize - q /\ g.count \in 0 .. HeapSize
    <3>1. g.count = HeapSize - p[n] + len /\ p[n] = q + len
      BY <1>3, <2>1, <2>5 DEF len
    <3> QED
      BY <1>2, <1>6, <2>3, <3>1
  <2>7. ASSUME NEW x \in q .. HeapSize - 1
        PROVE  g.data[Wrap(b + x)] = NUL
    <3>1. x \in 0 .. HeapSize - 1 /\ x >= q
      BY <1>2, <1>6
    <3>2. CASE x < q + len
      BY <2>4, <2>5, <3>1, <3>2
    <3>3. CASE ~ (x < q + len)
      <4>1. x \in p[n] .. HeapSize - 1
        BY <1>6, <2>1, <2>3, <3>1, <3>3
      <4> QED
        BY <1>3, <2>4, <2>5, <3>1, <3>3, <4>1
    <3> QED
      BY <3>2, <3>3
  <2>8. CASE q = 0
    <3>1. g.wr = 0 /\ g.count = HeapSize
      BY <1>2, <2>5, <2>6, <2>8
    <3>2. g \in Heaps
      BY <1>2, <2>2, <2>5, <2>6, <3>1 DEF Heaps, Cells
    <3>3. ASSUME NEW c \in Cells
          PROVE  g.data[c] = NUL
      <4>1. PICK x \in 0 .. HeapSize - 1 : c = Wrap(b + x)
        BY <1>3, RingFacts
      <4> QED
        BY <2>7, <2>8, <4>1
    <3>4. ASSUME NEW i \in 1 .. m
          PROVE  t[i].at = NULL
      <4>1. p[i] <= 0 /\ p[i] \in Int /\ p[i - 1] \in 0 .. HeapSize
        BY <1>4, <1>5, <1>8, <2>8
      <4>2. s[i].at # NULL =>
              Len(s[i].text) \in Nat \ {0} /\ p[i] = p[i - 1] + (Len(s[i].text) + 1)
        BY <1>4, <1>5
      <4>3. s[i].at = NULL
        BY <1>2, <4>1, <4>2
      <4> QED
        BY <1>2, <4>3
    <3>5. Sound(g, t)
      BY <3>1, <3>2, <3>3, <3>4, Emptied DEF m
    <3> QED
      BY <3>5 DEF g, n
  <2>9. CASE q # 0
    <3>1. g.wr = Wrap(b + q) /\ g.wr \in Cells
      <4>1. h.wr = Wrap(b + (q + len)) /\ h.count + len # HeapSize
        BY <1>2, <1>3, <1>6, <2>1, <2>3, <2>9
      <4>2. g.wr = (IF len > h.wr THEN h.wr + HeapSize ELSE h.wr) - len
        BY <2>5, <4>1
      <4> QED
        BY <1>2, <1>6, <2>3, <4>1, <4>2 DEF Wrap, Cells
    <3>2. g \in Heaps
      BY <1>2, <2>2, <2>5, <2>6, <3>1 DEF Heaps
    <3>3. ASSUME NEW i \in 1 .. m, t[i].at # NULL
          PROVE  t[i].at = Wrap(b + r[i - 1]) /\ Stands(g.data, t[i].at, t[i].text)
      <4>1. t[i] = s[i] /\ r[i - 1] = p[i - 1] /\ p[i] <= q
        BY <1>2, <1>5, <1>7, <1>8
      <4>2. /\ s[i].text \in Texts /\ Len(s[i].text) \in Nat \ {0}
            /\ p[i] = p[i - 1] + (Len(s[i].text) + 1)
            /\ p[i - 1] + Len(s[i].text) + 1 <= HeapSize
            /\ s[i].at = Wrap(b + p[i - 1]) /\ Stands(h.data, Wrap(b + p[i - 1]), s[i].text)
            /\ p[i - 1] \in 0 .. HeapSize
        BY <1>4, <1>5, <3>3, <4>1
      <4>3. ASSUME NEW x \in p[i - 1] .. p[i - 1] + Len(s[i].text)
            PROVE  w[Wrap(b + x)] = h.data[Wrap(b + x)]
        <5> DEFINE u == p[i - 1]
                   v == Len(s[i].text)
        <5>1. /\ u \in 0 .. HeapSize /\ v \in Nat \ {0} /\ u + v + 1 <= HeapSize /\ u + (v + 1) <= q
              /\ x \in u .. u + v
          BY <4>1, <4>2
        <5> HIDE DEF u, v
        <5>2. x \in 0 .. HeapSize - 1 /\ ~ (x >= q)
          BY <1>2, <1>6, <5>1
        <5> QED
          BY <2>4, <5>2
      <4>4. \A x \in p[i - 1] .. p[i - 1] + Len(s[i].text) : w[Wrap(b + x)] = h.data[Wrap(b + x)]
        BY <4>3
      <4>5. Stands(w, Wrap(b + p[i - 1]), s[i].text)
        BY <1>3, <4>2, <4>4, StandsKept
      <4> QED
        BY <2>5, <4>1, <4>2, <4>5
    <3>4. Layout(g, t, b, r)
      BY <1>3, <1>7, <1>9, <2>6, <2>7, <2>9, <3>1, <3>3 DEF Layout, m
    <3> QED
      BY <3>2, <3>4 DEF Sound, g, n
  <2> QED
    BY <2>8, <2>9
<1> QED
  BY <1>10, <1>11 DEF g, n

(***************************************************************************)
(* Folds                                                                   *)
(***************************************************************************)

LEMMA MaxFacts ==
  ASSUME NEW n \in Nat, NEW S \in SUBSET (1 .. n), S # {}
  PROVE  /\ Max(S) \in S /\ \A y \in S : Max(S) >= y
         /\ n \in S => Max(S) = n
<1> DEFINE D == {n - x : x \in S}
<1>1. D \subseteq Nat /\ D # {}
  OBVIOUS
<1>2. PICK d \in D : \A e \in D : d <= e
  BY <1>1, Least
<1>3. PICK x \in S : d = n - x
  BY <1>2
<1>4. \A y \in S : x >= y
  <2> SUFFICES ASSUME NEW y \in S
               PROVE  x >= y
    OBVIOUS
  <2>1. n - x <= n - y /\ x \in 1 .. n /\ y \in 1 .. n
    BY <1>2, <1>3
  <2> QED
    BY <2>1
<1>5. \E z \in S : \A y \in S : z >= y
  BY <1>4
<1>6. Max(S) \in S /\ \A y \in S : Max(S) >= y
  BY <1>5 DEF Max
<1>7. n \in S => Max(S) = n
  <2>1. Max(S) \in 1 .. n
    BY <1>6
  <2> QED
    BY <1>6, <2>1
<1> QED
  BY <1>6, <1>7

Relieved(a, e) == Free(a, e.at, FALSE)

(* What SCPI_ErrorClear makes of the heap. *)
Cleared(h, s) == FoldLeft(LAMBDA a, e : Free(a, e.at, FALSE), h, s)

(* The sum of the rooms. *)
Rooms(s) == FoldLeft(LAMBDA a, e : a + Room(e), 0, s)

(* The function with which FoldLeft frees one text after the other. *)
FreeFold(f, h, s, n) ==
  f = [S \in SUBSET (1 .. n) |-> IF S = {} THEN h ELSE Relieved(f[S \ {Max(S)}], s[Max(S)])]

LEMMA FreeFolds ==
  ASSUME NEW h, NEW s, NEW n \in Nat
  PROVE  \E f : FreeFold(f, h, s, n)
<1> DEFINE Folds(f, k) == f = [S \in SUBSET (1 .. k) |->
                                 IF S = {} THEN h
                                 ELSE Relieved(f[S \ {Max(S)}], s[Max(S)])]
           done == {k \in Nat : \E f : Folds(f, k)}
<1>1. 0 \in done
  <2> DEFINE f == [S \in SUBSET (1 .. 0) |-> h]
  <2>1. \A S \in SUBSET (1 .. 0) : S = {}
    OBVIOUS
  <2>2. Folds(f, 0)
    BY <2>1
  <2> QED
    BY <2>2
<1>2. ASSUME NEW k \in 0 .. n - 1, k \in done
      PROVE  k + 1 \in done
  <2>1. PICK f : Folds(f, k)
    BY <1>2
  <2> DEFINE g == [S \in SUBSET (1 .. k + 1) |->
                     IF k + 1 \in S THEN Relieved(f[S \ {k + 1}], s[k + 1]) ELSE f[S]]
             G(S) == IF S = {} THEN h ELSE Relieved(g[S \ {Max(S)}], s[Max(S)])
  <2>2. /\ \A S \in SUBSET (1 .. k + 1) :
             g[S] = IF k + 1 \in S THEN Relieved(f[S \ {k + 1}], s[k + 1]) ELSE f[S]
        /\ \A S \in SUBSET (1 .. k) :
             f[S] = IF S = {} THEN h ELSE Relieved(f[S \ {Max(S)}], s[Max(S)])
        /\ g = [S \in SUBSET (1 .. k + 1) |-> g[S]]
    BY <2>1
  <2> HIDE DEF g
  <2>3. ASSUME NEW S \in SUBSET (1 .. k + 1)
        PROVE  g[S] = G(S)
    <3>1. \A T \in SUBSET (1 .. k + 1) : k + 1 \notin T => T \in SUBSET (1 .. k)
      BY <1>2
    <3>2. CASE S = {}
      <4>1. S \in SUBSET (1 .. k) /\ k + 1 \notin S
        BY <3>2
      <4> QED
        BY <2>2, <3>2, <4>1
    <3>3. CASE S # {} /\ k + 1 \in S
      <4>1. k + 1 \in Nat /\ Max(S) = k + 1
        BY <1>2, <3>3, MaxFacts
      <4>2. S \ {k + 1} \in SUBSET (1 .. k + 1) /\ k + 1 \notin S \ {k + 1}
        OBVIOUS
      <4>3. g[S \ {k + 1}] = f[S \ {k + 1}]
        BY <2>2, <4>2
      <4> QED
        BY <2>2, <3>3, <4>1, <4>3
    <3>4. CASE S # {} /\ k + 1 \notin S
      <4>1. S \in SUBSET (1 .. k) /\ S \ {Max(S)} \in SUBSET (1 .. k + 1)
            /\ k + 1 \notin S \ {Max(S)}
        BY <3>1, <3>4
      <4>2. g[S \ {Max(S)}] = f[S \ {Max(S)}] /\ g[S] = f[S]
        BY <2>2, <3>4, <4>1
      <4> QED
        BY <2>2, <3>4, <4>1, <4>2
    <3> QED
      BY <3>2, <3>3, <3>4
  <2>4. g = [S \in SUBSET (1 .. k + 1) |-> G(S)]
    <3>1. \A S \in SUBSET (1 .. k + 1) : g[S] = G(S)
      BY <2>3
    <3> HIDE DEF G
    <3> QED
      BY <2>2, <3>1
  <2>5. Folds(g, k + 1)
    BY <2>4
  <2>6. k + 1 \in Nat
    OBVIOUS
  <2> HIDE DEF Folds
  <2> QED
    BY <2>5, <2>6
<1> HIDE DEF Folds
<1>3. \A k \in 0 .. n - 1 : k \in done => k + 1 \in done
  BY <1>2
<1> HIDE DEF done
<1>4. 0 .. n \subseteq done /\ n \in 0 .. n
  BY <1>1, <1>3, UpTo
<1>5. \E f : Folds(f, n)
  BY <1>4 DEF done
<1> QED
  BY <1>5 DEF Folds, FreeFold

(* The function with which FoldLeft adds up the rooms. *)
LEMMA RoomFolds ==
  ASSUME NEW s, NEW n \in Nat
  PROVE  \E f : f = [S \in SUBSET (1 .. n) |->
                      IF S = {} THEN 0 ELSE f[S \ {Max(S)}] + Room(s[Max(S)])]
<1> DEFINE Folds(f, k) == f = [S \in SUBSET (1 .. k) |->
                                 IF S = {} THEN 0
                                 ELSE f[S \ {Max(S)}] + Room(s[Max(S)])]
           done == {k \in Nat : \E f : Folds(f, k)}
<1>1. 0 \in done
  <2> DEFINE f == [S \in SUBSET (1 .. 0) |-> 0]
  <2>1. \A S \in SUBSET (1 .. 0) : S = {}
    OBVIOUS
  <2>2. Folds(f, 0)
    BY <2>1
  <2> QED
    BY <2>2
<1>2. ASSUME NEW k \in 0 .. n - 1, k \in done
      PROVE  k + 1 \in done
  <2>1. PICK f : Folds(f, k)
    BY <1>2
  <2> DEFINE g == [S \in SUBSET (1 .. k + 1) |->
                     IF k + 1 \in S THEN f[S \ {k + 1}] + Room(s[k + 1]) ELSE f[S]]
             G(S) == IF S = {} THEN 0 ELSE g[S \ {Max(S)}] + Room(s[Max(S)])
  <2>2. /\ \A S \in SUBSET (1 .. k + 1) :
             g[S] = IF k + 1 \in S THEN f[S \ {k + 1}] + Room(s[k + 1]) ELSE f[S]
        /\ \A S \in SUBSET (1 .. k) :
             f[S] = IF S = {} THEN 0 ELSE f[S \ {Max(S)}] + Room(s[Max(S)])
        /\ g = [S \in SUBSET (1 .. k + 1) |-> g[S]]
    BY <2>1
  <2> HIDE DEF g
  <2>3. ASSUME NEW S \in SUBSET (1 .. k + 1)
        PROVE  g[S] = G(S)
    <3>1. \A T \in SUBSET (1 .. k + 1) : k + 1 \notin T => T \in SUBSET (1 .. k)
      BY <1>2
    <3>2. CASE S = {}
      <4>1. S \in SUBSET (1 .. k) /\ k + 1 \notin S
        BY <3>2
      <4> QED
        BY <2>2, <3>2, <4>1
    <3>3. CASE S # {} /\ k + 1 \in S
      <4>1. k + 1 \in Nat /\ Max(S) = k + 1
        BY <1>2, <3>3, MaxFacts
      <4>2. S \ {k + 1} \in SUBSET (1 .. k + 1) /\ k + 1 \notin S \ {k + 1}
        OBVIOUS
      <4>3. g[S \ {k + 1}] = f[S \ {k + 1}]
        BY <2>2, <4>2
      <4> QED
        BY <2>2, <3>3, <4>1, <4>3
    <3>4. CASE S # {} /\ k + 1 \notin S
      <4>1. S \in SUBSET (1 .. k) /\ S \ {Max(S)} \in SUBSET (1 .. k + 1)
            /\ k + 1 \notin S \ {Max(S)}
        BY <3>1, <3>4
      <4>2. g[S \ {Max(S)}] = f[S \ {Max(S)}] /\ g[S] = f[S]
        BY <2>2, <3>4, <4>1
      <4> QED
        BY <2>2, <3>4, <4>1, <4>2
    <3> QED
      BY <3>2, <3>3, <3>4
  <2>4. g = [S \in SUBSET (1 .. k + 1) |-> G(S)]
    <3>1. \A S \in SUBSET (1 .. k + 1) : g[S] = G(S)
      BY <2>3
    <3> HIDE DEF G
    <3> QED
      BY <2>2, <3>1
  <2>5. Folds(g, k + 1)
    BY <2>4
  <2>6. k + 1 \in Nat
    OBVIOUS
  <2> HIDE DEF Folds
  <2> QED
    BY <2>5, <2>6
<1> HIDE DEF Folds
<1>3. \A k \in 0 .. n - 1 : k \in done => k + 1 \in done
  BY <1>2
<1> HIDE DEF done
<1>4. 0 .. n \subseteq done /\ n \in 0 .. n
  BY <1>1, <1>3, UpTo
<1>5. \E f : Folds(f, n)
  BY <1>4 DEF done
<1> QED
  BY <1>5 DEF Folds

(* FoldLeft frees the texts in turn. *)
FreesThrough(v, h, s, n) ==
  v[0] = h /\ \A k \in 0 .. n - 1 : v[k + 1] = Relieved(v[k], s[k + 1])

LEMMA FreesInTurn ==
  ASSUME NEW h, NEW s, NEW n \in Nat, DOMAIN s = 1 .. n
  PROVE  \E v : FreesThrough(v, h, s, n) /\ Cleared(h, s) = v[n]
<1> DEFINE Folds(f) == f = [S \in SUBSET (1 .. n) |->
                              IF S = {} THEN h ELSE Relieved(f[S \ {Max(S)}], s[Max(S)])]
           f == CHOOSE f : Folds(f)
           v == [k \in 0 .. n |-> f[1 .. k]]
<1>1. Cleared(h, s) = f[1 .. n]
  BY DEF Cleared, FoldLeft, MapThenFoldSet, Relieved
<1>2. \E g : Folds(g)
  <2>1. \E g : FreeFold(g, h, s, n)
    BY FreeFolds
  <2> QED
    BY <2>1 DEF FreeFold
<1>3. Folds(f)
  <2> HIDE DEF Folds
  <2> QED
    BY <1>2
<1> HIDE DEF f
<1>4. \A S \in SUBSET (1 .. n) :
        f[S] = IF S = {} THEN h ELSE Relieved(f[S \ {Max(S)}], s[Max(S)])
  BY <1>3
<1>5. v[0] = h
  <2>1. 1 .. 0 = {} /\ 1 .. 0 \in SUBSET (1 .. n) /\ 0 \in 0 .. n
    OBVIOUS
  <2> QED
    BY <1>4, <2>1
<1>6. ASSUME NEW k \in 0 .. n - 1
      PROVE  v[k + 1] = Relieved(v[k], s[k + 1])
  <2>1. /\ 1 .. k + 1 \in SUBSET (1 .. n) /\ 1 .. k + 1 # {} /\ (1 .. k + 1) \ {k + 1} = 1 .. k
        /\ k + 1 \in 1 .. k + 1 /\ k + 1 \in Nat /\ k \in 0 .. n /\ k + 1 \in 0 .. n
    OBVIOUS
  <2>2. Max(1 .. k + 1) = k + 1
    <3>1. 1 .. k + 1 \in SUBSET (1 .. k + 1)
      OBVIOUS
    <3> QED
      BY <2>1, <3>1, MaxFacts
  <2>3. f[1 .. k + 1] = Relieved(f[(1 .. k + 1) \ {k + 1}], s[k + 1])
    BY <1>4, <2>1, <2>2
  <2>4. v[k + 1] = f[1 .. k + 1] /\ v[k] = f[1 .. k]
    BY <2>1
  <2> HIDE DEF v
  <2> QED
    BY <2>1, <2>3, <2>4
<1>7. v[n] = f[1 .. n]
  OBVIOUS
<1> HIDE DEF v
<1> QED
  BY <1>1, <1>5, <1>6, <1>7 DEF FreesThrough

(* FoldLeft adds the rooms in turn. *)
AddsThrough(v, s, n) == v[0] = 0 /\ \A k \in 0 .. n - 1 : v[k + 1] = v[k] + Room(s[k + 1])

LEMMA AddsInTurn ==
  ASSUME NEW s, NEW n \in Nat, DOMAIN s = 1 .. n
  PROVE  \E v : AddsThrough(v, s, n) /\ Rooms(s) = v[n]
<1> DEFINE Folds(f) == f = [S \in SUBSET (1 .. n) |->
                              IF S = {} THEN 0 ELSE f[S \ {Max(S)}] + Room(s[Max(S)])]
           f == CHOOSE f : Folds(f)
           v == [k \in 0 .. n |-> f[1 .. k]]
<1>1. Rooms(s) = f[1 .. n]
  BY DEF Rooms, FoldLeft, MapThenFoldSet
<1>2. \E g : Folds(g)
  BY RoomFolds
<1>3. Folds(f)
  <2> HIDE DEF Folds
  <2> QED
    BY <1>2
<1> HIDE DEF f
<1>4. \A S \in SUBSET (1 .. n) :
        f[S] = IF S = {} THEN 0 ELSE f[S \ {Max(S)}] + Room(s[Max(S)])
  BY <1>3
<1>5. v[0] = 0
  <2>1. 1 .. 0 = {} /\ 1 .. 0 \in SUBSET (1 .. n) /\ 0 \in 0 .. n
    OBVIOUS
  <2> QED
    BY <1>4, <2>1
<1>6. ASSUME NEW k \in 0 .. n - 1
      PROVE  v[k + 1] = v[k] + Room(s[k + 1])
  <2>1. /\ 1 .. k + 1 \in SUBSET (1 .. n) /\ 1 .. k + 1 # {} /\ (1 .. k + 1) \ {k + 1} = 1 .. k
        /\ k + 1 \in 1 .. k + 1 /\ k + 1 \in Nat /\ k \in 0 .. n /\ k + 1 \in 0 .. n
    OBVIOUS
  <2>2. Max(1 .. k + 1) = k + 1
    <3>1. 1 .. k + 1 \in SUBSET (1 .. k + 1)
      OBVIOUS
    <3> QED
      BY <2>1, <3>1, MaxFacts
  <2>3. f[1 .. k + 1] = f[(1 .. k + 1) \ {k + 1}] + Room(s[k + 1])
    BY <1>4, <2>1, <2>2
  <2>4. v[k + 1] = f[1 .. k + 1] /\ v[k] = f[1 .. k]
    BY <2>1
  <2> HIDE DEF v
  <2> QED
    BY <2>1, <2>3, <2>4
<1>7. v[n] = f[1 .. n]
  OBVIOUS
<1> HIDE DEF v
<1> QED
  BY <1>1, <1>5, <1>6, <1>7 DEF AddsThrough

(***************************************************************************)
(* The steps                                                               *)
(***************************************************************************)

(* The inductive invariant. *)
Inv ==
  /\ Sound(heap, Kept)
  /\ reading \in Seq(Entries) /\ Len(reading) <= 1
  /\ errors \in Seq(Entries) /\ Len(errors) <= QueueSize

LEMMA AppendedToKept ==
  ASSUME NEW u \in Seq(Entries), NEW v \in Seq(Entries), NEW e \in Entries
  PROVE  /\ Append(v, e) \in Seq(Entries) /\ u \o Append(v, e) \in Seq(Entries)
         /\ Longer(u \o v, u \o Append(v, e), e)
<1>1. /\ Len(u) \in Nat /\ Len(v) \in Nat
      /\ u \o v \in Seq(Entries) /\ Len(u \o v) = Len(u) + Len(v)
      /\ \A i \in 1 .. Len(u) + Len(v) :
           (u \o v)[i] = IF i <= Len(u) THEN u[i] ELSE v[i - Len(u)]
  BY ConcatProperties, LenProperties
<1> DEFINE w == Append(v, e)
<1>2. /\ w \in Seq(Entries) /\ Len(w) = Len(v) + 1 /\ w[Len(v) + 1] = e
      /\ \A i \in 1 .. Len(v) : w[i] = v[i]
  BY AppendProperties
<1> HIDE DEF w
<1>3. /\ u \o w \in Seq(Entries) /\ Len(u \o w) = Len(u) + Len(w)
      /\ \A i \in 1 .. Len(u) + Len(w) :
           (u \o w)[i] = IF i <= Len(u) THEN u[i] ELSE w[i - Len(u)]
  BY <1>2, ConcatProperties
<1>4. (u \o w)[Len(u) + Len(v) + 1] = e
  <2>1. Len(u) + Len(v) + 1 \in 1 .. Len(u) + Len(w) /\ ~ (Len(u) + Len(v) + 1 <= Len(u))
    BY <1>1, <1>2
  <2>2. Len(u) + Len(v) + 1 - Len(u) = Len(v) + 1
    BY <1>1
  <2> QED
    BY <1>2, <1>3, <2>1, <2>2
<1>5. ASSUME NEW i \in 1 .. Len(u) + Len(v)
      PROVE  (u \o w)[i] = (u \o v)[i]
  <2>1. i \in 1 .. Len(u) + Len(w) /\ (~ (i <= Len(u)) => i - Len(u) \in 1 .. Len(v))
    BY <1>1, <1>2
  <2> QED
    BY <1>1, <1>2, <1>3, <2>1
<1>6. Len(u \o w) = Len(u \o v) + 1
  BY <1>1, <1>2, <1>3
<1>7. Longer(u \o v, u \o w, e)
  BY <1>1, <1>4, <1>5, <1>6 DEF Longer
<1> QED
  BY <1>2, <1>3, <1>7 DEF w

LEMMA WithoutLast ==
  ASSUME NEW u \in Seq(Entries), NEW v \in Seq(Entries), Len(v) > 0
  PROVE  /\ Front(v) \in Seq(Entries) /\ Len(Front(v)) = Len(v) - 1
         /\ u \o Front(v) \in Seq(Entries) /\ Len(u \o v) = Len(u \o Front(v)) + 1
         /\ \A i \in 1 .. Len(u \o Front(v)) : (u \o Front(v))[i] = (u \o v)[i]
         /\ (u \o v)[Len(u \o v)] = Last(v) /\ Last(v) \in Entries
<1>1. /\ Len(u) \in Nat /\ Len(v) \in Nat \ {0}
      /\ u \o v \in Seq(Entries) /\ Len(u \o v) = Len(u) + Len(v)
      /\ \A i \in 1 .. Len(u) + Len(v) :
           (u \o v)[i] = IF i <= Len(u) THEN u[i] ELSE v[i - Len(u)]
  <2>1. Len(u) \in Nat /\ Len(v) \in Nat \ {0}
    BY LenProperties
  <2> QED
    BY <2>1, ConcatProperties
<1> DEFINE w == Front(v)
<1>2. /\ w \in Seq(Entries) /\ Len(w) = Len(v) - 1
      /\ \A i \in 1 .. Len(v) - 1 : w[i] = v[i]
  <2>1. \A i \in 1 .. Len(v) - 1 : v[i] \in Entries
    <3>1. \A i \in 1 .. Len(v) - 1 : i \in 1 .. Len(v)
      BY <1>1
    <3> QED
      BY <3>1, ElementOfSeq
  <2>2. 1 \in Int /\ Len(v) - 1 \in Int
    BY <1>1
  <2>3. /\ SubSeq(v, 1, Len(v) - 1) \in Seq(Entries)
        /\ Len(SubSeq(v, 1, Len(v) - 1)) = IF 1 <= Len(v) - 1 THEN (Len(v) - 1) - 1 + 1 ELSE 0
        /\ \A i \in 1 .. (Len(v) - 1) - 1 + 1 : SubSeq(v, 1, Len(v) - 1)[i] = v[1 + i - 1]
    BY <2>1, <2>2, SubSeqProperties
  <2>4. (Len(v) - 1) - 1 + 1 = Len(v) - 1 /\ \A i \in 1 .. Len(v) - 1 : 1 + i - 1 = i
    BY <1>1
  <2> QED
    BY <1>1, <2>3, <2>4 DEF Front
<1> HIDE DEF w
<1>3. /\ u \o w \in Seq(Entries) /\ Len(u \o w) = Len(u) + Len(w)
      /\ \A i \in 1 .. Len(u) + Len(w) :
           (u \o w)[i] = IF i <= Len(u) THEN u[i] ELSE w[i - Len(u)]
  BY <1>2, ConcatProperties
<1>4. Last(v) = v[Len(v)] /\ v[Len(v)] \in Entries
  <2>1. Len(v) \in 1 .. Len(v)
    BY <1>1
  <2> QED
    BY <2>1, ElementOfSeq DEF Last
<1>5. (u \o v)[Len(u) + Len(v)] = v[Len(v)]
  <2>1. /\ Len(u) + Len(v) \in 1 .. Len(u) + Len(v) /\ ~ (Len(u) + Len(v) <= Len(u))
        /\ Len(u) + Len(v) - Len(u) = Len(v)
    BY <1>1
  <2> QED
    BY <1>1, <2>1
<1>6. ASSUME NEW i \in 1 .. Len(u) + Len(w)
      PROVE  (u \o w)[i] = (u \o v)[i]
  <2>1. i \in 1 .. Len(u) + Len(v) /\ (~ (i <= Len(u)) => i - Len(u) \in 1 .. Len(v) - 1)
    BY <1>1, <1>2
  <2> QED
    BY <1>1, <1>2, <1>3, <2>1
<1> QED
  BY <1>1, <1>2, <1>3, <1>4, <1>5, <1>6 DEF w

LEMMA InitStep ==
  ASSUME Init
  PROVE  Inv
<1>1. HeapSize \in Nat \ {0} /\ QueueSize \in Nat \ {0}
  BY HeapAssumption
<1>2. << >> \in Seq(Entries) /\ Len(<< >>) = 0 /\ << >> \o << >> = << >>
  BY EmptySeq, ConcatEmptySeq
<1>3. reading = << >> /\ errors = << >> /\ Kept = << >>
  BY <1>2 DEF Init, Kept
<1>4. /\ heap \in Heaps /\ heap.wr = 0 /\ heap.count = HeapSize
      /\ \A c \in Cells : heap.data[c] = NUL
  BY <1>1 DEF Init, Heaps, Cells
<1>5. \A i \in 1 .. Len(<< >>) : (<< >>)[i].at = NULL
  BY <1>2
<1>6. Sound(heap, << >>)
  BY <1>2, <1>4, <1>5, Emptied
<1> QED
  BY <1>1, <1>2, <1>3, <1>6 DEF Inv

(* The copy of the text, or what stays when there is none or no room. *)
LEMMA Copied ==
  ASSUME NEW h, NEW u \in Seq(Entries), NEW v \in Seq(Entries),
         Sound(h, u \o v), NEW text \in Texts \cup {<< >>}
  PROVE  LET stored == text # << >> /\ ~ Refuses(h, text)
             copied == IF stored THEN StrNDup(h, text) ELSE h
             e      == Entry(IF stored THEN h.wr ELSE NULL, text)
         IN  /\ e \in Entries /\ e.at = IF stored THEN h.wr ELSE NULL
             /\ Sound(copied, u \o Append(v, e))
<1> DEFINE stored == text # << >> /\ ~ Refuses(h, text)
           copied == IF stored THEN StrNDup(h, text) ELSE h
           at == IF stored THEN h.wr ELSE NULL
           e == Entry(at, text)
<1>1. CASE stored
  <2>1. text \in Texts /\ ~ Refuses(h, text) /\ text # << >> /\ at = h.wr /\ copied = StrNDup(h, text)
    BY <1>1
  <2>2. h.wr \in Cells /\ h.wr # NULL
    <3>1. h.wr \in Cells /\ NULL \notin Cells
      BY DEF Sound, Heaps, Cells, NULL
    <3> QED
      BY <3>1
  <2> HIDE DEF stored, copied, at
  <2>3. e \in Entries /\ e.at = at /\ e = Entry(h.wr, text)
    BY <2>1, <2>2 DEF Entry, Entries
  <2> HIDE DEF e
  <2>4. u \o Append(v, e) \in Seq(Entries) /\ Longer(u \o v, u \o Append(v, e), e)
    BY <2>3, AppendedToKept
  <2>5. Sound(StrNDup(h, text), u \o Append(v, e))
    BY <2>1, <2>3, <2>4, Stores
  <2> QED
    BY <2>1, <2>3, <2>5 DEF copied, at, e, stored
<1>2. CASE ~ stored
  <2>1. at = NULL /\ copied = h
    BY <1>2
  <2> HIDE DEF stored, copied, at
  <2>2. e \in Entries /\ e.at = NULL
    BY <2>1 DEF Entry, Entries
  <2> HIDE DEF e
  <2>3. u \o Append(v, e) \in Seq(Entries) /\ Longer(u \o v, u \o Append(v, e), e)
    BY <2>2, AppendedToKept
  <2>4. Sound(h, u \o Append(v, e))
    BY <2>2, <2>3, AddsNothing
  <2> QED
    BY <2>1, <2>2, <2>4 DEF copied, at, e, stored
<1> QED
  BY <1>1, <1>2

LEMMA PushStep ==
  ASSUME Inv, NEW text \in Texts \cup {<< >>}, ErrorPush(text)
  PROVE  Inv'
<1> DEFINE stored == text # << >> /\ ~ Refuses(heap, text)
           copied == IF stored THEN StrNDup(heap, text) ELSE heap
           at == IF stored THEN heap.wr ELSE NULL
           e == Entry(at, text)
           none == Entry(NULL, << >>)
           more == reading \o Append(errors, e)
<1>1. /\ reading \in Seq(Entries) /\ Len(reading) <= 1 /\ errors \in Seq(Entries)
      /\ Len(errors) <= QueueSize /\ Sound(heap, reading \o errors)
      /\ QueueSize \in Nat \ {0} /\ Len(errors) \in Nat
  <2>1. errors \in Seq(Entries) /\ QueueSize \in Nat \ {0}
    BY HeapAssumption DEF Inv
  <2>2. Len(errors) \in Nat
    BY <2>1, LenProperties
  <2> QED
    BY <2>1, <2>2 DEF Inv, Kept
<1>2. e \in Entries /\ e.at = at /\ Sound(copied, more)
  BY <1>1, Copied
<1>3. reading' = reading
  BY DEF ErrorPush
<1>4. IF Len(errors) < QueueSize
      THEN heap' = copied /\ errors' = Append(errors, e)
      ELSE /\ heap' = Free(Free(copied, at, TRUE), Last(errors).at, TRUE)
           /\ errors' = Append(Front(errors), none)
  BY DEF ErrorPush, AddError
<1> HIDE DEF stored, copied, at, e
<1>5. /\ Append(errors, e) \in Seq(Entries) /\ more \in Seq(Entries)
      /\ Longer(reading \o errors, more, e)
  BY <1>1, <1>2, AppendedToKept
<1> HIDE DEF more, none
<1>6. CASE Len(errors) < QueueSize
  <2>1. heap' = copied /\ errors' = Append(errors, e) /\ Kept' = more
    BY <1>3, <1>4, <1>6 DEF Kept, more
  <2>2. Len(errors') = Len(errors) + 1
    BY <1>1, <1>2, <2>1, AppendProperties
  <2>3. Len(errors') <= QueueSize
    BY <1>1, <1>6, <2>2
  <2> QED
    BY <1>1, <1>2, <1>3, <1>5, <2>1, <2>3 DEF Inv
<1>7. CASE ~ (Len(errors) < QueueSize)
  <2> DEFINE rolled == Free(copied, at, TRUE)
             given == Free(rolled, Last(errors).at, TRUE)
             left == reading \o Front(errors)
  <2>1. heap' = given /\ errors' = Append(Front(errors), none)
    BY <1>4, <1>7
  <2>2. reading \o errors \in Seq(Entries)
    BY <1>1, ConcatProperties
  <2>3. Sound(rolled, reading \o errors)
    <3>1. /\ Len(more) = Len(reading \o errors) + 1 /\ more[Len(more)] = e
          /\ \A i \in 1 .. Len(reading \o errors) : (reading \o errors)[i] = more[i]
      BY <1>5 DEF Longer
    <3>2. Sound(Free(copied, more[Len(more)].at, TRUE), reading \o errors)
      BY <1>2, <2>2, <3>1, FreesYoungest
    <3> QED
      BY <1>2, <3>1, <3>2
  <2>4. Len(errors) > 0
    BY <1>1, <1>7
  <2>5. /\ Front(errors) \in Seq(Entries) /\ Len(Front(errors)) = Len(errors) - 1
        /\ left \in Seq(Entries) /\ Len(reading \o errors) = Len(left) + 1
        /\ \A i \in 1 .. Len(left) : left[i] = (reading \o errors)[i]
        /\ (reading \o errors)[Len(reading \o errors)] = Last(errors)
    BY <1>1, <2>4, WithoutLast
  <2> HIDE DEF rolled, left
  <2>6. Sound(given, left)
    <3>1. Sound(Free(rolled, (reading \o errors)[Len(reading \o errors)].at, TRUE), left)
      BY <2>3, <2>5, FreesYoungest
    <3> QED
      BY <2>5, <3>1
  <2>7. none \in Entries /\ none.at = NULL
    BY DEF none, Entry, Entries
  <2> HIDE DEF given
  <2>8. /\ Append(Front(errors), none) \in Seq(Entries)
        /\ reading \o Append(Front(errors), none) \in Seq(Entries)
        /\ Longer(left, reading \o Append(Front(errors), none), none)
    BY <1>1, <2>5, <2>7, AppendedToKept DEF left
  <2>9. Sound(given, reading \o Append(Front(errors), none))
    BY <2>6, <2>7, <2>8, AddsNothing
  <2>10. Len(errors') = Len(errors)
    <3>1. Len(errors') = Len(Front(errors)) + 1
      BY <2>1, <2>5, <2>7, AppendProperties
    <3> QED
      BY <1>1, <2>5, <3>1
  <2> QED
    BY <1>1, <1>3, <2>1, <2>8, <2>9, <2>10 DEF Inv, Kept
<1> QED
  BY <1>6, <1>7

LEMMA PopStep ==
  ASSUME Inv, ErrorPop
  PROVE  Inv'
<1> DEFINE x == Head(errors)
<1>1. /\ errors \in Seq(Entries) /\ errors # << >> /\ reading = << >> /\ Sound(heap, reading \o errors)
      /\ heap' = heap /\ reading' = << x >> /\ errors' = Tail(errors)
      /\ Len(errors) \in Nat \ {0} /\ Len(errors) <= QueueSize /\ QueueSize \in Nat \ {0}
  <2>1. errors \in Seq(Entries) /\ errors # << >>
    BY DEF Inv, ErrorPop
  <2> QED
    BY <2>1, EmptySeq, HeapAssumption DEF Inv, ErrorPop, Kept
<1>2. x \in Entries /\ Tail(errors) \in Seq(Entries) /\ Len(Tail(errors)) = Len(errors) - 1
  BY <1>1, HeadTailProperties
<1>3. << x >> \in Seq(Entries) /\ Len(<< x >>) = 1
  BY <1>2
<1>4. reading \o errors = errors /\ << x >> \o Tail(errors) = errors
  <2>1. 1 \in 1 .. Len(errors) /\ Len(errors) \in 1 .. Len(errors) /\ 1 + 1 = 2
    BY <1>1
  <2>2. SubSeq(errors, 1, Len(errors)) = << errors[1] >> \o SubSeq(errors, 1 + 1, Len(errors))
    BY <1>1, <2>1, SubSeqRecursiveFirst
  <2>3. SubSeq(errors, 1, Len(errors)) = errors /\ SubSeq(errors, 2, Len(errors)) = Tail(errors)
    BY <1>1, SubSeqFull, TailIsSubSeq
  <2>4. Head(errors) = errors[1]
    OBVIOUS
  <2>5. reading \o errors = errors
    BY <1>1, ConcatEmptySeq
  <2> QED
    BY <2>1, <2>2, <2>3, <2>4, <2>5
<1>5. Len(errors') <= QueueSize
  BY <1>1, <1>2
<1>6. Sound(heap', Kept')
  <2>1. Kept' = errors
    BY <1>1, <1>4 DEF Kept
  <2> QED
    BY <1>1, <1>4, <2>1
<1>7. reading' \in Seq(Entries) /\ Len(reading') <= 1 /\ errors' \in Seq(Entries)
  BY <1>1, <1>2, <1>3
<1> QED
  BY <1>5, <1>6, <1>7 DEF Inv

LEMMA ReadStep ==
  ASSUME Inv, ErrorRead
  PROVE  Inv'
<1>1. /\ reading \in Seq(Entries) /\ reading # << >> /\ Len(reading) <= 1
      /\ errors \in Seq(Entries) /\ Len(errors) <= QueueSize /\ Sound(heap, reading \o errors)
      /\ heap' = Free(heap, Head(reading).at, FALSE) /\ reading' = << >> /\ errors' = errors
  BY DEF Inv, ErrorRead, Kept
<1>2. Len(reading) = 1 /\ Len(errors) \in Nat
  <2>1. Len(reading) \in Nat \ {0} /\ Len(errors) \in Nat
    <3>1. Len(reading) \in Nat \ {0}
      BY <1>1, EmptySeq
    <3>2. Len(errors) \in Nat
      BY <1>1, LenProperties
    <3> QED
      BY <3>1, <3>2
  <2>2. Len(reading) <= 1
    BY DEF Inv
  <2> DEFINE n == Len(reading)
  <2>3. n \in Nat \ {0} /\ n <= 1
    BY <2>1, <2>2
  <2> HIDE DEF n
  <2>4. n = 1
    BY <2>3
  <2> QED
    BY <2>1, <2>4 DEF n
<1>3. /\ Len(reading \o errors) = Len(reading) + Len(errors)
      /\ \A i \in 1 .. Len(reading) + Len(errors) :
           (reading \o errors)[i] =
             IF i <= Len(reading) THEN reading[i] ELSE errors[i - Len(reading)]
  BY <1>1, ConcatProperties
<1>4. (reading \o errors)[1] = Head(reading)
  <2>1. 1 \in 1 .. Len(reading) + Len(errors) /\ 1 <= Len(reading)
    BY <1>2
  <2>2. (reading \o errors)[1] = reading[1]
    BY <1>3, <2>1
  <2> QED
    BY <2>2
<1>5. ASSUME NEW i \in 1 .. Len(errors)
      PROVE  errors[i] = (reading \o errors)[i + 1]
  <2>1. i + 1 \in 1 .. Len(reading) + Len(errors) /\ ~ (i + 1 <= Len(reading)) /\ i + 1 - Len(reading) = i
    BY <1>2
  <2> QED
    BY <1>3, <2>1
<1>6. Len(reading \o errors) = Len(errors) + 1
  BY <1>2, <1>3
<1>7. Sound(heap', errors)
  <2>1. Sound(Free(heap, (reading \o errors)[1].at, FALSE), errors)
    BY <1>1, <1>5, <1>6, FreesOldest
  <2> QED
    BY <1>1, <1>4, <2>1
<1>8. Kept' = errors /\ << >> \in Seq(Entries) /\ Len(<< >>) = 0
  BY <1>1, ConcatEmptySeq, EmptySeq DEF Kept
<1>9. reading' \in Seq(Entries) /\ Len(reading') <= 1 /\ Sound(heap', Kept')
  <2>1. reading' = << >>
    BY <1>1
  <2>2. reading' \in Seq(Entries) /\ Len(reading') <= 1
    BY <1>8, <2>1
  <2> QED
    BY <1>7, <1>8, <2>2
<1> QED
  BY <1>1, <1>9 DEF Inv

LEMMA ClearStep ==
  ASSUME Inv, ErrorClear
  PROVE  Inv'
<1> DEFINE n == Len(errors)
           left(k) == SubSeq(errors, k + 1, n)
<1>1. /\ reading = << >> /\ errors \in Seq(Entries) /\ Sound(heap, reading \o errors)
      /\ errors' = << >> /\ reading' = reading /\ QueueSize \in Nat \ {0}
  BY HeapAssumption DEF Inv, ErrorClear, Kept
<1>2. n \in Nat /\ DOMAIN errors = 1 .. n
  BY <1>1, LenProperties
<1>3. PICK v : FreesThrough(v, heap, errors, n) /\ Cleared(heap, errors) = v[n]
  <2> HIDE DEF n
  <2> QED
    BY <1>2, FreesInTurn
<1>4. heap' = v[n]
  <2>1. heap' = Cleared(heap, errors)
    BY DEF ErrorClear, Cleared
  <2> QED
    BY <1>3, <2>1
<1> HIDE DEF n
<1>5. ASSUME NEW k \in 0 .. n
      PROVE  /\ left(k) \in Seq(Entries) /\ Len(left(k)) = n - k
             /\ \A i \in 1 .. n - k : left(k)[i] = errors[k + i]
  <2>1. k + 1 \in Int /\ n \in Int /\ \A i \in k + 1 .. n : errors[i] \in Entries
    <3>1. ASSUME NEW i \in k + 1 .. n
          PROVE  errors[i] \in Entries
      <4>1. i \in 1 .. Len(errors)
        BY <1>2 DEF n
      <4> QED
        BY <1>1, <4>1, ElementOfSeq
    <3> QED
      BY <1>2, <3>1
  <2>2. /\ left(k) \in Seq(Entries)
        /\ Len(left(k)) = IF k + 1 <= n THEN n - (k + 1) + 1 ELSE 0
        /\ \A i \in 1 .. n - (k + 1) + 1 : left(k)[i] = errors[k + 1 + i - 1]
    BY <2>1, SubSeqProperties
  <2> HIDE DEF left
  <2>3. n - (k + 1) + 1 = n - k /\ (~ (k + 1 <= n) => n - k = 0)
    BY <1>2
  <2>4. \A i \in 1 .. n - k : k + 1 + i - 1 = k + i
    OBVIOUS
  <2> QED
    BY <2>2, <2>3, <2>4
<1> HIDE DEF left
<1> DEFINE done == {k \in 0 .. n : Sound(v[k], left(k))}
<1>6. 0 \in done
  <2>1. left(0) = errors
    <3>1. 0 + 1 = 1 /\ SubSeq(errors, 1, Len(errors)) = errors
      BY <1>1, SubSeqFull
    <3> QED
      BY <3>1 DEF left, n
  <2>2. reading \o errors = errors
    BY <1>1, ConcatEmptySeq
  <2>3. 0 \in 0 .. n /\ Sound(v[0], left(0))
    BY <1>1, <1>2, <1>3, <2>1, <2>2 DEF FreesThrough
  <2> QED
    BY <2>3
<1>7. ASSUME NEW k \in 0 .. n - 1, k \in done
      PROVE  k + 1 \in done
  <2>1. k \in 0 .. n /\ k + 1 \in 0 .. n /\ 1 \in 1 .. n - k
    BY <1>2
  <2>2. /\ left(k) \in Seq(Entries) /\ Len(left(k)) = n - k
        /\ \A i \in 1 .. n - k : left(k)[i] = errors[k + i]
    BY <1>5, <2>1
  <2>3. /\ left(k + 1) \in Seq(Entries) /\ Len(left(k + 1)) = n - (k + 1)
        /\ \A i \in 1 .. n - (k + 1) : left(k + 1)[i] = errors[k + 1 + i]
    BY <1>5, <2>1
  <2>4. Len(left(k)) = Len(left(k + 1)) + 1
    BY <1>2, <2>2, <2>3
  <2>5. ASSUME NEW i \in 1 .. Len(left(k + 1))
        PROVE  left(k + 1)[i] = left(k)[i + 1]
    <3>1. i \in 1 .. n - (k + 1) /\ i + 1 \in 1 .. n - k /\ k + 1 + i = k + (i + 1)
      BY <1>2, <2>3
    <3> QED
      BY <2>2, <2>3, <3>1
  <2>6. Sound(v[k], left(k)) /\ left(k)[1] = errors[k + 1]
    BY <1>7, <2>1, <2>2
  <2>7. Sound(Free(v[k], left(k)[1].at, FALSE), left(k + 1))
    BY <2>3, <2>4, <2>5, <2>6, FreesOldest
  <2>8. v[k + 1] = Free(v[k], errors[k + 1].at, FALSE)
    BY <1>3 DEF Relieved, FreesThrough
  <2> QED
    BY <2>1, <2>6, <2>7, <2>8
<1>8. \A k \in 0 .. n - 1 : k \in done => k + 1 \in done
  BY <1>7
<1> HIDE DEF done
<1>9. 0 .. n \subseteq done /\ n \in 0 .. n
  BY <1>2, <1>6, <1>8, UpTo
<1>10. Sound(v[n], left(n))
  BY <1>9 DEF done
<1>11. left(n) = << >>
  <2>1. n + 1 \in Int /\ n \in Int /\ n < n + 1
    BY <1>2
  <2> QED
    BY <2>1, SubSeqEmpty DEF left
<1>12. /\ << >> \in Seq(Entries) /\ Len(<< >>) = 0 /\ Kept' = << >>
  BY <1>1, EmptySeq, ConcatEmptySeq DEF Kept
<1>13. Sound(heap', Kept') /\ reading' \in Seq(Entries) /\ Len(reading') <= 1
       /\ errors' \in Seq(Entries) /\ Len(errors') <= QueueSize
  BY <1>1, <1>4, <1>10, <1>11, <1>12
<1> QED
  BY <1>13 DEF Inv

(***************************************************************************)
(* What the invariant says                                                 *)
(***************************************************************************)

LEMMA InvIsInductive ==
  ASSUME Inv, [Next]_vars
  PROVE  Inv'
<1>1. CASE \E text \in Texts \cup {<< >>} : ErrorPush(text)
  BY <1>1, PushStep
<1>2. CASE ErrorPop
  BY <1>2, PopStep
<1>3. CASE ErrorRead
  BY <1>3, ReadStep
<1>4. CASE ErrorClear
  BY <1>4, ClearStep
<1>5. CASE UNCHANGED vars
  BY <1>5 DEF vars, Inv, Kept
<1> QED
  BY <1>1, <1>2, <1>3, <1>4, <1>5 DEF Next

(* Entries without a text take no room. *)
LEMMA NoRoomBetween ==
  ASSUME NEW h \in Heaps, NEW s \in Seq(Entries), NEW b, NEW p,
         Layout(h, s, b, p), NEW i \in 0 .. Len(s), NEW j \in i .. Len(s),
         \A k \in i + 1 .. j : s[k].at = NULL
  PROVE  p[j] = p[i]
<1> DEFINE same == {d \in 0 .. j - i : p[i + d] = p[i]}
<1>1. Len(s) \in Nat
  BY LenProperties
<1>2. 0 \in same /\ j - i \in Nat
  <2>1. 0 \in 0 .. j - i /\ i + 0 = i /\ j - i \in Nat
    BY <1>1
  <2> QED
    BY <2>1
<1>3. ASSUME NEW d \in 0 .. j - i - 1, d \in same
      PROVE  d + 1 \in same
  <2>1. /\ d + 1 \in 0 .. j - i /\ i + (d + 1) \in i + 1 .. j /\ i + (d + 1) \in 1 .. Len(s)
        /\ i + (d + 1) - 1 = i + d
    BY <1>1
  <2>2. p[i + (d + 1)] = p[i + (d + 1) - 1]
    BY <2>1, LayoutFacts
  <2>3. p[i + d] = p[i]
    BY <1>3
  <2> QED
    BY <2>1, <2>2, <2>3
<1>4. \A d \in 0 .. j - i - 1 : d \in same => d + 1 \in same
  BY <1>3
<1> HIDE DEF same
<1>5. 0 .. j - i \subseteq same
  BY <1>2, <1>4, UpTo
<1>6. j - i \in 0 .. j - i /\ i + (j - i) = j
  BY <1>1, <1>2
<1>7. j - i \in same
  BY <1>5, <1>6
<1>8. p[i + (j - i)] = p[i]
  BY <1>7 DEF same
<1> QED
  BY <1>6, <1>8

LEMMA RemainderIsWrap ==
  ASSUME NEW x \in Nat, x < 2 * HeapSize
  PROVE  x % HeapSize = Wrap(x)
<1>1. HeapSize \in Nat \ {0}
  BY HeapAssumption
<1>2. CASE x < HeapSize
  BY <1>1, <1>2 DEF Wrap
<1>3. CASE ~ (x < HeapSize)
  <2>1. x = HeapSize * 1 + (x - HeapSize) /\ x - HeapSize \in 0 .. HeapSize - 1
    BY <1>1, <1>3
  <2> QED
    BY <1>1, <1>3, <2>1 DEF Wrap
<1> QED
  BY <1>2, <1>3

LEMMA RoomsAddUp ==
  ASSUME NEW h \in Heaps, NEW s \in Seq(Entries), NEW b, NEW p, Layout(h, s, b, p)
  PROVE  Rooms(s) = p[Len(s)]
<1> DEFINE n == Len(s)
<1>1. n \in Nat /\ DOMAIN s = 1 .. n
  BY LenProperties
<1>2. PICK v : AddsThrough(v, s, n) /\ Rooms(s) = v[n]
  <2> HIDE DEF n
  <2> QED
    BY <1>1, AddsInTurn
<1>3. p[0] = 0 /\ \A i \in 1 .. n : p[i] = p[i - 1] + Room(s[i])
  BY DEF Layout, Places
<1> HIDE DEF n
<1> DEFINE same == {k \in 0 .. n : v[k] = p[k]}
<1>4. 0 \in same
  BY <1>1, <1>2, <1>3 DEF AddsThrough
<1>5. ASSUME NEW k \in 0 .. n - 1, k \in same
      PROVE  k + 1 \in same
  <2>1. k + 1 \in 0 .. n /\ k + 1 \in 1 .. n /\ (k + 1) - 1 = k
    BY <1>1
  <2>2. v[k + 1] = v[k] + Room(s[k + 1])
    BY <1>2 DEF AddsThrough
  <2> QED
    BY <1>3, <1>5, <2>1, <2>2
<1>6. \A k \in 0 .. n - 1 : k \in same => k + 1 \in same
  BY <1>5
<1> HIDE DEF same
<1>7. 0 .. n \subseteq same /\ n \in 0 .. n
  BY <1>1, <1>4, <1>6, UpTo
<1> QED
  BY <1>2, <1>7 DEF same, n

LEMMA InvImpliesSound ==
  ASSUME Inv
  PROVE  HeapSound
<1> DEFINE s == Kept
           n == Len(s)
<1>1. /\ heap \in Heaps /\ s \in Seq(Entries) /\ HeapSize \in Nat \ {0}
  BY HeapAssumption DEF Inv, Sound
<1>2. PICK b, p : Layout(heap, s, b, p)
  BY DEF Inv, Sound
<1>3. n \in Nat /\ DOMAIN s = 1 .. n
  BY <1>1, LenProperties
<1> HIDE DEF s
<1>4. /\ b \in Cells /\ b \in 0 .. HeapSize - 1 /\ p[0] = 0 /\ p[n] \in 0 .. HeapSize
      /\ heap.count = HeapSize - p[n] /\ heap.wr = Wrap(b + p[n])
      /\ p[n] = 0 => b = 0
      /\ \A x \in p[n] .. HeapSize - 1 : heap.data[Wrap(b + x)] = NUL
  BY <1>2, <1>3 DEF Layout, Places, Cells
<1>5. \A i \in 1 .. n :
        /\ p[i - 1] \in 0 .. HeapSize /\ p[i] \in 0 .. HeapSize /\ p[n] \in 0 .. HeapSize
        /\ p[i] <= p[n] /\ p[i] = p[i - 1] + Room(s[i])
        /\ s[i].at = NULL => p[i] = p[i - 1]
        /\ s[i].at # NULL =>
              /\ s[i].text \in Texts /\ Len(s[i].text) \in Nat \ {0}
              /\ p[i] = p[i - 1] + (Len(s[i].text) + 1) /\ p[i - 1] + Len(s[i].text) + 1 <= HeapSize
              /\ s[i].at = Wrap(b + p[i - 1])
              /\ Stands(heap.data, Wrap(b + p[i - 1]), s[i].text)
  BY <1>1, <1>2, LayoutFacts
<1>6. Stored = {i \in 1 .. n : s[i].at # NULL} /\ Kept = s
  BY <1>3 DEF Stored, s
<1>7. \A i \in 0 .. n : \A j \in i .. n : (\A k \in i + 1 .. j : s[k].at = NULL) => p[j] = p[i]
  BY <1>1, <1>2, NoRoomBetween
<1>8. Rooms(s) = p[n]
  BY <1>1, <1>2, RoomsAddUp
<1> HIDE DEF n
<1>9. TextsIntact
  <2> SUFFICES ASSUME NEW i \in Stored
               PROVE  TextAt(heap, Kept[i].at) = Kept[i].text
    BY DEF TextsIntact
  <2>1. i \in 1 .. n /\ s[i].at # NULL
    BY <1>6
  <2>2. /\ s[i].text \in Texts /\ Len(s[i].text) \in Nat \ {0} /\ p[i - 1] \in 0 .. HeapSize
        /\ p[i - 1] + Len(s[i].text) + 1 <= HeapSize
        /\ s[i].at = Wrap(b + p[i - 1]) /\ Stands(heap.data, Wrap(b + p[i - 1]), s[i].text)
    BY <1>5, <2>1
  <2> DEFINE q == p[i - 1]
             text == s[i].text
  <2>3. q \in 0 .. HeapSize - 1 /\ Len(text) + 1 <= HeapSize
    <3>1. q \in 0 .. HeapSize /\ Len(text) \in Nat \ {0} /\ q + Len(text) + 1 <= HeapSize
      BY <2>2
    <3> HIDE DEF q, text
    <3> QED
      BY <1>1, <3>1
  <2>4. s[i].at \in Cells /\ Stands(heap.data, s[i].at, text)
    <3>1. Wrap(b + q) \in Cells
      BY <1>4, <2>3, RingFacts
    <3> QED
      BY <2>2, <3>1
  <2>5. TextAt(heap, s[i].at) = text
    BY <1>1, <2>2, <2>3, <2>4, ReadsBack
  <2> QED
    BY <1>6, <2>5
<1>10. CountExact
  <2>1. Rooms(Kept) = p[n]
    BY <1>6, <1>8
  <2>2. CountExact <=> heap.count = HeapSize - Rooms(Kept)
    BY DEF CountExact, Rooms
  <2> QED
    BY <1>4, <2>1, <2>2
<1>11. BackToBack
  <2> SUFFICES ASSUME NEW i \in Stored
               PROVE  (s[i].at + Room(s[i])) % HeapSize
                        = IF {j \in Stored : j > i} = {} THEN heap.wr
                          ELSE s[Min({j \in Stored : j > i})].at
    BY <1>6 DEF BackToBack
  <2> DEFINE younger == {j \in Stored : j > i}
             q == p[i - 1]
             r == Room(s[i])
  <2>1. i \in 1 .. n /\ s[i].at # NULL /\ i \in 0 .. n
    BY <1>6
  <2>2. /\ q \in 0 .. HeapSize /\ p[i] \in 0 .. HeapSize /\ p[i] = q + r
        /\ s[i].at = Wrap(b + q) /\ r \in 2 .. HeapSize
    <3>1. /\ p[i - 1] \in 0 .. HeapSize /\ p[i] \in 0 .. HeapSize /\ p[i] = p[i - 1] + Room(s[i])
          /\ Len(s[i].text) \in Nat \ {0} /\ p[i] = p[i - 1] + (Len(s[i].text) + 1)
          /\ s[i].at = Wrap(b + p[i - 1])
      BY <1>5, <2>1
    <3>2. Room(s[i]) = Len(s[i].text) + 1
      BY <2>1 DEF Room
    <3> HIDE DEF r
    <3>3. r = Len(s[i].text) + 1 /\ r \in Nat /\ r > 1
      BY <3>1, <3>2 DEF r
    <3> QED
      BY <1>1, <3>1, <3>3 DEF r
  <2> HIDE DEF q, r, younger
  <2>3. (s[i].at + r) % HeapSize = Wrap(b + p[i])
    <3>1. s[i].at \in Cells /\ s[i].at \in 0 .. HeapSize - 1
      <4>1. q \in 0 .. HeapSize - 1
        BY <1>1, <2>2
      <4>2. Wrap(b + q) \in Cells
        BY <1>4, <4>1, RingFacts
      <4> QED
        BY <2>2, <4>2 DEF Cells
    <3>2. s[i].at + r \in Nat /\ s[i].at + r < 2 * HeapSize
      BY <1>1, <2>2, <3>1
    <3>3. (s[i].at + r) % HeapSize = Wrap(s[i].at + r)
      BY <3>2, RemainderIsWrap
    <3>4. q \in 0 .. HeapSize /\ r \in 0 .. HeapSize /\ q + r <= HeapSize /\ b + q + r = b + (q + r)
      BY <1>1, <1>4, <2>2
    <3>5. Wrap(Wrap(b + q) + r) = Wrap(b + q + r)
      BY <1>4, <3>4, RingFacts
    <3> QED
      BY <2>2, <3>3, <3>4, <3>5
  <2>4. CASE younger = {}
    <3>1. n \in i .. n /\ \A k \in i + 1 .. n : k \in 1 .. n /\ k > i
      BY <1>3, <2>1
    <3>2. \A k \in i + 1 .. n : s[k].at = NULL
      BY <1>6, <2>4, <3>1 DEF younger
    <3>3. p[n] = p[i]
      BY <1>7, <2>1, <3>1, <3>2
    <3> QED
      BY <1>4, <2>3, <2>4, <3>3 DEF younger, r
  <2>5. CASE younger # {}
    <3>1. younger \subseteq Nat
      BY <1>6 DEF younger
    <3>2. \E j \in younger : \A k \in younger : j <= k
      BY <2>5, <3>1, Least
    <3> DEFINE j == Min(younger)
    <3>3. j \in younger /\ \A k \in younger : j <= k
      BY <3>2 DEF Min
    <3> HIDE DEF j
    <3>4. j \in 1 .. n /\ s[j].at # NULL /\ j > i
      BY <1>6, <3>3 DEF younger
    <3>5. j - 1 \in i .. n /\ \A k \in i + 1 .. j - 1 : k \in 1 .. n /\ k > i /\ ~ (j <= k)
      BY <1>3, <2>1, <3>4
    <3>6. \A k \in i + 1 .. j - 1 : s[k].at = NULL
      BY <1>6, <3>3, <3>5 DEF younger
    <3>7. p[j - 1] = p[i]
      BY <1>7, <2>1, <3>5, <3>6
    <3>8. s[j].at = Wrap(b + p[j - 1])
      BY <1>5, <3>4
    <3> QED
      BY <2>3, <2>5, <3>7, <3>8 DEF younger, r, j
  <2> QED
    BY <2>4, <2>5 DEF younger
<1>12. RoomIsUsable
  <2> SUFFICES ASSUME heap.count > 0
               PROVE  heap.data[heap.wr] = NUL
    BY DEF RoomIsUsable
  <2>1. p[n] \in p[n] .. HeapSize - 1
    BY <1>1, <1>4
  <2> QED
    BY <1>4, <2>1
<1>13. DrainedIsFresh
  <2> SUFFICES ASSUME Stored = {}
               PROVE  /\ heap.count = HeapSize /\ heap.wr = 0
                      /\ \A c \in Cells : heap.data[c] = NUL
    BY DEF DrainedIsFresh
  <2>1. 0 \in 0 .. n /\ n \in 0 .. n /\ \A k \in 0 + 1 .. n : s[k].at = NULL
    BY <1>3, <1>6
  <2>2. p[n] = 0 /\ b = 0
    BY <1>4, <1>7, <2>1
  <2>3. heap.count = HeapSize /\ heap.wr = 0
    BY <1>1, <1>4, <2>2 DEF Wrap
  <2>4. ASSUME NEW c \in Cells
        PROVE  heap.data[c] = NUL
    <3>1. PICK x \in 0 .. HeapSize - 1 : c = Wrap(b + x)
      BY <1>4, RingFacts
    <3> QED
      BY <1>4, <2>2, <3>1
  <2> QED
    BY <2>3, <2>4
<1> QED
  BY <1>9, <1>10, <1>11, <1>12, <1>13 DEF HeapSound

(* The pointers and the counter of the heap stay in their ranges, the      *)
(* queue within its length, and one error at most is being reported        *)
(* (utils.c's scpiheap_strndup and scpiheap_free, error.c).                *)
THEOREM TypeCorrect == Spec => []TypeOK
<1>1. Init => Inv
  BY InitStep
<1>2. Inv /\ [Next]_vars => Inv'
  BY InvIsInductive
<1>3. Inv => TypeOK
  BY DEF Inv, Sound, Heaps, TypeOK
<1> QED
  BY <1>1, <1>2, <1>3, PTL DEF Spec

(* Every text given to the heap reads back whole until its error has been  *)
(* reported or given up, the counter of free cells is exact, the texts lie *)
(* back to back, free room is never refused, and an empty heap is as good  *)
(* as new (scpiheap_strndup, scpiheap_get_parts and scpiheap_free, in the  *)
(* order in which error.c calls them).                                     *)
THEOREM HeapStaysSound == Spec => []HeapSound
<1>1. Init => Inv
  BY InitStep
<1>2. Inv /\ [Next]_vars => Inv'
  BY InvIsInductive
<1>3. Inv => HeapSound
  BY InvImpliesSound
<1> QED
  BY <1>1, <1>2, <1>3, PTL DEF Spec

=============================================================================
