------------------------ MODULE ProgramMessageProofs ------------------------
(***************************************************************************)
(* Proofs about ProgramMessage, for messages of any number of units with   *)
(* any number of parameters, and callbacks that make any number of calls:  *)
(* the response is the answers, and the result tells of the errors.        *)
(***************************************************************************)
EXTENDS ProgramMessage, ListProofs

Fragments == Seq(Tokens)

(* What has been written, and what is meant by it, are sequences of tokens.*)
Typed ==
  /\ output \in Fragments
  /\ answer \in Seq(Fragments)
  /\ answers \in Seq(Seq(Fragments))

(* The block of the running callback: what it has yet to carry, and that   *)
(* its header is in the answer.                                            *)
BlockKept ==
  /\ block \in [announced : Nat, written : Nat, open : BOOLEAN]
  /\ pc = "callback" => arbitrary_remaining + block.written = block.announced
  /\ pc # "callback" => block = NoBlock
  /\ block.open => answer # << >>

(* The errors pushed for this message are told by the result, but for      *)
(* those of the running command.                                           *)
ErrorsTold ==
  pushed = 0 <=> result /\ (pc = "callback" => ~ cmd_error)

(* What the running command has written behind the answers before it. *)
Running ==
  IF pc = "callback"
    THEN (IF IsQuery /\ answers # << >> THEN <<"SEMI">> ELSE << >>) \o JoinedBy("COMMA", answer)
    ELSE << >>

(* A delimiter is due exactly behind a whole value. *)
DelimiterDue == ~ block.open => (output_count > 0 <=> answer # << >>)

(* The response so far. *)
Answered ==
  /\ ~ first_output => answers # << >>
  /\ ~ mishap => /\ first_output => answers = << >>
                 /\ pc # "idle" => output = Formatted \o Running
                 /\ pc = "callback" => DelimiterDue

IInv ==
  /\ TypeOK /\ Typed /\ BlockKept /\ ErrorsTold /\ Answered
  /\ ResponseWellFormed /\ OneNewLine

(***************************************************************************)
(* Joining texts                                                           *)
(***************************************************************************)

LEMMA JoinTwo ==
  ASSUME NEW x \in Fragments, NEW y \in Fragments
  PROVE  x \o y \in Fragments
BY ConcatProperties DEF Fragments

LEMMA JoinTwice ==
  ASSUME NEW x \in Fragments, NEW y \in Fragments, NEW z \in Fragments
  PROVE  (x \o y) \o z = x \o (y \o z)
BY ConcatAssociative DEF Fragments

(* One text behind those before it. *)
Link(sep, text, i, more) == text \o (IF i = 1 THEN << >> ELSE <<sep>>) \o more

JoinStep(f, sep, texts, i) == IF i = 0 THEN << >> ELSE Link(sep, f[i - 1], i, texts[i])

Joining(f, sep, texts, n) == f = [i \in 0 .. n |-> JoinStep(f, sep, texts, i)]

LEMMA JoiningExists ==
  ASSUME NEW sep, NEW texts, NEW n \in Nat
  PROVE  \E f : Joining(f, sep, texts, n)
<1> DEFINE S == {k \in Nat : \E f : Joining(f, sep, texts, k)}
<1>1. 0 \in S
  <2> DEFINE f == [i \in 0 .. 0 |-> << >>]
  <2>1. \A i \in 0 .. 0 : JoinStep(f, sep, texts, i) = << >>
    BY DEF JoinStep
  <2>2. Joining(f, sep, texts, 0)
    BY <2>1 DEF Joining
  <2> QED
    BY <2>2
<1>2. ASSUME NEW k \in 0 .. n - 1, k \in S
      PROVE  k + 1 \in S
  <2>1. PICK f : Joining(f, sep, texts, k)
    BY <1>2
  <2> DEFINE g == [i \in 0 .. k + 1 |->
                     IF i = k + 1 THEN Link(sep, f[k], k + 1, texts[k + 1]) ELSE f[i]]
  <2>2. k \in Nat
    OBVIOUS
  <2>3. ASSUME NEW i \in 0 .. k + 1
        PROVE  g[i] = JoinStep(g, sep, texts, i)
    <3>1. CASE i = k + 1
      <4>1. k \in 0 .. k + 1 /\ k # k + 1 /\ i # 0 /\ i - 1 = k
        BY <2>2, <3>1
      <4>2. g[i - 1] = f[k] /\ g[i] = Link(sep, f[k], k + 1, texts[k + 1])
        BY <3>1, <4>1
      <4> HIDE DEF g
      <4> QED
        BY <3>1, <4>1, <4>2 DEF JoinStep
    <3>2. CASE i # k + 1
      <4>1. i \in 0 .. k
        BY <2>2, <3>2
      <4>2. f[i] = JoinStep(f, sep, texts, i) /\ g[i] = f[i]
        BY <2>1, <3>2, <4>1 DEF Joining
      <4>3. i # 0 => i - 1 \in 0 .. k + 1 /\ i - 1 # k + 1
        BY <2>2, <4>1
      <4>4. i # 0 => g[i - 1] = f[i - 1]
        BY <4>3
      <4> HIDE DEF g
      <4> QED
        BY <4>2, <4>4 DEF JoinStep
    <3> QED
      BY <3>1, <3>2
  <2>4. g = [i \in 0 .. k + 1 |-> JoinStep(g, sep, texts, i)]
    <3> DEFINE G(i) == JoinStep(g, sep, texts, i)
    <3>1. \A i \in 0 .. k + 1 : g[i] = G(i)
      BY <2>3
    <3>2. g = [i \in 0 .. k + 1 |-> g[i]]
      OBVIOUS
    <3> HIDE DEF G, g
    <3>3. [i \in 0 .. k + 1 |-> g[i]] = [i \in 0 .. k + 1 |-> G(i)]
      BY <3>1
    <3>4. g = [i \in 0 .. k + 1 |-> G(i)]
      BY <3>2, <3>3
    <3> QED
      BY <3>4 DEF G
  <2>5. Joining(g, sep, texts, k + 1)
    <3> HIDE DEF g
    <3> QED
      BY <2>4 DEF Joining
  <2> QED
    BY <2>2, <2>5
<1>3. n \in S
  <2> HIDE DEF S
  <2>1. 0 .. n \subseteq S
    BY <1>1, <1>2, UpTo
  <2> QED
    BY <2>1
<1> QED
  BY <1>3

(* The texts are joined one after the other. *)
JoinsThrough(v, sep, texts, n) ==
  v[0] = << >> /\ \A k \in 1 .. n : v[k] = Link(sep, v[k - 1], k, texts[k])

LEMMA JoinsInTurn ==
  ASSUME NEW sep, NEW texts, Len(texts) \in Nat
  PROVE  \E v : JoinsThrough(v, sep, texts, Len(texts)) /\ JoinedBy(sep, texts) = v[Len(texts)]
<1> DEFINE n == Len(texts)
           v == CHOOSE f : Joining(f, sep, texts, n)
<1>1. JoinedBy(sep, texts) = v[n]
  BY DEF JoinedBy, Joining, JoinStep, Link
<1>2. Joining(v, sep, texts, n)
  BY JoiningExists
<1> HIDE DEF v, n
<1>3. n \in Nat
  BY DEF n
<1>4. \A i \in 0 .. n : v[i] = JoinStep(v, sep, texts, i)
  BY <1>2 DEF Joining
<1>5. v[0] = << >>
  <2>1. 0 \in 0 .. n
    BY <1>3
  <2> QED
    BY <1>4, <2>1 DEF JoinStep
<1>6. ASSUME NEW k \in 1 .. n
      PROVE  v[k] = Link(sep, v[k - 1], k, texts[k])
  <2>1. k \in 0 .. n /\ k # 0
    BY <1>3
  <2> QED
    BY <1>4, <2>1 DEF JoinStep
<1>7. JoinsThrough(v, sep, texts, n)
  BY <1>5, <1>6 DEF JoinsThrough
<1> QED
  BY <1>1, <1>7 DEF n

LEMMA LinkFacts ==
  ASSUME NEW sep \in Tokens, NEW text \in Fragments, NEW i, NEW more \in Fragments
  PROVE  /\ Link(sep, text, i, more) \in Fragments
         /\ \A z \in Fragments : Link(sep, text, i, more \o z) = Link(sep, text, i, more) \o z
<1> DEFINE s == IF i = 1 THEN << >> ELSE <<sep>>
           t == text \o s
<1>1. s \in Fragments
  BY DEF Fragments
<1>2. Link(sep, text, i, more) = t \o more /\ \A z : Link(sep, text, i, more \o z) = t \o (more \o z)
  BY DEF Link
<1> HIDE DEF s
<1>3. t \in Fragments
  BY <1>1, JoinTwo
<1> HIDE DEF t
<1>4. t \o more \in Fragments
  BY <1>3, JoinTwo
<1>5. ASSUME NEW z \in Fragments
      PROVE  t \o (more \o z) = (t \o more) \o z
  BY <1>3, JoinTwice
<1> QED
  BY <1>2, <1>4, <1>5

(* Joining begins with what joining the texts before gave.                 *)
LEMMA JoinsAlike ==
  ASSUME NEW sep, NEW r, NEW s, NEW n \in Nat, \A k \in 1 .. n : s[k] = r[k],
         NEW v, JoinsThrough(v, sep, r, n), NEW w, JoinsThrough(w, sep, s, n)
  PROVE  v[n] = w[n]
<1> DEFINE S == {k \in Nat : v[k] = w[k]}
<1>1. 0 \in S
  BY DEF JoinsThrough
<1>2. ASSUME NEW k \in 0 .. n - 1, k \in S
      PROVE  k + 1 \in S
  <2>1. k + 1 \in 1 .. n /\ (k + 1) - 1 = k /\ k + 1 \in Nat
    OBVIOUS
  <2>2. /\ v[k + 1] = Link(sep, v[(k + 1) - 1], k + 1, r[k + 1])
        /\ w[k + 1] = Link(sep, w[(k + 1) - 1], k + 1, s[k + 1])
    BY <2>1 DEF JoinsThrough
  <2>3. v[k] = w[k] /\ s[k + 1] = r[k + 1]
    BY <1>2, <2>1
  <2> QED
    BY <2>1, <2>2, <2>3
<1>3. n \in S
  <2> HIDE DEF S
  <2>1. 0 .. n \subseteq S
    BY <1>1, <1>2, UpTo
  <2> QED
    BY <2>1
<1> QED
  BY <1>3

LEMMA JoinedFacts ==
  ASSUME NEW sep \in Tokens, NEW texts \in Seq(Fragments)
  PROVE  JoinedBy(sep, texts) \in Fragments
<1> DEFINE n == Len(texts)
<1>1. n \in Nat /\ \A k \in 1 .. n : texts[k] \in Fragments
  BY ElementOfSeq
<1>2. PICK v : JoinsThrough(v, sep, texts, n) /\ JoinedBy(sep, texts) = v[n]
  BY <1>1, JoinsInTurn
<1> HIDE DEF n
<1> DEFINE S == {k \in Nat : v[k] \in Fragments}
<1>3. 0 \in S
  <2>1. v[0] = << >>
    BY <1>2 DEF JoinsThrough
  <2>2. << >> \in Fragments
    BY DEF Fragments
  <2> QED
    BY <2>1, <2>2
<1>4. ASSUME NEW k \in 0 .. n - 1, k \in S
      PROVE  k + 1 \in S
  <2>1. k + 1 \in 1 .. n /\ (k + 1) - 1 = k /\ k + 1 \in Nat
    BY <1>1
  <2>2. v[k + 1] = Link(sep, v[(k + 1) - 1], k + 1, texts[k + 1])
    BY <1>2, <2>1 DEF JoinsThrough
  <2>3. v[k] \in Fragments /\ texts[k + 1] \in Fragments
    BY <1>1, <1>4, <2>1
  <2> QED
    BY <2>1, <2>2, <2>3, LinkFacts
<1>5. n \in S
  <2> HIDE DEF S
  <2>1. 0 .. n \subseteq S
    BY <1>1, <1>3, <1>4, UpTo
  <2> QED
    BY <1>1, <2>1
<1> QED
  BY <1>2, <1>5

LEMMA NothingJoined ==
  ASSUME NEW sep
  PROVE  JoinedBy(sep, << >>) = << >>
<1>1. Len(<< >>) = 0
  OBVIOUS
<1>2. PICK v : JoinsThrough(v, sep, << >>, 0) /\ JoinedBy(sep, << >>) = v[0]
  BY <1>1, JoinsInTurn
<1> QED
  BY <1>2 DEF JoinsThrough

(* One more text comes behind a separator, unless it is the first. *)
LEMMA OneMoreJoined ==
  ASSUME NEW sep \in Tokens, NEW texts \in Seq(Fragments), NEW text \in Fragments
  PROVE  JoinedBy(sep, Append(texts, text))
           = JoinedBy(sep, texts) \o (IF texts = << >> THEN << >> ELSE <<sep>>) \o text
<1> DEFINE n == Len(texts)
           more == Append(texts, text)
<1>1. /\ more \in Seq(Fragments) /\ Len(more) = n + 1 /\ more[n + 1] = text /\ n \in Nat
      /\ \A k \in 1 .. n : more[k] = texts[k]
  BY AppendProperties
<1>3. texts = << >> <=> n + 1 = 1
  BY <1>1, EmptySeq
<1>4. PICK v : JoinsThrough(v, sep, texts, n) /\ JoinedBy(sep, texts) = v[n]
  BY <1>1, JoinsInTurn
<1> HIDE DEF more, n
<1>5. PICK w : JoinsThrough(w, sep, more, n + 1) /\ JoinedBy(sep, more) = w[n + 1]
  <2>1. Len(more) = n + 1 /\ n + 1 \in Nat
    BY <1>1
  <2> QED
    BY <2>1, JoinsInTurn
<1>6. JoinsThrough(w, sep, more, n)
  BY <1>1, <1>5 DEF JoinsThrough
<1>7. v[n] = w[n]
  BY <1>1, <1>4, <1>6, JoinsAlike
<1>8. w[n + 1] = Link(sep, w[n], n + 1, text)
  <2>1. n + 1 \in 1 .. n + 1 /\ (n + 1) - 1 = n
    BY <1>1
  <2> QED
    BY <1>1, <1>5, <2>1 DEF JoinsThrough
<1>9. JoinedBy(sep, more) = Link(sep, JoinedBy(sep, texts), n + 1, text)
  BY <1>4, <1>5, <1>7, <1>8
<1> QED
  BY <1>3, <1>9 DEF Link, more

(* What the last text grows by, the whole grows by. *)
LEMMA LastGrows ==
  ASSUME NEW sep \in Tokens, NEW texts \in Seq(Fragments), texts # << >>, NEW z \in Fragments
  PROVE  /\ JoinedBy(sep, Append(Front(texts), Last(texts) \o z)) = JoinedBy(sep, texts) \o z
         /\ Append(Front(texts), Last(texts) \o z) \in Seq(Fragments)
         /\ Append(Front(texts), Last(texts) \o z) # << >>
<1>1. PICK r \in Seq(Fragments), x \in Fragments : texts = Append(r, x)
  BY SequenceEmptyOrAppend
<1>2. Front(texts) = r /\ Last(texts) = x
  <2> DEFINE n == Len(r)
             t == Append(r, x)
  <2>1. /\ t \in Seq(Fragments) /\ Len(t) = n + 1 /\ t[n + 1] = x /\ n \in Nat
        /\ \A k \in 1 .. n : t[k] = r[k]
    BY AppendProperties
  <2>2. t = texts
    BY <1>1
  <2> HIDE DEF t
  <2>3. Last(t) = x
    BY <2>1 DEF Last
  <2> DEFINE u == SubSeq(t, 1, n)
  <2>4. Front(t) = u
    <3>1. Len(t) - 1 = n
      BY <2>1
    <3> QED
      BY <3>1 DEF Front
  <2>5. 1 \in Int /\ n \in Int /\ \A i \in 1 .. n : t[i] \in Fragments
    BY <2>1, ElementOfSeq
  <2>6. /\ u \in Seq(Fragments) /\ Len(u) = IF 1 <= n THEN n - 1 + 1 ELSE 0
        /\ \A i \in 1 .. n - 1 + 1 : u[i] = t[1 + i - 1]
    BY <2>5, SubSeqProperties
  <2> HIDE DEF u
  <2>7. Len(u) = n /\ \A i \in 1 .. n : u[i] = r[i]
    BY <2>1, <2>6
  <2>8. u = r
    BY <2>6, <2>7, SeqEqual
  <2> QED
    BY <2>2, <2>3, <2>4, <2>8
<1> DEFINE s == IF r = << >> THEN << >> ELSE <<sep>>
           j == JoinedBy(sep, r)
<1>3. s \in Fragments /\ j \in Fragments
  BY JoinedFacts DEF Fragments
<1>4. x \o z \in Fragments
  BY JoinTwo
<1>5. JoinedBy(sep, texts) = j \o s \o x
  BY <1>1, OneMoreJoined
<1>6. JoinedBy(sep, Append(r, x \o z)) = j \o s \o (x \o z)
  BY <1>4, OneMoreJoined
<1> HIDE DEF s, j
<1>7. j \o s \in Fragments
  BY <1>3, JoinTwo
<1>8. j \o s \o (x \o z) = (j \o s \o x) \o z
  <2> DEFINE t == j \o s
  <2>1. t \in Fragments
    BY <1>7
  <2> HIDE DEF t
  <2>2. t \o (x \o z) = (t \o x) \o z
    BY <2>1, JoinTwice
  <2> QED
    BY <2>2 DEF t
<1>9. Append(r, x \o z) \in Seq(Fragments) /\ Append(r, x \o z) # << >>
  BY <1>4, AppendProperties
<1> QED
  BY <1>2, <1>5, <1>6, <1>8, <1>9

(***************************************************************************)
(* The response                                                            *)
(***************************************************************************)

LEMMA TokenFacts == "COMMA" \in Tokens /\ "SEMI" \in Tokens
BY DEF Tokens

LEMMA FunctionIsList ==
  ASSUME NEW S, NEW n \in Nat, NEW f \in [1 .. n -> S]
  PROVE  f \in Seq(S) /\ Len(f) = n
OBVIOUS

FormattedOf(list) == JoinedBy("SEMI", [i \in DOMAIN list |-> JoinedBy("COMMA", list[i])])

LEMMA FormattedMore ==
  ASSUME NEW list \in Seq(Seq(Fragments)), NEW a \in Seq(Fragments)
  PROVE  /\ FormattedOf(list) \in Fragments
         /\ FormattedOf(Append(list, a))
              = FormattedOf(list) \o (IF list = << >> THEN << >> ELSE <<"SEMI">>)
                                  \o JoinedBy("COMMA", a)
<1> DEFINE n == Len(list)
           more == Append(list, a)
           texts == [i \in 1 .. n |-> JoinedBy("COMMA", list[i])]
           longer == [i \in 1 .. n + 1 |-> JoinedBy("COMMA", more[i])]
           text == JoinedBy("COMMA", a)
<1>1. /\ n \in Nat /\ DOMAIN list = 1 .. n /\ \A i \in 1 .. n : list[i] \in Seq(Fragments)
  BY ElementOfSeq
<1>2. /\ more \in Seq(Seq(Fragments)) /\ Len(more) = n + 1 /\ more[n + 1] = a
      /\ \A i \in 1 .. n : more[i] = list[i]
  BY AppendProperties
<1>3. DOMAIN more = 1 .. n + 1
  BY <1>2
<1>4. list = << >> <=> n = 0
  BY EmptySeq
<1>5. FormattedOf(list) = JoinedBy("SEMI", texts)
  BY <1>1 DEF FormattedOf
<1>6. FormattedOf(more) = JoinedBy("SEMI", longer)
  <2> HIDE DEF more
  <2> QED
    BY <1>3 DEF FormattedOf
<1>7. \A i \in 1 .. n : JoinedBy("COMMA", list[i]) \in Fragments
  BY <1>1, JoinedFacts, TokenFacts
<1>8. text \in Fragments
  BY JoinedFacts, TokenFacts
<1> HIDE DEF more, n, text
<1>9. texts \in Seq(Fragments) /\ Len(texts) = n /\ \A i \in 1 .. n : texts[i] = JoinedBy("COMMA", list[i])
  <2>1. \A i \in 1 .. n : texts[i] = JoinedBy("COMMA", list[i])
    OBVIOUS
  <2>2. texts = [i \in 1 .. n |-> texts[i]]
    OBVIOUS
  <2> HIDE DEF texts
  <2>3. texts \in [1 .. n -> Fragments]
    BY <1>7, <2>1, <2>2
  <2> QED
    BY <1>1, <2>1, <2>3, FunctionIsList
<1>10. ASSUME NEW i \in 1 .. n + 1
       PROVE  longer[i] \in Fragments
  <2>1. CASE i \in 1 .. n
    BY <1>2, <1>7, <2>1
  <2>2. CASE i = n + 1
    BY <1>2, <1>8, <2>2 DEF text
  <2> QED
    BY <1>1, <2>1, <2>2
<1>11. /\ longer \in Seq(Fragments) /\ Len(longer) = n + 1
       /\ \A i \in 1 .. n + 1 : longer[i] = JoinedBy("COMMA", more[i])
  <2>1. n + 1 \in Nat
    BY <1>1
  <2>2. \A i \in 1 .. n + 1 : longer[i] = JoinedBy("COMMA", more[i])
    OBVIOUS
  <2>3. longer = [i \in 1 .. n + 1 |-> longer[i]]
    OBVIOUS
  <2> HIDE DEF longer
  <2>4. longer \in [1 .. n + 1 -> Fragments]
    BY <1>10, <2>3
  <2> QED
    BY <2>1, <2>2, <2>4, FunctionIsList
<1> HIDE DEF texts, longer
<1>12. /\ Append(texts, text) \in Seq(Fragments) /\ Len(Append(texts, text)) = n + 1
       /\ \A i \in 1 .. n : Append(texts, text)[i] = texts[i]
       /\ Append(texts, text)[n + 1] = text
  BY <1>8, <1>9, AppendProperties
<1>13. ASSUME NEW i \in 1 .. n + 1
       PROVE  longer[i] = Append(texts, text)[i]
  <2>1. CASE i \in 1 .. n
    BY <1>2, <1>9, <1>11, <1>12, <2>1
  <2>2. CASE i = n + 1
    BY <1>2, <1>11, <1>12, <2>2 DEF text
  <2>3. i \in 1 .. n \/ i = n + 1
    <3>1. n \in Nat
      BY <1>1
    <3> QED
      BY <3>1
  <2> QED
    BY <2>1, <2>2, <2>3
<1>14. longer = Append(texts, text)
  BY <1>11, <1>12, <1>13, SeqEqual
<1>15. texts = << >> <=> list = << >>
  <2>1. texts = << >> <=> n = 0
    BY <1>9, EmptySeq
  <2> QED
    BY <1>4, <2>1
<1>16. JoinedBy("SEMI", longer)
         = JoinedBy("SEMI", texts) \o (IF texts = << >> THEN << >> ELSE <<"SEMI">>) \o text
  BY <1>8, <1>9, <1>14, OneMoreJoined, TokenFacts
<1>17. FormattedOf(list) \in Fragments
  BY <1>5, <1>9, JoinedFacts, TokenFacts
<1> QED
  BY <1>5, <1>6, <1>15, <1>16, <1>17 DEF more, text

LEMMA FormattedIs ==
  ASSUME Typed
  PROVE  /\ Formatted = FormattedOf(answers) /\ Formatted \in Fragments
         /\ answers = << >> => Formatted = << >>
<1>1. Formatted = FormattedOf(answers)
  BY DEF Formatted, FormattedOf
<1>2. Formatted \in Fragments
  <2>1. answers \in Seq(Seq(Fragments)) /\ << >> \in Seq(Fragments)
    BY DEF Typed
  <2> QED
    BY <1>1, <2>1, FormattedMore
<1>3. ASSUME answers = << >>
      PROVE  Formatted = << >>
  <2>1. [i \in DOMAIN answers |-> JoinedBy("COMMA", answers[i])] = << >>
    BY <1>3
  <2> QED
    BY <2>1, NothingJoined DEF Formatted
<1> QED
  BY <1>1, <1>2, <1>3

LEMMA RunningIs ==
  ASSUME Typed, pc = "callback"
  PROVE  LET s == IF IsQuery /\ answers # << >> THEN <<"SEMI">> ELSE << >>
             j == JoinedBy("COMMA", answer)
         IN  s \in Fragments /\ j \in Fragments /\ Running = s \o j /\ s \o j \in Fragments
<1> DEFINE s == IF IsQuery /\ answers # << >> THEN <<"SEMI">> ELSE << >>
           j == JoinedBy("COMMA", answer)
<1>1. s \in Fragments
  BY TokenFacts DEF Fragments
<1>2. j \in Fragments
  BY JoinedFacts, TokenFacts DEF Typed
<1>3. Running = s \o j
  BY DEF Running
<1> HIDE DEF s, j
<1>4. s \o j \in Fragments
  BY <1>1, <1>2, JoinTwo
<1> QED
  BY <1>1, <1>2, <1>3, <1>4 DEF s, j

(* The part of the invariant that speaks of the response. *)
Responding == Typed /\ Answered /\ ResponseWellFormed /\ OneNewLine

(* A text without a new line behind one without. *)
LEMMA NoNewLine ==
  ASSUME NEW x \in Fragments, NEW z \in Fragments,
         \A i \in DOMAIN x : x[i] # "NL", \A i \in 1 .. Len(z) : z[i] # "NL"
  PROVE  \A i \in DOMAIN (x \o z) : (x \o z)[i] # "NL"
<1> DEFINE w == x \o z
<1>1. /\ x \in Seq(Tokens) /\ z \in Seq(Tokens)
  BY DEF Fragments
<1>2. /\ w \in Seq(Tokens) /\ Len(w) = Len(x) + Len(z) /\ Len(x) \in Nat /\ Len(z) \in Nat
      /\ \A i \in 1 .. Len(x) + Len(z) : w[i] = IF i <= Len(x) THEN x[i] ELSE z[i - Len(x)]
  BY <1>1, ConcatProperties
<1> HIDE DEF w
<1>3. ASSUME NEW i \in DOMAIN w
      PROVE  w[i] # "NL"
  <2>1. i \in 1 .. Len(x) + Len(z)
    BY <1>2
  <2>2. CASE i <= Len(x)
    <3>1. i \in DOMAIN x
      BY <1>1, <1>2, <2>1, <2>2
    <3> QED
      BY <1>2, <2>1, <2>2, <3>1
  <2>3. CASE ~ (i <= Len(x))
    <3>1. i - Len(x) \in 1 .. Len(z)
      BY <1>2, <2>1, <2>3
    <3> QED
      BY <1>2, <2>1, <2>3, <3>1
  <2> QED
    BY <2>2, <2>3
<1> QED
  BY <1>3 DEF w

(* A call of the callback that writes z. *)
LEMMA AnswerGrows ==
  ASSUME Responding, pc = "callback", pc' = pc, unit' = unit, first_output' = first_output,
         answers' = answers, answer' \in Seq(Fragments),
         NEW z \in Fragments, \A i \in 1 .. Len(z) : z[i] # "NL", output' = output \o z,
         ~ mishap' => /\ ~ mishap
                      /\ JoinedBy("COMMA", answer') = JoinedBy("COMMA", answer) \o z
                      /\ DelimiterDue'
  PROVE  Responding'
<1>1. Typed /\ output \in Fragments /\ answers \in Seq(Seq(Fragments))
  BY DEF Responding, Typed
<1>2. output' \in Fragments
  BY <1>1, JoinTwo
<1>3. Typed'
  BY <1>1, <1>2 DEF Typed
<1>4. ResponseWellFormed'
  BY DEF ResponseWellFormed
<1>5. OneNewLine'
  <2>1. \A i \in DOMAIN output : output[i] # "NL"
    BY DEF Responding, OneNewLine
  <2>2. \A i \in DOMAIN (output \o z) : (output \o z)[i] # "NL"
    BY <1>1, <2>1, NoNewLine
  <2> QED
    BY <2>2 DEF OneNewLine
<1>6. Answered'
  <2>1. ~ first_output' => answers' # << >>
    BY DEF Responding, Answered
  <2>2. ASSUME ~ mishap'
        PROVE  /\ (first_output' => answers' = << >>)
               /\ output' = Formatted' \o Running'
               /\ DelimiterDue'
    <3> DEFINE s == IF IsQuery /\ answers # << >> THEN <<"SEMI">> ELSE << >>
               j == JoinedBy("COMMA", answer)
    <3>1. /\ s \in Fragments /\ j \in Fragments /\ Running = s \o j /\ s \o j \in Fragments
      BY <1>1, RunningIs
    <3>2. Running' = s \o (j \o z)
      BY <2>2 DEF Running, IsQuery
    <3>3. output = Formatted \o Running /\ (first_output => answers = << >>)
      BY <2>2 DEF Responding, Answered
    <3>4. Formatted' = Formatted /\ Formatted \in Fragments
      BY <1>1, FormattedIs DEF Formatted
    <3> HIDE DEF s, j
    <3>5. (s \o j) \o z = s \o (j \o z)
      BY <3>1, JoinTwice
    <3>6. (Formatted \o (s \o j)) \o z = Formatted \o ((s \o j) \o z)
      <4> DEFINE r == s \o j
      <4>1. r \in Fragments
        BY <3>1
      <4> HIDE DEF r
      <4>2. (Formatted \o r) \o z = Formatted \o (r \o z)
        BY <3>4, <4>1, JoinTwice
      <4> QED
        BY <4>2 DEF r
    <3>7. output' = Formatted' \o Running'
      BY <3>1, <3>2, <3>3, <3>4, <3>5, <3>6
    <3> QED
      BY <2>2, <3>3, <3>7
  <2> QED
    BY <2>1, <2>2 DEF Answered
<1> QED
  BY <1>3, <1>4, <1>5, <1>6 DEF Responding

(* A call of the callback that writes nothing. *)
LEMMA NothingWritten ==
  ASSUME Responding,
         UNCHANGED <<pc, unit, first_output, output, output_count, answers, answer, block, mishap>>
  PROVE  Responding'
BY DEF Responding, Typed, Answered, Formatted, Running, DelimiterDue, IsQuery, ResponseWellFormed,
       OneNewLine

(***************************************************************************)
(* The actions                                                             *)
(***************************************************************************)

LEMMA UnitFacts ==
  ASSUME NEW u \in Units
  PROVE  u.sent \in Nat /\ (IF u.dangling THEN 0 ELSE u.sent) \in Nat
<1>1. MaxParameters \in Nat
  BY BoundsAssumption
<1>2. CASE u \in [kind : {"command", "query"}, sent : 0 .. MaxParameters, dangling : BOOLEAN]
  BY <1>1, <1>2
<1>3. CASE u \in [kind : {"undefined", "invalid", "empty"}, sent : {0}, dangling : {FALSE}]
  BY <1>3
<1> QED
  BY <1>2, <1>3 DEF Units

LEMMA InitStep == Init => IInv
<1> SUFFICES ASSUME Init
             PROVE  IInv
  OBVIOUS
<1>1. /\ pc = "idle" /\ unit = NoUnit /\ output = << >> /\ answers = << >> /\ answer = << >>
      /\ block = NoBlock /\ first_output = TRUE /\ result = TRUE /\ pushed = 0
      /\ cmd_error = FALSE /\ mishap = FALSE
      /\ input_count = 0 /\ output_count = 0 /\ arbitrary_remaining = 0 /\ units = 0 /\ calls = 0
  BY DEF Init
<1>2. TypeOK
  <2>1. NoUnit \in Units
    BY DEF NoUnit, Units
  <2>2. Range(output) = {}
    BY <1>1 DEF Range
  <2> QED
    BY <1>1, <2>1, <2>2 DEF TypeOK
<1>3. Typed
  BY <1>1 DEF Typed, Fragments
<1>4. BlockKept
  BY <1>1 DEF BlockKept, NoBlock
<1>5. ErrorsTold
  BY <1>1 DEF ErrorsTold
<1>6. Answered
  BY <1>1 DEF Answered
<1>7. ResponseWellFormed /\ OneNewLine
  BY <1>1 DEF ResponseWellFormed, OneNewLine
<1> QED
  BY <1>2, <1>3, <1>4, <1>5, <1>6, <1>7 DEF IInv

LEMMA RangeTyped ==
  ASSUME NEW x \in Fragments
  PROVE  Range(x) \subseteq Tokens
<1>1. ASSUME NEW i \in DOMAIN x
      PROVE  x[i] \in Tokens
  <2>1. x \in Seq(Tokens) /\ i \in 1 .. Len(x)
    BY DEF Fragments
  <2> QED
    BY <2>1, ElementOfSeq
<1> QED
  BY <1>1 DEF Range

LEMMA ParseStep ==
  ASSUME IInv, Parse
  PROVE  IInv'
<1>1. /\ pc = "idle" /\ pc' = "units" /\ output_count' = 0 /\ first_output' = TRUE
      /\ result' = TRUE /\ output' = << >> /\ units' = 0 /\ pushed' = 0 /\ answers' = << >>
      /\ mishap' = FALSE /\ unit' = unit /\ input_count' = input_count
      /\ arbitrary_remaining' = arbitrary_remaining /\ cmd_error' = cmd_error /\ calls' = calls
      /\ answer' = answer /\ block' = block
  BY DEF Parse
<1>2. TypeOK'
  <2>1. Range(output') = {}
    BY <1>1 DEF Range
  <2> QED
    BY <1>1, <2>1 DEF IInv, TypeOK
<1>3. Typed'
  <2>1. << >> \in Fragments /\ << >> \in Seq(Seq(Fragments))
    BY DEF Fragments
  <2> QED
    BY <1>1, <2>1 DEF IInv, Typed
<1>4. BlockKept'
  BY <1>1 DEF IInv, BlockKept
<1>5. ErrorsTold'
  BY <1>1 DEF ErrorsTold
<1>6. Answered'
  <2>1. Running' = << >>
    BY <1>1 DEF Running
  <2>2. Formatted' = << >>
    <3>1. [i \in DOMAIN answers' |-> JoinedBy("COMMA", answers'[i])] = << >>
      BY <1>1
    <3> QED
      BY <3>1, NothingJoined DEF Formatted
  <2>3. << >> = << >> \o << >>
    OBVIOUS
  <2> QED
    BY <1>1, <2>1, <2>2, <2>3 DEF Answered
<1>7. ResponseWellFormed' /\ OneNewLine'
  BY <1>1 DEF ResponseWellFormed, OneNewLine
<1> QED
  BY <1>2, <1>3, <1>4, <1>5, <1>6, <1>7 DEF IInv

LEMMA BadUnitStep ==
  ASSUME IInv, NEW u \in Units, BadUnit(u)
  PROVE  IInv'
<1>1. /\ pc = "units" /\ units' = units + 1 /\ pc' = pc /\ unit' = unit /\ taken' = taken
      /\ input_count' = input_count /\ output_count' = output_count
      /\ arbitrary_remaining' = arbitrary_remaining /\ first_output' = first_output
      /\ output' = output /\ calls' = calls /\ answers' = answers /\ answer' = answer
      /\ block' = block /\ mishap' = mishap
      /\ \/ cmd_error' = cmd_error /\ pushed' = pushed /\ result' = result
         \/ cmd_error' = TRUE /\ pushed' = pushed + 1 /\ result' = FALSE
  BY DEF BadUnit, ErrorPush
<1>2. TypeOK'
  <2>1. cmd_error' \in BOOLEAN /\ result' \in BOOLEAN
    BY <1>1 DEF IInv, TypeOK
  <2>2. pushed' \in Nat /\ units' \in Nat
    BY <1>1 DEF IInv, TypeOK
  <2> QED
    BY <1>1, <2>1, <2>2 DEF IInv, TypeOK
<1>3. Typed'
  BY <1>1 DEF IInv, Typed
<1>4. BlockKept'
  BY <1>1 DEF IInv, BlockKept
<1>5. ErrorsTold'
  BY <1>1 DEF IInv, ErrorsTold, TypeOK
<1>6. Responding'
  BY <1>1, NothingWritten DEF IInv, Responding
<1> QED
  BY <1>2, <1>3, <1>4, <1>5, <1>6 DEF IInv, Responding

LEMMA BeginCommandStep ==
  ASSUME IInv, NEW u \in Units, BeginCommand(u)
  PROVE  IInv'
<1>1. /\ pc = "units" /\ pc' = "callback" /\ units' = units + 1 /\ unit' = u
      /\ output' = IF ~ first_output /\ u.kind = "query" THEN Append(output, "SEMI") ELSE output
      /\ cmd_error' = FALSE /\ output_count' = 0 /\ input_count' = 0 /\ arbitrary_remaining' = 0
      /\ pushed' = pushed /\ taken' = 0 /\ calls' = 0 /\ answer' = << >> /\ block' = NoBlock
      /\ first_output' = first_output /\ result' = result /\ answers' = answers /\ mishap' = mishap
  BY DEF BeginCommand, Reset
<1>2. Typed /\ output \in Fragments
  BY DEF IInv, Typed
<1> DEFINE z == IF ~ first_output /\ u.kind = "query" THEN <<"SEMI">> ELSE << >>
<1>3. z \in Fragments /\ \A i \in 1 .. Len(z) : z[i] # "NL"
  BY TokenFacts DEF Fragments
<1>4. output' = output \o z
  <2>1. output \in Seq(Tokens)
    BY <1>2 DEF Fragments
  <2>2. Append(output, "SEMI") = output \o <<"SEMI">> /\ output \o << >> = output
    BY <2>1, AppendIsConcat, ConcatEmptySeq, TokenFacts
  <2> QED
    BY <1>1, <2>2
<1>5. output' \in Fragments
  BY <1>2, <1>3, <1>4, JoinTwo
<1>6. TypeOK'
  <2>1. Visible' \in Nat
    BY <1>1, UnitFacts DEF Visible
  <2>2. Range(output') \subseteq Tokens
    BY <1>5, RangeTyped
  <2>3. cmd_error' \in BOOLEAN
    BY <1>1
  <2>4. units' \in Nat /\ taken' = input_count' /\ taken' \in 0 .. Visible'
    BY <1>1, <2>1 DEF IInv, TypeOK
  <2> QED
    BY <1>1, <2>1, <2>2, <2>3, <2>4 DEF IInv, TypeOK
<1>7. Typed'
  <2>1. << >> \in Seq(Fragments)
    OBVIOUS
  <2> QED
    BY <1>1, <1>2, <1>5, <2>1 DEF Typed
<1>8. BlockKept'
  BY <1>1 DEF BlockKept, NoBlock
<1>9. ErrorsTold'
  BY <1>1 DEF IInv, ErrorsTold, TypeOK
<1>10. OneNewLine'
  <2>1. \A i \in DOMAIN output : output[i] # "NL"
    BY <1>1 DEF IInv, OneNewLine
  <2>2. \A i \in DOMAIN (output \o z) : (output \o z)[i] # "NL"
    BY <1>2, <1>3, <2>1, NoNewLine
  <2> QED
    BY <1>4, <2>2 DEF OneNewLine
<1>11. Answered'
  <2>1. ~ first_output' => answers' # << >>
    BY <1>1 DEF IInv, Answered
  <2>2. ASSUME ~ mishap'
        PROVE  /\ (first_output' => answers' = << >>)
               /\ output' = Formatted' \o Running'
               /\ DelimiterDue'
    <3>1. /\ (first_output => answers = << >>) /\ (~ first_output => answers # << >>)
          /\ output = Formatted \o Running
      BY <1>1, <2>2 DEF IInv, Answered
    <3>2. Running = << >>
      BY <1>1 DEF Running
    <3>3. Formatted' = Formatted /\ Formatted \in Fragments
      BY <1>1, <1>2, FormattedIs DEF Formatted
    <3>4. first_output \in BOOLEAN
      BY DEF IInv, TypeOK
    <3>5. Running' = z \o << >>
      <4>1. JoinedBy("COMMA", answer') = << >>
        BY <1>1, NothingJoined
      <4> QED
        BY <1>1, <3>1, <3>4, <4>1 DEF Running, IsQuery
    <3> HIDE DEF z
    <3>6. z \o << >> = z /\ Formatted \o << >> = Formatted
      BY <1>3, <3>3, ConcatEmptySeq DEF Fragments
    <3>7. DelimiterDue'
      BY <1>1 DEF DelimiterDue, NoBlock
    <3> QED
      BY <1>1, <1>4, <3>1, <3>2, <3>3, <3>5, <3>6, <3>7
  <2> QED
    BY <1>1, <2>1, <2>2 DEF Answered
<1>12. ResponseWellFormed'
  BY <1>1 DEF ResponseWellFormed
<1> QED
  BY <1>6, <1>7, <1>8, <1>9, <1>10, <1>11, <1>12 DEF IInv

(***************************************************************************)
(* The calls of a callback                                                 *)
(***************************************************************************)

(* What a call leaves as it is. *)
LEMMA Called ==
  ASSUME IInv, Call
  PROVE  /\ pc = "callback" /\ pc' = pc /\ unit' = unit /\ first_output' = first_output
         /\ result' = result /\ units' = units /\ answers' = answers /\ calls' \in Nat
         /\ Responding /\ Visible' = Visible /\ Visible \in Nat
<1>1. calls' = calls + 1 /\ calls \in Nat /\ unit \in Units
  BY DEF IInv, TypeOK, Call
<1>2. Visible \in Nat
  BY <1>1, UnitFacts DEF Visible
<1> QED
  BY <1>1, <1>2 DEF IInv, Call, Responding, Visible

(* A call that reads a parameter or fails writes nothing. *)
LEMMA ReadStep ==
  ASSUME IInv, Call, taken' \in 0 .. Visible, input_count' = taken',
         UNCHANGED <<output_count, arbitrary_remaining, output, answer, block, mishap>>,
         \/ cmd_error' = cmd_error /\ pushed' = pushed
         \/ ErrorPush
  PROVE  IInv'
<1>1. /\ pc = "callback" /\ pc' = pc /\ unit' = unit /\ first_output' = first_output
      /\ result' = result /\ units' = units /\ answers' = answers /\ calls' \in Nat
      /\ Responding /\ Visible' = Visible /\ Visible \in Nat
  BY Called
<1>2. \/ cmd_error' = cmd_error /\ pushed' = pushed
      \/ cmd_error' = TRUE /\ pushed' = pushed + 1
  BY DEF ErrorPush
<1>3. TypeOK'
  <2>1. cmd_error' \in BOOLEAN
    BY <1>2 DEF IInv, TypeOK
  <2>2. pushed' \in Nat /\ taken' \in Nat
    BY <1>1, <1>2 DEF IInv, TypeOK
  <2> QED
    BY <1>1, <2>1, <2>2 DEF IInv, TypeOK
<1>4. Responding'
  BY <1>1, NothingWritten
<1>5. BlockKept'
  BY <1>1 DEF IInv, BlockKept
<1>6. ErrorsTold'
  BY <1>1, <1>2 DEF IInv, ErrorsTold, TypeOK
<1> QED
  BY <1>3, <1>4, <1>5, <1>6 DEF IInv, Responding

LEMMA ParameterStep ==
  ASSUME IInv, NEW mandatory \in BOOLEAN, Parameter(mandatory)
  PROVE  IInv'
<1>1. /\ Call
      /\ UNCHANGED <<output_count, arbitrary_remaining, output, answer, block, mishap>>
      /\ IF taken < Visible /\ (input_count # 0 <=> taken # 0)
           THEN /\ taken' = taken + 1 /\ input_count' = input_count + 1
                /\ UNCHANGED <<cmd_error, pushed>>
           ELSE /\ IF taken < Visible \/ mandatory
                     THEN ErrorPush ELSE UNCHANGED <<cmd_error, pushed>>
                /\ UNCHANGED <<taken, input_count>>
  BY DEF Parameter
<1>2. pc = "callback" /\ Visible \in Nat
  BY <1>1, Called
<1>3. taken = input_count /\ taken \in 0 .. Visible
  BY <1>2 DEF IInv, TypeOK
<1>4. taken' \in 0 .. Visible /\ input_count' = taken'
  BY <1>1, <1>2, <1>3
<1>5. \/ cmd_error' = cmd_error /\ pushed' = pushed
      \/ ErrorPush
  BY <1>1
<1> QED
  BY <1>1, <1>4, <1>5, ReadStep

LEMMA ComplainStep ==
  ASSUME IInv, Complain
  PROVE  IInv'
<1>1. Call /\ ErrorPush
      /\ UNCHANGED <<taken, input_count, output_count, arbitrary_remaining, output, answer, block, mishap>>
  BY DEF Complain
<1>2. taken' \in 0 .. Visible /\ input_count' = taken'
  BY <1>1, Called DEF IInv, TypeOK
<1> QED
  BY <1>1, <1>2, ReadStep

(* A call that writes. *)
LEMMA WriteStep ==
  ASSUME IInv, Call, Responding', BlockKept',
         UNCHANGED <<taken, input_count, cmd_error, pushed>>, output_count' \in Nat,
         arbitrary_remaining' \in Nat, mishap' \in BOOLEAN
  PROVE  IInv'
<1>1. /\ pc = "callback" /\ pc' = pc /\ unit' = unit /\ first_output' = first_output
      /\ result' = result /\ units' = units /\ calls' \in Nat /\ Visible' = Visible
  BY Called
<1>2. TypeOK'
  <2>1. Range(output') \subseteq Tokens
    BY RangeTyped DEF Responding, Typed
  <2> QED
    BY <1>1, <2>1 DEF IInv, TypeOK
<1>3. ErrorsTold'
  BY <1>1 DEF IInv, ErrorsTold
<1> QED
  BY <1>2, <1>3 DEF IInv, Responding

(* A value or the header of a block, behind a delimiter if one is due. *)
LEMMA ValueBegins ==
  ASSUME IInv, Call, NEW value \in {"item", "BLOCK"},
         output' = output \o Delimiter \o <<value>>, answer' = Append(answer, <<value>>),
         ~ mishap' => ~ mishap /\ ~ block.open /\ DelimiterDue'
  PROVE  Responding'
<1> DEFINE z == Delimiter \o <<value>>
<1>1. /\ pc = "callback" /\ pc' = pc /\ unit' = unit /\ first_output' = first_output
      /\ answers' = answers /\ Responding
  BY Called
<1>2. output \in Fragments /\ answer \in Seq(Fragments)
  BY DEF IInv, Typed
<1>3. Delimiter \in Fragments /\ \A i \in DOMAIN Delimiter : Delimiter[i] # "NL"
  BY TokenFacts DEF Delimiter, Fragments
<1>4. <<value>> \in Fragments /\ \A i \in 1 .. Len(<<value>>) : <<value>>[i] # "NL"
  BY DEF Tokens, Fragments
<1>5. z \in Fragments
  BY <1>3, <1>4, JoinTwo
<1>6. \A i \in 1 .. Len(z) : z[i] # "NL"
  <2>1. \A i \in DOMAIN z : z[i] # "NL"
    BY <1>3, <1>4, NoNewLine
  <2> HIDE DEF z
  <2>2. DOMAIN z = 1 .. Len(z)
    BY <1>5 DEF Fragments
  <2> QED
    BY <2>1, <2>2
<1>7. output' = output \o z
  <2>1. (output \o Delimiter) \o <<value>> = output \o (Delimiter \o <<value>>)
    BY <1>2, <1>3, <1>4, JoinTwice
  <2> QED
    BY <2>1
<1>8. answer' \in Seq(Fragments)
  BY <1>2, <1>4, AppendProperties
<1>9. ASSUME ~ mishap'
      PROVE  JoinedBy("COMMA", answer') = JoinedBy("COMMA", answer) \o z
  <2> DEFINE j == JoinedBy("COMMA", answer)
             d == IF answer = << >> THEN << >> ELSE <<"COMMA">>
  <2>1. ~ mishap /\ ~ block.open
    BY <1>9
  <2>2. output_count > 0 <=> answer # << >>
    BY <1>1, <2>1 DEF IInv, Answered, DelimiterDue
  <2>3. Delimiter = d
    BY <2>2 DEF Delimiter
  <2>4. JoinedBy("COMMA", answer') = j \o d \o <<value>>
    BY <1>2, <1>4, OneMoreJoined, TokenFacts
  <2>5. j \in Fragments
    BY <1>2, JoinedFacts, TokenFacts
  <2> HIDE DEF j, d
  <2>6. (j \o d) \o <<value>> = j \o (d \o <<value>>)
    BY <1>3, <1>4, <2>3, <2>5, JoinTwice
  <2> QED
    BY <2>3, <2>4, <2>6 DEF j
<1> HIDE DEF z
<1> QED
  BY <1>1, <1>5, <1>6, <1>7, <1>8, <1>9, AnswerGrows

LEMMA ResultStep ==
  ASSUME IInv, Result
  PROVE  IInv'
<1>1. /\ Call /\ output' = output \o Delimiter \o <<"item">> /\ output_count' = output_count + 1
      /\ answer' = Append(answer, <<"item">>) /\ mishap' = (mishap \/ block.open)
      /\ UNCHANGED <<taken, input_count, arbitrary_remaining, cmd_error, pushed, block>>
  BY DEF Result
<1>2. pc = "callback" /\ pc' = pc
  BY <1>1, Called
<1>3. /\ output_count' \in Nat /\ output_count' > 0 /\ arbitrary_remaining' \in Nat
      /\ mishap' \in BOOLEAN
  BY <1>1 DEF IInv, TypeOK
<1>7. answer' # << >>
  <2>1. answer \in Seq(Fragments) /\ <<"item">> \in Fragments
    BY DEF IInv, Typed, Fragments, Tokens
  <2> QED
    BY <1>1, <2>1, AppendProperties
<1>4. ~ mishap' => ~ mishap /\ ~ block.open /\ DelimiterDue'
  BY <1>1, <1>3, <1>7 DEF DelimiterDue
<1>5. Responding'
  BY <1>1, <1>4, ValueBegins
<1>6. BlockKept'
  BY <1>1, <1>2, <1>7 DEF IInv, BlockKept
<1> QED
  BY <1>1, <1>3, <1>5, <1>6, WriteStep

LEMMA BlockHeaderStep ==
  ASSUME IInv, NEW len \in 0 .. MaxBlock, BlockHeader(len)
  PROVE  IInv'
<1>1. /\ Call /\ output' = output \o Delimiter \o <<"BLOCK">> /\ arbitrary_remaining' = len
      /\ answer' = Append(answer, <<"BLOCK">>) /\ mishap' = (mishap \/ block.open)
      /\ block' = [announced |-> len, written |-> 0, open |-> TRUE]
      /\ UNCHANGED <<taken, input_count, output_count, cmd_error, pushed>>
  BY DEF BlockHeader
<1>2. pc = "callback" /\ pc' = pc /\ len \in Nat
  BY <1>1, Called
<1>3. output_count' \in Nat /\ arbitrary_remaining' \in Nat /\ mishap' \in BOOLEAN
  BY <1>1, <1>2 DEF IInv, TypeOK
<1>7. answer' # << >>
  <2>1. answer \in Seq(Fragments) /\ <<"BLOCK">> \in Fragments
    BY DEF IInv, Typed, Fragments, Tokens
  <2> QED
    BY <1>1, <2>1, AppendProperties
<1>4. ~ mishap' => ~ mishap /\ ~ block.open /\ DelimiterDue'
  BY <1>1 DEF DelimiterDue
<1>5. Responding'
  BY <1>1, <1>4, ValueBegins
<1>6. BlockKept'
  <2>1. block' \in [announced : Nat, written : Nat, open : BOOLEAN]
    BY <1>1, <1>2
  <2>2. arbitrary_remaining' + block'.written = block'.announced
    BY <1>1, <1>2
  <2> QED
    BY <1>2, <1>7, <2>1, <2>2 DEF BlockKept
<1> QED
  BY <1>1, <1>3, <1>5, <1>6, WriteStep

LEMMA BytesFacts ==
  ASSUME NEW len \in Nat
  PROVE  Bytes(len) \in Fragments /\ \A i \in 1 .. Len(Bytes(len)) : Bytes(len)[i] # "NL"
<1> DEFINE b == [i \in 1 .. len |-> "byte"]
<1>1. "byte" \in Tokens
  BY DEF Tokens
<1>2. b \in Seq(Tokens) /\ Len(b) = len
  BY <1>1
<1> QED
  BY <1>2 DEF Bytes, Fragments

LEMMA BlockDataStep ==
  ASSUME IInv, NEW len \in 0 .. MaxBlock, BlockData(len)
  PROVE  IInv'
<1>1. Call /\ taken' = taken /\ input_count' = input_count
  BY DEF BlockData
<1>2. /\ pc = "callback" /\ pc' = pc /\ unit' = unit /\ first_output' = first_output
      /\ answers' = answers /\ Responding /\ len \in Nat
  BY <1>1, Called
<1>3. CASE arbitrary_remaining < len
  <2>1. ErrorPush /\ UNCHANGED <<output_count, arbitrary_remaining, output, answer, block, mishap>>
    BY <1>3 DEF BlockData
  <2>2. taken' \in 0 .. Visible /\ input_count' = taken'
    BY <1>1, <1>2 DEF IInv, TypeOK
  <2> QED
    BY <1>1, <2>1, <2>2, ReadStep
<1>4. CASE ~ (arbitrary_remaining < len)
  <2> DEFINE z == Bytes(len)
  <2>1. /\ arbitrary_remaining' = arbitrary_remaining - len
        /\ output_count' = output_count + (IF arbitrary_remaining = len THEN 1 ELSE 0)
        /\ output' = output \o z
        /\ answer' = IF block.open THEN Append(Front(answer), Last(answer) \o z) ELSE answer
        /\ block' = [announced |-> block.announced, written |-> block.written + len,
                     open |-> block.open /\ arbitrary_remaining > len]
        /\ mishap' = (mishap \/ ~ block.open)
        /\ UNCHANGED <<cmd_error, pushed>>
    BY <1>4 DEF BlockData
  <2>2. z \in Fragments /\ \A i \in 1 .. Len(z) : z[i] # "NL"
    BY <1>2, BytesFacts
  <2> HIDE DEF z
  <2>3. /\ arbitrary_remaining \in Nat /\ output_count \in Nat /\ mishap \in BOOLEAN
        /\ block.announced \in Nat /\ block.written \in Nat /\ block.open \in BOOLEAN
        /\ arbitrary_remaining + block.written = block.announced
    BY <1>2 DEF IInv, TypeOK, BlockKept
  <2>4. output_count' \in Nat /\ arbitrary_remaining' \in Nat
    BY <1>2, <1>4, <2>1, <2>3
  <2>5. mishap' \in BOOLEAN
    BY <2>1, <2>3
  <2>6. answer \in Seq(Fragments) /\ (block.open => answer # << >>)
    BY DEF IInv, Typed, BlockKept
  <2>7. ASSUME block.open
        PROVE  /\ JoinedBy("COMMA", answer') = JoinedBy("COMMA", answer) \o z
               /\ answer' \in Seq(Fragments) /\ answer' # << >>
    <3>1. answer # << >> /\ answer' = Append(Front(answer), Last(answer) \o z)
      BY <2>1, <2>6, <2>7
    <3> QED
      BY <2>2, <2>6, <3>1, LastGrows, TokenFacts
  <2>8. BlockKept'
    <3>1. block' \in [announced : Nat, written : Nat, open : BOOLEAN]
      BY <1>2, <2>1, <2>3
    <3>2. arbitrary_remaining' + block'.written = block'.announced
      BY <1>2, <2>1, <2>3
    <3> QED
      BY <1>2, <2>1, <2>7, <3>1, <3>2 DEF BlockKept
  <2>9. answer' \in Seq(Fragments)
    BY <2>1, <2>6, <2>7
  <2>10. ASSUME ~ mishap'
         PROVE  /\ ~ mishap
                /\ JoinedBy("COMMA", answer') = JoinedBy("COMMA", answer) \o z
                /\ DelimiterDue'
    <3>1. ~ mishap /\ block.open
      BY <2>1, <2>10
    <3>3. arbitrary_remaining > len \/ output_count' > 0
      BY <1>2, <1>4, <2>1, <2>3
    <3>4. block'.open \/ output_count' > 0
      BY <2>1, <3>1, <3>3
    <3>5. DelimiterDue'
      BY <2>7, <3>1, <3>4 DEF DelimiterDue
    <3> QED
      BY <2>7, <3>1, <3>5
  <2>11. Responding'
    BY <1>2, <2>1, <2>2, <2>9, <2>10, AnswerGrows
  <2> QED
    BY <1>1, <2>1, <2>4, <2>5, <2>8, <2>11, WriteStep
<1> QED
  BY <1>3, <1>4

(***************************************************************************)
(* The end of a command and of the message                                 *)
(***************************************************************************)

LEMMA ReturnStep ==
  ASSUME IInv, NEW ok \in BOOLEAN, Return(ok)
  PROVE  IInv'
<1> DEFINE failed == ~ ok \/ cmd_error
           left == Leftover(failed)
<1>1. /\ pc = "callback" /\ pc' = "units" /\ unit' = NoUnit /\ calls' = 0
      /\ answer' = << >> /\ block' = NoBlock /\ input_count' = input_count
      /\ output_count' = output_count /\ arbitrary_remaining' = arbitrary_remaining
      /\ output' = output /\ units' = units
      /\ first_output' = (first_output /\ (failed \/ ~ IsQuery))
      /\ result' = (result /\ ~ failed /\ ~ left)
      /\ pushed' = pushed + (IF (~ ok /\ ~ cmd_error) \/ left THEN 1 ELSE 0)
      /\ cmd_error' = (failed \/ left)
      /\ answers' = IF IsQuery THEN Append(answers, answer) ELSE answers
      /\ mishap' = (mishap \/ block.open \/ IF IsQuery THEN failed ELSE answer # << >>)
  BY DEF Return
<1>2. failed \in BOOLEAN /\ left \in BOOLEAN /\ IsQuery \in BOOLEAN
  BY DEF Leftover, IsQuery
<1> HIDE DEF left
<1>3. TypeOK'
  <2>1. NoUnit \in Units
    BY DEF NoUnit, Units
  <2>2. pushed' \in Nat
    BY <1>1 DEF IInv, TypeOK
  <2>3. /\ cmd_error' \in BOOLEAN /\ first_output' \in BOOLEAN /\ result' \in BOOLEAN
        /\ mishap' \in BOOLEAN
    BY <1>1
  <2> QED
    BY <1>1, <2>1, <2>2, <2>3 DEF IInv, TypeOK
<1>4. Typed
  BY DEF IInv
<1>5. Typed'
  <2>1. answers' \in Seq(Seq(Fragments))
    BY <1>1, <1>4, AppendProperties DEF Typed
  <2>2. << >> \in Seq(Fragments)
    OBVIOUS
  <2> QED
    BY <1>1, <1>4, <2>1, <2>2 DEF Typed
<1>6. BlockKept'
  BY <1>1 DEF BlockKept, NoBlock
<1>7. ErrorsTold'
  <2>1. pushed \in Nat /\ (pushed = 0 <=> result /\ ~ cmd_error)
    BY <1>1 DEF IInv, TypeOK, ErrorsTold
  <2>2. pushed' = 0 <=> pushed = 0 /\ ~ ((~ ok /\ ~ cmd_error) \/ left)
    BY <1>1, <2>1
  <2>3. result' <=> pushed' = 0
    BY <1>1, <2>1, <2>2
  <2> QED
    BY <1>1, <2>3 DEF ErrorsTold
<1>8. OneNewLine'
  BY <1>1 DEF IInv, OneNewLine
<1>9. ResponseWellFormed'
  BY <1>1 DEF ResponseWellFormed
<1>10. answers' # << >> \/ ~ IsQuery
  BY <1>1, <1>4, AppendProperties DEF Typed
<1>11. Answered'
  <2>1. ~ first_output' => answers' # << >>
    <3>1. ~ first_output => answers # << >>
      BY DEF IInv, Answered
    <3> QED
      BY <1>1, <1>10, <3>1
  <2>2. ASSUME ~ mishap'
        PROVE  /\ (first_output' => answers' = << >>)
               /\ output' = Formatted' \o Running'
    <3>1. ~ mishap /\ (IsQuery => ~ failed) /\ (~ IsQuery => answer = << >>)
      BY <1>1, <2>2
    <3>2. (first_output => answers = << >>) /\ output = Formatted \o Running
      BY <1>1, <3>1 DEF IInv, Answered
    <3>3. Running' = << >>
      BY <1>1 DEF Running
    <3>4. Formatted \in Fragments /\ Formatted = FormattedOf(answers)
      BY <1>4, FormattedIs
    <3>5. Formatted' = FormattedOf(answers') /\ Formatted' \in Fragments
      <4>1. Formatted' = FormattedOf(answers')
        BY DEF Formatted, FormattedOf
      <4>2. FormattedOf(answers') \in Fragments
        <5>1. answers' \in Seq(Seq(Fragments)) /\ << >> \in Seq(Fragments)
          BY <1>5 DEF Typed
        <5> QED
          BY <5>1, FormattedMore
      <4> QED
        BY <4>1, <4>2
    <3>6. Formatted' \o Running' = Formatted'
      BY <3>3, <3>5, ConcatEmptySeq DEF Fragments
    <3> DEFINE s == IF IsQuery /\ answers # << >> THEN <<"SEMI">> ELSE << >>
               j == JoinedBy("COMMA", answer)
    <3>7. s \in Fragments /\ j \in Fragments /\ Running = s \o j
      BY <1>1, <1>4, RunningIs
    <3>8. CASE IsQuery
      <4>1. ~ first_output'
        BY <1>1, <3>1, <3>8
      <4>2. s = IF answers = << >> THEN << >> ELSE <<"SEMI">>
        BY <3>8
      <4>3. Formatted' = Formatted \o s \o j
        <5>1. answers' = Append(answers, answer)
          BY <1>1, <3>8
        <5>2. answers \in Seq(Seq(Fragments)) /\ answer \in Seq(Fragments)
          BY <1>4 DEF Typed
        <5>3. FormattedOf(Append(answers, answer))
                = FormattedOf(answers) \o (IF answers = << >> THEN << >> ELSE <<"SEMI">>) \o j
          BY <5>2, FormattedMore
        <5> QED
          BY <3>4, <3>5, <4>2, <5>1, <5>3
      <4> HIDE DEF s, j
      <4>4. (Formatted \o s) \o j = Formatted \o (s \o j)
        BY <3>4, <3>7, JoinTwice
      <4> QED
        BY <1>1, <3>2, <3>6, <3>7, <4>1, <4>3, <4>4
    <3>9. CASE ~ IsQuery
      <4>1. s = << >> /\ j = << >>
        BY <3>1, <3>9, NothingJoined
      <4>2. Running = << >>
        <5>1. << >> \o << >> = << >>
          OBVIOUS
        <5> QED
          BY <3>7, <4>1, <5>1
      <4>3. Formatted \o << >> = Formatted
        BY <3>4, ConcatEmptySeq DEF Fragments
      <4>4. answers' = answers /\ first_output' = first_output
        BY <1>1, <3>9 DEF IInv, TypeOK
      <4> QED
        BY <1>1, <3>2, <3>4, <3>5, <3>6, <4>2, <4>3, <4>4
    <3> QED
      BY <3>8, <3>9
  <2> QED
    BY <1>1, <2>1, <2>2 DEF Answered
<1> QED
  BY <1>3, <1>5, <1>6, <1>7, <1>8, <1>9, <1>11 DEF IInv

LEMMA EndMessageStep ==
  ASSUME IInv, EndMessage
  PROVE  IInv'
<1>1. /\ pc = "units" /\ pc' = "idle" /\ output' = output \o NewLine /\ unit' = unit
      /\ input_count' = input_count /\ output_count' = output_count
      /\ arbitrary_remaining' = arbitrary_remaining /\ cmd_error' = cmd_error
      /\ first_output' = first_output /\ result' = result /\ units' = units /\ calls' = calls
      /\ pushed' = pushed /\ answers' = answers /\ answer' = answer /\ block' = block
      /\ mishap' = mishap
  BY DEF EndMessage, context
<1>2. Typed /\ output \in Fragments
  BY DEF IInv, Typed
<1>3. NewLine = IF first_output THEN << >> ELSE <<"NL">>
  BY DEF NewLine
<1>4. NewLine \in Fragments /\ "NL" \in Tokens
  <2>1. "NL" \in Tokens
    BY DEF Tokens
  <2>2. << >> \in Fragments /\ <<"NL">> \in Fragments
    BY <2>1 DEF Fragments
  <2> QED
    BY <1>3, <2>1, <2>2
<1>5. output' \in Fragments
  BY <1>1, <1>2, <1>4, JoinTwo
<1>6. TypeOK'
  <2>1. Range(output') \subseteq Tokens
    BY <1>5, RangeTyped
  <2> QED
    BY <1>1, <2>1 DEF IInv, TypeOK
<1>7. Typed'
  BY <1>1, <1>2, <1>5 DEF Typed
<1>8. BlockKept'
  BY <1>1 DEF IInv, BlockKept
<1>9. ErrorsTold'
  BY <1>1 DEF IInv, ErrorsTold
<1>10. Answered'
  BY <1>1 DEF IInv, Answered
<1>11. ResponseWellFormed'
  <2> SUFFICES ASSUME ~ mishap
               PROVE  output' = IF answers = << >> THEN << >> ELSE Append(Formatted, "NL")
    BY <1>1 DEF ResponseWellFormed, Formatted
  <2>1. /\ (first_output => answers = << >>) /\ (~ first_output => answers # << >>)
        /\ output = Formatted \o Running
    BY <1>1 DEF IInv, Answered
  <2>2. Running = << >>
    BY <1>1 DEF Running
  <2>3. Formatted \in Fragments /\ (answers = << >> => Formatted = << >>)
    BY <1>2, FormattedIs
  <2>4. output = Formatted
    <3>1. Formatted \o << >> = Formatted
      BY <2>3, ConcatEmptySeq DEF Fragments
    <3> QED
      BY <2>1, <2>2, <3>1
  <2>5. CASE first_output
    <3>1. Formatted = << >> /\ answers = << >>
      BY <2>1, <2>3, <2>5
    <3>2. << >> \o << >> = << >>
      OBVIOUS
    <3> QED
      BY <1>1, <1>3, <2>4, <2>5, <3>1, <3>2
  <2>6. CASE ~ first_output
    <3>1. Append(Formatted, "NL") = Formatted \o <<"NL">>
      BY <1>4, <2>3, AppendIsConcat DEF Fragments
    <3> QED
      BY <1>1, <1>3, <2>1, <2>4, <2>6, <3>1
  <2> QED
    BY <2>5, <2>6
<1>12. OneNewLine'
  <2>1. \A i \in DOMAIN output : output[i] # "NL"
    BY <1>1 DEF IInv, OneNewLine
  <2>2. CASE first_output
    <3>1. output' = output
      BY <1>1, <1>2, <1>3, <2>2, ConcatEmptySeq DEF Fragments
    <3> QED
      BY <2>1, <3>1 DEF OneNewLine
  <2>3. CASE ~ first_output
    <3>1. answers # << >>
      BY <2>3 DEF IInv, Answered
    <3>2. output' = Append(output, "NL")
      BY <1>1, <1>2, <1>3, <1>4, <2>3, AppendIsConcat DEF Fragments
    <3> DEFINE o == Append(output, "NL")
    <3>3. /\ o \in Seq(Tokens) /\ Len(o) = Len(output) + 1 /\ Len(output) \in Nat
          /\ DOMAIN output = 1 .. Len(output) /\ DOMAIN o = 1 .. Len(o)
          /\ \A i \in 1 .. Len(output) : o[i] = output[i]
      <4>1. output \in Seq(Tokens)
        BY <1>2 DEF Fragments
      <4> QED
        BY <1>4, <4>1, AppendProperties
    <3> HIDE DEF o
    <3>4. \A i \in DOMAIN o : o[i] = "NL" => i = Len(o)
      BY <2>1, <3>3
    <3> QED
      BY <1>1, <3>1, <3>2, <3>4 DEF OneNewLine, o
  <2> QED
    BY <2>2, <2>3
<1> QED
  BY <1>6, <1>7, <1>8, <1>9, <1>10, <1>11, <1>12 DEF IInv

LEMMA StutterStep ==
  ASSUME IInv, UNCHANGED vars
  PROVE  IInv'
<1>1. UNCHANGED <<pc, unit, taken, result, output, units, calls, pushed, answers, answer, block,
                  mishap, input_count, output_count, arbitrary_remaining, cmd_error, first_output>>
  BY DEF vars, context
<1>2. TypeOK'
  BY <1>1 DEF IInv, TypeOK, Visible
<1>3. BlockKept' /\ ErrorsTold'
  BY <1>1 DEF IInv, BlockKept, ErrorsTold
<1>4. Responding'
  BY <1>1, NothingWritten DEF IInv, Responding
<1> QED
  BY <1>2, <1>3, <1>4 DEF IInv, Responding

LEMMA Inductive == IInv /\ [Next]_vars => IInv'
<1> SUFFICES ASSUME IInv, [Next]_vars
             PROVE  IInv'
  OBVIOUS
<1>1. CASE Parse
  BY <1>1, ParseStep
<1>2. CASE \E u \in Units : BadUnit(u) \/ BeginCommand(u)
  BY <1>2, BadUnitStep, BeginCommandStep
<1>3. CASE \E mandatory \in BOOLEAN : Parameter(mandatory)
  BY <1>3, ParameterStep
<1>4. CASE Complain
  BY <1>4, ComplainStep
<1>5. CASE Result
  BY <1>5, ResultStep
<1>6. CASE \E len \in 0 .. MaxBlock : BlockHeader(len) \/ BlockData(len)
  BY <1>6, BlockHeaderStep, BlockDataStep
<1>7. CASE \E ok \in BOOLEAN : Return(ok)
  BY <1>7, ReturnStep
<1>8. CASE EndMessage
  BY <1>8, EndMessageStep
<1>9. CASE UNCHANGED vars
  BY <1>9, StutterStep
<1> QED
  BY <1>1, <1>2, <1>3, <1>4, <1>5, <1>6, <1>7, <1>8, <1>9 DEF Next

LEMMA Invariant == Spec => []IInv
<1> QED
  BY InitStep, Inductive, PTL DEF Spec

(***************************************************************************)
(* The theorems                                                            *)
(***************************************************************************)

(* The counters of the context count what they are named for: a parameter  *)
(* is taken when it is counted, and none is taken that was not sent.       *)
THEOREM TypeCorrect == Spec => []TypeOK
<1>1. IInv => TypeOK
  BY DEF IInv
<1> QED
  BY <1>1, Invariant, PTL

(* Whatever the callbacks of a message read, write, announce and fail at,  *)
(* its response is the answers of its queries, rightly separated, on one   *)
(* line, and no block carries more than was announced.                     *)
THEOREM AnswersOnly == Spec => []ResponseIsAnswers
<1>1. IInv => ResponseIsAnswers
  <2> SUFFICES ASSUME IInv
               PROVE  ResponseIsAnswers
    OBVIOUS
  <2>1. BlockFits
    <3>1. CASE pc = "callback"
      BY <3>1 DEF IInv, TypeOK, BlockKept, BlockFits
    <3>2. CASE pc # "callback"
      BY <3>2 DEF IInv, BlockKept, BlockFits, NoBlock
    <3> QED
      BY <3>1, <3>2
  <2> QED
    BY <2>1 DEF IInv, ResponseIsAnswers
<1> QED
  BY <1>1, Invariant, PTL

(* SCPI_Parse returns FALSE exactly when an error was pushed during the    *)
(* call, by the library or a callback.                                     *)
THEOREM ErrorsAreTold == Spec => []ResultTellsErrors
<1>1. IInv => ResultTellsErrors
  BY DEF IInv, ErrorsTold, ResultTellsErrors
<1> QED
  BY <1>1, Invariant, PTL

(* No command ends well whose callback left a visible parameter unread.    *)
THEOREM LeftoversTold == Spec => LeftoverReported
<1>1. [Next]_vars => (pc = "callback" /\ pc' = "units" /\ taken < Visible => cmd_error') \/ UNCHANGED vars
  <2> SUFFICES ASSUME Next, pc = "callback", pc' = "units", taken < Visible
               PROVE  cmd_error'
    OBVIOUS
  <2>1. PICK ok \in BOOLEAN : Return(ok)
    BY DEF Next, Parse, BadUnit, BeginCommand, Parameter, Complain, Result, BlockHeader, BlockData,
           Call, EndMessage
  <2> QED
    BY <2>1 DEF Return, Leftover
<1> QED
  BY <1>1, PTL DEF Spec, LeftoverReported

=============================================================================
