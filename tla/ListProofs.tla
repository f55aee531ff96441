---------------------------- MODULE ListProofs ----------------------------
(***************************************************************************)
(* What the proofs of several components need of numbers and of lists:     *)
(* least elements and induction up to a number, and what becomes of the    *)
(* steps behind a place of a list.                                         *)
(***************************************************************************)
EXTENDS Integers, Sequences, SequenceTheorems, WellFoundedInduction, TLAPS

(***************************************************************************)
(* Induction                                                               *)
(***************************************************************************)

Less == {pair \in Nat \X Nat : pair[1] < pair[2]}

LEMMA Least ==
  ASSUME NEW S, S \subseteq Nat, S # {}
  PROVE  \E n \in S : \A m \in S : n <= m
<1>1. IsWellFoundedOn(Less, Nat)
  BY NatLessThanWellFounded DEF OpToRel, Less
<1>2. \E n \in S : \A m \in S : ~ (<<m, n>> \in Less)
  BY <1>1, WFMin
<1>3. PICK n \in S : \A m \in S : ~ (<<m, n>> \in Less)
  BY <1>2
<1>4. ASSUME NEW m \in S
      PROVE  n <= m
  <2>1. n \in Nat /\ m \in Nat /\ ~ (<<m, n>> \in Less)
    BY <1>3
  <2>2. ~ (m < n)
    BY <2>1 DEF Less
  <2> QED
    BY <2>1, <2>2
<1> QED
  BY <1>4

(* What holds of 0 and, up to n, of the next number holds up to n. *)
LEMMA UpTo ==
  ASSUME NEW n \in Nat, NEW S, 0 \in S, \A k \in 0 .. n - 1 : k \in S => k + 1 \in S
  PROVE  0 .. n \subseteq S
<1> SUFFICES ASSUME (0 .. n) \ S # {}
             PROVE  FALSE
  OBVIOUS
<1>1. (0 .. n) \ S \subseteq Nat
  OBVIOUS
<1>2. PICK k \in (0 .. n) \ S : \A m \in (0 .. n) \ S : k <= m
  BY <1>1, Least
<1>3. k # 0 /\ k - 1 \in 0 .. n - 1 /\ (k - 1) + 1 = k
  BY <1>2
<1>4. k - 1 \in S
  BY <1>2, <1>3
<1> QED
  BY <1>2, <1>3, <1>4

(* The values f of a recursion that begins with b and goes on with g. *)
Goes(g, n, S) == g \in [(1 .. n) \X S -> S]

Recurs(f, b, g, n, S) ==
  /\ f \in [0 .. n -> S]
  /\ f[0] = b
  /\ \A i \in 1 .. n : f[i] = g[<<i, f[i - 1]>>]

(* A recursion up to a number is defined. *)
LEMMA Recursion ==
  ASSUME NEW S, NEW b \in S, NEW n \in Nat, NEW g, Goes(g, n, S)
  PROVE  \E f : Recurs(f, b, g, n, S)
<1> DEFINE Steps(f, k) == f[0] = b /\ \A i \in 1 .. k : f[i] = g[<<i, f[i - 1]>>]
           defined == {k \in 0 .. n : \E f \in [0 .. k -> S] : Steps(f, k)}
<1>1. 0 \in defined
  <2> DEFINE f == [i \in 0 .. 0 |-> b]
  <2>1. 0 \in 0 .. n /\ f \in [0 .. 0 -> S] /\ Steps(f, 0)
    OBVIOUS
  <2> HIDE DEF f, Steps
  <2> QED
    BY <2>1
<1>2. ASSUME NEW k \in 0 .. n - 1, k \in defined
      PROVE  k + 1 \in defined
  <2>1. PICK f \in [0 .. k -> S] : Steps(f, k)
    BY <1>2
  <2> DEFINE next == g[<<k + 1, f[k]>>]
             h == [i \in 0 .. k + 1 |-> IF i = k + 1 THEN next ELSE f[i]]
  <2>2. k + 1 \in 1 .. n /\ k \in 0 .. k /\ k + 1 \in 0 .. n /\ k \in Nat
    OBVIOUS
  <2>3. next \in S
    BY <2>2 DEF Goes
  <2> HIDE DEF next
  <2>4. h \in [0 .. k + 1 -> S] /\ h[k + 1] = next /\ \A i \in 0 .. k : h[i] = f[i]
    BY <2>2, <2>3
  <2> HIDE DEF h
  <2>5. h[0] = b
    BY <2>1, <2>2, <2>4
  <2>6. ASSUME NEW i \in 1 .. k + 1
        PROVE  h[i] = g[<<i, h[i - 1]>>]
    <3>1. CASE i = k + 1
      <4>1. i - 1 = k /\ h[k] = f[k]
        BY <2>2, <2>4, <3>1
      <4> QED
        BY <2>4, <3>1, <4>1 DEF next
    <3>2. CASE i # k + 1
      <4>1. i \in 1 .. k /\ i - 1 \in 0 .. k /\ i \in 0 .. k
        BY <2>2, <3>2
      <4>2. h[i] = f[i] /\ h[i - 1] = f[i - 1]
        BY <2>4, <4>1
      <4> QED
        BY <2>1, <4>1, <4>2
    <3> QED
      BY <3>1, <3>2
  <2> QED
    BY <2>2, <2>4, <2>5, <2>6
<1>3. n \in defined
  <2> HIDE DEF defined
  <2>1. 0 .. n \subseteq defined
    BY <1>1, <1>2, UpTo
  <2> QED
    BY <2>1
<1> QED
  BY <1>3 DEF Recurs

(***************************************************************************)
(* Lists of steps.  The firmware modules keep what a task has yet to do as *)
(* a list: a task takes its first step off the list, and a handler that    *)
(* calls another is the two lists joined.                                  *)
(***************************************************************************)

(* A step, or a step of that kind, stands behind place i of the list s. *)
Later(s, i, step) == \E j \in i + 1 .. Len(s) : s[j] = step
LaterOp(s, i, op) == \E j \in i + 1 .. Len(s) : s[j].op = op

(* When the first step is taken, every other moves up by one.              *)
LEMMA TailMoves ==
  ASSUME NEW S, NEW s \in Seq(S), s # << >>
  PROVE  /\ Tail(s) \in Seq(S) /\ Len(s) \in Nat \ {0} /\ Len(Tail(s)) = Len(s) - 1
         /\ Head(s) = s[1] /\ Head(s) \in S
         /\ \A i \in 1 .. Len(s) - 1 : Tail(s)[i] = s[i + 1]
BY HeadTailProperties, EmptySeq

LEMMA TailLater ==
  ASSUME NEW S, NEW s \in Seq(S), s # << >>, NEW i \in 0 .. Len(s) - 1
  PROVE  /\ \A x : Later(Tail(s), i, x) <=> Later(s, i + 1, x)
         /\ \A op : LaterOp(Tail(s), i, op) <=> LaterOp(s, i + 1, op)
<1> DEFINE r == Tail(s)
<1>1. /\ Len(s) \in Nat \ {0} /\ Len(r) = Len(s) - 1
      /\ \A j \in 1 .. Len(s) - 1 : r[j] = s[j + 1]
  BY TailMoves
<1> HIDE DEF r
<1>2. ASSUME NEW j \in i + 1 .. Len(r)
      PROVE  j + 1 \in (i + 1) + 1 .. Len(s) /\ r[j] = s[j + 1]
  BY <1>1
<1>3. ASSUME NEW j \in (i + 1) + 1 .. Len(s)
      PROVE  j - 1 \in i + 1 .. Len(r) /\ r[j - 1] = s[j]
  <2>1. j - 1 \in 1 .. Len(s) - 1 /\ (j - 1) + 1 = j
    BY <1>1
  <2> QED
    BY <1>1, <2>1
<1>4. ASSUME NEW x
      PROVE  Later(r, i, x) <=> Later(s, i + 1, x)
  BY <1>2, <1>3 DEF Later
<1>5. ASSUME NEW op
      PROVE  LaterOp(r, i, op) <=> LaterOp(s, i + 1, op)
  BY <1>2, <1>3 DEF LaterOp
<1> QED
  BY <1>4, <1>5 DEF r

(* What a list holds is its first step and what the rest holds.            *)
LEMMA HeadLater ==
  ASSUME NEW S, NEW s \in Seq(S), s # << >>
  PROVE  /\ \A x : Later(s, 0, x) <=> Head(s) = x \/ Later(Tail(s), 0, x)
         /\ \A op : LaterOp(s, 0, op) <=> Head(s).op = op \/ LaterOp(Tail(s), 0, op)
<1>1. Len(s) \in Nat \ {0} /\ Head(s) = s[1]
  BY TailMoves
<1>2. /\ \A x : Later(s, 0, x) <=> s[1] = x \/ Later(s, 1, x)
      /\ \A op : LaterOp(s, 0, op) <=> s[1].op = op \/ LaterOp(s, 1, op)
  <2>1. \A j \in 0 + 1 .. Len(s) : j = 1 \/ j \in 1 + 1 .. Len(s)
    BY <1>1
  <2>2. 1 \in 0 + 1 .. Len(s) /\ \A j \in 1 + 1 .. Len(s) : j \in 0 + 1 .. Len(s)
    BY <1>1
  <2> QED
    BY <2>1, <2>2 DEF Later, LaterOp
<1>3. 0 \in 0 .. Len(s) - 1 /\ 0 + 1 = 1
  BY <1>1
<1> QED
  BY <1>1, <1>2, <1>3, TailLater

(* In two lists joined, the second is behind every place of the first.     *)
LEMMA JoinLater ==
  ASSUME NEW S, NEW p \in Seq(S), NEW q \in Seq(S)
  PROVE  /\ p \o q \in Seq(S) /\ Len(p \o q) = Len(p) + Len(q)
         /\ Len(p) \in Nat /\ Len(q) \in Nat
         /\ \A i \in 1 .. Len(p) : (p \o q)[i] = p[i]
         /\ \A i \in 1 .. Len(q) : (p \o q)[Len(p) + i] = q[i]
         /\ \A i \in 0 .. Len(p) :
              /\ \A x : Later(p \o q, i, x) <=> Later(p, i, x) \/ Later(q, 0, x)
              /\ \A op : LaterOp(p \o q, i, op) <=> LaterOp(p, i, op) \/ LaterOp(q, 0, op)
         /\ \A i \in 0 .. Len(q) :
              /\ \A x : Later(p \o q, Len(p) + i, x) <=> Later(q, i, x)
              /\ \A op : LaterOp(p \o q, Len(p) + i, op) <=> LaterOp(q, i, op)
<1> DEFINE s == p \o q
           m == Len(p)
           n == Len(q)
<1>1. /\ s \in Seq(S) /\ Len(s) = m + n /\ m \in Nat /\ n \in Nat
      /\ \A i \in 1 .. m + n : s[i] = IF i <= m THEN p[i] ELSE q[i - m]
  BY ConcatProperties, LenProperties
<1> HIDE DEF s, m, n
<1>2. /\ \A i \in 1 .. m : s[i] = p[i]
      /\ \A i \in 1 .. n : s[m + i] = q[i]
  <2>1. ASSUME NEW i \in 1 .. n
        PROVE  s[m + i] = q[i]
    <3>1. m + i \in 1 .. m + n /\ ~ (m + i <= m) /\ (m + i) - m = i
      BY <1>1
    <3> QED
      BY <1>1, <3>1
  <2> QED
    BY <1>1, <2>1
<1>3. ASSUME NEW i \in 0 .. m
      PROVE  /\ \A x : Later(s, i, x) <=> Later(p, i, x) \/ Later(q, 0, x)
             /\ \A op : LaterOp(s, i, op) <=> LaterOp(p, i, op) \/ LaterOp(q, 0, op)
  <2>1. ASSUME NEW j \in i + 1 .. Len(s)
        PROVE  \/ j \in i + 1 .. m /\ s[j] = p[j]
               \/ j - m \in 0 + 1 .. n /\ s[j] = q[j - m]
    <3>1. CASE j <= m
      BY <1>1, <1>2, <3>1
    <3>2. CASE j > m
      <4>1. j - m \in 1 .. n /\ j \in 1 .. m + n /\ ~ (j <= m)
        BY <1>1, <3>2
      <4> QED
        BY <1>1, <4>1
    <3> QED
      BY <1>1, <3>1, <3>2
  <2>2. ASSUME NEW j \in i + 1 .. m
        PROVE  j \in i + 1 .. Len(s) /\ s[j] = p[j]
    BY <1>1, <1>2
  <2>3. ASSUME NEW j \in 0 + 1 .. n
        PROVE  m + j \in i + 1 .. Len(s) /\ s[m + j] = q[j]
    BY <1>1, <1>2
  <2>4. ASSUME NEW x
        PROVE  Later(s, i, x) <=> Later(p, i, x) \/ Later(q, 0, x)
    BY <2>1, <2>2, <2>3 DEF Later, m, n
  <2>5. ASSUME NEW op
        PROVE  LaterOp(s, i, op) <=> LaterOp(p, i, op) \/ LaterOp(q, 0, op)
    BY <2>1, <2>2, <2>3 DEF LaterOp, m, n
  <2> QED
    BY <2>4, <2>5
<1>4. ASSUME NEW i \in 0 .. n
      PROVE  /\ \A x : Later(s, m + i, x) <=> Later(q, i, x)
             /\ \A op : LaterOp(s, m + i, op) <=> LaterOp(q, i, op)
  <2>1. ASSUME NEW j \in (m + i) + 1 .. Len(s)
        PROVE  j - m \in i + 1 .. n /\ s[j] = q[j - m]
    <3>1. j - m \in 1 .. n /\ j \in 1 .. m + n /\ ~ (j <= m) /\ j - m \in i + 1 .. n
      BY <1>1
    <3> QED
      BY <1>1, <3>1
  <2>2. ASSUME NEW j \in i + 1 .. n
        PROVE  m + j \in (m + i) + 1 .. Len(s) /\ s[m + j] = q[j]
    BY <1>1, <1>2
  <2>3. ASSUME NEW x
        PROVE  Later(s, m + i, x) <=> Later(q, i, x)
    BY <2>1, <2>2 DEF Later, n
  <2>4. ASSUME NEW op
        PROVE  LaterOp(s, m + i, op) <=> LaterOp(q, i, op)
    BY <2>1, <2>2 DEF LaterOp, n
  <2> QED
    BY <2>3, <2>4
<1> QED
  BY <1>1, <1>2, <1>3, <1>4 DEF s, m, n

(* A list of one step. *)
LEMMA OneStep ==
  ASSUME NEW S, NEW x \in S
  PROVE  /\ << x >> \in Seq(S) /\ Len(<< x >>) = 1 /\ << x >>[1] = x
         /\ \A y : Later(<< x >>, 0, y) <=> x = y
         /\ \A op : LaterOp(<< x >>, 0, op) <=> x.op = op
         /\ \A y : ~ Later(<< x >>, 1, y)
         /\ \A op : ~ LaterOp(<< x >>, 1, op)
<1>1. << x >> \in Seq(S) /\ Len(<< x >>) = 1 /\ << x >>[1] = x
  OBVIOUS
<1>2. 0 + 1 .. 1 = {1} /\ 1 + 1 .. 1 = {}
  OBVIOUS
<1> QED
  BY <1>1, <1>2 DEF Later, LaterOp

(* The steps of p are of these kinds. *)
OpsIn(p, ops) == \A i \in 1 .. Len(p) : p[i].op \in ops

LEMMA OpsLater ==
  ASSUME NEW p, NEW ops, OpsIn(p, ops), NEW op, LaterOp(p, 0, op)
  PROVE  op \in ops
BY DEF OpsIn, LaterOp

LEMMA OpsJoin ==
  ASSUME NEW S, NEW p \in Seq(S), NEW q \in Seq(S),
         NEW ops, OpsIn(p, ops), OpsIn(q, ops)
  PROVE  OpsIn(p \o q, ops)
<1>1. /\ Len(p \o q) = Len(p) + Len(q) /\ Len(p) \in Nat /\ Len(q) \in Nat
      /\ \A i \in 1 .. Len(p) : (p \o q)[i] = p[i]
      /\ \A i \in 1 .. Len(q) : (p \o q)[Len(p) + i] = q[i]
  BY JoinLater
<1>2. ASSUME NEW k \in 1 .. Len(p \o q)
      PROVE  (p \o q)[k].op \in ops
  <2>1. k \in 1 .. Len(p) \/ (k - Len(p) \in 1 .. Len(q) /\ k = Len(p) + (k - Len(p)))
    BY <1>1
  <2> QED
    BY <1>1, <2>1 DEF OpsIn
<1> QED
  BY <1>2 DEF OpsIn

(***************************************************************************)
(* What comes first                                                        *)
(***************************************************************************)

(* Behind place i of the list s comes a step of A, and none of B before it. *)
Comes(s, i, A, B) ==
  \E j \in i + 1 .. Len(s) : s[j] \in A /\ \A k \in i + 1 .. j - 1 : s[k] \notin B

(* What comes is the next step, or it comes behind that.                   *)
LEMMA NextComes ==
  ASSUME NEW S, NEW s \in Seq(S), NEW i \in 0 .. Len(s) - 1, NEW A, NEW B
  PROVE  Comes(s, i, A, B) <=> s[i + 1] \in A \/ (s[i + 1] \notin B /\ Comes(s, i + 1, A, B))
<1>1. Len(s) \in Nat
  BY LenProperties
<1>2. ASSUME NEW j \in i + 1 .. Len(s), s[j] \in A,
             \A k \in i + 1 .. j - 1 : s[k] \notin B
      PROVE  s[i + 1] \in A \/ (s[i + 1] \notin B /\ Comes(s, i + 1, A, B))
  <2>1. CASE j = i + 1
    BY <1>2, <2>1
  <2>2. CASE j # i + 1
    <3>1. j \in (i + 1) + 1 .. Len(s) /\ i + 1 \in i + 1 .. j - 1
      BY <1>1, <2>2
    <3>2. \A k \in (i + 1) + 1 .. j - 1 : k \in i + 1 .. j - 1
      OBVIOUS
    <3> QED
      BY <1>2, <3>1, <3>2 DEF Comes
  <2> QED
    BY <2>1, <2>2
<1>3. ASSUME s[i + 1] \in A
      PROVE  Comes(s, i, A, B)
  <2>1. i + 1 \in i + 1 .. Len(s) /\ i + 1 .. (i + 1) - 1 = {}
    BY <1>1
  <2> QED
    BY <1>3, <2>1 DEF Comes
<1>4. ASSUME s[i + 1] \notin B, NEW j \in (i + 1) + 1 .. Len(s), s[j] \in A,
             \A k \in (i + 1) + 1 .. j - 1 : s[k] \notin B
      PROVE  Comes(s, i, A, B)
  <2>1. j \in i + 1 .. Len(s)
    BY <1>1
  <2>2. \A k \in i + 1 .. j - 1 : k = i + 1 \/ k \in (i + 1) + 1 .. j - 1
    OBVIOUS
  <2> QED
    BY <1>4, <2>1, <2>2 DEF Comes
<1> QED
  BY <1>2, <1>3, <1>4 DEF Comes

LEMMA NothingComes ==
  ASSUME NEW S, NEW s \in Seq(S), NEW A, NEW B
  PROVE  ~ Comes(s, Len(s), A, B)
<1>1. Len(s) \in Nat
  BY LenProperties
<1>2. Len(s) + 1 .. Len(s) = {}
  BY <1>1
<1> QED
  BY <1>2 DEF Comes

(* When the first step is taken, what comes behind it stays.               *)
LEMMA TailComes ==
  ASSUME NEW S, NEW s \in Seq(S), s # << >>, NEW i \in 0 .. Len(s) - 1, NEW A, NEW B
  PROVE  Comes(Tail(s), i, A, B) <=> Comes(s, i + 1, A, B)
<1> DEFINE r == Tail(s)
<1>1. /\ Len(s) \in Nat \ {0} /\ Len(r) = Len(s) - 1
      /\ \A j \in 1 .. Len(s) - 1 : r[j] = s[j + 1]
  BY TailMoves
<1> HIDE DEF r
<1>2. ASSUME NEW j \in i + 1 .. Len(r), r[j] \in A, \A k \in i + 1 .. j - 1 : r[k] \notin B
      PROVE  Comes(s, i + 1, A, B)
  <2>1. j + 1 \in (i + 1) + 1 .. Len(s) /\ s[j + 1] = r[j]
    BY <1>1
  <2>2. ASSUME NEW k \in (i + 1) + 1 .. (j + 1) - 1
        PROVE  k - 1 \in i + 1 .. j - 1 /\ s[k] = r[k - 1]
    <3>1. k - 1 \in i + 1 .. j - 1 /\ k - 1 \in 1 .. Len(s) - 1 /\ (k - 1) + 1 = k
      BY <1>1
    <3> QED
      BY <1>1, <3>1
  <2> QED
    BY <1>2, <2>1, <2>2 DEF Comes
<1>3. ASSUME NEW j \in (i + 1) + 1 .. Len(s), s[j] \in A,
             \A k \in (i + 1) + 1 .. j - 1 : s[k] \notin B
      PROVE  Comes(r, i, A, B)
  <2>1. j - 1 \in i + 1 .. Len(r) /\ r[j - 1] = s[j]
    <3>1. j - 1 \in 1 .. Len(s) - 1 /\ (j - 1) + 1 = j
      BY <1>1
    <3> QED
      BY <1>1, <3>1
  <2>2. ASSUME NEW k \in i + 1 .. (j - 1) - 1
        PROVE  k + 1 \in (i + 1) + 1 .. j - 1 /\ r[k] = s[k + 1]
    BY <1>1
  <2> QED
    BY <1>3, <2>1, <2>2 DEF Comes
<1> QED
  BY <1>2, <1>3 DEF Comes, r

(* In two lists joined, what comes in the second comes unless the first    *)
(* holds it up.                                                            *)
LEMMA JoinComes ==
  ASSUME NEW S, NEW p \in Seq(S), NEW q \in Seq(S), NEW A, NEW B
  PROVE  /\ \A i \in 0 .. Len(p) :
              Comes(p \o q, i, A, B) <=>
                \/ Comes(p, i, A, B)
                \/ Comes(q, 0, A, B) /\ \A k \in i + 1 .. Len(p) : p[k] \notin B
         /\ \A i \in 0 .. Len(q) : Comes(p \o q, Len(p) + i, A, B) <=> Comes(q, i, A, B)
<1> DEFINE s == p \o q
           m == Len(p)
           n == Len(q)
<1>1. /\ Len(s) = m + n /\ m \in Nat /\ n \in Nat
      /\ \A i \in 1 .. m : s[i] = p[i]
      /\ \A i \in 1 .. n : s[m + i] = q[i]
  BY JoinLater
<1> HIDE DEF s, m, n
<1>2. ASSUME NEW i \in 0 .. m, NEW j \in i + 1 .. Len(s), s[j] \in A,
             \A k \in i + 1 .. j - 1 : s[k] \notin B
      PROVE  \/ \E l \in i + 1 .. m : p[l] \in A /\ \A k \in i + 1 .. l - 1 : p[k] \notin B
             \/ /\ \E l \in 0 + 1 .. n : q[l] \in A /\ \A k \in 0 + 1 .. l - 1 : q[k] \notin B
                /\ \A k \in i + 1 .. m : p[k] \notin B
  <2>1. CASE j <= m
    <3>1. j \in i + 1 .. m /\ \A k \in i + 1 .. j : k \in 1 .. m
      BY <1>1, <2>1
    <3>2. \A k \in i + 1 .. j - 1 : k \in i + 1 .. j
      OBVIOUS
    <3> QED
      BY <1>1, <1>2, <3>1, <3>2
  <2>2. CASE j > m
    <3>1. j - m \in 0 + 1 .. n /\ j - m \in 1 .. n /\ m + (j - m) = j
      BY <1>1, <2>2
    <3>2. \A k \in 0 + 1 .. (j - m) - 1 : k \in 1 .. n /\ m + k \in i + 1 .. j - 1
      BY <1>1
    <3>3. \A k \in i + 1 .. m : k \in 1 .. m /\ k \in i + 1 .. j - 1
      BY <1>1, <2>2
    <3>4. q[j - m] \in A
      BY <1>1, <1>2, <3>1
    <3>5. \A k \in 0 + 1 .. (j - m) - 1 : q[k] \notin B
      BY <1>1, <1>2, <3>2
    <3>6. \A k \in i + 1 .. m : p[k] \notin B
      BY <1>1, <1>2, <3>3
    <3> QED
      BY <3>1, <3>4, <3>5, <3>6
  <2> QED
    BY <1>1, <2>1, <2>2
<1>3. ASSUME NEW i \in 0 .. m, NEW j \in i + 1 .. m, p[j] \in A,
             \A k \in i + 1 .. j - 1 : p[k] \notin B
      PROVE  Comes(s, i, A, B)
  <2>0. j \in 1 .. m
    BY <1>1
  <2>1. j \in i + 1 .. Len(s) /\ s[j] = p[j]
    BY <1>1, <2>0
  <2>2. \A k \in i + 1 .. j - 1 : k \in 1 .. m
    BY <1>1
  <2>3. \A k \in i + 1 .. j - 1 : s[k] = p[k]
    BY <1>1, <2>2
  <2> QED
    BY <1>3, <2>1, <2>3 DEF Comes
<1>4. ASSUME NEW i \in 0 .. m, NEW j \in 0 + 1 .. n, q[j] \in A,
             \A k \in 0 + 1 .. j - 1 : q[k] \notin B,
             \A k \in i + 1 .. m : p[k] \notin B
      PROVE  Comes(s, i, A, B)
  <2>1. m + j \in i + 1 .. Len(s) /\ s[m + j] = q[j]
    BY <1>1
  <2>2. ASSUME NEW k \in i + 1 .. (m + j) - 1
        PROVE  s[k] \notin B
    <3>1. CASE k <= m
      BY <1>1, <1>4, <3>1
    <3>2. CASE k > m
      <4>1. k - m \in 1 .. n /\ k - m \in 0 + 1 .. j - 1 /\ m + (k - m) = k
        BY <1>1, <3>2
      <4> QED
        BY <1>1, <1>4, <4>1
    <3> QED
      BY <1>1, <3>1, <3>2
  <2> QED
    BY <1>4, <2>1, <2>2 DEF Comes
<1>5. ASSUME NEW i \in 0 .. m
      PROVE  Comes(s, i, A, B) <=>
               \/ Comes(p, i, A, B)
               \/ Comes(q, 0, A, B) /\ \A k \in i + 1 .. m : p[k] \notin B
  BY <1>2, <1>3, <1>4 DEF Comes, m, n
<1>6. ASSUME NEW i \in 0 .. n
      PROVE  Comes(s, m + i, A, B) <=> Comes(q, i, A, B)
  <2>1. ASSUME NEW j \in (m + i) + 1 .. Len(s), s[j] \in A,
               \A k \in (m + i) + 1 .. j - 1 : s[k] \notin B
        PROVE  Comes(q, i, A, B)
    <3>1. j - m \in i + 1 .. n /\ j - m \in 1 .. n /\ m + (j - m) = j
      BY <1>1
    <3>2. \A k \in i + 1 .. (j - m) - 1 : k \in 1 .. n /\ m + k \in (m + i) + 1 .. j - 1
      BY <1>1
    <3>3. q[j - m] \in A
      BY <1>1, <2>1, <3>1
    <3>4. \A k \in i + 1 .. (j - m) - 1 : q[k] \notin B
      BY <1>1, <2>1, <3>2
    <3> QED
      BY <3>1, <3>3, <3>4 DEF Comes, n
  <2>2. ASSUME NEW j \in i + 1 .. n, q[j] \in A, \A k \in i + 1 .. j - 1 : q[k] \notin B
        PROVE  Comes(s, m + i, A, B)
    <3>1. m + j \in (m + i) + 1 .. Len(s) /\ s[m + j] = q[j]
      BY <1>1
    <3>2. ASSUME NEW k \in (m + i) + 1 .. (m + j) - 1
          PROVE  s[k] \notin B
      <4>1. k - m \in 1 .. n /\ k - m \in i + 1 .. j - 1 /\ m + (k - m) = k
        BY <1>1
      <4> QED
        BY <1>1, <2>2, <4>1
    <3> QED
      BY <2>2, <3>1, <3>2 DEF Comes
  <2> QED
    BY <2>1, <2>2 DEF Comes, n
<1> QED
  BY <1>5, <1>6 DEF s, m, n

(* The step behind place i of s is x. *)
NextIs(s, i, x) == i < Len(s) /\ s[i + 1] = x

(* What is behind place i of s is like what is behind place k of r. *)
Alike(s, i, r, k) ==
  /\ \A A, B : Comes(s, i, A, B) <=> Comes(r, k, A, B)
  /\ \A x : NextIs(s, i, x) <=> NextIs(r, k, x)

LEMMA TailAlike ==
  ASSUME NEW S, NEW s \in Seq(S), s # << >>, NEW i \in 0 .. Len(s) - 1
  PROVE  Alike(Tail(s), i, s, i + 1)
<1>1. \A A, B : Comes(Tail(s), i, A, B) <=> Comes(s, i + 1, A, B)
  BY TailComes
<1>2. \A x : NextIs(Tail(s), i, x) <=> NextIs(s, i + 1, x)
  <2>1. /\ Len(s) \in Nat \ {0} /\ Len(Tail(s)) = Len(s) - 1
        /\ \A j \in 1 .. Len(s) - 1 : Tail(s)[j] = s[j + 1]
    BY TailMoves
  <2>2. i < Len(Tail(s)) <=> i + 1 < Len(s)
    BY <2>1
  <2>3. CASE i + 1 < Len(s)
    <3>1. i + 1 \in 1 .. Len(s) - 1
      BY <2>1, <2>3
    <3> QED
      BY <2>1, <2>2, <3>1 DEF NextIs
  <2> QED
    BY <2>2, <2>3 DEF NextIs
<1> QED
  BY <1>1, <1>2 DEF Alike

LEMMA JoinAlike ==
  ASSUME NEW S, NEW p \in Seq(S), NEW q \in Seq(S)
  PROVE  /\ \A i \in 0 .. Len(q) : Alike(p \o q, Len(p) + i, q, i)
         /\ \A i \in 0 .. Len(p) : \A x :
              NextIs(p \o q, i, x) <=> NextIs(p, i, x) \/ (i = Len(p) /\ NextIs(q, 0, x))
<1> DEFINE s == p \o q
           m == Len(p)
           n == Len(q)
<1>1. /\ Len(s) = m + n /\ m \in Nat /\ n \in Nat
      /\ \A i \in 1 .. m : s[i] = p[i]
      /\ \A i \in 1 .. n : s[m + i] = q[i]
  BY JoinLater
<1>2. \A i \in 0 .. n : \A A, B : Comes(s, m + i, A, B) <=> Comes(q, i, A, B)
  BY JoinComes
<1> HIDE DEF s, m, n
<1>3. ASSUME NEW i \in 0 .. n, NEW x
      PROVE  NextIs(s, m + i, x) <=> NextIs(q, i, x)
  <2>1. m + i < Len(s) <=> i < n
    BY <1>1
  <2>2. CASE i < n
    <3>1. i + 1 \in 1 .. n /\ (m + i) + 1 = m + (i + 1)
      BY <1>1, <2>2
    <3>2. s[(m + i) + 1] = q[i + 1]
      BY <1>1, <3>1
    <3> QED
      BY <2>1, <3>2 DEF NextIs, n
  <2> QED
    BY <2>1, <2>2 DEF NextIs, n
<1>4. ASSUME NEW i \in 0 .. m, NEW x
      PROVE  NextIs(s, i, x) <=> NextIs(p, i, x) \/ (i = m /\ NextIs(q, 0, x))
  <2>1. CASE i = m
    <3>1. 0 \in 0 .. n /\ m + 0 = m /\ ~ (m < m)
      BY <1>1
    <3>2. NextIs(s, m, x) <=> NextIs(q, 0, x)
      BY <1>3, <3>1
    <3> QED
      BY <2>1, <3>1, <3>2 DEF NextIs, m
  <2>2. CASE i # m
    <3>1. i < m /\ i < Len(s) /\ i + 1 \in 1 .. m
      BY <1>1, <2>2
    <3>2. s[i + 1] = p[i + 1]
      BY <1>1, <3>1
    <3> QED
      BY <2>2, <3>1, <3>2 DEF NextIs, m
  <2> QED
    BY <2>1, <2>2
<1>5. \A i \in 0 .. n : Alike(s, m + i, q, i)
  BY <1>2, <1>3 DEF Alike
<1> QED
  BY <1>4, <1>5 DEF s, m, n

(* A step in front of a list. *)
LEMMA ConsAlike ==
  ASSUME NEW S, NEW x \in S, NEW q \in Seq(S)
  PROVE  /\ << x >> \o q \in Seq(S) /\ Len(<< x >> \o q) = 1 + Len(q) /\ Len(q) \in Nat
         /\ (<< x >> \o q)[1] = x /\ \A i \in 1 .. Len(q) : (<< x >> \o q)[1 + i] = q[i]
         /\ \A i \in 0 .. Len(q) : Alike(<< x >> \o q, 1 + i, q, i)
         /\ \A A, B : Comes(<< x >> \o q, 0, A, B) <=> x \in A \/ (x \notin B /\ Comes(q, 0, A, B))
         /\ \A y : NextIs(<< x >> \o q, 0, y) <=> y = x
<1> DEFINE p == << x >>
           s == p \o q
<1>1. p \in Seq(S) /\ Len(p) = 1 /\ p[1] = x
  BY OneStep
<1> HIDE DEF p
<1>2. /\ s \in Seq(S) /\ Len(s) = 1 + Len(q) /\ Len(q) \in Nat
      /\ s[1] = x /\ \A i \in 1 .. Len(q) : s[1 + i] = q[i]
  BY <1>1, JoinLater
<1>3. \A i \in 0 .. Len(q) : Alike(s, 1 + i, q, i)
  BY <1>1, JoinAlike
<1> HIDE DEF s
<1>4. 0 \in 0 .. Len(q) /\ 1 + 0 = 1 /\ 0 \in 0 .. Len(s) - 1 /\ 0 + 1 = 1 /\ 0 < Len(s)
  BY <1>2
<1>5. Alike(s, 1, q, 0)
  BY <1>3, <1>4
<1>6. \A A, B : Comes(s, 0, A, B) <=> x \in A \/ (x \notin B /\ Comes(s, 1, A, B))
  BY <1>2, <1>4, NextComes
<1>7. \A A, B : Comes(s, 0, A, B) <=> x \in A \/ (x \notin B /\ Comes(q, 0, A, B))
  BY <1>5, <1>6 DEF Alike
<1>8. \A y : NextIs(s, 0, y) <=> y = x
  BY <1>2, <1>4 DEF NextIs
<1> QED
  BY <1>2, <1>3, <1>7, <1>8 DEF s, p

LEMMA FirstStep ==
  ASSUME NEW S, NEW x \in S, NEW q \in Seq(S), NEW s \in Seq(S),
         Len(s) = 1 + Len(q), s[1] = x, \A i \in 1 .. Len(q) : s[1 + i] = q[i]
  PROVE  s = << x >> \o q
<1> DEFINE r == << x >> \o q
<1>1. /\ r \in Seq(S) /\ Len(r) = 1 + Len(q) /\ Len(q) \in Nat
      /\ r[1] = x /\ \A i \in 1 .. Len(q) : r[1 + i] = q[i]
  BY ConsAlike
<1> HIDE DEF r
<1>2. ASSUME NEW i \in 1 .. Len(s)
      PROVE  s[i] = r[i]
  <2>1. i = 1 \/ (i - 1 \in 1 .. Len(q) /\ 1 + (i - 1) = i)
    BY <1>1
  <2> QED
    BY <1>1, <2>1
<1>3. s = r
  BY <1>1, <1>2, SeqEqual
<1> QED
  BY <1>3 DEF r

(* The steps of a tuple in front of a list, one by one. *)
LEMMA TupleSteps ==
  ASSUME NEW S, NEW r \in Seq(S), NEW a \in S, NEW b \in S, NEW c \in S, NEW d \in S, NEW e \in S
  PROVE  /\ << >> \o r = r
         /\ << a, b >> \o r = << a >> \o (<< b >> \o r)
         /\ << a, b, c >> \o r = << a >> \o (<< b >> \o (<< c >> \o r))
         /\ << a, b, c, d, e >> \o r
              = << a >> \o (<< b >> \o (<< c >> \o (<< d >> \o (<< e >> \o r))))
<1>1. 1 .. 1 = {1} /\ 1 .. 2 = {1, 2} /\ 1 .. 3 = {1, 2, 3} /\ 1 .. 4 = {1, 2, 3, 4}
  OBVIOUS
<1>2. ASSUME NEW x \in S, NEW y \in S
      PROVE  << x, y >> = << x >> \o << y >>
  <2>1. \A i \in 1 .. 1 : << x, y >>[1 + i] = << y >>[i]
    BY <1>1
  <2>2. << y >> \in Seq(S) /\ << x, y >> \in Seq(S)
    OBVIOUS
  <2>3. Len(<< x, y >>) = 1 + Len(<< y >>) /\ << x, y >>[1] = x
    OBVIOUS
  <2> QED
    BY <2>1, <2>2, <2>3, FirstStep
<1>3. ASSUME NEW x \in S, NEW y \in S, NEW z \in S
      PROVE  << x, y, z >> = << x >> \o << y, z >>
  <2>1. \A i \in 1 .. 2 : << x, y, z >>[1 + i] = << y, z >>[i]
    BY <1>1
  <2> QED
    BY <2>1, FirstStep
<1>4. << b, c, d, e >> = << b >> \o << c, d, e >>
  <2>1. \A i \in 1 .. 3 : << b, c, d, e >>[1 + i] = << c, d, e >>[i]
    BY <1>1
  <2> QED
    BY <2>1, FirstStep
<1>5. << a, b, c, d, e >> = << a >> \o << b, c, d, e >>
  <2>1. \A i \in 1 .. 4 : << a, b, c, d, e >>[1 + i] = << b, c, d, e >>[i]
    BY <1>1
  <2> QED
    BY <2>1, FirstStep
<1>6. ASSUME NEW s, NEW x \in Seq(S), NEW y \in Seq(S), s = x \o y
      PROVE  s \o r = x \o (y \o r)
  BY <1>6, ConcatAssociative
<1>7. ASSUME NEW x \in S, NEW y \in S
      PROVE  << x, y >> \o r = << x >> \o (<< y >> \o r)
  <2>1. << x, y >> = << x >> \o << y >>
    BY <1>2
  <2>2. << x >> \in Seq(S) /\ << y >> \in Seq(S)
    OBVIOUS
  <2> QED
    BY <1>6, <2>1, <2>2
<1>8. ASSUME NEW x \in S, NEW y \in S, NEW z \in S
      PROVE  << x, y, z >> \o r = << x >> \o (<< y >> \o (<< z >> \o r))
  <2>1. << x, y, z >> \o r = << x >> \o (<< y, z >> \o r)
    <3>1. << x >> \in Seq(S) /\ << y, z >> \in Seq(S)
      OBVIOUS
    <3>2. << x, y, z >> = << x >> \o << y, z >>
      BY <1>3
    <3> QED
      BY <1>6, <3>1, <3>2
  <2>2. << y, z >> \o r = << y >> \o (<< z >> \o r)
    BY <1>7
  <2> QED
    BY <2>1, <2>2
<1>9. << a, b, c, d, e >> \o r
         = << a >> \o (<< b >> \o (<< c >> \o (<< d >> \o (<< e >> \o r))))
  <2>1. << a, b, c, d, e >> \o r = << a >> \o (<< b, c, d, e >> \o r)
    <3>1. << a >> \in Seq(S) /\ << b, c, d, e >> \in Seq(S)
      OBVIOUS
    <3> QED
      BY <1>5, <1>6, <3>1
  <2>2. << b, c, d, e >> \o r = << b >> \o (<< c, d, e >> \o r)
    <3>1. << b >> \in Seq(S) /\ << c, d, e >> \in Seq(S)
      OBVIOUS
    <3> QED
      BY <1>4, <1>6, <3>1
  <2>3. << c, d, e >> \o r = << c >> \o (<< d >> \o (<< e >> \o r))
    BY <1>8
  <2> QED
    BY <2>1, <2>2, <2>3
<1>10. << >> \o r = r
  OBVIOUS
<1> QED
  BY <1>7, <1>8, <1>9, <1>10

(* Lists joined from the left or from the right. *)
Joined(s, x, y) == s = x \o y

LEMMA JoinAgain ==
  ASSUME NEW S, NEW x \in Seq(S), NEW y \in Seq(S), NEW z \in Seq(S),
         NEW s, Joined(s, x, y), NEW t, Joined(t, y, z), NEW w, Joined(w, s, z)
  PROVE  s \in Seq(S) /\ t \in Seq(S) /\ Joined(w, x, t)
<1>1. s \in Seq(S) /\ t \in Seq(S)
  BY JoinLater DEF Joined
<1>2. (x \o y) \o z = x \o (y \o z)
  BY ConcatAssociative
<1> QED
  BY <1>1, <1>2 DEF Joined

LEMMA JoinAll ==
  ASSUME NEW S, NEW a \in Seq(S), NEW b \in Seq(S), NEW c \in Seq(S), NEW d \in Seq(S),
         NEW e \in Seq(S),
         NEW ab, Joined(ab, a, b), NEW abc, Joined(abc, ab, c), NEW abcd, Joined(abcd, abc, d),
         NEW de, Joined(de, d, e), NEW cde, Joined(cde, c, de), NEW bcde, Joined(bcde, b, cde),
         NEW all, Joined(all, abcd, e)
  PROVE  abcd \in Seq(S) /\ Joined(all, a, bcde)
<1>1. ab \in Seq(S) /\ abc \in Seq(S) /\ abcd \in Seq(S) /\ de \in Seq(S) /\ cde \in Seq(S)
  <2>1. ab \in Seq(S) /\ de \in Seq(S)
    BY JoinLater DEF Joined
  <2>2. abc \in Seq(S) /\ cde \in Seq(S)
    BY <2>1, JoinLater DEF Joined
  <2> QED
    BY <2>1, <2>2, JoinLater DEF Joined
<1>2. Joined(all, abc, de)
  BY <1>1, JoinAgain
<1>3. Joined(all, ab, cde)
  BY <1>1, <1>2, JoinAgain
<1>4. Joined(all, a, bcde)
  BY <1>1, <1>3, JoinAgain
<1> QED
  BY <1>1, <1>4

=============================================================================
