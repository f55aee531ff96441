------------------------- MODULE FirmwareTasksProofs -------------------------
(***************************************************************************)
(* Proofs about FirmwareTasks, for every number of pins, console lines and *)
(* lines: what the two mutexes protect, in whatever order the steps of the *)
(* three tasks come.                                                       *)
(***************************************************************************)
EXTENDS FirmwareTasks, ListProofs

(***************************************************************************)
(* The steps                                                               *)
(***************************************************************************)

\* The line of the console that a push moves up to, or writes last.
PushStep(k) == Do(IF k < ConsoleLines THEN "shift" ELSE "append", k)

Series == {"shift", "append", "blank", "copy"}

Accesses ==
  [op : {"take", "give"}, on : Mutexes]
    \cup [op : {"touch"}, on : {"counter", "state", "mode", "pin", "link", "menu"}]
    \cup [op : {"set", "reset", "fetch", "clear", "print"}, on : {"error"}]
    \cup [op : {"sample"}, on : {"pin"}]
    \cup [op : {"toggle", "write"}, on : {"port"}]
    \cup [op : {"load"}, on : {"port", "overflowCount"}]
    \cup [op : {"store"}, on : {"overflowCount"}]
    \cup {PushStep(k) : k \in 1 .. ConsoleLines}
    \cup [op : {"blank", "copy"}, on : 1 .. ConsoleLines]
    \cup [op : {"draw"}, on : {"console"}]
    \cup [op : {"call", "return"}, on : Commands]

(* The console's lines are gone through from the first to the last. *)
Open(x) == x.op \in Series /\ x.on < ConsoleLines

Middle(x) == x.op \in Series /\ x.on # 1

After(x) == IF x.op = "shift" THEN PushStep(x.on + 1) ELSE Do(x.op, x.on + 1)

(* A task is inside the critical section of m when it gives m back before  *)
(* it takes it.                                                            *)
About(m) == {Do("take", m), Do("give", m)}

Inside(s, i, m) == Comes(s, i, {Do("give", m)}, About(m))

(* What is read and then written, and the mutex that guards it.            *)
Updates == {"port", "pin", "count", "error"}

Writes(u) ==
  CASE u = "port"  -> {Do("toggle", "port"), Do("write", "port")}
    [] u = "pin"   -> {Do("toggle", "port")}
    [] u = "count" -> {Do("store", "overflowCount")}
    [] OTHER       -> {Do("clear", "error")}

Reads(u) ==
  CASE u = "port"  -> {Do("load", "port")}
    [] u = "pin"   -> {Do("sample", "pin")}
    [] u = "count" -> {Do("load", "overflowCount")}
    [] OTHER       -> {Do("fetch", "error")}

Under(u) == IF u \in {"port", "pin"} THEN "i2c" ELSE "state"

(* A task has read what it will write. *)
Pending(s, i, u) == Comes(s, i, Writes(u), Reads(u))

(* The updates that what was read is no longer good for. *)
Spoils(op) ==
  CASE op \in {"toggle", "write", "store"}         -> {"port", "pin", "count"}
    [] op \in {"set", "reset", "clear", "print"}   -> {"error"}
    [] op \in {"call", "return"}                   -> Updates
    [] OTHER                                       -> {}

(* A task reaches a pin of the command it is executing. *)
PinSteps == {Do("sample", "pin"), Do("toggle", "port"), Do("write", "port")}

Calls == {Do("call", c) : c \in Commands}

OnPin(s, i) == Comes(s, i, PinSteps, Calls)

(***************************************************************************)
(* The lists of steps                                                      *)
(***************************************************************************)

(* Nobody gives the mutex back between the reading and the writing. *)
Sound(s, i) == \A u \in Updates : Pending(s, i, u) => Inside(s, i, Under(u))

(* The step x may stand where the steps of s behind place i are to come. *)
Fits(x, s, i) ==
  /\ \A m \in Mutexes :
       /\ x = Do("take", m) => Inside(s, i, m)
       /\ x = Do("give", m) \/ x.op \in {"call", "return"} => ~ Inside(s, i, m)
  /\ x.op \in Series \cup {"set", "reset"} => Inside(s, i, "state")
  /\ \A u \in Spoils(x.op) : ~ Pending(s, i, u)
  /\ x.op \in {"call", "return"} => ~ OnPin(s, i)
  /\ IF Open(x) THEN NextIs(s, i, After(x)) ELSE \A y : NextIs(s, i, y) => ~ Middle(y)

Shape(s) ==
  /\ s \in Seq(Accesses) /\ Sound(s, 0)
  /\ \A i \in 1 .. Len(s) : Fits(s[i], s, i) /\ Sound(s, i)

LEMMA FitsAlike ==
  ASSUME NEW s, NEW i, NEW r, NEW k, Alike(s, i, r, k)
  PROVE  /\ \A x : Fits(x, s, i) <=> Fits(x, r, k)
         /\ Sound(s, i) <=> Sound(r, k)
<1>1. /\ \A m : Inside(s, i, m) <=> Inside(r, k, m)
      /\ \A u : Pending(s, i, u) <=> Pending(r, k, u)
      /\ OnPin(s, i) <=> OnPin(r, k)
      /\ \A y : NextIs(s, i, y) <=> NextIs(r, k, y)
  BY DEF Alike, Inside, Pending, OnPin
<1> QED
  BY <1>1 DEF Fits, Sound

(* Taking the first step leaves a list that fits.                          *)
LEMMA TailShape ==
  ASSUME NEW s, Shape(s), s # << >>
  PROVE  Shape(Tail(s)) /\ Fits(Head(s), Tail(s), 0)
<1>1. /\ s \in Seq(Accesses) /\ Len(s) \in Nat \ {0} /\ Len(Tail(s)) = Len(s) - 1
      /\ Tail(s) \in Seq(Accesses) /\ Head(s) = s[1]
      /\ \A i \in 1 .. Len(s) - 1 : Tail(s)[i] = s[i + 1]
  BY TailMoves DEF Shape
<1>2. ASSUME NEW i \in 0 .. Len(s) - 1
      PROVE  /\ \A x : Fits(x, s, i + 1) <=> Fits(x, Tail(s), i)
             /\ Sound(s, i + 1) <=> Sound(Tail(s), i)
  BY <1>1, TailAlike, FitsAlike
<1>3. Fits(s[1], Tail(s), 0) /\ Sound(Tail(s), 0)
  <2>1. 1 \in 1 .. Len(s) /\ 0 \in 0 .. Len(s) - 1 /\ 0 + 1 = 1
    BY <1>1
  <2>2. Fits(s[1], s, 1) /\ Sound(s, 1)
    BY <2>1 DEF Shape
  <2> QED
    BY <1>2, <2>1, <2>2
<1>4. ASSUME NEW i \in 1 .. Len(Tail(s))
      PROVE  Fits(Tail(s)[i], Tail(s), i) /\ Sound(Tail(s), i)
  <2>1. i \in 0 .. Len(s) - 1 /\ i \in 1 .. Len(s) - 1 /\ i + 1 \in 1 .. Len(s)
    BY <1>1
  <2>2. Fits(s[i + 1], s, i + 1) /\ Sound(s, i + 1) /\ Tail(s)[i] = s[i + 1]
    BY <1>1, <2>1 DEF Shape
  <2> QED
    BY <1>2, <2>1, <2>2
<1> QED
  BY <1>1, <1>3, <1>4 DEF Shape

(* A step in front of a list it fits.                                      *)
LEMMA ConsShape ==
  ASSUME NEW x \in Accesses, NEW q, Shape(q), Fits(x, q, 0), Sound(<< x >> \o q, 0)
  PROVE  Shape(<< x >> \o q)
<1> DEFINE s == << x >> \o q
<1>1. q \in Seq(Accesses)
  BY DEF Shape
<1>2. /\ s \in Seq(Accesses) /\ Len(s) = 1 + Len(q) /\ Len(q) \in Nat
      /\ s[1] = x /\ \A i \in 1 .. Len(q) : s[1 + i] = q[i]
      /\ \A i \in 0 .. Len(q) : Alike(s, 1 + i, q, i)
  BY <1>1, ConsAlike
<1>3. Sound(s, 0)
  OBVIOUS
<1> HIDE DEF s
<1>4. ASSUME NEW i \in 0 .. Len(q)
      PROVE  /\ \A y : Fits(y, s, 1 + i) <=> Fits(y, q, i)
             /\ Sound(s, 1 + i) <=> Sound(q, i)
  BY <1>2, FitsAlike
<1>5. Fits(s[1], s, 1) /\ Sound(s, 1)
  <2>1. 0 \in 0 .. Len(q) /\ 1 + 0 = 1
    BY <1>2
  <2> QED
    BY <1>2, <1>4, <2>1 DEF Shape
<1>6. ASSUME NEW k \in 1 .. Len(s)
      PROVE  Fits(s[k], s, k) /\ Sound(s, k)
  <2>1. k = 1 \/ (k - 1 \in 1 .. Len(q) /\ k - 1 \in 0 .. Len(q) /\ k = 1 + (k - 1))
    BY <1>2
  <2> QED
    BY <1>2, <1>4, <1>5, <2>1 DEF Shape
<1> QED
  BY <1>2, <1>3, <1>6 DEF Shape, s

(***************************************************************************)
(* The profile of a list: its kinds of steps, the mutexes it is inside of, *)
(* the updates it may write before it reads, whether it may reach the pin  *)
(* of the command in hand.                                                 *)
(***************************************************************************)

Profile(s, ops, held, pend, pin) ==
  /\ Shape(s) /\ OpsIn(s, ops)
  /\ \A m \in Mutexes : Inside(s, 0, m) <=> m \in held
  /\ \A u \in Updates : Pending(s, 0, u) => u \in pend
  /\ OnPin(s, 0) => pin
  /\ \A y : NextIs(s, 0, y) => ~ Middle(y)

\* A list that begins and ends outside of both mutexes.
Closed(s, ops, pin) == Profile(s, ops, {}, {}, pin)

LEMMA NothingToDo ==
  ASSUME NEW ops
  PROVE  /\ Closed(<< >>, ops, FALSE) /\ \A A, B : ~ Comes(<< >>, 0, A, B)
         /\ \A x : ~ NextIs(<< >>, 0, x)
<1>1. 0 + 1 .. Len(<< >>) = {} /\ 1 .. Len(<< >>) = {} /\ << >> \in Seq(Accesses)
      /\ ~ (0 < Len(<< >>))
  OBVIOUS
<1>2. /\ \A A, B : ~ Comes(<< >>, 0, A, B)
      /\ \A x : ~ NextIs(<< >>, 0, x)
  BY <1>1 DEF Comes, NextIs
<1> QED
  BY <1>1, <1>2 DEF Closed, Profile, Shape, OpsIn, Inside, Pending, OnPin, Sound

(* Handlers behind each other; a call stands in front of no step that      *)
(* reaches a pin.                                                          *)
LEMMA JoinClosed ==
  ASSUME NEW p, NEW q, NEW ops, NEW pp \in BOOLEAN, NEW pq \in BOOLEAN,
         Closed(p, ops, pp), Closed(q, ops, pq),
         pq => \A i \in 1 .. Len(p) : p[i].op \notin {"call", "return"}
  PROVE  Closed(p \o q, ops, pp \/ pq)
<1> DEFINE s == p \o q
<1>1. /\ p \in Seq(Accesses) /\ q \in Seq(Accesses) /\ Shape(p) /\ Shape(q)
      /\ OpsIn(p, ops) /\ OpsIn(q, ops)
  BY DEF Closed, Profile, Shape
<1>2. /\ s \in Seq(Accesses) /\ Len(s) = Len(p) + Len(q) /\ Len(p) \in Nat /\ Len(q) \in Nat
      /\ \A i \in 1 .. Len(p) : s[i] = p[i]
      /\ \A i \in 1 .. Len(q) : s[Len(p) + i] = q[i]
  BY <1>1, JoinLater
<1>3. /\ \A i \in 0 .. Len(q) : Alike(s, Len(p) + i, q, i)
      /\ \A i \in 0 .. Len(p) : \A x :
           NextIs(s, i, x) <=> NextIs(p, i, x) \/ (i = Len(p) /\ NextIs(q, 0, x))
  BY <1>1, JoinAlike
<1>4. ASSUME NEW A, NEW B, NEW i \in 0 .. Len(p)
      PROVE  /\ Comes(p, i, A, B) => Comes(s, i, A, B)
             /\ Comes(s, i, A, B) => Comes(p, i, A, B) \/ Comes(q, 0, A, B)
  BY <1>1, JoinComes
<1>5. OpsIn(s, ops)
  BY <1>1, OpsJoin
<1> HIDE DEF s
<1>6. ASSUME NEW i \in 0 .. Len(p)
      PROVE  /\ \A m \in Mutexes : Inside(s, i, m) <=> Inside(p, i, m)
             /\ \A u \in Updates : Pending(s, i, u) <=> Pending(p, i, u)
             /\ OnPin(s, i) => OnPin(p, i) \/ pq
             /\ Sound(s, i) <=> Sound(p, i)
  <2>1. /\ \A m \in Mutexes : ~ Inside(q, 0, m)
        /\ \A u \in Updates : ~ Pending(q, 0, u)
        /\ OnPin(q, 0) => pq
    BY DEF Closed, Profile
  <2>2. \A m \in Mutexes : Inside(s, i, m) <=> Inside(p, i, m)
    BY <1>4, <2>1 DEF Inside
  <2>3. \A u \in Updates : Pending(s, i, u) <=> Pending(p, i, u)
    BY <1>4, <2>1 DEF Pending
  <2>4. OnPin(s, i) => OnPin(p, i) \/ pq
    BY <1>4, <2>1 DEF OnPin
  <2>5. \A u \in Updates : Under(u) \in Mutexes
    BY DEF Under, Mutexes
  <2> QED
    BY <2>2, <2>3, <2>4, <2>5 DEF Sound
<1>7. ASSUME NEW i \in 1 .. Len(p)
      PROVE  Fits(s[i], s, i) /\ Sound(s, i)
  <2>1. Fits(p[i], p, i) /\ Sound(p, i) /\ s[i] = p[i] /\ i \in 0 .. Len(p)
    BY <1>1, <1>2 DEF Shape
  <2>2. p[i].op \in {"call", "return"} => ~ pq
    OBVIOUS
  <2>3. \A y : NextIs(q, 0, y) => ~ Middle(y)
    BY DEF Closed, Profile
  <2>4. IF Open(p[i]) THEN NextIs(s, i, After(p[i])) ELSE \A y : NextIs(s, i, y) => ~ Middle(y)
    BY <1>3, <2>1, <2>3 DEF Fits
  <2>5. \A u \in Spoils(p[i].op) : u \in Updates
    BY DEF Spoils, Updates
  <2>6. "state" \in Mutexes
    BY DEF Mutexes
  <2> QED
    BY <1>6, <2>1, <2>2, <2>4, <2>5, <2>6 DEF Fits
<1>8. ASSUME NEW i \in 1 .. Len(q)
      PROVE  Fits(s[Len(p) + i], s, Len(p) + i) /\ Sound(s, Len(p) + i)
  <2>1. Fits(q[i], q, i) /\ Sound(q, i) /\ s[Len(p) + i] = q[i] /\ i \in 0 .. Len(q)
    BY <1>1, <1>2 DEF Shape
  <2> QED
    BY <1>3, <2>1, FitsAlike
<1>9. 0 \in 0 .. Len(p)
  BY <1>2
<1>10. Shape(s)
  <2>1. ASSUME NEW k \in 1 .. Len(s)
        PROVE  Fits(s[k], s, k) /\ Sound(s, k)
    <3>1. k \in 1 .. Len(p) \/ (k - Len(p) \in 1 .. Len(q) /\ k = Len(p) + (k - Len(p)))
      BY <1>2
    <3> QED
      BY <1>7, <1>8, <3>1
  <2>2. Sound(s, 0)
    BY <1>1, <1>6, <1>9 DEF Shape
  <2> QED
    BY <1>2, <2>1, <2>2 DEF Shape
<1>11. \A y : NextIs(s, 0, y) => ~ Middle(y)
  BY <1>3, <1>9 DEF Closed, Profile
<1> QED
  BY <1>5, <1>6, <1>9, <1>10, <1>11 DEF Closed, Profile, s

(***************************************************************************)
(* One step in front of a list                                             *)
(***************************************************************************)

(* What a step in front changes of what comes behind.                      *)
LEMMA ConsComes ==
  ASSUME NEW x \in Accesses, NEW q \in Seq(Accesses)
  PROVE  LET s == << x >> \o q IN
         /\ \A m \in Mutexes :
              Inside(s, 0, m) <=> x = Do("give", m) \/ (x # Do("take", m) /\ Inside(q, 0, m))
         /\ \A u \in Updates :
              Pending(s, 0, u) <=> x \in Writes(u) \/ (x \notin Reads(u) /\ Pending(q, 0, u))
         /\ OnPin(s, 0) <=> x \in PinSteps \/ (x \notin Calls /\ OnPin(q, 0))
         /\ \A y : NextIs(s, 0, y) <=> y = x
<1> DEFINE s == << x >> \o q
<1>1. /\ \A A, B : Comes(s, 0, A, B) <=> x \in A \/ (x \notin B /\ Comes(q, 0, A, B))
      /\ \A y : NextIs(s, 0, y) <=> y = x
  BY ConsAlike
<1> HIDE DEF s
<1>2. \A m \in Mutexes :
        Inside(s, 0, m) <=> x = Do("give", m) \/ (x # Do("take", m) /\ Inside(q, 0, m))
  BY <1>1 DEF Inside, About
<1>3. \A u \in Updates :
        Pending(s, 0, u) <=> x \in Writes(u) \/ (x \notin Reads(u) /\ Pending(q, 0, u))
  BY <1>1 DEF Pending
<1>4. OnPin(s, 0) <=> x \in PinSteps \/ (x \notin Calls /\ OnPin(q, 0))
  BY <1>1 DEF OnPin
<1> QED
  BY <1>1, <1>2, <1>3, <1>4 DEF s

LEMMA DoOp == \A op, on : Do(op, on).op = op /\ Do(op, on).on = on
BY DEF Do

LEMMA ConsOps ==
  ASSUME NEW x \in Accesses, NEW q \in Seq(Accesses), NEW ops, OpsIn(q, ops), x.op \in ops
  PROVE  OpsIn(<< x >> \o q, ops)
<1>1. << x >> \in Seq(Accesses) /\ Len(<< x >>) = 1 /\ << x >>[1] = x
  BY OneStep
<1>2. OpsIn(<< x >>, ops)
  BY <1>1 DEF OpsIn
<1> QED
  BY <1>1, <1>2, OpsJoin

(* A step that has nothing to do with the mutexes.                         *)
LEMMA ConsAccess ==
  ASSUME NEW x \in Accesses, NEW q, NEW ops, NEW held, NEW pend, NEW pin \in BOOLEAN,
         Profile(q, ops, held, pend, pin),
         x.op \in ops, x.op \notin {"take", "give", "call", "return"} \cup Series,
         x.op \in {"set", "reset"} => "state" \in held,
         \A u \in Spoils(x.op) : u \notin pend,
         \A u \in Updates : x \in Writes(u) => Under(u) \in held,
         NEW after,
         \A u \in Updates : x \in Writes(u) \/ (u \in pend /\ x \notin Reads(u)) => u \in after
  PROVE  Profile(<< x >> \o q, ops, held, after, pin \/ x \in PinSteps)
<1> DEFINE s == << x >> \o q
<1>1. q \in Seq(Accesses) /\ Shape(q) /\ Sound(q, 0) /\ OpsIn(q, ops)
  BY DEF Profile, Shape
<1>2. /\ \A m \in Mutexes : x # Do("take", m) /\ x # Do("give", m)
      /\ x \notin Calls
      /\ \A u \in Updates : Under(u) \in Mutexes
      /\ "state" \in Mutexes
      /\ Spoils(x.op) \subseteq Updates
  BY DoOp DEF Calls, Under, Mutexes, Spoils, Updates
<1>3. /\ \A m \in Mutexes : Inside(s, 0, m) <=> Inside(q, 0, m)
      /\ \A u \in Updates :
           Pending(s, 0, u) <=> x \in Writes(u) \/ (x \notin Reads(u) /\ Pending(q, 0, u))
      /\ OnPin(s, 0) <=> x \in PinSteps \/ OnPin(q, 0)
      /\ \A y : NextIs(s, 0, y) <=> y = x
  BY <1>1, <1>2, ConsComes
<1>4. OpsIn(s, ops)
  BY <1>1, ConsOps
<1>5. Fits(x, q, 0)
  BY <1>2 DEF Fits, Profile, Open
<1> HIDE DEF s
<1>6. Sound(s, 0)
  BY <1>1, <1>2, <1>3 DEF Sound, Profile
<1>7. Shape(s)
  BY <1>1, <1>5, <1>6, ConsShape DEF s
<1>8. \A y : NextIs(s, 0, y) => ~ Middle(y)
  BY <1>3 DEF Middle
<1>9. \A u \in Updates : Pending(s, 0, u) => u \in after
  BY <1>3 DEF Profile
<1> QED
  BY <1>3, <1>4, <1>7, <1>8, <1>9 DEF Profile, s

(* Giving a mutex back, in front of what is outside of it.                 *)
LEMMA ConsGive ==
  ASSUME NEW m \in Mutexes, NEW q, NEW ops, NEW held,
         Profile(q, ops, held, {}, FALSE), m \notin held, "give" \in ops
  PROVE  Profile(<< Do("give", m) >> \o q, ops, held \cup {m}, {}, FALSE)
<1> DEFINE x == Do("give", m)
           s == << x >> \o q
<1>1. q \in Seq(Accesses) /\ Shape(q) /\ OpsIn(q, ops)
  BY DEF Profile, Shape
<1>2. /\ x \in Accesses /\ x.op = "give" /\ x \notin Calls /\ x \notin PinSteps
      /\ \A n \in Mutexes : x # Do("take", n) /\ (x = Do("give", n) <=> n = m)
      /\ \A u \in Updates : x \notin Writes(u) /\ x \notin Reads(u)
  <2>1. x \in Accesses
    BY DEF Do, Accesses
  <2>2. x.op = "give" /\ x.on = m
    BY DoOp
  <2>3. \A u \in Updates : x \notin Writes(u) /\ x \notin Reads(u)
    BY <2>2, DoOp DEF Writes, Reads
  <2>4. x \notin Calls /\ x \notin PinSteps
    BY <2>2, DoOp DEF Calls, PinSteps
  <2>5. \A n \in Mutexes : x # Do("take", n) /\ (x = Do("give", n) <=> n = m)
    BY <2>2, DoOp
  <2> QED
    BY <2>1, <2>2, <2>3, <2>4, <2>5
<1> HIDE DEF x
<1>3. /\ \A n \in Mutexes : Inside(s, 0, n) <=> n = m \/ Inside(q, 0, n)
      /\ \A u \in Updates : Pending(s, 0, u) <=> Pending(q, 0, u)
      /\ OnPin(s, 0) <=> OnPin(q, 0)
      /\ \A y : NextIs(s, 0, y) <=> y = x
  BY <1>1, <1>2, ConsComes
<1>4. OpsIn(s, ops)
  BY <1>1, <1>2, ConsOps
<1>5. Fits(x, q, 0)
  <2>1. Spoils("give") = {} /\ "give" \notin Series
    BY DEF Spoils, Series
  <2> QED
    BY <1>2, <2>1 DEF Fits, Profile, Open
<1> HIDE DEF s
<1>6. Sound(s, 0)
  BY <1>3 DEF Sound, Profile
<1>7. Shape(s)
  BY <1>1, <1>2, <1>5, <1>6, ConsShape DEF s
<1>8. \A y : NextIs(s, 0, y) => ~ Middle(y)
  BY <1>2, <1>3 DEF Middle, Series
<1> QED
  BY <1>3, <1>4, <1>7, <1>8 DEF Profile, s, x

(* Taking a mutex, in front of its critical section.                       *)
LEMMA ConsTake ==
  ASSUME NEW m \in Mutexes, NEW q, NEW ops, NEW held, NEW pin \in BOOLEAN,
         Profile(q, ops, held, {}, pin), m \in held, "take" \in ops
  PROVE  Profile(<< Do("take", m) >> \o q, ops, held \ {m}, {}, pin)
<1> DEFINE x == Do("take", m)
           s == << x >> \o q
<1>1. q \in Seq(Accesses) /\ Shape(q) /\ OpsIn(q, ops)
  BY DEF Profile, Shape
<1>2. /\ x \in Accesses /\ x.op = "take" /\ x \notin Calls /\ x \notin PinSteps
      /\ \A n \in Mutexes : x # Do("give", n) /\ (x = Do("take", n) <=> n = m)
      /\ \A u \in Updates : x \notin Writes(u) /\ x \notin Reads(u)
  <2>1. x \in Accesses
    BY DEF Do, Accesses
  <2>2. x.op = "take" /\ x.on = m
    BY DoOp
  <2>3. \A u \in Updates : x \notin Writes(u) /\ x \notin Reads(u)
    BY <2>2, DoOp DEF Writes, Reads
  <2>4. x \notin Calls /\ x \notin PinSteps
    BY <2>2, DoOp DEF Calls, PinSteps
  <2>5. \A n \in Mutexes : x # Do("give", n) /\ (x = Do("take", n) <=> n = m)
    BY <2>2, DoOp
  <2> QED
    BY <2>1, <2>2, <2>3, <2>4, <2>5
<1> HIDE DEF x
<1>3. /\ \A n \in Mutexes : Inside(s, 0, n) <=> n # m /\ Inside(q, 0, n)
      /\ \A u \in Updates : Pending(s, 0, u) <=> Pending(q, 0, u)
      /\ OnPin(s, 0) <=> OnPin(q, 0)
      /\ \A y : NextIs(s, 0, y) <=> y = x
  BY <1>1, <1>2, ConsComes
<1>4. OpsIn(s, ops)
  BY <1>1, <1>2, ConsOps
<1>5. Fits(x, q, 0)
  <2>1. Spoils("take") = {} /\ "take" \notin Series
    BY DEF Spoils, Series
  <2> QED
    BY <1>2, <2>1 DEF Fits, Profile, Open
<1> HIDE DEF s
<1>6. Sound(s, 0)
  BY <1>3 DEF Sound, Profile
<1>7. Shape(s)
  BY <1>1, <1>2, <1>5, <1>6, ConsShape DEF s
<1>8. \A y : NextIs(s, 0, y) => ~ Middle(y)
  BY <1>2, <1>3 DEF Middle, Series
<1> QED
  BY <1>3, <1>4, <1>7, <1>8 DEF Profile, s, x

(***************************************************************************)
(* The handlers                                                            *)
(***************************************************************************)

BodyOps ==
  {"take", "give", "touch", "set", "reset", "fetch", "clear", "print", "sample", "toggle",
   "write", "load", "store", "shift", "append", "blank"}

ReaderOps == BodyOps \cup {"call", "return"}

OledOps == {"take", "give", "touch", "copy", "draw"}

\* What every task does with a mutex and with data that is left out.
CommonOps == {"take", "give", "touch"}

LEMMA CommonOpsEverywhere ==
  CommonOps \subseteq BodyOps /\ CommonOps \subseteq OledOps
BY DEF CommonOps, BodyOps, OledOps

LEMMA GiveProfile ==
  ASSUME NEW m \in Mutexes, NEW ops, "give" \in ops
  PROVE  /\ << Do("give", m) >> \in Seq(Accesses)
         /\ Profile(<< Do("give", m) >>, ops, {m}, {}, FALSE)
<1>1. Profile(<< >>, ops, {}, {}, FALSE)
  BY NothingToDo DEF Closed
<1>2. Profile(<< Do("give", m) >> \o << >>, ops, {} \cup {m}, {}, FALSE)
  BY <1>1, ConsGive
<1>3. << Do("give", m) >> \in Seq(Accesses)
  BY DEF Do, Accesses
<1>4. << Do("give", m) >> \o << >> = << Do("give", m) >> /\ {} \cup {m} = {m}
  BY <1>3
<1> QED
  BY <1>2, <1>3, <1>4

LEMMA LockedClosed ==
  ASSUME NEW m \in Mutexes, NEW body \in Seq(Accesses), NEW ops, NEW pin \in BOOLEAN,
         Profile(body \o << Do("give", m) >>, ops, {m}, {}, pin), "take" \in ops
  PROVE  Closed(Locked(m, body), ops, pin)
<1>1. << Do("take", m) >> \in Seq(Accesses) /\ << Do("give", m) >> \in Seq(Accesses)
  BY DEF Do, Accesses
<1>2. Locked(m, body) = << Do("take", m) >> \o (body \o << Do("give", m) >>)
  BY <1>1, ConcatAssociative DEF Locked
<1>3. Profile(Locked(m, body), ops, {m} \ {m}, {}, pin)
  BY <1>2, ConsTake
<1>4. {m} \ {m} = {}
  OBVIOUS
<1> QED
  BY <1>3, <1>4 DEF Closed

(* An access in a critical section that reads or writes no update.         *)
LEMMA PlainAccess ==
  ASSUME NEW op, NEW on, Do(op, on) \in Accesses,
         op \in {"touch", "set", "reset", "print", "draw"},
         NEW q, NEW ops, NEW held, NEW pin \in BOOLEAN,
         Profile(q, ops, held, {}, pin), op \in ops,
         op \in {"set", "reset"} => "state" \in held
  PROVE  Profile(<< Do(op, on) >> \o q, ops, held, {}, pin)
<1> DEFINE x == Do(op, on)
<1>1. /\ x.op = op /\ x \notin PinSteps
      /\ x.op \notin {"take", "give", "call", "return"} \cup Series
      /\ \A u \in Updates : x \notin Writes(u)
  BY DoOp DEF PinSteps, Series, Writes
<1> HIDE DEF x
<1>2. Profile(<< x >> \o q, ops, held, {}, pin \/ x \in PinSteps)
  BY <1>1, ConsAccess DEF x
<1> QED
  BY <1>1, <1>2 DEF x

(* A critical section of one access.                                       *)
LEMMA PlainSection ==
  ASSUME NEW op, NEW on, NEW m \in Mutexes, NEW ops,
         Do(op, on) \in Accesses, op \in {"touch", "set", "reset"},
         op \in {"set", "reset"} => m = "state",
         CommonOps \cup {op} \subseteq ops
  PROVE  Closed(Locked(m, << Do(op, on) >>), ops, FALSE)
<1>1. Profile(<< Do("give", m) >>, ops, {m}, {}, FALSE)
  BY GiveProfile DEF CommonOps
<1>2. Profile(<< Do(op, on) >> \o << Do("give", m) >>, ops, {m}, {}, FALSE)
  BY <1>1, PlainAccess
<1>3. << Do(op, on) >> \in Seq(Accesses)
  OBVIOUS
<1> QED
  BY <1>2, <1>3, LockedClosed DEF CommonOps

(* The steps of the updates: what stands before the writing reads.         *)
UpdateSteps ==
  {Do("toggle", "port"), Do("write", "port"), Do("load", "port"), Do("sample", "pin"),
   Do("store", "overflowCount"), Do("load", "overflowCount"),
   Do("clear", "error"), Do("fetch", "error")}

WrittenBy(x) == {u \in Updates : x \in Writes(u)}
ReadBy(x) == {u \in Updates : x \in Reads(u)}

LEMMA UpdateFacts ==
  /\ \A x \in UpdateSteps :
       /\ x \in Accesses /\ x.op \in BodyOps
       /\ x.op \notin {"take", "give", "call", "return", "set", "reset"} \cup Series
  /\ LET x == Do("toggle", "port")
     IN  x.op = "toggle" /\ WrittenBy(x) = {"port", "pin"} /\ ReadBy(x) = {} /\ x \in PinSteps
  /\ LET x == Do("write", "port")
     IN  x.op = "write" /\ WrittenBy(x) = {"port"} /\ ReadBy(x) = {} /\ x \in PinSteps
  /\ LET x == Do("load", "port")
     IN  x.op = "load" /\ WrittenBy(x) = {} /\ ReadBy(x) = {"port"} /\ x \notin PinSteps
  /\ LET x == Do("sample", "pin")
     IN  x.op = "sample" /\ WrittenBy(x) = {} /\ ReadBy(x) = {"pin"} /\ x \in PinSteps
  /\ LET x == Do("store", "overflowCount")
     IN  x.op = "store" /\ WrittenBy(x) = {"count"} /\ ReadBy(x) = {} /\ x \notin PinSteps
  /\ LET x == Do("load", "overflowCount")
     IN  x.op = "load" /\ WrittenBy(x) = {} /\ ReadBy(x) = {"count"} /\ x \notin PinSteps
  /\ LET x == Do("clear", "error")
     IN  x.op = "clear" /\ WrittenBy(x) = {"error"} /\ ReadBy(x) = {} /\ x \notin PinSteps
  /\ LET x == Do("fetch", "error")
     IN  x.op = "fetch" /\ WrittenBy(x) = {} /\ ReadBy(x) = {"error"} /\ x \notin PinSteps
<1>1. ASSUME NEW x \in UpdateSteps
      PROVE  /\ x \in Accesses /\ x.op \in BodyOps
             /\ x.op \notin {"take", "give", "call", "return", "set", "reset"} \cup Series
  <2>1. x \in Accesses
    BY DEF UpdateSteps, Do, Accesses
  <2>2. x.op \in {"toggle", "write", "load", "sample", "store", "clear", "fetch"}
    BY DoOp DEF UpdateSteps
  <2> QED
    BY <2>1, <2>2 DEF BodyOps, Series
<1>2. ASSUME NEW op, NEW on
      PROVE  /\ Do(op, on).op = op
             /\ Do(op, on) \in PinSteps <=>
                  << op, on >> \in {<< "sample", "pin" >>, << "toggle", "port" >>, << "write", "port" >>}
             /\ \A u \in Updates :
                  /\ Do(op, on) \in Writes(u) <=>
                       \/ u = "port"  /\ on = "port" /\ op \in {"toggle", "write"}
                       \/ u = "pin"   /\ on = "port" /\ op = "toggle"
                       \/ u = "count" /\ on = "overflowCount" /\ op = "store"
                       \/ u = "error" /\ on = "error" /\ op = "clear"
                  /\ Do(op, on) \in Reads(u) <=>
                       \/ u = "port"  /\ on = "port" /\ op = "load"
                       \/ u = "pin"   /\ on = "pin" /\ op = "sample"
                       \/ u = "count" /\ on = "overflowCount" /\ op = "load"
                       \/ u = "error" /\ on = "error" /\ op = "fetch"
  <2>1. \A o, n : Do(op, on) = Do(o, n) <=> op = o /\ on = n
    BY DoOp
  <2> QED
    BY <2>1, DoOp DEF PinSteps, Writes, Reads, Updates
<1>3. /\ WrittenBy(Do("toggle", "port")) = {"port", "pin"} /\ ReadBy(Do("toggle", "port")) = {}
      /\ WrittenBy(Do("write", "port")) = {"port"} /\ ReadBy(Do("write", "port")) = {}
  BY <1>2 DEF WrittenBy, ReadBy, Updates
<1>4. /\ WrittenBy(Do("load", "port")) = {} /\ ReadBy(Do("load", "port")) = {"port"}
      /\ WrittenBy(Do("sample", "pin")) = {} /\ ReadBy(Do("sample", "pin")) = {"pin"}
  BY <1>2 DEF WrittenBy, ReadBy, Updates
<1>5. /\ WrittenBy(Do("store", "overflowCount")) = {"count"}
      /\ ReadBy(Do("store", "overflowCount")) = {}
      /\ WrittenBy(Do("load", "overflowCount")) = {}
      /\ ReadBy(Do("load", "overflowCount")) = {"count"}
  BY <1>2 DEF WrittenBy, ReadBy, Updates
<1>6. /\ WrittenBy(Do("clear", "error")) = {"error"} /\ ReadBy(Do("clear", "error")) = {}
      /\ WrittenBy(Do("fetch", "error")) = {} /\ ReadBy(Do("fetch", "error")) = {"error"}
  BY <1>2 DEF WrittenBy, ReadBy, Updates
<1> QED
  BY <1>1, <1>2, <1>3, <1>4, <1>5, <1>6

LEMMA ConsUpdate ==
  ASSUME NEW x \in UpdateSteps, NEW q, NEW held, NEW pend, NEW pin \in BOOLEAN,
         Profile(q, BodyOps, held, pend, pin),
         \A u \in Spoils(x.op) : u \notin pend,
         \A u \in WrittenBy(x) : Under(u) \in held,
         NEW after, WrittenBy(x) \cup (pend \ ReadBy(x)) \subseteq after
  PROVE  Profile(<< x >> \o q, BodyOps, held, after, pin \/ x \in PinSteps)
<1>1. /\ x \in Accesses /\ x.op \in BodyOps
      /\ x.op \notin {"take", "give", "call", "return"} \cup Series
      /\ x.op \notin {"set", "reset"}
  BY UpdateFacts
<1>2. /\ \A u \in Updates : x \in Writes(u) => Under(u) \in held
      /\ \A u \in Updates : x \in Writes(u) \/ (u \in pend /\ x \notin Reads(u)) => u \in after
  BY DEF WrittenBy, ReadBy
<1> QED
  BY <1>1, <1>2, ConsAccess

LEMMA InBoth ==
  /\ Under("port") = "i2c" /\ Under("pin") = "i2c"
  /\ Under("count") = "state" /\ Under("error") = "state"
  /\ "i2c" \in Mutexes /\ "state" \in Mutexes
  /\ Spoils("toggle") = {"port", "pin", "count"} /\ Spoils("write") = {"port", "pin", "count"}
  /\ Spoils("store") = {"port", "pin", "count"} /\ Spoils("clear") = {"error"}
  /\ Spoils("load") = {} /\ Spoils("sample") = {} /\ Spoils("fetch") = {}
BY DEF Under, Mutexes, Spoils

LEMMA TouchAccess ==
  /\ \A on \in {"counter", "state", "mode", "pin", "link", "menu"} : Do("touch", on) \in Accesses
  /\ \A op \in {"set", "reset", "print"} : Do(op, "error") \in Accesses
  /\ Do("draw", "console") \in Accesses
BY DEF Do, Accesses

(* SYST:ERR? reads lastError and clears it.                                *)
LEMMA FetchSection ==
  Closed(Locked("state", << Do("fetch", "error"), Do("clear", "error") >>), BodyOps, FALSE)
<1> DEFINE q1 == << Do("give", "state") >>
           q2 == << Do("clear", "error") >> \o q1
           q3 == << Do("fetch", "error") >> \o q2
<1>1. Profile(q1, BodyOps, {"state"}, {}, FALSE) /\ q1 \in Seq(Accesses)
  BY GiveProfile, InBoth DEF BodyOps
<1>2. Do("clear", "error") \in UpdateSteps /\ Do("fetch", "error") \in UpdateSteps
  BY DEF UpdateSteps
<1>3. Do("clear", "error") \in Accesses /\ Do("fetch", "error") \in Accesses
  BY <1>2, UpdateFacts
<1>4. << Do("fetch", "error"), Do("clear", "error") >> \o q1 = q3
  BY <1>1, <1>3, TupleSteps
<1> HIDE DEF q1
<1>5. Profile(q2, BodyOps, {"state"}, {"error"}, FALSE)
  <2>1. Profile(q2, BodyOps, {"state"}, {"error"}, FALSE \/ Do("clear", "error") \in PinSteps)
    BY <1>1, <1>2, UpdateFacts, InBoth, ConsUpdate
  <2> QED
    BY <2>1, UpdateFacts
<1> HIDE DEF q2
<1>6. Profile(q3, BodyOps, {"state"}, {}, FALSE)
  <2>1. Profile(q3, BodyOps, {"state"}, {}, FALSE \/ Do("fetch", "error") \in PinSteps)
    BY <1>2, <1>5, UpdateFacts, InBoth, ConsUpdate
  <2> QED
    BY <2>1, UpdateFacts
<1>7. << Do("fetch", "error"), Do("clear", "error") >> \in Seq(Accesses)
  BY <1>3
<1> QED
  BY <1>4, <1>6, <1>7, InBoth, LockedClosed DEF q1, BodyOps

(* readLine counts a line that is too long.                                *)
LEMMA CountSection ==
  Closed(Locked("state", << Do("load", "overflowCount"), Do("store", "overflowCount") >>),
         BodyOps, FALSE)
<1> DEFINE a == Do("load", "overflowCount")
           b == Do("store", "overflowCount")
           q1 == << Do("give", "state") >>
           q2 == << b >> \o q1
           q3 == << a >> \o q2
<1>1. Profile(q1, BodyOps, {"state"}, {}, FALSE) /\ q1 \in Seq(Accesses)
  BY GiveProfile, InBoth DEF BodyOps
<1>2. a \in UpdateSteps /\ b \in UpdateSteps
  BY DEF UpdateSteps
<1>3. a \in Accesses /\ b \in Accesses
  BY <1>2, UpdateFacts
<1>4. << a, b >> \o q1 = q3 /\ << a, b >> \in Seq(Accesses)
  BY <1>1, <1>3, TupleSteps
<1> HIDE DEF q1
<1>5. Profile(q2, BodyOps, {"state"}, {"count"}, FALSE)
  <2>1. Profile(q2, BodyOps, {"state"}, {"count"}, FALSE \/ b \in PinSteps)
    BY <1>1, <1>2, UpdateFacts, InBoth, ConsUpdate
  <2> QED
    BY <2>1, UpdateFacts
<1> HIDE DEF q2
<1>6. Profile(q3, BodyOps, {"state"}, {}, FALSE)
  <2>1. Profile(q3, BodyOps, {"state"}, {}, FALSE \/ a \in PinSteps)
    BY <1>2, <1>5, UpdateFacts, InBoth, ConsUpdate
  <2> QED
    BY <2>1, UpdateFacts
<1> QED
  BY <1>4, <1>6, InBoth, LockedClosed DEF q1, BodyOps

(* handleMcpWrite reads the port and writes it back.                       *)
LEMMA WriteSection ==
  Closed(Locked("i2c", << Do("touch", "mode"), Do("load", "port"), Do("write", "port") >>),
         BodyOps, TRUE)
<1> DEFINE a == Do("touch", "mode")
           b == Do("load", "port")
           c == Do("write", "port")
           q1 == << Do("give", "i2c") >>
           q2 == << c >> \o q1
           q3 == << b >> \o q2
           q4 == << a >> \o q3
<1>1. Profile(q1, BodyOps, {"i2c"}, {}, FALSE) /\ q1 \in Seq(Accesses)
  BY GiveProfile, InBoth DEF BodyOps
<1>2. b \in UpdateSteps /\ c \in UpdateSteps
  BY DEF UpdateSteps
<1>3. a \in Accesses /\ b \in Accesses /\ c \in Accesses
  BY <1>2, UpdateFacts, TouchAccess
<1>4. << a, b, c >> \o q1 = q4 /\ << a, b, c >> \in Seq(Accesses)
  BY <1>1, <1>3, TupleSteps
<1> HIDE DEF q1
<1>5. Profile(q2, BodyOps, {"i2c"}, {"port"}, TRUE)
  <2>1. Profile(q2, BodyOps, {"i2c"}, {"port"}, FALSE \/ c \in PinSteps)
    BY <1>1, <1>2, UpdateFacts, InBoth, ConsUpdate
  <2> QED
    BY <2>1, UpdateFacts
<1> HIDE DEF q2
<1>6. Profile(q3, BodyOps, {"i2c"}, {}, TRUE)
  <2>1. Profile(q3, BodyOps, {"i2c"}, {}, TRUE \/ b \in PinSteps)
    BY <1>2, <1>5, UpdateFacts, InBoth, ConsUpdate
  <2> QED
    BY <2>1
<1> HIDE DEF q3
<1>7. Profile(q4, BodyOps, {"i2c"}, {}, TRUE)
  BY <1>3, <1>6, PlainAccess DEF BodyOps
<1> QED
  BY <1>4, <1>7, InBoth, LockedClosed DEF q1, BodyOps

(* handleMcpToggle reads the pin and the port and writes the port back.    *)
LEMMA ToggleSection ==
  Closed(Locked("i2c", << Do("touch", "mode"), Do("sample", "pin"), Do("load", "port"),
                          Do("toggle", "port"), Do("touch", "pin") >>),
         BodyOps, TRUE)
<1> DEFINE a == Do("touch", "mode")
           b == Do("sample", "pin")
           c == Do("load", "port")
           d == Do("toggle", "port")
           e == Do("touch", "pin")
           q1 == << Do("give", "i2c") >>
           q2 == << e >> \o q1
           q3 == << d >> \o q2
           q4 == << c >> \o q3
           q5 == << b >> \o q4
           q6 == << a >> \o q5
<1>1. Profile(q1, BodyOps, {"i2c"}, {}, FALSE) /\ q1 \in Seq(Accesses)
  BY GiveProfile, InBoth DEF BodyOps
<1>2. b \in UpdateSteps /\ c \in UpdateSteps /\ d \in UpdateSteps
  BY DEF UpdateSteps
<1>3. a \in Accesses /\ b \in Accesses /\ c \in Accesses /\ d \in Accesses /\ e \in Accesses
  BY <1>2, UpdateFacts, TouchAccess
<1>4. << a, b, c, d, e >> \o q1 = q6 /\ << a, b, c, d, e >> \in Seq(Accesses)
  BY <1>1, <1>3, TupleSteps
<1> HIDE DEF q1
<1>5. Profile(q2, BodyOps, {"i2c"}, {}, FALSE)
  BY <1>1, <1>3, PlainAccess DEF BodyOps
<1> HIDE DEF q2
<1>6. Profile(q3, BodyOps, {"i2c"}, {"port", "pin"}, TRUE)
  <2>1. Profile(q3, BodyOps, {"i2c"}, {"port", "pin"}, FALSE \/ d \in PinSteps)
    BY <1>2, <1>5, UpdateFacts, InBoth, ConsUpdate
  <2> QED
    BY <2>1, UpdateFacts
<1> HIDE DEF q3
<1>7. Profile(q4, BodyOps, {"i2c"}, {"pin"}, TRUE)
  <2>1. Profile(q4, BodyOps, {"i2c"}, {"pin"}, TRUE \/ c \in PinSteps)
    BY <1>2, <1>6, UpdateFacts, InBoth, ConsUpdate
  <2> QED
    BY <2>1
<1> HIDE DEF q4
<1>8. Profile(q5, BodyOps, {"i2c"}, {}, TRUE)
  <2>1. Profile(q5, BodyOps, {"i2c"}, {}, TRUE \/ b \in PinSteps)
    BY <1>2, <1>7, UpdateFacts, InBoth, ConsUpdate
  <2> QED
    BY <2>1
<1> HIDE DEF q5
<1>9. Profile(q6, BodyOps, {"i2c"}, {}, TRUE)
  BY <1>3, <1>8, PlainAccess DEF BodyOps
<1> QED
  BY <1>4, <1>9, InBoth, LockedClosed DEF q1, BodyOps

(* A walk through the lines of the console. *)
Walk(body) ==
  /\ Len(body) = ConsoleLines
  /\ \A i \in 1 .. ConsoleLines : body[i].op \in Series /\ body[i].on = i
  /\ \A i \in 1 .. ConsoleLines - 1 : body[i + 1] = After(body[i])

(* It stands in front of what is inside the critical section of stateMutex. *)
LEMMA SeriesProfile ==
  ASSUME NEW body \in Seq(Accesses), Walk(body), NEW ops, OpsIn(body, ops),
         NEW q, NEW held, Profile(q, ops, held, {}, FALSE), "state" \in held
  PROVE  Profile(body \o q, ops, held, {}, FALSE)
<1> DEFINE s == body \o q
           L == ConsoleLines
<1>1. q \in Seq(Accesses) /\ Shape(q) /\ OpsIn(q, ops) /\ L \in Nat \ {0}
  BY ConsoleLinesAssumption DEF Profile, Shape
<1>2. ASSUME NEW x, x.op \in Series
      PROVE  /\ \A m : x # Do("give", m) /\ x # Do("take", m) /\ x \notin About(m)
             /\ \A u \in Updates : x \notin Writes(u) /\ x \notin Reads(u)
             /\ x \notin PinSteps /\ x \notin Calls
             /\ x.op \notin {"call", "return", "set", "reset"} /\ Spoils(x.op) = {}
  BY <1>2, DoOp DEF Series, About, Writes, Reads, Updates, PinSteps, Calls, Spoils
<1>3. /\ s \in Seq(Accesses) /\ Len(s) = L + Len(q) /\ Len(q) \in Nat
      /\ \A i \in 1 .. L : s[i] = body[i]
      /\ \A i \in 1 .. Len(q) : s[L + i] = q[i]
  <2>1. /\ s \in Seq(Accesses) /\ Len(s) = Len(body) + Len(q) /\ Len(q) \in Nat
        /\ \A i \in 1 .. Len(body) : s[i] = body[i]
        /\ \A i \in 1 .. Len(q) : s[Len(body) + i] = q[i]
    BY <1>1, JoinLater
  <2> QED
    BY <2>1 DEF Walk
<1>4. /\ \A i \in 0 .. Len(q) : Alike(s, L + i, q, i)
      /\ \A i \in 0 .. L : \A x :
           NextIs(s, i, x) <=> NextIs(body, i, x) \/ (i = L /\ NextIs(q, 0, x))
  <2>1. /\ \A i \in 0 .. Len(q) : Alike(s, Len(body) + i, q, i)
        /\ \A i \in 0 .. Len(body) : \A x :
             NextIs(s, i, x) <=> NextIs(body, i, x) \/ (i = Len(body) /\ NextIs(q, 0, x))
    BY <1>1, JoinAlike
  <2> QED
    BY <2>1 DEF Walk
<1>5. ASSUME NEW A, NEW B, \A i \in 1 .. L : body[i] \notin A /\ body[i] \notin B,
             NEW i \in 0 .. L
      PROVE  Comes(s, i, A, B) <=> Comes(q, 0, A, B)
  <2>1. \A k \in i + 1 .. L : k \in 1 .. L
    BY <1>1
  <2>2. ~ Comes(body, i, A, B)
    BY <1>5, <2>1 DEF Comes, Walk
  <2>3. Comes(s, i, A, B) <=>
          Comes(body, i, A, B) \/ (Comes(q, 0, A, B) /\ \A k \in i + 1 .. L : body[k] \notin B)
    <3>1. \A j \in 0 .. Len(body) :
            Comes(s, j, A, B) <=>
              \/ Comes(body, j, A, B)
              \/ Comes(q, 0, A, B) /\ \A k \in j + 1 .. Len(body) : body[k] \notin B
      BY <1>1, JoinComes
    <3> QED
      BY <3>1 DEF Walk
  <2> QED
    BY <1>5, <2>1, <2>2, <2>3
<1>6. OpsIn(s, ops)
  BY <1>1, OpsJoin
<1> HIDE DEF s
<1>7. ASSUME NEW i \in 0 .. L
      PROVE  /\ \A m \in Mutexes : Inside(s, i, m) <=> Inside(q, 0, m)
             /\ \A u \in Updates : ~ Pending(s, i, u)
             /\ ~ OnPin(s, i)
  <2>1. \A k \in 1 .. L : body[k].op \in Series
    BY DEF Walk
  <2>2. ASSUME NEW m \in Mutexes
        PROVE  Inside(s, i, m) <=> Inside(q, 0, m)
    <3>1. \A k \in 1 .. L : body[k] \notin {Do("give", m)} /\ body[k] \notin About(m)
      BY <1>2, <2>1
    <3> QED
      BY <1>5, <3>1 DEF Inside
  <2>3. ASSUME NEW u \in Updates
        PROVE  ~ Pending(s, i, u)
    <3>1. \A k \in 1 .. L : body[k] \notin Writes(u) /\ body[k] \notin Reads(u)
      BY <1>2, <2>1
    <3>2. ~ Pending(q, 0, u)
      BY DEF Profile
    <3> QED
      BY <1>5, <3>1, <3>2 DEF Pending
  <2>4. ~ OnPin(s, i)
    <3>1. \A k \in 1 .. L : body[k] \notin PinSteps /\ body[k] \notin Calls
      BY <1>2, <2>1
    <3>2. ~ OnPin(q, 0)
      BY DEF Profile
    <3> QED
      BY <1>5, <3>1, <3>2 DEF OnPin
  <2> QED
    BY <2>2, <2>3, <2>4
<1>8. ASSUME NEW i \in 1 .. L
      PROVE  Fits(s[i], s, i) /\ Sound(s, i)
  <2> DEFINE x == body[i]
  <2>1. x.op \in Series /\ x.on = i /\ s[i] = x /\ i \in 0 .. L
    BY <1>1, <1>3 DEF Walk
  <2>2. CASE i < L
    <3>1. i \in 1 .. L - 1 /\ i < Len(body) /\ body[i + 1] = After(x)
      BY <1>1, <2>2 DEF Walk
    <3>2. NextIs(s, i, After(x)) /\ Open(x)
      BY <1>4, <2>1, <2>2, <3>1 DEF NextIs, Open
    <3> QED
      BY <1>2, <1>7, <2>1, <3>2, InBoth DEF Fits, Sound, Profile
  <2>3. CASE i = L
    <3>1. ~ (L < Len(body)) /\ ~ Open(x)
      BY <1>1, <2>1, <2>3 DEF Open, Walk
    <3>2. \A y : NextIs(s, i, y) => ~ Middle(y)
      BY <1>4, <2>1, <2>3, <3>1 DEF NextIs, Profile
    <3> QED
      BY <1>2, <1>7, <2>1, <3>1, <3>2, InBoth DEF Fits, Sound, Profile
  <2> QED
    BY <1>1, <2>2, <2>3
<1>9. ASSUME NEW k \in 1 .. Len(s)
      PROVE  Fits(s[k], s, k) /\ Sound(s, k)
  <2>1. CASE k \in 1 .. L
    BY <1>8, <2>1
  <2>2. CASE k \notin 1 .. L
    <3>1. k - L \in 1 .. Len(q) /\ k - L \in 0 .. Len(q) /\ k = L + (k - L)
      BY <1>1, <1>3, <2>2
    <3>2. Fits(q[k - L], q, k - L) /\ Sound(q, k - L)
      BY <1>1, <3>1 DEF Shape
    <3> QED
      BY <1>3, <1>4, <3>1, <3>2, FitsAlike
  <2> QED
    BY <2>1, <2>2
<1>10. 0 \in 0 .. L /\ 1 \in 1 .. L /\ 0 + 1 = 1 /\ 0 # L
  BY <1>1
<1>11. Shape(s)
  BY <1>3, <1>7, <1>9, <1>10 DEF Shape, Sound
<1>12. \A y : NextIs(s, 0, y) => ~ Middle(y)
  <2>1. \A y : NextIs(s, 0, y) => y = body[1]
    BY <1>4, <1>10 DEF NextIs
  <2> QED
    BY <1>10, <2>1 DEF Middle, Walk
<1>13. \A m \in Mutexes : Inside(s, 0, m) <=> m \in held
  BY <1>7, <1>10 DEF Profile
<1>14. ~ OnPin(s, 0) /\ \A u \in Updates : ~ Pending(s, 0, u)
  BY <1>7, <1>10
<1> QED
  BY <1>6, <1>11, <1>12, <1>13, <1>14 DEF Profile, s

LEMMA PushAccess ==
  ASSUME NEW k \in 1 .. ConsoleLines
  PROVE  /\ PushStep(k) \in Accesses /\ PushStep(k).on = k
         /\ PushStep(k).op = IF k < ConsoleLines THEN "shift" ELSE "append"
         /\ Do("blank", k) \in Accesses /\ Do("copy", k) \in Accesses
BY DEF PushStep, Do, Accesses

LEMMA PushClosed == Closed(ConsolePush, BodyOps, FALSE)
<1> DEFINE L == ConsoleLines
           body == [i \in 1 .. L |-> Do(IF i < L THEN "shift" ELSE "append", i)]
<1>1. L \in Nat \ {0}
  BY ConsoleLinesAssumption
<1>2. \A i \in 1 .. L : body[i] = PushStep(i) /\ body[i] \in Accesses
  BY PushAccess DEF PushStep
<1>3. body \in [1 .. L -> Accesses]
  BY <1>2
<1>4. body \in Seq(Accesses) /\ Len(body) = L
  BY <1>1, <1>3
<1>5. ConsolePush = Locked("state", body)
  BY DEF ConsolePush
<1> HIDE DEF body
<1>6. \A i \in 1 .. L : body[i].op \in {"shift", "append"} /\ body[i].on = i
  BY <1>2, PushAccess
<1>7. \A i \in 1 .. L - 1 : body[i + 1] = After(body[i])
  <2> SUFFICES ASSUME NEW i \in 1 .. L - 1
               PROVE  body[i + 1] = After(body[i])
    OBVIOUS
  <2>1. i \in 1 .. L /\ i + 1 \in 1 .. L /\ i < L
    BY <1>1
  <2>2. body[i].op = "shift" /\ body[i].on = i
    BY <1>2, <2>1, PushAccess
  <2> QED
    BY <1>2, <2>1, <2>2 DEF After
<1>8. Walk(body)
  BY <1>4, <1>6, <1>7 DEF Walk, Series
<1>9. OpsIn(body, BodyOps)
  BY <1>4, <1>6 DEF OpsIn, BodyOps
<1>10. Profile(<< Do("give", "state") >>, BodyOps, {"state"}, {}, FALSE)
  BY GiveProfile, InBoth DEF BodyOps
<1>11. Profile(body \o << Do("give", "state") >>, BodyOps, {"state"}, {}, FALSE)
  BY <1>4, <1>8, <1>9, <1>10, SeriesProfile
<1> QED
  BY <1>4, <1>5, <1>11, InBoth, LockedClosed DEF BodyOps

(* Blanking or copying every line of the console.                          *)
LEMMA WalkOne ==
  ASSUME NEW op \in {"blank", "copy"}
  PROVE  LET body == [i \in 1 .. ConsoleLines |-> Do(op, i)]
         IN  body \in Seq(Accesses) /\ Walk(body) /\ OpsIn(body, {op})
<1> DEFINE L == ConsoleLines
           body == [i \in 1 .. L |-> Do(op, i)]
<1>1. L \in Nat \ {0}
  BY ConsoleLinesAssumption
<1>2. \A i \in 1 .. L : body[i] = Do(op, i) /\ body[i] \in Accesses
  BY PushAccess
<1>3. body \in [1 .. L -> Accesses]
  BY <1>2
<1>4. body \in Seq(Accesses) /\ Len(body) = L
  BY <1>1, <1>3
<1> HIDE DEF body
<1>6. \A i \in 1 .. L : body[i].op = op /\ body[i].on = i
  BY <1>2, DoOp
<1>7. \A i \in 1 .. L - 1 : body[i + 1] = After(body[i])
  <2> SUFFICES ASSUME NEW i \in 1 .. L - 1
               PROVE  body[i + 1] = After(body[i])
    OBVIOUS
  <2>1. i \in 1 .. L /\ i + 1 \in 1 .. L
    BY <1>1
  <2> QED
    BY <1>2, <1>6, <2>1 DEF After
<1>8. Walk(body)
  BY <1>4, <1>6, <1>7 DEF Walk, Series
<1>9. OpsIn(body, {op})
  BY <1>4, <1>6 DEF OpsIn
<1> QED
  BY <1>4, <1>8, <1>9 DEF body

LEMMA ClearClosed == Closed(ConsoleClear, BodyOps, FALSE)
<1> DEFINE body == [i \in 1 .. ConsoleLines |-> Do("blank", i)]
<1>1. body \in Seq(Accesses) /\ Walk(body) /\ OpsIn(body, {"blank"})
  BY WalkOne
<1>2. ConsoleClear = Locked("state", body)
  BY DEF ConsoleClear
<1> HIDE DEF body
<1>3. OpsIn(body, BodyOps)
  BY <1>1 DEF OpsIn, BodyOps
<1>4. Profile(<< Do("give", "state") >>, BodyOps, {"state"}, {}, FALSE)
  BY GiveProfile, InBoth DEF BodyOps
<1>5. Profile(body \o << Do("give", "state") >>, BodyOps, {"state"}, {}, FALSE)
  BY <1>1, <1>3, <1>4, SeriesProfile
<1> QED
  BY <1>1, <1>2, <1>5, InBoth, LockedClosed DEF BodyOps

(* taskOled copies the console while it holds both mutexes.                *)
LEMMA DrawClosed ==
  Closed(DrawConsole, OledOps, FALSE) /\ Closed(DrawMenu, OledOps, FALSE)
<1> DEFINE body == [i \in 1 .. ConsoleLines |-> Do("copy", i)]
           draw == Do("draw", "console")
           q1 == << Do("give", "i2c") >>
           q2 == << draw >> \o q1
           q3 == << Do("give", "state") >> \o q2
           q4 == body \o q3
           q5 == << Do("take", "state") >> \o q4
           whole == Locked("state", body) \o << draw >>
<1>1. body \in Seq(Accesses) /\ Walk(body) /\ OpsIn(body, {"copy"})
  BY WalkOne
<1>2. DrawConsole = Locked("i2c", whole)
  BY DEF DrawConsole
<1>3. draw \in Accesses
  BY TouchAccess
<1> HIDE DEF body, draw
<1>4. OpsIn(body, OledOps)
  BY <1>1 DEF OpsIn, OledOps
<1>5. Profile(q1, OledOps, {"i2c"}, {}, FALSE) /\ q1 \in Seq(Accesses)
  BY GiveProfile, InBoth DEF OledOps
<1>6. Profile(q2, OledOps, {"i2c"}, {}, FALSE)
  BY <1>3, <1>5, PlainAccess DEF OledOps, draw
<1> HIDE DEF q1
<1>7. Profile(q3, OledOps, {"i2c", "state"}, {}, FALSE)
  <2>1. Profile(q3, OledOps, {"i2c"} \cup {"state"}, {}, FALSE)
    BY <1>6, InBoth, ConsGive DEF OledOps
  <2>2. {"i2c"} \cup {"state"} = {"i2c", "state"}
    OBVIOUS
  <2> QED
    BY <2>1, <2>2
<1>8. Profile(q4, OledOps, {"i2c", "state"}, {}, FALSE)
  BY <1>1, <1>4, <1>7, SeriesProfile
<1>9. Profile(q5, OledOps, {"i2c"}, {}, FALSE)
  <2>1. Profile(q5, OledOps, {"i2c", "state"} \ {"state"}, {}, FALSE)
    BY <1>8, InBoth, ConsTake DEF OledOps
  <2>2. {"i2c", "state"} \ {"state"} = {"i2c"}
    OBVIOUS
  <2> QED
    BY <2>1, <2>2
<1>10. whole \o q1 = q5 /\ whole \in Seq(Accesses)
  <2>1. << Do("take", "state") >> \in Seq(Accesses) /\ << Do("give", "state") >> \in Seq(Accesses)
    BY DEF Do, Accesses, Mutexes
  <2>2. << draw >> \in Seq(Accesses)
    BY <1>3
  <2> DEFINE t == << Do("take", "state") >>
             g == << Do("give", "state") >>
             d == << draw >>
             tb == t \o body
             tbg == tb \o g
             all == whole \o q1
  <2>3. /\ Joined(tb, t, body) /\ Joined(tbg, tb, g) /\ Joined(whole, tbg, d)
        /\ Joined(q2, d, q1) /\ Joined(q3, g, q2) /\ Joined(q4, body, q3)
        /\ Joined(all, whole, q1)
    BY DEF Joined, Locked
  <2>4. t \in Seq(Accesses) /\ g \in Seq(Accesses) /\ d \in Seq(Accesses)
    BY <2>1, <2>2
  <2>5. Joined(all, t, q4) => whole \o q1 = q5
    BY DEF Joined
  <2> HIDE DEF t, g, d, tb, tbg, all, whole, q5, q4, q3, q2
  <2>6. body \in Seq(Accesses) /\ q1 \in Seq(Accesses)
    BY <1>1, <1>5
  <2>7. whole \in Seq(Accesses) /\ Joined(all, t, q4)
    BY <2>3, <2>4, <2>6, JoinAll
  <2> QED
    BY <2>5, <2>7
<1> HIDE DEF whole, q5
<1>11. Closed(DrawConsole, OledOps, FALSE)
  BY <1>2, <1>9, <1>10, InBoth, LockedClosed DEF OledOps, q1
<1>12. Closed(DrawMenu, OledOps, FALSE)
  <2>1. CommonOps \cup {"touch"} \subseteq OledOps
    BY DEF CommonOps, OledOps
  <2> QED
    BY <2>1, InBoth, TouchAccess, PlainSection DEF DrawMenu
<1> QED
  BY <1>11, <1>12

(* Calls and returns stand outside of everything.                          *)
LEMMA OuterSteps ==
  ASSUME NEW s \in Seq(Accesses), OpsIn(s, {"call", "return"})
  PROVE  Closed(s, ReaderOps, FALSE)
<1>1. ASSUME NEW x, x.op \in {"call", "return"}
      PROVE  /\ \A m : x # Do("give", m) /\ x # Do("take", m)
             /\ \A u : x \notin Writes(u)
             /\ x \notin PinSteps
             /\ x.op \notin Series \cup {"set", "reset"}
             /\ Spoils(x.op) \subseteq Updates
             /\ ~ Open(x) /\ ~ Middle(x)
  BY <1>1, DoOp DEF Writes, PinSteps, Series, Spoils, Updates, Open, Middle
<1>2. Len(s) \in Nat
  BY LenProperties
<1>3. ASSUME NEW i \in 0 .. Len(s)
      PROVE  /\ \A m : ~ Inside(s, i, m)
             /\ \A u : ~ Pending(s, i, u)
             /\ ~ OnPin(s, i)
             /\ \A y : NextIs(s, i, y) => ~ Middle(y)
  <2>1. \A j \in i + 1 .. Len(s) : s[j].op \in {"call", "return"}
    BY <1>2 DEF OpsIn
  <2>2. \A m : ~ Inside(s, i, m)
    BY <1>1, <2>1 DEF Inside, Comes
  <2>3. \A u : ~ Pending(s, i, u)
    BY <1>1, <2>1 DEF Pending, Comes
  <2>4. ~ OnPin(s, i)
    BY <1>1, <2>1 DEF OnPin, Comes
  <2>5. \A y : NextIs(s, i, y) => ~ Middle(y)
    <3>1. i < Len(s) => i + 1 \in i + 1 .. Len(s)
      BY <1>2
    <3> QED
      BY <1>1, <2>1, <3>1 DEF NextIs
  <2> QED
    BY <2>2, <2>3, <2>4, <2>5
<1>4. \A i \in 0 .. Len(s) : Sound(s, i)
  BY <1>3 DEF Sound
<1>5. ASSUME NEW i \in 1 .. Len(s)
      PROVE  Fits(s[i], s, i)
  <2>1. i \in 0 .. Len(s) /\ s[i].op \in {"call", "return"}
    BY <1>2 DEF OpsIn
  <2> QED
    BY <1>1, <1>3, <2>1 DEF Fits
<1>6. 0 \in 0 .. Len(s) /\ \A i \in 1 .. Len(s) : i \in 0 .. Len(s)
  BY <1>2
<1>7. Shape(s)
  BY <1>4, <1>5, <1>6 DEF Shape
<1>8. OpsIn(s, ReaderOps)
  BY DEF OpsIn, ReaderOps
<1> QED
  BY <1>3, <1>6, <1>7, <1>8 DEF Closed, Profile

LEMMA ClosedSeq ==
  ASSUME NEW s, NEW ops, NEW pin, Closed(s, ops, pin)
  PROVE  s \in Seq(Accesses) /\ Shape(s) /\ OpsIn(s, ops)
BY DEF Closed, Profile, Shape

(* What a body does, a reader may do.                                      *)
LEMMA ReaderDoes ==
  ASSUME NEW s, NEW pin, Closed(s, BodyOps, pin)
  PROVE  Closed(s, ReaderOps, pin)
BY DEF Closed, Profile, OpsIn, ReaderOps

LEMMA JoinBodies ==
  ASSUME NEW p, NEW q, NEW ops, NEW pp \in BOOLEAN, NEW pq \in BOOLEAN,
         Closed(p, BodyOps, pp), Closed(q, ops, pq), ops \in {BodyOps, ReaderOps}
  PROVE  Closed(p \o q, ops, pp \/ pq)
<1>1. Closed(p, ops, pp)
  BY ReaderDoes
<1>2. \A i \in 1 .. Len(p) : p[i].op \notin {"call", "return"}
  <2>1. "call" \notin BodyOps /\ "return" \notin BodyOps
    BY DEF BodyOps
  <2> QED
    BY <2>1, ClosedSeq DEF OpsIn
<1> QED
  BY <1>1, <1>2, JoinClosed

(* The critical sections of one access, and those of none.                 *)
LEMMA SmallSections ==
  /\ Closed(SetErr, BodyOps, FALSE) /\ Closed(ResetErr, BodyOps, FALSE)
  /\ \A m \in Mutexes, on \in {"counter", "state", "mode", "link"} :
       Closed(Locked(m, << Do("touch", on) >>), BodyOps, FALSE)
  /\ Closed(Locked("i2c", << >>), BodyOps, FALSE)
  /\ Closed(<< Do("print", "error") >>, BodyOps, FALSE)
<1>1. /\ CommonOps \cup {"touch"} \subseteq BodyOps /\ CommonOps \cup {"set"} \subseteq BodyOps
      /\ CommonOps \cup {"reset"} \subseteq BodyOps /\ "print" \in BodyOps
      /\ "take" \in BodyOps /\ "give" \in BodyOps
  BY DEF CommonOps, BodyOps
<1>2. Closed(SetErr, BodyOps, FALSE) /\ Closed(ResetErr, BodyOps, FALSE)
  BY <1>1, InBoth, TouchAccess, PlainSection DEF SetErr, ResetErr
<1>3. ASSUME NEW m \in Mutexes, NEW on \in {"counter", "state", "mode", "link"}
      PROVE  Closed(Locked(m, << Do("touch", on) >>), BodyOps, FALSE)
  BY <1>1, TouchAccess, PlainSection
<1>4. Closed(Locked("i2c", << >>), BodyOps, FALSE)
  <2>1. /\ << Do("give", "i2c") >> \in Seq(Accesses)
        /\ Profile(<< Do("give", "i2c") >>, BodyOps, {"i2c"}, {}, FALSE)
    BY <1>1, InBoth, GiveProfile
  <2>2. << >> \o << Do("give", "i2c") >> = << Do("give", "i2c") >> /\ << >> \in Seq(Accesses)
    BY <2>1
  <2> QED
    BY <1>1, <2>1, <2>2, InBoth, LockedClosed
<1>5. Closed(<< Do("print", "error") >>, BodyOps, FALSE)
  <2>1. Profile(<< >>, BodyOps, {}, {}, FALSE)
    BY NothingToDo DEF Closed
  <2>2. Profile(<< Do("print", "error") >> \o << >>, BodyOps, {}, {}, FALSE)
    BY <1>1, <2>1, TouchAccess, PlainAccess
  <2>3. << Do("print", "error") >> \o << >> = << Do("print", "error") >>
    BY TouchAccess
  <2> QED
    BY <2>2, <2>3 DEF Closed
<1> QED
  BY <1>2, <1>3, <1>4, <1>5

PinCommands == {"mcpwrite", "mcptoggle"}

(* What each handler does, and the two lists around it. *)
LEMMA HandlersClosed ==
  ASSUME NEW name \in DOMAIN Handlers, NEW pin \in BOOLEAN, name \in PinCommands => pin
  PROVE  Closed(Handlers[name], BodyOps, pin)
<1>1. Closed(ConsolePush, BodyOps, FALSE) /\ Closed(ConsoleClear, BodyOps, FALSE)
  BY PushClosed, ClearClosed
<1>2. \A p, pp : pp \in BOOLEAN /\ Closed(p, BodyOps, pp) => Closed(p \o ConsolePush, BodyOps, pp)
  <2> SUFFICES ASSUME NEW p, NEW pp \in BOOLEAN, Closed(p, BodyOps, pp)
               PROVE  Closed(p \o ConsolePush, BodyOps, pp)
    OBVIOUS
  <2>1. Closed(p \o ConsolePush, BodyOps, pp \/ FALSE)
    BY <1>1, JoinBodies
  <2> QED
    BY <2>1
<1>3. Closed(ReplyErr, BodyOps, FALSE)
  BY <1>2, SmallSections DEF ReplyErr
<1>4. Closed(Locked("state", << Do("touch", "state") >>) \o ConsolePush, BodyOps, FALSE)
  BY <1>2, SmallSections, InBoth
<1>5. Closed(ResetErr \o ConsoleClear \o ConsolePush, BodyOps, FALSE)
  <2>1. Closed(ResetErr \o ConsoleClear, BodyOps, FALSE \/ FALSE)
    BY <1>1, SmallSections, JoinBodies
  <2> DEFINE p == ResetErr \o ConsoleClear
  <2>2. Closed(p, BodyOps, FALSE)
    BY <2>1
  <2>3. p \o ConsolePush = ResetErr \o ConsoleClear \o ConsolePush
    OBVIOUS
  <2> HIDE DEF p
  <2>4. Closed(p \o ConsolePush, BodyOps, FALSE)
    BY <1>2, <2>2
  <2> QED
    BY <2>3, <2>4
<1>6. Closed(FetchErr, BodyOps, FALSE)
  <2> DEFINE f == Locked("state", << Do("fetch", "error"), Do("clear", "error") >>)
             p == f \o << Do("print", "error") >>
  <2>1. FetchErr = p \o ConsolePush
    BY DEF FetchErr
  <2>2. Closed(f, BodyOps, FALSE)
    BY FetchSection
  <2> HIDE DEF f
  <2>3. Closed(p, BodyOps, FALSE \/ FALSE)
    BY <2>2, SmallSections, JoinBodies
  <2> HIDE DEF p
  <2>4. Closed(p, BodyOps, FALSE)
    BY <2>3
  <2> QED
    BY <1>2, <2>1, <2>4
<1>7. Closed(BadMode, BodyOps, FALSE)
  <2>1. Closed(Locked("i2c", << >>) \o ReplyErr, BodyOps, FALSE \/ FALSE)
    BY <1>3, SmallSections, JoinBodies
  <2> QED
    BY <2>1 DEF BadMode
<1>8. Closed(Mode, BodyOps, FALSE)
  BY <1>2, SmallSections, InBoth DEF Mode
<1>9. Closed(Write, BodyOps, TRUE)
  BY <1>2, WriteSection DEF Write
<1>10. Closed(Toggle, BodyOps, TRUE)
  BY <1>2, ToggleSection DEF Toggle
<1>11. Closed(<< >>, BodyOps, FALSE)
  BY NothingToDo
<1>12. Closed(SetErr \o ConsolePush, BodyOps, FALSE)
  BY <1>2, SmallSections
<1>13. name \in {"blank", "plain", "status", "rst", "systerr", "badparam", "undefined",
                 "mcpmode", "mcpbad", "mcpwrite", "mcptoggle"}
  BY DEF Handlers
<1>14. CASE name \in PinCommands
  <2>1. /\ Handlers["mcpwrite"] = Write
        /\ Handlers["mcptoggle"] = Toggle
    BY DEF Handlers
  <2>2. Closed(Handlers[name], BodyOps, TRUE)
    BY <1>9, <1>10, <1>14, <2>1 DEF PinCommands
  <2>3. pin = TRUE
    BY <1>14
  <2> QED
    BY <2>2, <2>3
<1>15. CASE name \notin PinCommands
  <2>1. /\ Handlers["blank"] = << >>
        /\ Handlers["plain"] = ConsolePush
        /\ Handlers["status"] = Locked("state", << Do("touch", "state") >>) \o ConsolePush
        /\ Handlers["rst"] = ResetErr \o ConsoleClear \o ConsolePush
        /\ Handlers["systerr"] = FetchErr
        /\ Handlers["badparam"] = ReplyErr
        /\ Handlers["undefined"] = SetErr \o ConsolePush
        /\ Handlers["mcpmode"] = Mode
        /\ Handlers["mcpbad"] = BadMode
    BY DEF Handlers
  <2>2. name \in {"blank", "plain", "status", "rst", "systerr", "badparam", "undefined",
                  "mcpmode", "mcpbad"}
    BY <1>13, <1>15 DEF PinCommands
  <2>3. Closed(Handlers[name], BodyOps, FALSE)
    BY <1>1, <1>3, <1>4, <1>5, <1>6, <1>7, <1>8, <1>11, <1>12, <2>1, <2>2
  <2> QED
    BY <2>3 DEF Closed, Profile
<1> QED
  BY <1>14, <1>15

LEMMA HandleOneCommandClosed ==
  ASSUME NEW c \in Commands, NEW pin \in BOOLEAN, c.name \in PinCommands => pin
  PROVE  /\ Closed(HandleOneCommand(c), ReaderOps, pin)
         /\ c.name \in PinCommands => c.pin \in Pins
<1> DEFINE h == Handlers[c.name]
           r == << Do("return", c) >>
           p == ConsolePush \o h
<1>1. Closed(h, BodyOps, pin) /\ (c.name \in PinCommands => c.pin \in Pins)
  <2>1. c.name \in DOMAIN Handlers /\ (c.name \in {"mcpwrite", "mcptoggle"} => c.pin \in Pins)
    BY LinesAssumption
  <2> QED
    BY <2>1, HandlersClosed DEF PinCommands
<1>2. Closed(r, ReaderOps, FALSE)
  <2>1. Do("return", c) \in Accesses
    BY DEF Do, Accesses
  <2>2. r \in Seq(Accesses) /\ Len(r) = 1 /\ r[1] = Do("return", c)
    BY <2>1, OneStep
  <2>3. OpsIn(r, {"call", "return"})
    BY <2>2, DoOp DEF OpsIn
  <2> QED
    BY <2>2, <2>3, OuterSteps
<1>3. HandleOneCommand(c) = p \o r
  BY DEF HandleOneCommand
<1> HIDE DEF h, r
<1>4. Closed(p, BodyOps, FALSE \/ pin)
  BY <1>1, PushClosed, JoinBodies
<1> HIDE DEF p
<1>5. Closed(p, BodyOps, pin)
  BY <1>4
<1>6. Closed(p \o r, ReaderOps, pin \/ FALSE)
  BY <1>2, <1>5, JoinBodies
<1> QED
  BY <1>1, <1>3, <1>6

LEMMA HandleScpiLineClosed ==
  ASSUME NEW line \in Lines
  PROVE  Closed(HandleScpiLine(line), ReaderOps, FALSE)
<1> DEFINE calls == [i \in 1 .. Len(line) |-> Do("call", line[i])]
           count == Locked("state", << Do("touch", "counter") >>)
<1>1. Len(line) \in Nat /\ \A i \in 1 .. Len(line) : line[i] \in Commands
  <2>1. line \in Seq(Commands)
    BY LinesAssumption
  <2> QED
    BY <2>1, LenProperties, ElementOfSeq
<1>2. \A i \in 1 .. Len(line) : calls[i] = Do("call", line[i]) /\ calls[i] \in Accesses
  <2>1. \A c \in Commands : Do("call", c) \in Accesses
    BY DEF Do, Accesses
  <2> QED
    BY <1>1, <2>1
<1>3. calls \in [1 .. Len(line) -> Accesses]
  BY <1>2
<1>4. calls \in Seq(Accesses) /\ Len(calls) = Len(line)
  BY <1>1, <1>3
<1>5. HandleScpiLine(line) = count \o calls
  BY DEF HandleScpiLine
<1>6. Closed(count, BodyOps, FALSE)
  BY SmallSections, InBoth
<1> HIDE DEF calls, count
<1>7. OpsIn(calls, {"call", "return"})
  BY <1>2, <1>4, DoOp DEF OpsIn
<1>8. Closed(calls, ReaderOps, FALSE)
  BY <1>4, <1>7, OuterSteps
<1>9. Closed(count \o calls, ReaderOps, FALSE \/ FALSE)
  BY <1>6, <1>8, JoinBodies
<1> QED
  BY <1>5, <1>9

(* What a pass of a reader's loop begins with. *)
LEMMA PassesClosed ==
  ASSUME NEW t \in Readers
  PROVE  /\ \A line \in Lines : Closed(HandleScpiLine(line) \o EndOfPass(t), ReaderOps, FALSE)
         /\ Closed(OverlongLine \o EndOfPass(t), ReaderOps, FALSE)
         /\ Closed(EndOfPass(t), ReaderOps, FALSE)
<1>1. Closed(EndOfPass(t), BodyOps, FALSE)
  BY SmallSections, InBoth, NothingToDo DEF EndOfPass
<1>2. Closed(EndOfPass(t), ReaderOps, FALSE)
  BY <1>1, ReaderDoes
<1>3. ASSUME NEW line \in Lines
      PROVE  Closed(HandleScpiLine(line) \o EndOfPass(t), ReaderOps, FALSE)
  <2>1. Closed(HandleScpiLine(line) \o EndOfPass(t), ReaderOps, FALSE \/ FALSE)
    BY <1>2, HandleScpiLineClosed, JoinClosed
  <2> QED
    BY <2>1
<1>4. Closed(OverlongLine, BodyOps, FALSE)
  <2> DEFINE count == Locked("state", << Do("load", "overflowCount"), Do("store", "overflowCount") >>)
  <2>1. Closed(count, BodyOps, FALSE)
    BY CountSection
  <2>2. OverlongLine = count \o ReplyErr
    BY DEF OverlongLine
  <2> HIDE DEF count
  <2>3. Closed(ReplyErr, BodyOps, FALSE)
    <3>1. Closed(SetErr \o ConsolePush, BodyOps, FALSE \/ FALSE)
      BY SmallSections, PushClosed, JoinBodies
    <3> QED
      BY <3>1 DEF ReplyErr
  <2>4. Closed(count \o ReplyErr, BodyOps, FALSE \/ FALSE)
    BY <2>1, <2>3, JoinBodies
  <2> QED
    BY <2>2, <2>4
<1>5. Closed(OverlongLine \o EndOfPass(t), ReaderOps, FALSE)
  <2>1. Closed(OverlongLine \o EndOfPass(t), ReaderOps, FALSE \/ FALSE)
    BY <1>2, <1>4, JoinBodies
  <2> QED
    BY <2>1
<1> QED
  BY <1>2, <1>3, <1>5

(***************************************************************************)
(* The inductive invariant                                                 *)
(***************************************************************************)

(* What a step is done on.                                                 *)
LEMMA AccessFacts ==
  ASSUME NEW x \in Accesses
  PROVE  /\ x.op \in {"take", "give"} => x.on \in Mutexes
         /\ x.op \in {"clear", "fetch"} => x.on = "error"
         /\ x.op \in {"toggle", "write"} => x.on = "port"
         /\ x.op = "sample" => x.on = "pin"
         /\ x.op = "load" => x.on \in {"port", "overflowCount"}
         /\ x.op = "store" => x.on = "overflowCount"
         /\ x.op = "shift" => x.on \in 1 .. ConsoleLines - 1
         /\ x.op = "append" => x.on = ConsoleLines
         /\ x.op \in {"blank", "copy"} => x.on \in 1 .. ConsoleLines
         /\ x.op \in {"shift", "append"} => x = PushStep(x.on)
         /\ x.op \in {"call", "return"} => x.on \in Commands
         /\ x = Do(x.op, x.on)
<1>1. ConsoleLines \in Nat \ {0}
  BY ConsoleLinesAssumption
<1>2. CASE x \in {PushStep(k) : k \in 1 .. ConsoleLines}
  <2>1. PICK k \in 1 .. ConsoleLines : x = PushStep(k)
    BY <1>2
  <2>2. x.on = k /\ x.op = IF k < ConsoleLines THEN "shift" ELSE "append"
    BY <2>1, PushAccess
  <2>3. x = Do(x.op, x.on)
    BY <2>1, <2>2 DEF PushStep
  <2>4. k < ConsoleLines => k \in 1 .. ConsoleLines - 1
    BY <1>1
  <2>5. ~ (k < ConsoleLines) => k = ConsoleLines
    BY <1>1
  <2> QED
    BY <2>1, <2>2, <2>3, <2>4, <2>5
<1>3. CASE x \notin {PushStep(k) : k \in 1 .. ConsoleLines}
  BY <1>3 DEF Accesses, Do
<1> QED
  BY <1>2, <1>3

(* Taking the step x leaves r of s. *)
Moved(x, s, r) ==
  /\ x \in Accesses /\ Fits(x, r, 0)
  /\ \A m \in Mutexes :
       Inside(s, 0, m) <=> x = Do("give", m) \/ (x # Do("take", m) /\ Inside(r, 0, m))
  /\ \A u \in Updates :
       Pending(s, 0, u) <=> x \in Writes(u) \/ (x \notin Reads(u) /\ Pending(r, 0, u))
  /\ OnPin(s, 0) <=> x \in PinSteps \/ (x \notin Calls /\ OnPin(r, 0))
  /\ \A y : NextIs(s, 0, y) <=> y = x

LEMMA HeadMoved ==
  ASSUME NEW s, Shape(s), s # << >>
  PROVE  Moved(Head(s), s, Tail(s)) /\ Shape(Tail(s))
<1> DEFINE x == Head(s)
           r == Tail(s)
<1>1. /\ s \in Seq(Accesses) /\ x \in Accesses /\ r \in Seq(Accesses)
      /\ Len(s) \in Nat \ {0} /\ Len(r) = Len(s) - 1 /\ x = s[1]
      /\ \A i \in 1 .. Len(s) - 1 : r[i] = s[i + 1]
  BY TailMoves DEF Shape
<1>2. Shape(r) /\ Fits(x, r, 0)
  BY TailShape
<1> HIDE DEF x, r
<1>3. Len(s) = 1 + Len(r) /\ \A i \in 1 .. Len(r) : s[1 + i] = r[i]
  BY <1>1
<1>4. s = << x >> \o r
  BY <1>1, <1>3, FirstStep
<1>5. LET q == << x >> \o r IN
      /\ \A m \in Mutexes :
           Inside(q, 0, m) <=> x = Do("give", m) \/ (x # Do("take", m) /\ Inside(r, 0, m))
      /\ \A u \in Updates :
           Pending(q, 0, u) <=> x \in Writes(u) \/ (x \notin Reads(u) /\ Pending(r, 0, u))
      /\ OnPin(q, 0) <=> x \in PinSteps \/ (x \notin Calls /\ OnPin(r, 0))
      /\ \A y : NextIs(q, 0, y) <=> y = x
  BY <1>1, ConsComes
<1> QED
  BY <1>1, <1>2, <1>4, <1>5 DEF Moved, x, r

Shapes ==
  /\ todo \in [Tasks -> Seq(Accesses)]
  /\ \A t \in Tasks : Shape(todo[t])
  /\ OpsIn(todo["oled"], OledOps)
  /\ \A t \in Readers : OpsIn(todo[t], ReaderOps)

(* One task has done something; the others have the steps they had.        *)
Others(t) == \A s \in Tasks \ {t} : todo'[s] = todo[s]

LEMMA Advance ==
  ASSUME Shapes, NEW t \in Tasks, todo[t] # << >>, Done(t)
  PROVE  /\ Moved(Head(todo[t]), todo[t], todo'[t]) /\ Others(t) /\ Shapes'
         /\ t = "oled" => Head(todo[t]).op \in OledOps
         /\ t # "oled" => Head(todo[t]).op \in ReaderOps
<1>1. /\ Shape(todo[t]) /\ todo[t] \in Seq(Accesses) /\ todo \in [Tasks -> Seq(Accesses)]
  BY DEF Shapes
<1>2. todo'[t] = Tail(todo[t]) /\ Others(t) /\ todo' = [todo EXCEPT ![t] = Tail(todo[t])]
  BY <1>1 DEF Done, Others
<1>3. Moved(Head(todo[t]), todo[t], Tail(todo[t])) /\ Shape(Tail(todo[t]))
  BY <1>1, HeadMoved
<1>4. /\ Len(todo[t]) \in Nat \ {0} /\ Len(Tail(todo[t])) = Len(todo[t]) - 1
      /\ Tail(todo[t]) \in Seq(Accesses) /\ Head(todo[t]) = todo[t][1]
      /\ \A i \in 1 .. Len(todo[t]) - 1 : Tail(todo[t])[i] = todo[t][i + 1]
  BY <1>1, TailMoves
<1>5. ASSUME NEW ops, OpsIn(todo[t], ops)
      PROVE  OpsIn(Tail(todo[t]), ops) /\ Head(todo[t]).op \in ops
  <2>1. \A i \in 1 .. Len(todo[t]) - 1 : i + 1 \in 1 .. Len(todo[t])
    BY <1>4
  <2>2. 1 \in 1 .. Len(todo[t])
    BY <1>4
  <2>3. \A i \in 1 .. Len(Tail(todo[t])) : Tail(todo[t])[i].op \in ops
    BY <1>4, <1>5, <2>1 DEF OpsIn
  <2> QED
    BY <1>4, <1>5, <2>2, <2>3 DEF OpsIn
<1>6. "oled" \in Tasks /\ "oled" \notin Readers /\ (t # "oled" => t \in Readers)
      /\ Readers \subseteq Tasks
  BY DEF Tasks, Readers
<1>7. todo' \in [Tasks -> Seq(Accesses)]
  BY <1>1, <1>2, <1>4
<1>8. \A s \in Tasks : Shape(todo'[s])
  BY <1>2, <1>3 DEF Others, Shapes
<1>9. OpsIn(todo'["oled"], OledOps) /\ \A s \in Readers : OpsIn(todo'[s], ReaderOps)
  BY <1>2, <1>5, <1>6 DEF Others, Shapes
<1>10. Shapes'
  BY <1>7, <1>8, <1>9 DEF Shapes
<1> QED
  BY <1>2, <1>3, <1>5, <1>6, <1>10 DEF Shapes

Types ==
  /\ owner \in [Mutexes -> Tasks \cup {Nobody}]
  /\ left \in [Readers -> 0 .. MaxLines]
  /\ command \in [Readers -> Commands \cup {NoCommand}]
  /\ pushes \in Nat /\ console \in [1 .. ConsoleLines -> 0 .. pushes]
  /\ copied \in [1 .. ConsoleLines -> 0 .. pushes]
  /\ raised \in Nat /\ lastError \in 0 .. raised /\ fetched \in [Readers -> 0 .. raised]
  /\ overlong \in Nat /\ overflowCount = overlong
  /\ chip \in [Pins -> BOOLEAN] /\ wanted = chip
  /\ read \in [Readers -> [pin : BOOLEAN, port : [Pins -> BOOLEAN], count : 0 .. overlong]]

(* Who is inside a critical section holds its mutex. *)
Holding == \A t \in Tasks, m \in Mutexes : owner[m] = t <=> Inside(todo[t], 0, m)

PinKnown == \A t \in Readers : OnPin(todo[t], 0) => command[t].pin \in Pins

(* What a reader has read and is going to write is what is there.          *)
UpdatesSound ==
  \A t \in Readers :
    /\ Pending(todo[t], 0, "port") => read[t].port = chip
    /\ Pending(todo[t], 0, "pin") => read[t].pin = chip[command[t].pin]
    /\ Pending(todo[t], 0, "count") => read[t].count = overflowCount
    /\ Pending(todo[t], 0, "error") => fetched[t] = lastError

(* The next step of t is y. *)
First(t, y) == NextIs(todo[t], 0, y)

(* A push has moved line i up and is going to move up, or to write, the    *)
(* line below it.                                                          *)
Shifting(i) == \E t \in Readers : First(t, PushStep(i + 1))

(* The console holds consecutive texts, but for the line that a push has   *)
(* moved up and not yet overwritten, and *RST clears it from the top.      *)
ConsoleSound ==
  /\ console[ConsoleLines] \in {0, pushes}
  /\ \A i \in 1 .. ConsoleLines - 1 :
       IF Shifting(i)
       THEN console[i] = console[i + 1]
       ELSE console[i] # 0 => console[i + 1] = console[i] + 1
  /\ \A t \in Readers, k \in 2 .. ConsoleLines : First(t, Do("blank", k)) => console[k - 1] = 0

(* The lines taskOled has copied are those of the console until it has     *)
(* them all; then they are texts that were there together.                 *)
CopySound ==
  \/ \E k \in 2 .. ConsoleLines :
       First("oled", Do("copy", k)) /\ \A i \in 1 .. k - 1 : copied[i] = console[i]
  \/ /\ \A k \in 2 .. ConsoleLines : ~ First("oled", Do("copy", k))
     /\ \A i \in 1 .. ConsoleLines - 1 : copied[i] # 0 => copied[i + 1] = copied[i] + 1

IInv ==
  Types /\ Shapes /\ Holding /\ PinKnown /\ UpdatesSound /\ ConsoleSound /\ CopySound

LEMMA TaskNames ==
  /\ "oled" \in Tasks /\ "oled" \notin Readers /\ Readers \subseteq Tasks
  /\ \A t \in Tasks : t # Nobody /\ (t # "oled" => t \in Readers)
BY DEF Tasks, Readers, Nobody

(* At most one task is inside of m.                                        *)
LEMMA OneInside ==
  ASSUME Holding, NEW t \in Tasks, NEW m \in Mutexes, Inside(todo[t], 0, m)
  PROVE  owner[m] = t /\ \A s \in Tasks \ {t} : ~ Inside(todo[s], 0, m)
BY DEF Holding

(* Who goes through the console's lines, or sets the error, or will write  *)
(* what it has read, is inside of the critical section.                    *)
LEMMA Guarded ==
  ASSUME Shapes, NEW t \in Tasks
  PROVE  /\ \A y : First(t, y) /\ y.op \in Series \cup {"set", "reset"}
                      => Inside(todo[t], 0, "state")
         /\ \A u \in Updates : Pending(todo[t], 0, u) => Inside(todo[t], 0, Under(u))
<1>1. Shape(todo[t]) /\ todo[t] \in Seq(Accesses)
  BY DEF Shapes, Shape
<1>2. \A u \in Updates : Pending(todo[t], 0, u) => Inside(todo[t], 0, Under(u))
  BY <1>1 DEF Shape, Sound
<1>3. ASSUME NEW y, First(t, y), y.op \in Series \cup {"set", "reset"}
      PROVE  Inside(todo[t], 0, "state")
  <2>1. todo[t] # << >>
    BY <1>3, NothingToDo DEF First
  <2>2. Moved(Head(todo[t]), todo[t], Tail(todo[t]))
    BY <1>1, <2>1, HeadMoved
  <2>3. y = Head(todo[t])
    BY <1>3, <2>2 DEF Moved, First
  <2>4. Inside(Tail(todo[t]), 0, "state")
    BY <1>3, <2>2, <2>3 DEF Moved, Fits
  <2>5. y # Do("take", "state")
    BY <1>3, DoOp DEF Series
  <2> QED
    BY <2>2, <2>3, <2>4, <2>5, InBoth DEF Moved
<1> QED
  BY <1>2, <1>3

(***************************************************************************)
(* A pass of a loop begins, or a command is called                         *)
(***************************************************************************)

\* A task is outside of everything.
Fresh(s) ==
  /\ \A m \in Mutexes : ~ Inside(s, 0, m)
  /\ \A u \in Updates : ~ Pending(s, 0, u)
  /\ \A y : NextIs(s, 0, y) => ~ Middle(y)

LEMMA ClosedFresh ==
  ASSUME NEW s, NEW ops, NEW pin \in BOOLEAN, Closed(s, ops, pin)
  PROVE  Fresh(s) /\ (OnPin(s, 0) => pin)
BY DEF Closed, Profile, Fresh

LEMMA NewSteps ==
  ASSUME Shapes, NEW t \in Tasks, NEW s, NEW ops, NEW pin \in BOOLEAN, Closed(s, ops, pin),
         ops = IF t = "oled" THEN OledOps ELSE ReaderOps,
         todo' = [todo EXCEPT ![t] = s]
  PROVE  Shapes' /\ Others(t) /\ todo'[t] = s
<1>1. s \in Seq(Accesses) /\ Shape(s) /\ OpsIn(s, ops)
  BY ClosedSeq
<1>2. todo' \in [Tasks -> Seq(Accesses)] /\ todo'[t] = s /\ Others(t)
  BY <1>1 DEF Shapes, Others
<1>3. \A r \in Tasks : Shape(todo'[r])
  BY <1>1, <1>2 DEF Shapes, Others
<1>4. OpsIn(todo'["oled"], OledOps) /\ \A r \in Readers : OpsIn(todo'[r], ReaderOps)
  BY <1>1, <1>2, TaskNames DEF Shapes, Others
<1> QED
  BY <1>2, <1>3, <1>4 DEF Shapes

LEMMA BeginFresh ==
  ASSUME Shapes, NEW t \in Tasks, NEW s, Begin(t, s),
         Closed(s, IF t = "oled" THEN OledOps ELSE ReaderOps, FALSE)
  PROVE  Shapes' /\ Others(t) /\ Fresh(todo[t]) /\ Fresh(todo'[t]) /\ ~ OnPin(todo'[t], 0)
<1>1. todo[t] = << >> /\ todo' = [todo EXCEPT ![t] = s]
  BY DEF Begin
<1>2. Shapes' /\ Others(t) /\ todo'[t] = s
  BY <1>1, NewSteps
<1>3. Fresh(s) /\ ~ OnPin(s, 0)
  BY ClosedFresh
<1>4. Fresh(<< >>)
  BY NothingToDo, ClosedFresh
<1> QED
  BY <1>1, <1>2, <1>3, <1>4

LEMMA CallFresh ==
  ASSUME Shapes, NEW t \in Tasks, Call(t)
  PROVE  /\ Shapes' /\ Others(t) /\ Fresh(todo[t]) /\ Fresh(todo'[t])
         /\ t \in Readers /\ On(t) \in Commands
         /\ OnPin(todo'[t], 0) => On(t).pin \in Pins
<1> DEFINE x == Head(todo[t])
           r == Tail(todo[t])
           c == On(t)
           h == HandleOneCommand(c)
<1>1. /\ todo[t] # << >> /\ x.op = "call" /\ c = x.on
      /\ todo' = [todo EXCEPT ![t] = h \o r]
  BY DEF Call, Next1, On
<1>2. Shape(todo[t]) /\ todo[t] \in Seq(Accesses)
  BY DEF Shapes, Shape
<1>3. Moved(x, todo[t], r) /\ Shape(r)
  BY <1>1, <1>2, HeadMoved
<1>4. x \in Accesses /\ Len(todo[t]) \in Nat \ {0} /\ x = todo[t][1]
      /\ Len(r) = Len(todo[t]) - 1
      /\ \A i \in 1 .. Len(todo[t]) - 1 : r[i] = todo[t][i + 1]
  BY <1>1, <1>2, TailMoves
<1>5. c \in Commands
  BY <1>1, <1>4, AccessFacts
<1>6. t \in Readers
  <2>1. 1 \in 1 .. Len(todo[t])
    BY <1>4
  <2>2. OpsIn(todo[t], OledOps) => x.op \in OledOps
    BY <1>4, <2>1 DEF OpsIn
  <2> QED
    BY <1>1, <2>2, TaskNames DEF Shapes, OledOps
<1>7. OpsIn(r, ReaderOps)
  <2>1. \A i \in 1 .. Len(todo[t]) - 1 : i + 1 \in 1 .. Len(todo[t])
    BY <1>4
  <2>2. OpsIn(todo[t], ReaderOps)
    BY <1>6 DEF Shapes
  <2> QED
    BY <1>4, <2>1, <2>2 DEF OpsIn
<1> HIDE DEF x, r, h, c
<1>8. /\ \A m \in Mutexes : ~ Inside(r, 0, m) /\ ~ Inside(todo[t], 0, m)
      /\ \A u \in Updates : ~ Pending(r, 0, u) /\ ~ Pending(todo[t], 0, u)
      /\ ~ OnPin(r, 0) /\ ~ Middle(x)
      /\ \A y : NextIs(r, 0, y) => ~ Middle(y)
      /\ \A y : NextIs(todo[t], 0, y) => ~ Middle(y)
  <2>1. /\ \A m : x # Do("give", m) /\ \A u : x \notin Writes(u)
        /\ Spoils(x.op) = Updates /\ ~ Open(x) /\ ~ Middle(x)
    BY <1>1, DoOp DEF Writes, Spoils, Open, Middle, Series
  <2> QED
    BY <1>1, <1>3, <2>1 DEF Moved, Fits
<1>9. Closed(r, ReaderOps, FALSE)
  BY <1>3, <1>7, <1>8 DEF Closed, Profile
<1>10. ASSUME NEW pin \in BOOLEAN, c.name \in PinCommands => pin
       PROVE  Closed(h \o r, ReaderOps, pin)
  <2>1. Closed(h, ReaderOps, pin)
    BY <1>5, <1>10, HandleOneCommandClosed DEF h
  <2>2. Closed(h \o r, ReaderOps, pin \/ FALSE)
    BY <1>9, <2>1, JoinClosed
  <2> QED
    BY <2>2
<1>11. Closed(h \o r, ReaderOps, TRUE)
  BY <1>10
<1>12. Shapes' /\ Others(t) /\ todo'[t] = h \o r
  <2>1. ReaderOps = IF t = "oled" THEN OledOps ELSE ReaderOps
    BY <1>6, TaskNames
  <2> QED
    BY <1>1, <1>11, <2>1, NewSteps
<1>13. Fresh(h \o r)
  BY <1>11, ClosedFresh
<1>14. OnPin(h \o r, 0) => c.pin \in Pins
  <2>1. CASE c.name \in PinCommands
    BY <1>5, <2>1, HandleOneCommandClosed
  <2>2. CASE c.name \notin PinCommands
    <3>1. Closed(h \o r, ReaderOps, FALSE)
      BY <1>10, <2>2
    <3> QED
      BY <3>1, ClosedFresh
  <2> QED
    BY <2>1, <2>2
<1> QED
  BY <1>5, <1>6, <1>8, <1>12, <1>13, <1>14 DEF Fresh, c

(***************************************************************************)
(* What a step leaves alone                                                *)
(***************************************************************************)

\* The next step of t goes on with no walk through the console.
Plain(t) == \A y : First(t, y) => ~ Middle(y)

LEMMA InTheMiddle ==
  /\ \A i \in 1 .. ConsoleLines - 1 : Middle(PushStep(i + 1))
  /\ \A k \in 2 .. ConsoleLines : Middle(Do("blank", k)) /\ Middle(Do("copy", k))
<1>1. ConsoleLines \in Nat \ {0}
  BY ConsoleLinesAssumption
<1>2. ASSUME NEW i \in 1 .. ConsoleLines - 1
      PROVE  Middle(PushStep(i + 1))
  <2>1. i + 1 \in 1 .. ConsoleLines /\ i + 1 # 1
    BY <1>1
  <2> QED
    BY <2>1, PushAccess DEF Middle, Series
<1>3. \A k \in 2 .. ConsoleLines : Middle(Do("blank", k)) /\ Middle(Do("copy", k))
  BY DoOp DEF Middle, Series
<1> QED
  BY <1>2, <1>3

LEMMA OthersFirst ==
  ASSUME NEW t \in Tasks, Others(t)
  PROVE  \A s \in Tasks \ {t} : \A y : First(s, y)' <=> First(s, y)
BY DEF Others, First

LEMMA ConsoleKept ==
  ASSUME ConsoleSound, NEW t \in Tasks, Others(t), UNCHANGED << console, pushes >>,
         t \in Readers => Plain(t) /\ Plain(t)'
  PROVE  ConsoleSound'
<1>1. ASSUME NEW s \in Readers, NEW y, Middle(y)
      PROVE  First(s, y)' <=> First(s, y)
  <2>1. CASE s = t
    BY <1>1, <2>1 DEF Plain
  <2>2. CASE s # t
    BY <2>2, TaskNames, OthersFirst
  <2> QED
    BY <2>1, <2>2
<1>2. ASSUME NEW i \in 1 .. ConsoleLines - 1
      PROVE  Shifting(i)' <=> Shifting(i)
  BY <1>1, InTheMiddle DEF Shifting
<1>3. \A s \in Readers, k \in 2 .. ConsoleLines :
        First(s, Do("blank", k))' <=> First(s, Do("blank", k))
  BY <1>1, InTheMiddle
<1>4. console' = console /\ pushes' = pushes
  OBVIOUS
<1>5. /\ console'[ConsoleLines] \in {0, pushes'}
      /\ \A s \in Readers, k \in 2 .. ConsoleLines :
           First(s, Do("blank", k))' => console'[k - 1] = 0
  BY <1>3, <1>4 DEF ConsoleSound
<1>6. ASSUME NEW i \in 1 .. ConsoleLines - 1
      PROVE  IF Shifting(i)'
             THEN console'[i] = console'[i + 1]
             ELSE console'[i] # 0 => console'[i + 1] = console'[i] + 1
  BY <1>2, <1>4 DEF ConsoleSound
<1> QED
  BY <1>5, <1>6 DEF ConsoleSound

LEMMA CopyKept ==
  ASSUME CopySound, NEW t \in Tasks, Others(t), UNCHANGED << console, copied >>,
         t = "oled" => Plain(t) /\ Plain(t)'
  PROVE  CopySound'
<1>1. ASSUME NEW k \in 2 .. ConsoleLines
      PROVE  First("oled", Do("copy", k))' <=> First("oled", Do("copy", k))
  <2>1. CASE "oled" = t
    BY <2>1, InTheMiddle DEF Plain
  <2>2. CASE "oled" # t
    BY <2>2, TaskNames, OthersFirst
  <2> QED
    BY <2>1, <2>2
<1> QED
  BY <1>1 DEF CopySound

\* What a reader has read is still what is there.
Current(t) ==
  /\ Pending(todo[t], 0, "port") => read[t].port = chip
  /\ Pending(todo[t], 0, "pin") => read[t].pin = chip[command[t].pin]
  /\ Pending(todo[t], 0, "count") => read[t].count = overflowCount
  /\ Pending(todo[t], 0, "error") => fetched[t] = lastError

LEMMA FreshKeeps ==
  ASSUME IInv, NEW t \in Tasks, Others(t), Fresh(todo[t]), Fresh(todo'[t]),
         UNCHANGED << owner, screen, errors, counts, port, read >>,
         \A s \in Readers \ {t} : command'[s] = command[s],
         t \in Readers /\ OnPin(todo'[t], 0) => command'[t].pin \in Pins
  PROVE  Holding' /\ PinKnown' /\ UpdatesSound' /\ ConsoleSound' /\ CopySound'
<1>1. Holding'
  BY DEF Others, Fresh, Holding, IInv
<1>2. PinKnown'
  <2>1. ASSUME NEW s \in Readers, OnPin(todo'[s], 0)
        PROVE  command'[s].pin \in Pins
    <3>1. CASE s = t
      BY <2>1, <3>1
    <3>2. CASE s # t
      <4>1. todo'[s] = todo[s] /\ command'[s] = command[s]
        BY <3>2, TaskNames DEF Others
      <4> QED
        BY <2>1, <4>1 DEF PinKnown, IInv
    <3> QED
      BY <3>1, <3>2
  <2> QED
    BY <2>1 DEF PinKnown
<1>3. UpdatesSound'
  <2>1. ASSUME NEW s \in Readers
        PROVE  Current(s)'
    <3>1. CASE s = t
      BY <3>1 DEF Fresh, Current, Updates
    <3>2. CASE s # t
      <4>1. todo'[s] = todo[s] /\ command'[s] = command[s]
        BY <3>2, TaskNames DEF Others
      <4>2. read'[s] = read[s] /\ fetched'[s] = fetched[s] /\ lastError' = lastError
            /\ chip' = chip /\ overflowCount' = overflowCount
        BY DEF errors, counts, port
      <4> QED
        BY <4>1, <4>2 DEF UpdatesSound, Current, IInv
    <3> QED
      BY <3>1, <3>2
  <2> QED
    BY <2>1 DEF UpdatesSound, Current
<1>4. Plain(t) /\ Plain(t)'
  BY DEF Plain, Fresh, First
<1>5. ConsoleSound' /\ CopySound'
  BY <1>4, ConsoleKept, CopyKept DEF screen, IInv
<1> QED
  BY <1>1, <1>2, <1>3, <1>5

(***************************************************************************)
(* What a step changes                                                     *)
(***************************************************************************)

(* The task t has taken the step x.                                        *)
Turn(t, x) == Moved(x, todo[t], todo'[t]) /\ Others(t)

LEMMA HoldingKept ==
  ASSUME IInv, NEW t \in Tasks, NEW x, Turn(t, x),
         \/ x.op \notin {"take", "give"} /\ owner' = owner
         \/ /\ x.op = "take" /\ owner[x.on] = Nobody
            /\ owner' = [owner EXCEPT ![x.on] = t]
         \/ x.op = "give" /\ owner' = [owner EXCEPT ![x.on] = Nobody]
  PROVE  Holding'
<1>1. /\ x \in Accesses /\ Fits(x, todo'[t], 0) /\ Others(t)
      /\ \A m \in Mutexes :
           Inside(todo[t], 0, m)
             <=> x = Do("give", m) \/ (x # Do("take", m) /\ Inside(todo'[t], 0, m))
  BY DEF Turn, Moved
<1>2. \A s \in Tasks, m \in Mutexes : owner[m] = s <=> Inside(todo[s], 0, m)
  BY DEF IInv, Holding
<1>3. owner \in [Mutexes -> Tasks \cup {Nobody}]
  BY DEF IInv, Types
<1>4. CASE x.op \notin {"take", "give"} /\ owner' = owner
  <2>1. \A m : x # Do("take", m) /\ x # Do("give", m)
    BY <1>4, DoOp
  <2> QED
    BY <1>1, <1>2, <1>4, <2>1 DEF Holding, Others
<1>5. CASE /\ x.op = "take" /\ owner[x.on] = Nobody
           /\ owner' = [owner EXCEPT ![x.on] = t]
  <2>1. x.on \in Mutexes /\ x = Do("take", x.on)
    BY <1>1, <1>5, AccessFacts
  <2>2. /\ \A m : x # Do("give", m)
        /\ \A m : x = Do("take", m) <=> m = x.on
    BY <1>5, <2>1, DoOp
  <2>3. Inside(todo'[t], 0, x.on)
    BY <1>1, <2>1 DEF Fits
  <2>4. ASSUME NEW s \in Tasks, NEW m \in Mutexes
        PROVE  owner'[m] = s <=> Inside(todo'[s], 0, m)
    <3>1. CASE m = x.on
      <4>1. owner'[m] = t /\ owner[m] = Nobody
        BY <1>3, <1>5, <3>1
      <4>2. ~ Inside(todo[s], 0, m)
        BY <1>2, <4>1, TaskNames
      <4> QED
        BY <1>1, <2>3, <3>1, <4>1, <4>2 DEF Others
    <3>2. CASE m # x.on
      <4>1. owner'[m] = owner[m]
        BY <1>3, <1>5, <3>2
      <4>2. Inside(todo[t], 0, m) <=> Inside(todo'[t], 0, m)
        BY <1>1, <2>2, <3>2
      <4> QED
        BY <1>1, <1>2, <4>1, <4>2 DEF Others
    <3> QED
      BY <3>1, <3>2
  <2> QED
    BY <2>4 DEF Holding
<1>6. CASE x.op = "give" /\ owner' = [owner EXCEPT ![x.on] = Nobody]
  <2>1. x.on \in Mutexes /\ x = Do("give", x.on)
    BY <1>1, <1>6, AccessFacts
  <2>2. /\ \A m : x # Do("take", m)
        /\ \A m : x = Do("give", m) <=> m = x.on
    BY <1>6, <2>1, DoOp
  <2>3. ~ Inside(todo'[t], 0, x.on) /\ Inside(todo[t], 0, x.on)
    BY <1>1, <2>1, <2>2 DEF Fits
  <2>4. ASSUME NEW s \in Tasks, NEW m \in Mutexes
        PROVE  owner'[m] = s <=> Inside(todo'[s], 0, m)
    <3>1. CASE m = x.on
      <4>1. owner'[m] = Nobody /\ owner[m] = t
        BY <1>2, <1>3, <1>6, <2>3, <3>1
      <4>2. s # t => ~ Inside(todo[s], 0, m)
        BY <1>2, <4>1
      <4> QED
        BY <1>1, <2>3, <3>1, <4>1, <4>2, TaskNames DEF Others
    <3>2. CASE m # x.on
      <4>1. owner'[m] = owner[m]
        BY <1>3, <1>6, <3>2
      <4>2. Inside(todo[t], 0, m) <=> Inside(todo'[t], 0, m)
        BY <1>1, <2>2, <3>2
      <4> QED
        BY <1>1, <1>2, <4>1, <4>2 DEF Others
    <3> QED
      BY <3>1, <3>2
  <2> QED
    BY <2>4 DEF Holding
<1> QED
  BY <1>4, <1>5, <1>6

LEMMA PinKnownKept ==
  ASSUME IInv, NEW t \in Tasks, NEW x, Turn(t, x), x.op # "call",
         \A s \in Readers \ {t} : command'[s] = command[s],
         x.op = "return" \/ command' = command
  PROVE  PinKnown'
<1>1. /\ Fits(x, todo'[t], 0) /\ Others(t)
      /\ OnPin(todo[t], 0) <=> x \in PinSteps \/ (x \notin Calls /\ OnPin(todo'[t], 0))
  BY DEF Turn, Moved
<1>2. \A s \in Readers : OnPin(todo[s], 0) => command[s].pin \in Pins
  BY DEF IInv, PinKnown
<1>3. x \notin Calls
  BY DoOp DEF Calls
<1>4. x.op = "return" => ~ OnPin(todo'[t], 0)
  BY <1>1 DEF Fits
<1>5. ASSUME NEW s \in Readers, OnPin(todo'[s], 0)
      PROVE  command'[s].pin \in Pins
  <2>1. CASE s = t
    BY <1>1, <1>2, <1>3, <1>4, <1>5, <2>1
  <2>2. CASE s # t
    <3>1. todo'[s] = todo[s] /\ command'[s] = command[s]
      BY <1>1, <2>2, TaskNames DEF Others
    <3> QED
      BY <1>2, <1>5, <3>1
  <2> QED
    BY <2>1, <2>2
<1> QED
  BY <1>5 DEF PinKnown

(* Where a task neither reads nor writes, what it has read stays current.  *)
LEMMA CurrentKept ==
  ASSUME IInv, NEW t \in Tasks, NEW x, Turn(t, x), NEW s \in Readers,
         \A u \in Updates : x \notin Reads(u),
         x.op = "return" \/ command' = command,
         \A r \in Readers \ {t} : command'[r] = command[r],
         UNCHANGED << read, port, counts, fetched, lastError >>
  PROVE  Current(s)'
<1>1. /\ Fits(x, todo'[t], 0) /\ Others(t)
      /\ \A u \in Updates :
           Pending(todo[t], 0, u)
             <=> x \in Writes(u) \/ (x \notin Reads(u) /\ Pending(todo'[t], 0, u))
  BY DEF Turn, Moved
<1>2. Current(s)
  BY DEF IInv, UpdatesSound, Current
<1>3. \A u \in Updates : Pending(todo'[s], 0, u) => Pending(todo[s], 0, u)
  BY <1>1, TaskNames DEF Others
<1>4. /\ read' = read /\ chip' = chip /\ overflowCount' = overflowCount
      /\ fetched' = fetched /\ lastError' = lastError
  BY DEF port, counts
<1>5. Pending(todo'[s], 0, "pin") => command'[s] = command[s]
  <2>1. Spoils("return") = Updates
    BY DEF Spoils
  <2>2. CASE s # t
    BY <2>2
  <2>3. CASE s = t
    BY <1>1, <2>1, <2>3 DEF Fits, Updates
  <2> QED
    BY <2>2, <2>3
<1> QED
  BY <1>2, <1>3, <1>4, <1>5 DEF Current, Updates

(* While a task writes what it has read, or sets the error, no other is    *)
(* between the reading and the writing of what the same mutex guards.      *)
LEMMA Alone ==
  ASSUME IInv, NEW t \in Tasks, NEW x, Turn(t, x), NEW u \in Updates,
         x \in Writes(u) \/ (x.op \in {"set", "reset"} /\ u = "error")
  PROVE  \A s \in Readers \ {t}, v \in Updates :
           Under(v) = Under(u) => ~ Pending(todo'[s], 0, v)
<1>1. /\ Shapes /\ Holding
      /\ Others(t) /\ First(t, x)
      /\ x \in Writes(u) => Pending(todo[t], 0, u)
  BY DEF IInv, Turn, Moved, First
<1>2. Inside(todo[t], 0, Under(u))
  BY <1>1, Guarded, InBoth
<1>3. Under(u) \in Mutexes
  BY InBoth DEF Updates
<1>4. \A s \in Tasks \ {t} : ~ Inside(todo[s], 0, Under(u))
  BY <1>1, <1>2, <1>3, OneInside
<1>5. \A s \in Tasks \ {t} : todo'[s] = todo[s]
  BY <1>1 DEF Others
<1>6. \A s \in Tasks, v \in Updates : Pending(todo[s], 0, v) => Inside(todo[s], 0, Under(v))
  BY <1>1, Guarded
<1> QED
  BY <1>4, <1>5, <1>6, TaskNames

(* What a task has yet to write was pending before, or x reads it.         *)
LEMMA PendingWas ==
  ASSUME NEW t \in Tasks, NEW x, Turn(t, x)
  PROVE  /\ \A s \in Tasks, u \in Updates :
              Pending(todo'[s], 0, u) /\ (s = t => x \notin Reads(u)) => Pending(todo[s], 0, u)
         /\ \A u \in Updates : x \in Writes(u) => Pending(todo[t], 0, u)
         /\ \A u \in Spoils(x.op) : ~ Pending(todo'[t], 0, u)
BY DEF Turn, Moved, Others, Fits

LEMMA ErrorSteps ==
  ASSUME IInv, NEW t \in Readers, NEW x, Turn(t, x), NEW s \in Readers,
         UNCHANGED << command, read, port, counts >>,
         \/ x.op \in {"set", "reset", "clear"} /\ fetched' = fetched
         \/ /\ x.op = "fetch" /\ lastError' = lastError
            /\ fetched' = [fetched EXCEPT ![t] = lastError]
         \/ /\ x.op = "print" /\ lastError' = lastError
            /\ fetched' = [fetched EXCEPT ![t] = 0]
  PROVE  Current(s)'
<1>1. t \in Tasks /\ s \in Tasks /\ x \in Accesses
  BY TaskNames DEF Turn, Moved
<1>2. \A u \in Updates \ {"error"} : x \notin Reads(u)
  BY DoOp DEF Reads, Updates
<1>3. \A u \in Updates \ {"error"} : Pending(todo'[s], 0, u) => Pending(todo[s], 0, u)
  BY <1>1, <1>2, PendingWas
<1>4. /\ Pending(todo'[s], 0, "port") => read'[s].port = chip'
      /\ Pending(todo'[s], 0, "pin") => read'[s].pin = chip'[command'[s].pin]
      /\ Pending(todo'[s], 0, "count") => read'[s].count = overflowCount'
  <2>1. /\ Pending(todo[s], 0, "port") => read[s].port = chip
        /\ Pending(todo[s], 0, "pin") => read[s].pin = chip[command[s].pin]
        /\ Pending(todo[s], 0, "count") => read[s].count = overflowCount
    BY DEF IInv, UpdatesSound
  <2>2. read' = read /\ command' = command /\ chip' = chip /\ overflowCount' = overflowCount
    BY DEF port, counts
  <2> QED
    BY <1>3, <2>1, <2>2 DEF Updates
<1>5. ASSUME Pending(todo'[s], 0, "error")
      PROVE  fetched'[s] = lastError'
  <2>1. "error" \in Updates
    BY DEF Updates
  <2>2. CASE x.op \in {"set", "reset", "clear"} /\ fetched' = fetched
    <3>1. x.op = "clear" => x \in Writes("error")
      BY <1>1, AccessFacts DEF Writes
    <3>2. s # t => ~ Pending(todo'[s], 0, "error")
      BY <1>1, <2>1, <2>2, <3>1, Alone
    <3>3. ~ Pending(todo'[t], 0, "error")
      BY <1>1, <2>2, PendingWas DEF Spoils
    <3> QED
      BY <1>5, <3>2, <3>3
  <2>3. CASE /\ x.op = "fetch" /\ lastError' = lastError
             /\ fetched' = [fetched EXCEPT ![t] = lastError]
    <3>1. s # t => Pending(todo[s], 0, "error")
      BY <1>1, <1>5, <2>1, PendingWas
    <3>2. Pending(todo[s], 0, "error") => fetched[s] = lastError
      BY DEF IInv, UpdatesSound
    <3>3. fetched \in [Readers -> 0 .. raised]
      BY DEF IInv, Types
    <3> QED
      BY <2>3, <3>1, <3>2, <3>3
  <2>4. CASE /\ x.op = "print" /\ lastError' = lastError
             /\ fetched' = [fetched EXCEPT ![t] = 0]
    <3>1. s # t
      BY <1>1, <1>5, <2>4, PendingWas DEF Spoils
    <3>2. Pending(todo[s], 0, "error")
      BY <1>1, <1>5, <2>1, <3>1, PendingWas
    <3>3. Pending(todo[s], 0, "error") => fetched[s] = lastError
      BY DEF IInv, UpdatesSound
    <3>4. fetched \in [Readers -> 0 .. raised]
      BY DEF IInv, Types
    <3> QED
      BY <2>4, <3>1, <3>2, <3>3, <3>4
  <2> QED
    BY <2>2, <2>3, <2>4
<1> QED
  BY <1>4, <1>5 DEF Current

LEMMA ReadSteps ==
  ASSUME IInv, NEW t \in Readers, NEW x, Turn(t, x), NEW s \in Readers,
         UNCHANGED << command, errors, port, counts >>,
         \/ x.op = "sample" /\ read' = [read EXCEPT ![t].pin = chip[command[t].pin]]
         \/ /\ x.op = "load" /\ x.on = "port"
            /\ read' = [read EXCEPT ![t] = [@ EXCEPT !.port = chip]]
         \/ /\ x.op = "load" /\ x.on # "port"
            /\ read' = [read EXCEPT ![t] = [@ EXCEPT !.count = overflowCount]]
  PROVE  Current(s)'
<1>1. t \in Tasks /\ s \in Tasks /\ x \in Accesses
  BY TaskNames DEF Turn, Moved
<1>2. /\ command' = command /\ chip' = chip /\ overflowCount' = overflowCount
      /\ fetched' = fetched /\ lastError' = lastError
  BY DEF errors, port, counts
<1>3. Current(s)
  BY DEF IInv, UpdatesSound, Current
<1>4. read \in [Readers -> [pin : BOOLEAN, port : [Pins -> BOOLEAN], count : 0 .. overlong]]
  BY DEF IInv, Types
<1>5. CASE s # t
  <2>1. \A u \in Updates : Pending(todo'[s], 0, u) => Pending(todo[s], 0, u)
    BY <1>1, <1>5, PendingWas
  <2>2. read'[s] = read[s]
    BY <1>4, <1>5
  <2> QED
    BY <1>2, <1>3, <2>1, <2>2 DEF Current, Updates
<1>6. CASE s = t /\ x.op = "sample" /\ read' = [read EXCEPT ![t].pin = chip[command[t].pin]]
  <2>1. x = Do("sample", "pin")
    BY <1>1, <1>6, AccessFacts
  <2>2. \A u \in Updates \ {"pin"} : x \notin Reads(u)
    BY <2>1, DoOp DEF Reads, Updates
  <2>3. \A u \in Updates \ {"pin"} : Pending(todo'[s], 0, u) => Pending(todo[s], 0, u)
    BY <1>1, <2>2, PendingWas
  <2>4. /\ read'[s].port = read[s].port /\ read'[s].count = read[s].count
        /\ read'[s].pin = chip[command[s].pin]
    BY <1>4, <1>6
  <2> QED
    BY <1>2, <1>3, <2>3, <2>4 DEF Current, Updates
<1>7. CASE /\ s = t /\ x.op = "load" /\ x.on = "port"
           /\ read' = [read EXCEPT ![t] = [@ EXCEPT !.port = chip]]
  <2>1. x = Do("load", "port")
    BY <1>1, <1>7, AccessFacts
  <2>2. \A u \in Updates \ {"port"} : x \notin Reads(u)
    BY <2>1, DoOp DEF Reads, Updates
  <2>3. \A u \in Updates \ {"port"} : Pending(todo'[s], 0, u) => Pending(todo[s], 0, u)
    BY <1>1, <2>2, PendingWas
  <2>4. /\ read'[s].port = chip /\ read'[s].count = read[s].count
        /\ read'[s].pin = read[s].pin
    BY <1>4, <1>7
  <2> QED
    BY <1>2, <1>3, <2>3, <2>4 DEF Current, Updates
<1>8. CASE /\ s = t /\ x.op = "load" /\ x.on # "port"
           /\ read' = [read EXCEPT ![t] = [@ EXCEPT !.count = overflowCount]]
  <2>1. x = Do("load", "overflowCount")
    BY <1>1, <1>8, AccessFacts
  <2>2. \A u \in Updates \ {"count"} : x \notin Reads(u)
    BY <2>1, DoOp DEF Reads, Updates
  <2>3. \A u \in Updates \ {"count"} : Pending(todo'[s], 0, u) => Pending(todo[s], 0, u)
    BY <1>1, <2>2, PendingWas
  <2>4. /\ read'[s].count = overflowCount /\ read'[s].port = read[s].port
        /\ read'[s].pin = read[s].pin
    BY <1>4, <1>8
  <2> QED
    BY <1>2, <1>3, <2>3, <2>4 DEF Current, Updates
<1> QED
  BY <1>5, <1>6, <1>7, <1>8

(* A reader writes what it has read, changed.                              *)
LEMMA WriteSteps ==
  ASSUME IInv, NEW t \in Readers, NEW x, Turn(t, x), NEW s \in Readers,
         UNCHANGED << command, errors >>,
         x.op \in {"store", "toggle", "write"},
         x.op = "store" => UNCHANGED port,
         x.op # "store" => UNCHANGED counts,
         read' = [read EXCEPT ![t] = NoRead]
  PROVE  Current(s)'
<1>1. t \in Tasks /\ s \in Tasks /\ x \in Accesses
  BY TaskNames DEF Turn, Moved
<1>2. command' = command /\ fetched' = fetched /\ lastError' = lastError
  BY DEF errors
<1>3. Current(s)
  BY DEF IInv, UpdatesSound, Current
<1>4. \A u \in Updates : x \notin Reads(u)
  BY DoOp DEF Reads, Updates
<1>5. \A u \in Updates : Pending(todo'[s], 0, u) => Pending(todo[s], 0, u)
  BY <1>1, <1>4, PendingWas
<1>6. CASE s = t
  <2>1. \A u \in {"port", "pin", "count"} : ~ Pending(todo'[s], 0, u)
    BY <1>1, <1>6, PendingWas DEF Spoils
  <2> QED
    BY <1>2, <1>3, <1>5, <2>1 DEF Current, Updates
<1>7. CASE s # t
  <2>1. read'[s] = read[s]
    BY <1>7 DEF IInv, Types
  <2>2. CASE x.op = "store"
    <3>1. x \in Writes("count")
      BY <1>1, <2>2, AccessFacts DEF Writes
    <3>2. ~ Pending(todo'[s], 0, "count")
      BY <1>1, <1>7, <3>1, Alone DEF Updates
    <3>3. chip' = chip
      BY <2>2 DEF port
    <3> QED
      BY <1>2, <1>3, <1>5, <2>1, <3>2, <3>3 DEF Current, Updates
  <2>3. CASE x.op # "store"
    <3>1. x \in Writes("port")
      BY <1>1, <2>3, AccessFacts DEF Writes
    <3>2. ~ Pending(todo'[s], 0, "port") /\ ~ Pending(todo'[s], 0, "pin")
      BY <1>1, <1>7, <3>1, Alone, InBoth DEF Updates
    <3>3. overflowCount' = overflowCount
      BY <2>3 DEF counts
    <3> QED
      BY <1>2, <1>3, <1>5, <2>1, <3>2, <3>3 DEF Current, Updates
  <2> QED
    BY <2>2, <2>3
<1> QED
  BY <1>6, <1>7

(***************************************************************************)
(* The console                                                             *)
(***************************************************************************)

(* While a task goes through the console's lines, no other does.           *)
LEMMA AloneAtConsole ==
  ASSUME IInv, NEW t \in Tasks, NEW x, First(t, x), x.op \in Series,
         NEW s \in Tasks \ {t}
  PROVE  \A y : First(s, y) => y.op \notin Series
<1>1. Shapes /\ Holding
  BY DEF IInv
<1>2. Inside(todo[t], 0, "state")
  BY <1>1, Guarded
<1>3. ~ Inside(todo[s], 0, "state")
  BY <1>1, <1>2, InBoth, OneInside
<1> QED
  BY <1>1, <1>3, Guarded

(* What comes next in a walk through the console's lines.                  *)
LEMMA TurnFirst ==
  ASSUME NEW t \in Tasks, NEW x, Turn(t, x)
  PROVE  /\ \A y : First(t, y) <=> y = x
         /\ Open(x) => \A y : First(t, y)' <=> y = After(x)
         /\ ~ Open(x) => Plain(t)'
<1>1. /\ \A y : NextIs(todo[t], 0, y) <=> y = x
      /\ IF Open(x) THEN NextIs(todo'[t], 0, After(x))
                    ELSE \A y : NextIs(todo'[t], 0, y) => ~ Middle(y)
  BY DEF Turn, Moved, Fits
<1>2. \A y, z : NextIs(todo'[t], 0, y) /\ NextIs(todo'[t], 0, z) => y = z
  BY DEF NextIs
<1> QED
  BY <1>1, <1>2 DEF First, Plain

LEMMA ShiftStep ==
  ASSUME IInv, NEW t \in Readers, NEW x, Turn(t, x), x.op = "shift",
         console' = [console EXCEPT ![x.on] = console[x.on + 1]], pushes' = pushes
  PROVE  ConsoleSound'
<1> DEFINE L == ConsoleLines
           k == x.on
<1>1. L \in Nat \ {0} /\ t \in Tasks /\ x \in Accesses /\ Others(t)
  BY ConsoleLinesAssumption, TaskNames DEF Turn, Moved
<1>2. k \in 1 .. L - 1 /\ x = PushStep(k)
  BY <1>1, AccessFacts
<1>3. Open(x) /\ After(x) = PushStep(k + 1) /\ x.op \in Series
  BY <1>1, <1>2 DEF Open, Series, After
<1>4. /\ \A y : First(t, y) <=> y = PushStep(k)
      /\ \A y : First(t, y)' <=> y = PushStep(k + 1)
  BY <1>1, <1>2, <1>3, TurnFirst
<1>5. \A s \in Readers \ {t} : \A y : First(s, y) \/ First(s, y)' => y.op \notin Series
  BY <1>1, <1>3, <1>4, <1>2, TaskNames, AloneAtConsole, OthersFirst
<1>6. ASSUME NEW i \in 1 .. L - 1
      PROVE  (Shifting(i) <=> i + 1 = k) /\ (Shifting(i)' <=> i = k)
  <2>1. i + 1 \in 1 .. L /\ k + 1 \in 1 .. L /\ k \in 1 .. L
    BY <1>1, <1>2
  <2>2. PushStep(i + 1).op \in Series
    BY <2>1, PushAccess DEF Series
  <2>3. (PushStep(i + 1) = PushStep(k) <=> i + 1 = k)
        /\ (PushStep(i + 1) = PushStep(k + 1) <=> i + 1 = k + 1)
    BY <2>1, PushAccess
  <2>4. i + 1 = k + 1 <=> i = k
    BY <1>2
  <2>5. Shifting(i) <=> First(t, PushStep(i + 1))
    BY <1>5, <2>2 DEF Shifting
  <2>6. Shifting(i)' <=> First(t, PushStep(i + 1))'
    BY <1>5, <2>2 DEF Shifting
  <2> QED
    BY <1>4, <2>3, <2>4, <2>5, <2>6
<1>7. /\ console \in [1 .. L -> 0 .. pushes] /\ pushes \in Nat
      /\ console[L] \in {0, pushes}
      /\ \A i \in 1 .. L - 1 :
           IF Shifting(i)
           THEN console[i] = console[i + 1]
           ELSE console[i] # 0 => console[i + 1] = console[i] + 1
  BY DEF IInv, Types, ConsoleSound
<1> HIDE DEF k, L
<1>8. /\ console'[k] = console[k + 1]
      /\ \A i \in 1 .. L : i # k => console'[i] = console[i]
  BY <1>1, <1>2, <1>7 DEF k
<1>9. ASSUME NEW i \in 1 .. L - 1
      PROVE  IF Shifting(i)'
             THEN console'[i] = console'[i + 1]
             ELSE console'[i] # 0 => console'[i + 1] = console'[i] + 1
  <2>1. i \in 1 .. L /\ i + 1 \in 1 .. L /\ k + 1 \in 1 .. L /\ k + 1 # k
    BY <1>1, <1>2
  <2>2. CASE i = k
    BY <1>6, <1>8, <2>1, <2>2
  <2>3. CASE i + 1 = k
    <3>1. console[i] = console[k] /\ i # k
      BY <1>2, <1>6, <1>7, <2>3
    <3>2. ~ Shifting(k)
      BY <1>2, <1>6
    <3>3. console[k] # 0 => console[k + 1] = console[k] + 1
      BY <1>2, <1>7, <3>2
    <3>4. console'[i] = console[i] /\ console'[i + 1] = console[k + 1] /\ ~ Shifting(i)'
      BY <1>6, <1>8, <2>1, <2>3, <3>1
    <3> QED
      BY <3>1, <3>3, <3>4
  <2>4. CASE i # k /\ i + 1 # k
    <3>1. console'[i] = console[i] /\ console'[i + 1] = console[i + 1]
      BY <1>8, <2>1, <2>4
    <3>2. ~ Shifting(i) /\ ~ Shifting(i)'
      BY <1>6, <2>4
    <3> QED
      BY <1>7, <3>1, <3>2
  <2> QED
    BY <2>2, <2>3, <2>4
<1>10. console'[L] \in {0, pushes'}
  <2>1. L \in 1 .. L /\ L # k
    BY <1>1, <1>2
  <2> QED
    BY <1>7, <1>8, <2>1
<1>11. ASSUME NEW s \in Readers, NEW j \in 2 .. L, First(s, Do("blank", j))'
       PROVE  FALSE
  <2>1. Do("blank", j).op = "blank" /\ "blank" \in Series
    BY DoOp DEF Series
  <2>2. s = t
    BY <1>5, <1>11, <2>1
  <2>3. Do("blank", j) = PushStep(k + 1)
    BY <1>4, <1>11, <2>2
  <2>4. k + 1 \in 1 .. L
    BY <1>1, <1>2
  <2>5. PushStep(k + 1).op # "blank"
    BY <2>4, PushAccess DEF L
  <2> QED
    BY <2>1, <2>3, <2>5
<1> QED
  BY <1>9, <1>10, <1>11 DEF ConsoleSound, L

LEMMA AppendStep ==
  ASSUME IInv, NEW t \in Readers, NEW x, Turn(t, x), x.op = "append",
         pushes' = pushes + 1, console' = [console EXCEPT ![x.on] = pushes']
  PROVE  ConsoleSound'
<1> DEFINE L == ConsoleLines
<1>1. L \in Nat \ {0} /\ t \in Tasks /\ x \in Accesses /\ Others(t)
  BY ConsoleLinesAssumption, TaskNames DEF Turn, Moved
<1>2. x.on = L /\ x = PushStep(L)
  BY <1>1, AccessFacts
<1>3. ~ Open(x) /\ x.op \in Series
  BY <1>1, <1>2 DEF Open, Series
<1>4. (\A y : First(t, y) <=> y = PushStep(L)) /\ Plain(t)'
  BY <1>1, <1>2, <1>3, TurnFirst
<1>5. \A s \in Readers \ {t} : \A y : First(s, y) \/ First(s, y)' => y.op \notin Series
  BY <1>1, <1>2, <1>3, <1>4, TaskNames, AloneAtConsole, OthersFirst
<1>6. \A y : Middle(y) => y.op \in Series
  BY DEF Middle
<1>7. \A s \in Readers : \A y : First(s, y)' => ~ Middle(y)
  BY <1>4, <1>5, <1>6 DEF Plain
<1>8. ASSUME NEW i \in 1 .. L - 1
      PROVE  (Shifting(i) <=> i + 1 = L) /\ ~ Shifting(i)'
  <2>1. i + 1 \in 1 .. L /\ L \in 1 .. L
    BY <1>1
  <2>2. PushStep(i + 1).op \in Series
    BY <2>1, PushAccess DEF Series
  <2>3. PushStep(i + 1) = PushStep(L) <=> i + 1 = L
    BY <2>1, PushAccess
  <2>4. Shifting(i) <=> First(t, PushStep(i + 1))
    BY <1>5, <2>2 DEF Shifting
  <2>5. ~ Shifting(i)'
    BY <1>7, InTheMiddle DEF Shifting
  <2> QED
    BY <1>4, <2>3, <2>4, <2>5
<1>9. /\ console \in [1 .. L -> 0 .. pushes] /\ pushes \in Nat
      /\ console[L] \in {0, pushes}
      /\ \A i \in 1 .. L - 1 :
           IF Shifting(i)
           THEN console[i] = console[i + 1]
           ELSE console[i] # 0 => console[i + 1] = console[i] + 1
  BY DEF IInv, Types, ConsoleSound
<1> HIDE DEF L
<1>10. /\ console'[L] = pushes + 1
       /\ \A i \in 1 .. L : i # L => console'[i] = console[i]
  BY <1>1, <1>2, <1>9
<1>11. ASSUME NEW i \in 1 .. L - 1
       PROVE  console'[i] # 0 => console'[i + 1] = console'[i] + 1
  <2>1. i \in 1 .. L /\ i + 1 \in 1 .. L /\ i # L
    BY <1>1
  <2>2. CASE i + 1 = L
    <3>1. console[i] = console[L]
      BY <1>8, <1>9, <2>2
    <3> QED
      BY <1>9, <1>10, <2>1, <2>2, <3>1
  <2>3. CASE i + 1 # L
    <3>1. console[i] # 0 => console[i + 1] = console[i] + 1
      BY <1>8, <1>9, <2>3
    <3> QED
      BY <1>10, <2>1, <2>3, <3>1
  <2> QED
    BY <2>2, <2>3
<1>12. \A s \in Readers, j \in 2 .. L : ~ First(s, Do("blank", j))'
  BY <1>7, InTheMiddle DEF L
<1> QED
  BY <1>8, <1>10, <1>11, <1>12 DEF ConsoleSound, L

LEMMA BlankStep ==
  ASSUME IInv, NEW t \in Readers, NEW x, Turn(t, x), x.op = "blank",
         pushes' = pushes, console' = [console EXCEPT ![x.on] = 0]
  PROVE  ConsoleSound'
<1> DEFINE L == ConsoleLines
           k == x.on
<1>1. L \in Nat \ {0} /\ t \in Tasks /\ x \in Accesses /\ Others(t)
  BY ConsoleLinesAssumption, TaskNames DEF Turn, Moved
<1>2. k \in 1 .. L /\ x = Do("blank", k) /\ x.op \in Series
  BY <1>1, AccessFacts DEF Series
<1>3. \A y : First(t, y) <=> y = x
  BY <1>1, TurnFirst
<1>4. \A s \in Readers \ {t} : \A y : First(s, y) \/ First(s, y)' => y.op \notin Series
  BY <1>1, <1>2, <1>3, TaskNames, AloneAtConsole, OthersFirst
<1>5. \A y : Middle(y) => y.op \in Series
  BY DEF Middle
<1>6. \A y : First(t, y)' /\ Middle(y) => y = Do("blank", k + 1)
  <2>1. CASE Open(x)
    <3>1. After(x) = Do("blank", k + 1)
      BY DEF After
    <3> QED
      BY <1>1, <2>1, <3>1, TurnFirst
  <2>2. CASE ~ Open(x)
    <3>1. Plain(t)'
      BY <1>1, <2>2, TurnFirst
    <3> QED
      BY <3>1 DEF Plain
  <2> QED
    BY <2>1, <2>2
<1>7. ASSUME NEW i \in 1 .. L - 1
      PROVE  ~ Shifting(i) /\ ~ Shifting(i)'
  <2>1. i + 1 \in 1 .. L
    BY <1>1
  <2>2. /\ PushStep(i + 1).op \in Series /\ PushStep(i + 1).op # "blank"
        /\ Middle(PushStep(i + 1)) /\ Do("blank", k + 1).op = "blank"
    BY <2>1, PushAccess, InTheMiddle, DoOp DEF Series
  <2>3. ~ First(t, PushStep(i + 1)) /\ ~ First(t, PushStep(i + 1))'
    BY <1>3, <1>6, <2>2
  <2> QED
    BY <1>4, <2>2, <2>3 DEF Shifting
<1>8. /\ console \in [1 .. L -> 0 .. pushes]
      /\ console[L] \in {0, pushes}
      /\ \A i \in 1 .. L - 1 : ~ Shifting(i) => (console[i] # 0 => console[i + 1] = console[i] + 1)
      /\ \A s \in Readers, j \in 2 .. L : First(s, Do("blank", j)) => console[j - 1] = 0
  BY DEF IInv, Types, ConsoleSound
<1> HIDE DEF L, k
<1>9. /\ console'[k] = 0
      /\ \A i \in 1 .. L : i # k => console'[i] = console[i]
  BY <1>1, <1>2, <1>8 DEF k
<1>10. ASSUME NEW i \in 1 .. L - 1
       PROVE  console'[i] # 0 => console'[i + 1] = console'[i] + 1
  <2>1. i \in 1 .. L /\ i + 1 \in 1 .. L
    BY <1>1
  <2>2. CASE i = k
    BY <1>9, <2>2
  <2>3. CASE i + 1 = k
    <3>1. k \in 2 .. L /\ k - 1 = i /\ i # k
      BY <1>1, <1>2, <2>3
    <3>2. console[i] = 0
      BY <1>2, <1>3, <1>8, <3>1
    <3> QED
      BY <1>9, <2>1, <3>1, <3>2
  <2>4. CASE i # k /\ i + 1 # k
    BY <1>7, <1>8, <1>9, <2>1, <2>4
  <2> QED
    BY <2>2, <2>3, <2>4
<1>11. console'[L] \in {0, pushes'}
  <2>1. L \in 1 .. L
    BY <1>1
  <2> QED
    BY <1>8, <1>9, <2>1
<1>12. ASSUME NEW s \in Readers, NEW j \in 2 .. L, First(s, Do("blank", j))'
       PROVE  console'[j - 1] = 0
  <2>1. /\ Do("blank", j).op \in Series /\ Middle(Do("blank", j))
        /\ Do("blank", j).on = j /\ Do("blank", k + 1).on = k + 1
    BY InTheMiddle, DoOp DEF Series, L
  <2>2. s = t
    BY <1>4, <1>12, <2>1
  <2>3. j = k + 1
    BY <1>6, <1>12, <2>1, <2>2
  <2>4. j - 1 = k
    BY <1>2, <2>3
  <2> QED
    BY <1>9, <2>4
<1> QED
  BY <1>7, <1>10, <1>11, <1>12 DEF ConsoleSound, L

(* While a reader changes the console, taskOled is not copying it.         *)
LEMMA CopyApart ==
  ASSUME IInv, NEW t \in Readers, NEW x, Turn(t, x), x.op \in Series, copied' = copied
  PROVE  CopySound'
<1>1. t \in Tasks /\ "oled" \in Tasks \ {t} /\ Others(t)
  BY TaskNames DEF Turn
<1>2. First(t, x)
  BY <1>1, TurnFirst
<1>3. \A k \in 2 .. ConsoleLines : ~ First("oled", Do("copy", k))
  <2>1. \A k : Do("copy", k).op \in Series
    BY DoOp DEF Series
  <2> QED
    BY <1>1, <1>2, <2>1, AloneAtConsole
<1>4. \A k \in 2 .. ConsoleLines : ~ First("oled", Do("copy", k))'
  BY <1>1, <1>3, OthersFirst
<1>5. \A i \in 1 .. ConsoleLines - 1 : copied[i] # 0 => copied[i + 1] = copied[i] + 1
  BY <1>3 DEF IInv, CopySound
<1> QED
  BY <1>4, <1>5 DEF CopySound

LEMMA CopyStep ==
  ASSUME IInv, NEW x, Turn("oled", x), x.op = "copy",
         console' = console, copied' = [copied EXCEPT ![x.on] = console[x.on]]
  PROVE  CopySound'
<1> DEFINE L == ConsoleLines
           k == x.on
<1>1. L \in Nat \ {0} /\ "oled" \in Tasks /\ x \in Accesses
  BY ConsoleLinesAssumption, TaskNames DEF Turn, Moved
<1>2. k \in 1 .. L /\ x = Do("copy", k) /\ x.op \in Series
  BY <1>1, AccessFacts DEF Series
<1>3. \A y : First("oled", y) <=> y = x
  BY <1>1, TurnFirst
<1>4. \A i \in 1 .. L - 1 : console[i] # 0 => console[i + 1] = console[i] + 1
  <2>1. ASSUME NEW i \in 1 .. L - 1
        PROVE  ~ Shifting(i)
    <3>1. i + 1 \in 1 .. L
      BY <1>1
    <3>2. PushStep(i + 1).op \in Series
      BY <3>1, PushAccess DEF Series
    <3>3. \A s \in Readers : ~ First(s, PushStep(i + 1))
      BY <1>1, <1>2, <1>3, <3>2, TaskNames, AloneAtConsole
    <3> QED
      BY <3>3 DEF Shifting
  <2> QED
    BY <2>1 DEF IInv, ConsoleSound
<1>5. copied \in [1 .. L -> 0 .. pushes]
  BY DEF IInv, Types
<1>6. \A i \in 1 .. k - 1 : copied[i] = console[i]
  <2>1. CASE k = 1
    BY <2>1
  <2>2. CASE k # 1
    <3>1. k \in 2 .. L
      BY <1>1, <1>2, <2>2
    <3>2. First("oled", Do("copy", k))
      BY <1>2, <1>3
    <3>3. \A j \in 2 .. L : First("oled", Do("copy", j)) => j = k
      BY <1>2, <1>3, DoOp
    <3> QED
      BY <3>1, <3>2, <3>3 DEF IInv, CopySound
  <2> QED
    BY <2>1, <2>2
<1>7. \A i \in 1 .. k : copied'[i] = console'[i]
  <2> SUFFICES ASSUME NEW i \in 1 .. k
               PROVE  copied'[i] = console[i]
    OBVIOUS
  <2>1. i \in 1 .. L /\ (i = k \/ i \in 1 .. k - 1)
    BY <1>1, <1>2
  <2> QED
    BY <1>5, <1>6, <2>1
<1>8. CASE k < L
  <2>1. Open(x) /\ After(x) = Do("copy", k + 1)
    BY <1>2, <1>8 DEF Open, After
  <2>2. First("oled", Do("copy", k + 1))'
    BY <1>1, <2>1, TurnFirst
  <2>3. k + 1 \in 2 .. L /\ (k + 1) - 1 = k
    BY <1>1, <1>2, <1>8
  <2> QED
    BY <1>7, <2>2, <2>3 DEF CopySound
<1>9. CASE k = L
  <2>1. ~ Open(x)
    BY <1>1, <1>9 DEF Open
  <2>2. Plain("oled")'
    BY <1>1, <2>1, TurnFirst
  <2>3. \A j \in 2 .. L : ~ First("oled", Do("copy", j))'
    BY <2>2, InTheMiddle DEF Plain
  <2>4. ASSUME NEW i \in 1 .. L - 1
        PROVE  copied'[i] # 0 => copied'[i + 1] = copied'[i] + 1
    <3>1. i \in 1 .. L /\ i + 1 \in 1 .. L
      BY <1>1
    <3> QED
      BY <1>4, <1>7, <1>9, <3>1
  <2> QED
    BY <2>3, <2>4 DEF CopySound
<1> QED
  BY <1>1, <1>2, <1>8, <1>9

LEMMA DrawStep ==
  ASSUME IInv, NEW x, Turn("oled", x), x.op = "draw", copied' = NoLines
  PROVE  CopySound'
<1>1. ConsoleLines \in Nat \ {0} /\ "oled" \in Tasks /\ ~ Open(x)
  BY ConsoleLinesAssumption, TaskNames DEF Open, Series
<1>2. Plain("oled")'
  BY <1>1, TurnFirst
<1>3. \A j \in 2 .. ConsoleLines : ~ First("oled", Do("copy", j))'
  BY <1>2, InTheMiddle DEF Plain
<1>4. \A i \in 1 .. ConsoleLines - 1 : copied'[i] = 0
  BY <1>1 DEF NoLines
<1> QED
  BY <1>3, <1>4 DEF CopySound

(***************************************************************************)
(* Every step keeps the invariant                                          *)
(***************************************************************************)

LEMMA StepTurn ==
  ASSUME IInv, NEW t \in Tasks, NEW op, Next1(t, op), Done(t)
  PROVE  /\ Turn(t, Head(todo[t])) /\ Shapes' /\ Head(todo[t]).op = op /\ On(t) = Head(todo[t]).on
         /\ Head(todo[t]) \in Accesses
         /\ op \notin CommonOps \cup {"copy", "draw"} => t \in Readers
         /\ op \in {"copy", "draw"} => t = "oled"
<1>1. todo[t] # << >> /\ Head(todo[t]).op = op /\ Shapes
  BY DEF Next1, IInv
<1>2. /\ Moved(Head(todo[t]), todo[t], todo'[t]) /\ Others(t) /\ Shapes'
      /\ t = "oled" => Head(todo[t]).op \in OledOps
      /\ t # "oled" => Head(todo[t]).op \in ReaderOps
  BY <1>1, Advance
<1>3. /\ "copy" \notin ReaderOps /\ "draw" \notin ReaderOps
      /\ OledOps = CommonOps \cup {"copy", "draw"}
  BY DEF ReaderOps, BodyOps, OledOps, CommonOps
<1> QED
  BY <1>1, <1>2, <1>3, TaskNames DEF Turn, Moved, On

LEMMA ScreenKept ==
  ASSUME IInv, NEW t \in Tasks, NEW x, Turn(t, x), x.op \notin Series, UNCHANGED screen
  PROVE  ConsoleSound' /\ CopySound'
<1>1. ~ Open(x) /\ ~ Middle(x) /\ Others(t)
  BY DEF Open, Middle, Turn
<1>2. Plain(t) /\ Plain(t)'
  BY <1>1, TurnFirst DEF Plain
<1> QED
  BY <1>1, <1>2, ConsoleKept, CopyKept DEF screen, IInv

LEMMA UpdatesLeft ==
  ASSUME IInv, NEW t \in Tasks, NEW x, Turn(t, x),
         x.op \notin {"fetch", "sample", "load"},
         x.op = "return" \/ command' = command,
         \A r \in Readers \ {t} : command'[r] = command[r],
         UNCHANGED << read, port, counts, fetched, lastError >>
  PROVE  UpdatesSound'
<1>1. \A u \in Updates : x \notin Reads(u)
  BY DoOp DEF Reads, Updates
<1>2. \A s \in Readers : Current(s)'
  BY <1>1, CurrentKept
<1> QED
  BY <1>2 DEF UpdatesSound, Current

LEMMA TakeGiveTouch ==
  ASSUME IInv, NEW t \in Tasks, Take(t) \/ Give(t) \/ Touch(t)
  PROVE  IInv'
<1> DEFINE x == Head(todo[t])
<1>1. PICK op \in CommonOps : Next1(t, op) /\ Done(t)
  BY DEF Take, Give, Touch, CommonOps
<1>2. Turn(t, x) /\ Shapes' /\ x.op = op /\ On(t) = x.on /\ x \in Accesses
  BY <1>1, StepTurn
<1>3. UNCHANGED << left, command, screen, errors, counts, port, read >>
  BY DEF Take, Give, Touch
<1>4. \/ x.op \notin {"take", "give"} /\ owner' = owner
      \/ /\ x.op = "take" /\ owner[x.on] = Nobody
         /\ owner' = [owner EXCEPT ![x.on] = t]
      \/ x.op = "give" /\ owner' = [owner EXCEPT ![x.on] = Nobody]
  BY <1>2 DEF Take, Give, Touch, Next1
<1>5. x.op \in {"take", "give", "touch"} /\ x.op \notin Series
  BY <1>1, <1>2 DEF CommonOps, Series
<1> HIDE DEF x
<1>6. Types'
  <2>1. owner' \in [Mutexes -> Tasks \cup {Nobody}]
    BY <1>4 DEF IInv, Types
  <2> QED
    BY <1>3, <2>1 DEF IInv, Types, screen, errors, counts, port
<1>7. Holding'
  BY <1>2, <1>4, HoldingKept
<1>8. PinKnown'
  BY <1>2, <1>3, <1>5, PinKnownKept
<1>9. UpdatesSound'
  BY <1>2, <1>3, <1>5, UpdatesLeft DEF errors
<1>10. ConsoleSound' /\ CopySound'
  BY <1>2, <1>3, <1>5, ScreenKept
<1> QED
  BY <1>2, <1>6, <1>7, <1>8, <1>9, <1>10 DEF IInv

LEMMA ReturnKeeps ==
  ASSUME IInv, NEW t \in Tasks, Return(t)
  PROVE  IInv'
<1> DEFINE x == Head(todo[t])
<1>1. /\ Next1(t, "return") /\ Done(t) /\ command' = [command EXCEPT ![t] = NoCommand]
      /\ UNCHANGED << owner, left, screen, errors, counts, port, read >>
  BY DEF Return
<1>2. Turn(t, x) /\ Shapes' /\ x.op = "return" /\ t \in Readers
  BY <1>1, StepTurn DEF CommonOps
<1> HIDE DEF x
<1>3. command' \in [Readers -> Commands \cup {NoCommand}]
      /\ \A s \in Readers \ {t} : command'[s] = command[s]
  BY <1>1, <1>2 DEF IInv, Types
<1>4. Types'
  BY <1>1, <1>3 DEF IInv, Types, screen, errors, counts, port
<1>5. Holding'
  BY <1>1, <1>2, HoldingKept
<1>6. PinKnown'
  BY <1>2, <1>3, PinKnownKept
<1>7. UpdatesSound'
  BY <1>1, <1>2, <1>3, UpdatesLeft DEF errors
<1>8. ConsoleSound' /\ CopySound'
  BY <1>1, <1>2, ScreenKept DEF Series
<1> QED
  BY <1>2, <1>4, <1>5, <1>6, <1>7, <1>8 DEF IInv

LEMMA ConsoleSteps ==
  ASSUME IInv, NEW t \in Tasks, ShiftLine(t) \/ AppendLine(t) \/ BlankLine(t)
  PROVE  IInv'
<1> DEFINE x == Head(todo[t])
           L == ConsoleLines
<1>1. PICK op \in {"shift", "append", "blank"} : Next1(t, op) /\ Done(t)
  BY DEF ShiftLine, AppendLine, BlankLine
<1>2. /\ Turn(t, x) /\ Shapes' /\ x.op = op /\ On(t) = x.on /\ x \in Accesses
      /\ t \in Readers
  BY <1>1, StepTurn DEF CommonOps
<1>3. /\ UNCHANGED << owner, left, command, copied, errors, counts, port, read >>
      /\ \/ /\ x.op = "shift" /\ pushes' = pushes
            /\ console' = [console EXCEPT ![x.on] = console[x.on + 1]]
         \/ /\ x.op = "append" /\ pushes' = pushes + 1
            /\ console' = [console EXCEPT ![x.on] = pushes']
         \/ /\ x.op = "blank" /\ pushes' = pushes
            /\ console' = [console EXCEPT ![x.on] = 0]
  BY <1>2 DEF ShiftLine, AppendLine, BlankLine, Next1
<1>4. L \in Nat \ {0} /\ x.op \in Series /\ x.op \notin {"take", "give", "call", "return"}
      /\ x.op \notin {"fetch", "sample", "load"}
  BY <1>1, <1>2, ConsoleLinesAssumption DEF Series
<1>5. /\ x.op = "shift" => x.on \in 1 .. L - 1
      /\ x.op = "append" => x.on = L
      /\ x.op = "blank" => x.on \in 1 .. L
  BY <1>2, AccessFacts
<1> HIDE DEF x
<1>6. pushes' \in Nat /\ console' \in [1 .. L -> 0 .. pushes'] /\ copied' \in [1 .. L -> 0 .. pushes']
  <2>1. /\ pushes \in Nat /\ console \in [1 .. L -> 0 .. pushes]
        /\ copied \in [1 .. L -> 0 .. pushes] /\ copied' = copied
    BY <1>3 DEF IInv, Types
  <2>2. pushes' \in Nat /\ pushes <= pushes'
    BY <1>3, <2>1
  <2>3. /\ console \in [1 .. L -> 0 .. pushes'] /\ copied' \in [1 .. L -> 0 .. pushes']
    BY <2>1, <2>2
  <2>4. x.op = "shift" => x.on + 1 \in 1 .. L
    BY <1>4, <1>5
  <2>5. console' \in [1 .. L -> 0 .. pushes']
    BY <1>3, <2>2, <2>3, <2>4
  <2> QED
    BY <2>2, <2>3, <2>5
<1>7. Types'
  BY <1>3, <1>6 DEF IInv, Types, errors, counts, port
<1>8. Holding'
  BY <1>2, <1>3, <1>4, HoldingKept
<1>9. PinKnown'
  BY <1>2, <1>3, <1>4, PinKnownKept
<1>10. UpdatesSound'
  BY <1>2, <1>3, <1>4, UpdatesLeft DEF errors
<1>11. ConsoleSound'
  BY <1>2, <1>3, ShiftStep, AppendStep, BlankStep
<1>12. CopySound'
  BY <1>2, <1>3, <1>4, CopyApart
<1> QED
  BY <1>2, <1>7, <1>8, <1>9, <1>10, <1>11, <1>12 DEF IInv

LEMMA DrawSteps ==
  ASSUME IInv, NEW t \in Tasks, CopyLine(t) \/ Draw(t)
  PROVE  IInv'
<1> DEFINE x == Head(todo[t])
           L == ConsoleLines
<1>1. PICK op \in {"copy", "draw"} : Next1(t, op) /\ Done(t)
  BY DEF CopyLine, Draw
<1>2. /\ Turn(t, x) /\ Shapes' /\ x.op = op /\ On(t) = x.on /\ x \in Accesses
      /\ t = "oled"
  BY <1>1, StepTurn
<1>3. /\ UNCHANGED << owner, left, command, console, pushes, errors, counts, port, read >>
      /\ \/ x.op = "copy" /\ copied' = [copied EXCEPT ![x.on] = console[x.on]]
         \/ x.op = "draw" /\ copied' = NoLines
  BY <1>2 DEF CopyLine, Draw, Next1
<1>4. L \in Nat \ {0} /\ x.op \notin {"take", "give", "call", "return"}
      /\ x.op \notin {"fetch", "sample", "load"}
  BY <1>1, <1>2, ConsoleLinesAssumption
<1>5. x.op = "copy" => x.on \in 1 .. L
  BY <1>2, AccessFacts
<1> HIDE DEF x
<1>6. copied' \in [1 .. L -> 0 .. pushes]
  <2>1. /\ pushes \in Nat /\ console \in [1 .. L -> 0 .. pushes]
        /\ copied \in [1 .. L -> 0 .. pushes]
    BY DEF IInv, Types
  <2> QED
    BY <1>3, <1>5, <2>1 DEF NoLines
<1>7. Types'
  BY <1>3, <1>6 DEF IInv, Types, errors, counts, port
<1>8. Holding'
  BY <1>2, <1>3, <1>4, HoldingKept
<1>9. PinKnown'
  BY <1>2, <1>3, <1>4, PinKnownKept
<1>10. UpdatesSound'
  BY <1>2, <1>3, <1>4, UpdatesLeft DEF errors
<1>11. ConsoleSound'
  BY <1>2, <1>3, ConsoleKept, TaskNames DEF IInv, Turn
<1>12. CopySound'
  BY <1>2, <1>3, CopyStep, DrawStep
<1> QED
  BY <1>2, <1>7, <1>8, <1>9, <1>10, <1>11, <1>12 DEF IInv

LEMMA ErrorsKeep ==
  ASSUME IInv, NEW t \in Tasks,
         SetError(t) \/ ResetError(t) \/ FetchError(t) \/ ClearError(t) \/ PrintError(t)
  PROVE  IInv'
<1> DEFINE x == Head(todo[t])
<1>1. PICK op \in {"set", "reset", "fetch", "clear", "print"} : Next1(t, op) /\ Done(t)
  BY DEF SetError, ResetError, FetchError, ClearError, PrintError
<1>2. /\ Turn(t, x) /\ Shapes' /\ x.op = op /\ x \in Accesses /\ t \in Readers
  BY <1>1, StepTurn DEF CommonOps
<1>3. UNCHANGED << owner, left, command, screen, counts, port, read >>
  BY DEF SetError, ResetError, FetchError, ClearError, PrintError
<1>4. \/ x.op = "set" /\ fetched' = fetched /\ raised' = raised + 1 /\ lastError' = raised'
      \/ x.op \in {"reset", "clear"} /\ fetched' = fetched /\ raised' = raised /\ lastError' = 0
      \/ /\ x.op = "fetch" /\ lastError' = lastError /\ raised' = raised
         /\ fetched' = [fetched EXCEPT ![t] = lastError]
      \/ /\ x.op = "print" /\ lastError' = lastError /\ raised' = raised
         /\ fetched' = [fetched EXCEPT ![t] = 0]
  BY <1>2 DEF SetError, ResetError, FetchError, ClearError, PrintError, Next1
<1>5. x.op \notin {"take", "give", "call", "return"} /\ x.op \notin Series
  BY <1>1, <1>2 DEF Series
<1> HIDE DEF x
<1>6. raised' \in Nat /\ lastError' \in 0 .. raised' /\ fetched' \in [Readers -> 0 .. raised']
  <2>1. raised \in Nat /\ lastError \in 0 .. raised /\ fetched \in [Readers -> 0 .. raised]
    BY DEF IInv, Types
  <2>2. raised' \in Nat /\ raised <= raised' /\ lastError' \in 0 .. raised'
    BY <1>4, <2>1
  <2>3. fetched \in [Readers -> 0 .. raised'] /\ lastError \in 0 .. raised'
    BY <2>1, <2>2
  <2>4. 0 \in 0 .. raised'
    BY <2>2
  <2> QED
    BY <1>4, <2>2, <2>3, <2>4
<1>7. Types'
  BY <1>3, <1>6 DEF IInv, Types, screen, counts, port
<1>8. Holding'
  BY <1>2, <1>3, <1>5, HoldingKept
<1>9. PinKnown'
  BY <1>2, <1>3, <1>5, PinKnownKept
<1>10. UpdatesSound'
  <2>1. \A s \in Readers : Current(s)'
    BY <1>2, <1>3, <1>4, ErrorSteps
  <2> QED
    BY <2>1 DEF UpdatesSound, Current
<1>11. ConsoleSound' /\ CopySound'
  BY <1>2, <1>3, <1>5, ScreenKept
<1> QED
  BY <1>2, <1>7, <1>8, <1>9, <1>10, <1>11 DEF IInv

LEMMA ReadsKeep ==
  ASSUME IInv, NEW t \in Tasks, SamplePin(t) \/ Load(t)
  PROVE  IInv'
<1> DEFINE x == Head(todo[t])
           R == [pin : BOOLEAN, port : [Pins -> BOOLEAN], count : 0 .. overlong]
<1>1. PICK op \in {"sample", "load"} : Next1(t, op) /\ Done(t)
  BY DEF SamplePin, Load
<1>2. /\ Turn(t, x) /\ Shapes' /\ x.op = op /\ x \in Accesses /\ t \in Readers /\ On(t) = x.on
  BY <1>1, StepTurn DEF CommonOps
<1>3. UNCHANGED << owner, left, command, screen, errors, counts, port >>
  BY DEF SamplePin, Load
<1>4. \/ x.op = "sample" /\ read' = [read EXCEPT ![t].pin = chip[command[t].pin]]
      \/ /\ x.op = "load" /\ x.on = "port"
         /\ read' = [read EXCEPT ![t] = [@ EXCEPT !.port = chip]]
      \/ /\ x.op = "load" /\ x.on # "port"
         /\ read' = [read EXCEPT ![t] = [@ EXCEPT !.count = overflowCount]]
  BY <1>2 DEF SamplePin, Load, Next1
<1>5. x.op \notin {"take", "give", "call", "return"} /\ x.op \notin Series
  BY <1>1, <1>2 DEF Series
<1> HIDE DEF x
<1>6. read' \in [Readers -> R]
  <2>1. /\ read \in [Readers -> R] /\ chip \in [Pins -> BOOLEAN] /\ overflowCount \in 0 .. overlong
    BY DEF IInv, Types
  <2>2. CASE x.op = "sample" /\ read' = [read EXCEPT ![t].pin = chip[command[t].pin]]
    <3>1. x \in PinSteps
      BY <1>2, <2>2, AccessFacts DEF PinSteps
    <3>2. OnPin(todo[t], 0)
      BY <1>2, <3>1 DEF Turn, Moved
    <3>3. command[t].pin \in Pins
      BY <1>2, <3>2 DEF IInv, PinKnown
    <3>4. chip[command[t].pin] \in BOOLEAN
      BY <2>1, <3>3
    <3> QED
      BY <1>2, <2>1, <2>2, <3>4
  <2>3. CASE /\ x.op = "load" /\ x.on = "port"
             /\ read' = [read EXCEPT ![t] = [@ EXCEPT !.port = chip]]
    BY <1>2, <2>1, <2>3
  <2>4. CASE /\ x.op = "load" /\ x.on # "port"
             /\ read' = [read EXCEPT ![t] = [@ EXCEPT !.count = overflowCount]]
    BY <1>2, <2>1, <2>4
  <2> QED
    BY <1>4, <2>2, <2>3, <2>4
<1>7. Types'
  BY <1>3, <1>6 DEF IInv, Types, screen, errors, counts, port
<1>8. Holding'
  BY <1>2, <1>3, <1>5, HoldingKept
<1>9. PinKnown'
  BY <1>2, <1>3, <1>5, PinKnownKept
<1>10. UpdatesSound'
  <2>1. \A s \in Readers : Current(s)'
    BY <1>2, <1>3, <1>4, ReadSteps
  <2> QED
    BY <2>1 DEF UpdatesSound, Current
<1>11. ConsoleSound' /\ CopySound'
  BY <1>2, <1>3, <1>5, ScreenKept
<1> QED
  BY <1>2, <1>7, <1>8, <1>9, <1>10, <1>11 DEF IInv

(* The three writes: what is stored is what the commands make of it.       *)
LEMMA WritesKeep ==
  ASSUME IInv, NEW t \in Tasks, StoreCount(t) \/ TogglePin(t) \/ WritePin(t)
  PROVE  IInv'
<1> DEFINE x == Head(todo[t])
           p == command[t].pin
<1>1. PICK op \in {"store", "toggle", "write"} : Next1(t, op) /\ Done(t)
  BY DEF StoreCount, TogglePin, WritePin, StorePin
<1>2. /\ Turn(t, x) /\ Shapes' /\ x.op = op /\ x \in Accesses /\ t \in Readers
  BY <1>1, StepTurn DEF CommonOps
<1>3. /\ UNCHANGED << owner, left, command, screen, errors >>
      /\ read' = [read EXCEPT ![t] = NoRead]
  BY DEF StoreCount, TogglePin, WritePin, StorePin
<1>4. \/ /\ x.op = "store" /\ UNCHANGED port
         /\ overflowCount' = read[t].count + 1 /\ overlong' = overlong + 1
      \/ /\ x.op = "toggle" /\ UNCHANGED counts
         /\ chip' = [read[t].port EXCEPT ![p] = ~ read[t].pin]
         /\ wanted' = [wanted EXCEPT ![p] = ~ wanted[p]]
      \/ /\ x.op = "write" /\ UNCHANGED counts
         /\ chip' = [read[t].port EXCEPT ![p] = TRUE]
         /\ wanted' = [wanted EXCEPT ![p] = TRUE]
  BY <1>2 DEF StoreCount, TogglePin, WritePin, StorePin, Next1
<1>5. x.op \notin {"take", "give", "call", "return"} /\ x.op \notin Series
  BY <1>1, <1>2 DEF Series
<1>6. \A u \in Updates : x \in Writes(u) => Pending(todo[t], 0, u)
  BY <1>2, PendingWas
<1>7. /\ Pending(todo[t], 0, "port") => read[t].port = chip
      /\ Pending(todo[t], 0, "pin") => read[t].pin = chip[p]
      /\ Pending(todo[t], 0, "count") => read[t].count = overflowCount
      /\ wanted = chip /\ overflowCount = overlong /\ overlong \in Nat
      /\ chip \in [Pins -> BOOLEAN]
      /\ OnPin(todo[t], 0) => p \in Pins
  BY <1>2 DEF IInv, Types, UpdatesSound, PinKnown
<1>8. x \in PinSteps => OnPin(todo[t], 0)
  BY <1>2 DEF Turn, Moved
<1> HIDE DEF x, p
<1>9. x.op = "store" => overflowCount' = overlong' /\ UNCHANGED port /\ overlong' = overlong + 1
  <2>1. x.op = "store" => x \in Writes("count")
    BY <1>2, AccessFacts DEF Writes
  <2> QED
    BY <1>4, <1>6, <1>7, <2>1 DEF Updates
<1>10. x.op \in {"toggle", "write"} =>
         chip' \in [Pins -> BOOLEAN] /\ wanted' = chip' /\ UNCHANGED counts
  <2>1. CASE x.op = "toggle"
    <3>1. x \in Writes("port") /\ x \in Writes("pin") /\ x \in PinSteps
      BY <1>2, <2>1, AccessFacts DEF Writes, PinSteps
    <3>2. read[t].port = chip /\ read[t].pin = chip[p] /\ p \in Pins
      BY <1>6, <1>7, <1>8, <3>1 DEF Updates
    <3>3. /\ UNCHANGED counts /\ chip' = [read[t].port EXCEPT ![p] = ~ read[t].pin]
          /\ wanted' = [wanted EXCEPT ![p] = ~ wanted[p]]
      BY <1>4, <2>1
    <3>4. chip' = [chip EXCEPT ![p] = ~ chip[p]] /\ wanted' = [chip EXCEPT ![p] = ~ chip[p]]
      BY <1>7, <3>2, <3>3, Zenon
    <3>5. chip' \in [Pins -> BOOLEAN]
      BY <1>7, <3>2, <3>4
    <3> QED
      BY <3>3, <3>4, <3>5
  <2>2. CASE x.op = "write"
    <3>1. x \in Writes("port")
      BY <1>2, <2>2, AccessFacts DEF Writes
    <3>2. read[t].port = chip
      BY <1>6, <1>7, <3>1 DEF Updates
    <3>3. /\ UNCHANGED counts /\ chip' = [read[t].port EXCEPT ![p] = TRUE]
          /\ wanted' = [wanted EXCEPT ![p] = TRUE]
      BY <1>4, <2>2
    <3> QED
      BY <1>7, <3>2, <3>3
  <2> QED
    BY <2>1, <2>2
<1>11. Types'
  <2>1. /\ overlong' \in Nat /\ overflowCount' = overlong' /\ overlong <= overlong'
        /\ chip' \in [Pins -> BOOLEAN] /\ wanted' = chip'
    <3>1. CASE x.op = "store"
      BY <1>7, <1>9, <3>1 DEF port
    <3>2. CASE x.op # "store"
      <4>1. x.op \in {"toggle", "write"}
        BY <1>1, <1>2, <3>2
      <4> QED
        BY <1>7, <1>10, <4>1 DEF counts
    <3> QED
      BY <3>1, <3>2
  <2>2. read \in [Readers -> [pin : BOOLEAN, port : [Pins -> BOOLEAN], count : 0 .. overlong']]
    <3>1. read \in [Readers -> [pin : BOOLEAN, port : [Pins -> BOOLEAN], count : 0 .. overlong]]
      BY DEF IInv, Types
    <3>2. \A n \in 0 .. overlong : n \in 0 .. overlong'
      BY <1>7, <2>1
    <3> QED
      BY <3>1, <3>2
  <2>3. NoRead \in [pin : BOOLEAN, port : [Pins -> BOOLEAN], count : 0 .. overlong']
    BY <2>1 DEF NoRead
  <2>4. read' \in [Readers -> [pin : BOOLEAN, port : [Pins -> BOOLEAN], count : 0 .. overlong']]
    BY <1>2, <1>3, <2>2, <2>3
  <2> QED
    BY <1>3, <2>1, <2>4 DEF IInv, Types, screen, errors
<1>12. Holding'
  BY <1>2, <1>3, <1>5, HoldingKept
<1>13. PinKnown'
  BY <1>2, <1>3, <1>5, PinKnownKept
<1>14. UpdatesSound'
  <2>1. x.op \in {"store", "toggle", "write"}
    BY <1>1, <1>2
  <2>2. (x.op = "store" => UNCHANGED port) /\ (x.op # "store" => UNCHANGED counts)
    BY <1>9, <1>10, <2>1
  <2>3. \A s \in Readers : Current(s)'
    BY <1>2, <1>3, <2>1, <2>2, WriteSteps
  <2> QED
    BY <2>3 DEF UpdatesSound, Current
<1>15. ConsoleSound' /\ CopySound'
  BY <1>2, <1>3, <1>5, ScreenKept
<1> QED
  BY <1>2, <1>11, <1>12, <1>13, <1>14, <1>15 DEF IInv

LEMMA BeginsKeep ==
  ASSUME IInv,
         \/ \E t \in Readers : ReadLine(t) \/ ReadOverlongLine(t) \/ IdlePass(t)
         \/ Redraw
  PROVE  IInv'
<1>1. PICK t \in Tasks :
         \E s : Begin(t, s) /\ Closed(s, IF t = "oled" THEN OledOps ELSE ReaderOps, FALSE)
  <2>1. CASE Redraw
    <3>1. "oled" \in Tasks
      BY TaskNames
    <3> QED
      BY <2>1, <3>1, DrawClosed DEF Redraw
  <2>2. ASSUME NEW t \in Readers, ReadLine(t) \/ ReadOverlongLine(t) \/ IdlePass(t)
        PROVE  \E s : Begin(t, s) /\ Closed(s, ReaderOps, FALSE)
    BY <2>2, PassesClosed DEF ReadLine, ReadOverlongLine, IdlePass
  <2>3. \A t \in Readers : t \in Tasks /\ t # "oled"
    BY TaskNames
  <2> QED
    BY <2>1, <2>2, <2>3
<1>2. UNCHANGED << owner, command, screen, errors, counts, port, read >>
  BY DEF ReadLine, ReadOverlongLine, IdlePass, Redraw
<1>3. left' \in [Readers -> 0 .. MaxLines]
  <2>1. left \in [Readers -> 0 .. MaxLines] /\ MaxLines \in Nat
    BY MaxLinesAssumption DEF IInv, Types
  <2>2. left' = left \/ \E s \in Readers : left[s] > 0 /\ left' = [left EXCEPT ![s] = @ - 1]
    BY DEF ReadLine, ReadOverlongLine, IdlePass, Redraw
  <2> QED
    BY <2>1, <2>2
<1>4. Shapes' /\ Others(t) /\ Fresh(todo[t]) /\ Fresh(todo'[t]) /\ ~ OnPin(todo'[t], 0)
  BY <1>1, BeginFresh DEF IInv
<1>5. Types'
  BY <1>2, <1>3 DEF IInv, Types, screen, errors, counts, port
<1>6. Holding' /\ PinKnown' /\ UpdatesSound' /\ ConsoleSound' /\ CopySound'
  BY <1>2, <1>4, FreshKeeps
<1> QED
  BY <1>4, <1>5, <1>6 DEF IInv

LEMMA CallKeeps ==
  ASSUME IInv, NEW t \in Tasks, Call(t)
  PROVE  IInv'
<1>1. /\ Shapes' /\ Others(t) /\ Fresh(todo[t]) /\ Fresh(todo'[t])
      /\ t \in Readers /\ On(t) \in Commands
      /\ OnPin(todo'[t], 0) => On(t).pin \in Pins
  BY CallFresh DEF IInv
<1>2. /\ UNCHANGED << owner, left, screen, errors, counts, port, read >>
      /\ command' = [command EXCEPT ![t] = On(t)]
  BY DEF Call
<1>3. /\ command' \in [Readers -> Commands \cup {NoCommand}] /\ command'[t] = On(t)
      /\ \A s \in Readers \ {t} : command'[s] = command[s]
  BY <1>1, <1>2 DEF IInv, Types
<1>4. Types'
  BY <1>2, <1>3 DEF IInv, Types, screen, errors, counts, port
<1>5. Holding' /\ PinKnown' /\ UpdatesSound' /\ ConsoleSound' /\ CopySound'
  BY <1>1, <1>2, <1>3, FreshKeeps
<1> QED
  BY <1>1, <1>4, <1>5 DEF IInv

LEMMA InitIInv == Init => IInv
<1> SUFFICES ASSUME Init
             PROVE  IInv
  OBVIOUS
<1>1. ConsoleLines \in Nat \ {0} /\ MaxLines \in Nat
  BY ConsoleLinesAssumption, MaxLinesAssumption
<1>2. \A t \in Tasks : todo[t] = << >>
  BY DEF Init
<1>3. Closed(<< >>, OledOps, FALSE) /\ Closed(<< >>, ReaderOps, FALSE)
  BY NothingToDo
<1>4. Fresh(<< >>) /\ ~ OnPin(<< >>, 0) /\ Shape(<< >>) /\ OpsIn(<< >>, OledOps)
      /\ OpsIn(<< >>, ReaderOps)
  BY <1>3, ClosedFresh, ClosedSeq
<1>5. \A x : ~ NextIs(<< >>, 0, x)
  BY NothingToDo
<1>6. Types
  <2>1. NoLines \in [1 .. ConsoleLines -> 0 .. 0]
    BY DEF NoLines
  <2>2. NoRead \in [pin : BOOLEAN, port : [Pins -> BOOLEAN], count : 0 .. 0]
        /\ NoRead.port \in [Pins -> BOOLEAN]
    BY DEF NoRead
  <2> QED
    BY <1>1, <2>1, <2>2 DEF Init, Types
<1>7. Shapes
  <2>1. todo \in [Tasks -> Seq(Accesses)]
    BY DEF Init
  <2> QED
    BY <1>2, <1>4, <2>1, TaskNames DEF Shapes
<1>8. Holding
  BY <1>2, <1>4, TaskNames DEF Holding, Init, Fresh
<1>9. PinKnown
  BY <1>2, <1>4, TaskNames DEF PinKnown
<1>10. UpdatesSound
  <2>1. \A t \in Readers, u \in Updates : ~ Pending(todo[t], 0, u)
    BY <1>2, <1>4, TaskNames DEF Fresh
  <2> QED
    BY <2>1 DEF UpdatesSound, Updates
<1>11. ConsoleSound /\ CopySound
  <2>1. \A t \in Tasks : \A y : ~ First(t, y)
    BY <1>2, <1>5 DEF First
  <2>2. /\ \A i \in 1 .. ConsoleLines : console[i] = 0 /\ copied[i] = 0
        /\ ConsoleLines \in 1 .. ConsoleLines
        /\ \A i \in 1 .. ConsoleLines - 1 : i \in 1 .. ConsoleLines
    BY <1>1 DEF Init, NoLines
  <2>3. ConsoleSound
    BY <2>1, <2>2, TaskNames DEF ConsoleSound, Shifting
  <2> QED
    BY <2>1, <2>2, <2>3, TaskNames DEF CopySound
<1> QED
  BY <1>6, <1>7, <1>8, <1>9, <1>10, <1>11 DEF IInv

LEMMA StutterKeeps ==
  ASSUME IInv, UNCHANGED vars
  PROVE  IInv'
<1>1. /\ owner' = owner /\ todo' = todo /\ left' = left /\ command' = command
      /\ console' = console /\ pushes' = pushes /\ copied' = copied
      /\ lastError' = lastError /\ raised' = raised /\ fetched' = fetched
      /\ overflowCount' = overflowCount /\ overlong' = overlong
      /\ chip' = chip /\ wanted' = wanted /\ read' = read
  BY DEF vars, tasks, screen, errors, counts, port
<1>2. Types' /\ Shapes' /\ Holding' /\ PinKnown'
  BY <1>1 DEF IInv, Types, Shapes, Holding, PinKnown
<1>3. UpdatesSound'
  BY <1>1 DEF IInv, UpdatesSound
<1>4. (\A t, y : First(t, y)' <=> First(t, y)) /\ \A i : Shifting(i)' <=> Shifting(i)
  BY <1>1 DEF First, Shifting
<1>5. ConsoleSound' /\ CopySound'
  BY <1>1, <1>4 DEF IInv, ConsoleSound, CopySound
<1> QED
  BY <1>2, <1>3, <1>5 DEF IInv

LEMMA Invariance == Spec => []IInv
<1>1. IInv /\ [Next]_vars => IInv'
  <2> SUFFICES ASSUME IInv, [Next]_vars
               PROVE  IInv'
    OBVIOUS
  <2>1. CASE \/ \E t \in Readers : ReadLine(t) \/ ReadOverlongLine(t) \/ IdlePass(t)
             \/ Redraw
    BY <2>1, BeginsKeep
  <2>2. ASSUME NEW t \in Tasks, Step(t)
        PROVE  IInv'
    BY <2>2, TakeGiveTouch, CallKeeps, ReturnKeeps, ConsoleSteps, DrawSteps, ErrorsKeep,
       ReadsKeep, WritesKeep DEF Step
  <2>3. CASE UNCHANGED vars
    BY <2>3, StutterKeeps
  <2> QED
    BY <2>1, <2>2, <2>3 DEF Next
<1> QED
  BY InitIInv, <1>1, PTL DEF Spec

(***************************************************************************)
(* What follows for the tasks                                              *)
(***************************************************************************)

(* What a task does next with a mutex: it gives it back if it is inside of *)
(* its critical section and takes it if it is not.                         *)
LEMMA FirstAbout ==
  ASSUME NEW s, Shape(s), NEW m \in Mutexes
  PROVE  LET about == {i \in 1 .. Len(s) : AboutMutex(s[i], m)}
             first == {i \in about : \A j \in about : i <= j}
         IN  /\ Inside(s, 0, m) => first # {}
             /\ \A i \in first : s[i].op = IF Inside(s, 0, m) THEN "give" ELSE "take"
<1> DEFINE about == {i \in 1 .. Len(s) : AboutMutex(s[i], m)}
           first == {i \in about : \A j \in about : i <= j}
<1>1. s \in Seq(Accesses) /\ Len(s) \in Nat
  BY LenProperties DEF Shape
<1>2. ASSUME NEW i \in 1 .. Len(s)
      PROVE  /\ i \in about <=> s[i] \in About(m)
             /\ s[i] \in About(m) => s[i].op = "take" \/ s[i] = Do("give", m)
  <2>1. s[i] \in Accesses
    BY <1>1, ElementOfSeq
  <2> QED
    BY <2>1, AccessFacts, DoOp DEF AboutMutex, About
<1>3. ASSUME Inside(s, 0, m)
      PROVE  \E j \in first : s[j].op = "give" /\ \A i \in first : i = j
  <2>1. PICK j \in 0 + 1 .. Len(s) :
          s[j] = Do("give", m) /\ \A k \in 0 + 1 .. j - 1 : s[k] \notin About(m)
    BY <1>3 DEF Inside, Comes
  <2>2. j \in 1 .. Len(s) /\ s[j] \in About(m) /\ s[j].op = "give"
    BY <1>1, <2>1, DoOp DEF About
  <2>3. j \in about
    BY <1>2, <2>2
  <2>4. ASSUME NEW i \in about
        PROVE  j <= i
    <3>1. i \in 1 .. Len(s) /\ s[i] \in About(m)
      BY <1>2
    <3>2. ~ (i \in 0 + 1 .. j - 1)
      BY <2>1, <3>1
    <3> QED
      BY <1>1, <2>2, <3>1, <3>2
  <2>5. j \in first
    BY <2>3, <2>4
  <2>6. ASSUME NEW i \in first
        PROVE  i = j
    <3>1. i <= j /\ j <= i /\ i \in 1 .. Len(s)
      BY <2>3, <2>4
    <3> QED
      BY <2>2, <3>1
  <2> QED
    BY <2>2, <2>5, <2>6
<1>4. ASSUME ~ Inside(s, 0, m), NEW i \in first
      PROVE  s[i].op = "take"
  <2>1. i \in 1 .. Len(s) /\ s[i] \in About(m) /\ \A j \in about : i <= j
    BY <1>2
  <2>2. SUFFICES ASSUME s[i] = Do("give", m)
                 PROVE  FALSE
    BY <1>2, <2>1
  <2>3. ASSUME NEW k \in 0 + 1 .. i - 1
        PROVE  s[k] \notin About(m)
    <3>1. k \in 1 .. Len(s) /\ ~ (i <= k)
      BY <1>1, <2>1
    <3> QED
      BY <1>2, <2>1, <3>1
  <2>4. i \in 0 + 1 .. Len(s)
    BY <2>1
  <2>5. Inside(s, 0, m)
    BY <2>2, <2>3, <2>4 DEF Inside, Comes
  <2> QED
    BY <1>4, <2>5
<1> HIDE DEF first
<1>5. Inside(s, 0, m) => first # {}
  BY <1>3
<1>6. ASSUME NEW i \in first
      PROVE  s[i].op = IF Inside(s, 0, m) THEN "give" ELSE "take"
  BY <1>3, <1>4
<1> QED
  BY <1>5, <1>6 DEF first

LEMMA TypesHold == IInv => TypeOK
<1> SUFFICES ASSUME IInv
             PROVE  TypeOK
  OBVIOUS
<1>1. ASSUME NEW t \in Tasks, NEW m \in Mutexes
      PROVE  LET about == {i \in 1 .. Len(todo[t]) : AboutMutex(todo[t][i], m)}
                 first == {i \in about : \A j \in about : i <= j}
             IN  /\ owner[m] = t => first # {}
                 /\ \A i \in first : todo[t][i].op = IF owner[m] = t THEN "give" ELSE "take"
  <2>1. Shape(todo[t]) /\ (owner[m] = t <=> Inside(todo[t], 0, m))
    BY DEF IInv, Shapes, Holding
  <2> QED
    BY <2>1, FirstAbout
<1>2. ASSUME NEW t \in Readers
      PROVE  /\ read[t].pin \in BOOLEAN /\ read[t].port \in [Pins -> BOOLEAN]
             /\ read[t].count \in 0 .. overlong
  BY DEF IInv, Types
<1> QED
  BY <1>1, <1>2 DEF IInv, Types, TypeOK

(* The variables keep their types; whoever holds a mutex gives it back     *)
(* before it takes it again, and nobody else gives it back, on every path  *)
(* through the handlers.                                                   *)
THEOREM TypeCorrect == Spec => []TypeOK
BY Invariance, TypesHold, PTL

(* No update is lost: while i2cMutex is free, the expander's port is what  *)
(* the commands of both readers make of it, and while stateMutex is free,  *)
(* overflowCount counts the overlong lines of both.                        *)
THEOREM NoUpdateLost == Spec => []UpdatesKept
<1>1. IInv => UpdatesKept
  BY DEF IInv, Types, UpdatesKept
<1> QED
  BY <1>1, Invariance, PTL

(* taskOled draws the texts of consecutive pushes, behind blank lines,     *)
(* though the readers move the console's lines one by one.                 *)
THEOREM DrawnWhole == Spec => []ConsoleDrawnWhole
<1>1. IInv => ConsoleDrawnWhole
  <2> SUFFICES ASSUME IInv, Next1("oled", "draw")
               PROVE  \A i \in 1 .. ConsoleLines - 1 :
                        copied[i] # 0 => copied[i + 1] = copied[i] + 1
    BY DEF ConsoleDrawnWhole
  <2>1. Moved(Head(todo["oled"]), todo["oled"], Tail(todo["oled"]))
    BY TaskNames, HeadMoved DEF IInv, Shapes, Next1
  <2>2. \A y : First("oled", y) => y.op = "draw"
    BY <2>1 DEF Moved, First, Next1
  <2>3. \A k \in 2 .. ConsoleLines : ~ First("oled", Do("copy", k))
    BY <2>2, DoOp
  <2> QED
    BY <2>3 DEF IInv, CopySound
<1> QED
  BY <1>1, Invariance, PTL

(* SYST:ERR? clears the error it has read: no error raised between its two *)
(* accesses is cleared unread.                                             *)
THEOREM FetchClearsItsOwn == Spec => FetchRemovesWhatItRead
<1>1. IInv /\ [Next]_vars => [\A t \in Readers : ClearError(t) => lastError = fetched[t]]_vars
  <2> SUFFICES ASSUME IInv, NEW t \in Readers, ClearError(t)
               PROVE  lastError = fetched[t]
    OBVIOUS
  <2>1. t \in Tasks /\ "error" \in Updates
    BY TaskNames DEF Updates
  <2>2. Next1(t, "clear") /\ Done(t)
    BY DEF ClearError
  <2>3. /\ Turn(t, Head(todo[t])) /\ Head(todo[t]).op = "clear" /\ Head(todo[t]) \in Accesses
    BY <2>1, <2>2, StepTurn
  <2>4. Head(todo[t]) \in Writes("error")
    BY <2>3, AccessFacts DEF Writes
  <2>5. Pending(todo[t], 0, "error")
    BY <2>1, <2>3, <2>4, PendingWas
  <2> QED
    BY <2>5 DEF IInv, UpdatesSound
<1>2. Spec => [][\A t \in Readers : ClearError(t) => lastError = fetched[t]]_vars
  BY <1>1, Invariance, PTL DEF Spec
<1> QED
  BY <1>2 DEF FetchRemovesWhatItRead

=============================================================================
