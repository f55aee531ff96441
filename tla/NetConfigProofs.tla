--------------------------- MODULE NetConfigProofs ---------------------------
(***************************************************************************)
(* Proofs about NetConfig, for every list of variables and every set of    *)
(* their values: what the handlers leave behind when they return, in       *)
(* whatever order the accesses of the three tasks and a power failure come.*)
(***************************************************************************)
EXTENDS NetConfig, ListProofs

(***************************************************************************)
(* The lists of accesses                                                   *)
(***************************************************************************)

Names == Fields \cup {"prefs", "restart", Console, Menu}

Accesses ==
  [op : Steps, on : Names]
    \cup [op : {"set"}, on : Fields, value : UNION {Values[f] : f \in Fields}]

(* What may not stand behind an access: a handler opens the preferences    *)
(* once and closes them once, and requests and shows behind its save.      *)
Barred(op) ==
  CASE op \in {"begin", "put", "request"} -> {"begin"}
    [] op = "end"  -> {"begin", "end"}
    [] op = "show" -> {"request"}
    [] OTHER       -> {}

(* The access x may stand where the steps of s behind place i are to come: *)
(* who changes a variable saves and requests, who opens the preferences    *)
(* puts every variable and closes them, who clears the request applies     *)
(* every variable.                                                         *)
Fits(x, s, i) ==
  /\ x.op = "set" => /\ x.on \in Fields /\ x.value \in Values[x.on]
                     /\ LaterOp(s, i, "begin") /\ LaterOp(s, i, "request")
  /\ x.op = "begin" => /\ LaterOp(s, i, "end")
                       /\ \A f \in Fields : Later(s, i, Do("put", f))
  /\ x.op = "put" => /\ x.on \in Fields /\ x = Do("put", x.on)
                     /\ LaterOp(s, i, "end")
  /\ x.op = "clear" => \A f \in Fields : Later(s, i, Do("apply", f))
  /\ x.op = "apply" => x.on \in Fields /\ x = Do("apply", x.on)
  /\ x.op = "show" => x.on \in {Console, Menu} \cup Fields
  /\ \A op \in Barred(x.op) : ~ LaterOp(s, i, op)

Shape(s) == s \in Seq(Accesses) /\ \A i \in 1 .. Len(s) : Fits(s[i], s, i)

(* Fits looks only at what is behind the place. *)
LEMMA FitsAlike ==
  ASSUME NEW x, NEW s, NEW i, NEW r, NEW k,
         \A y : Later(s, i, y) <=> Later(r, k, y),
         \A op : LaterOp(s, i, op) <=> LaterOp(r, k, op)
  PROVE  Fits(x, s, i) <=> Fits(x, r, k)
BY DEF Fits

(* Taking the first access leaves a list that fits.                        *)
LEMMA TailShape ==
  ASSUME NEW s, Shape(s), s # << >>
  PROVE  Shape(Tail(s)) /\ Fits(Head(s), Tail(s), 0)
<1>1. /\ s \in Seq(Accesses) /\ Len(s) \in Nat \ {0} /\ Len(Tail(s)) = Len(s) - 1
      /\ Tail(s) \in Seq(Accesses) /\ Head(s) = s[1]
      /\ \A i \in 1 .. Len(s) - 1 : Tail(s)[i] = s[i + 1]
  BY TailMoves DEF Shape
<1>2. ASSUME NEW i \in 0 .. Len(s) - 1, NEW x
      PROVE  Fits(x, s, i + 1) <=> Fits(x, Tail(s), i)
  BY <1>1, TailLater, FitsAlike
<1>3. Fits(s[1], Tail(s), 0)
  <2>1. 1 \in 1 .. Len(s) /\ 0 \in 0 .. Len(s) - 1 /\ 0 + 1 = 1
    BY <1>1
  <2>2. Fits(s[1], s, 1)
    BY <2>1 DEF Shape
  <2> QED
    BY <1>2, <2>1, <2>2
<1>4. ASSUME NEW i \in 1 .. Len(Tail(s))
      PROVE  Fits(Tail(s)[i], Tail(s), i)
  <2>1. i \in 0 .. Len(s) - 1 /\ i \in 1 .. Len(s) - 1 /\ i + 1 \in 1 .. Len(s)
    BY <1>1
  <2>2. Fits(s[i + 1], s, i + 1) /\ Tail(s)[i] = s[i + 1]
    BY <1>1, <2>1 DEF Shape
  <2> QED
    BY <1>2, <2>1, <2>2
<1> QED
  BY <1>1, <1>3, <1>4 DEF Shape

(* A list behind another, where the other bars nothing of it.              *)
LEMMA JoinShape ==
  ASSUME NEW p, Shape(p), NEW q, Shape(q),
         \A i \in 1 .. Len(p) : \A op \in Barred(p[i].op) : ~ LaterOp(q, 0, op)
  PROVE  Shape(p \o q)
<1> DEFINE s == p \o q
<1>1. p \in Seq(Accesses) /\ q \in Seq(Accesses)
  BY DEF Shape
<1>2. /\ s \in Seq(Accesses) /\ Len(s) = Len(p) + Len(q) /\ Len(p) \in Nat /\ Len(q) \in Nat
      /\ \A i \in 1 .. Len(p) : s[i] = p[i]
      /\ \A i \in 1 .. Len(q) : s[Len(p) + i] = q[i]
      /\ \A i \in 0 .. Len(p) :
           /\ \A x : Later(s, i, x) <=> Later(p, i, x) \/ Later(q, 0, x)
           /\ \A op : LaterOp(s, i, op) <=> LaterOp(p, i, op) \/ LaterOp(q, 0, op)
      /\ \A i \in 0 .. Len(q) :
           /\ \A x : Later(s, Len(p) + i, x) <=> Later(q, i, x)
           /\ \A op : LaterOp(s, Len(p) + i, op) <=> LaterOp(q, i, op)
  BY <1>1, JoinLater
<1> HIDE DEF s
<1>3. ASSUME NEW i \in 1 .. Len(p)
      PROVE  Fits(s[i], s, i)
  <2>1. Fits(p[i], p, i) /\ s[i] = p[i] /\ i \in 0 .. Len(p)
    BY <1>2 DEF Shape
  <2>2. \A op \in Barred(p[i].op) : ~ LaterOp(q, 0, op)
    OBVIOUS
  <2>3. /\ \A x : Later(p, i, x) => Later(s, i, x)
        /\ \A op : LaterOp(p, i, op) => LaterOp(s, i, op)
        /\ \A op \in Barred(p[i].op) : LaterOp(s, i, op) => LaterOp(p, i, op)
    BY <1>2, <2>1, <2>2
  <2> QED
    BY <2>1, <2>3 DEF Fits
<1>4. ASSUME NEW i \in 1 .. Len(q)
      PROVE  Fits(s[Len(p) + i], s, Len(p) + i)
  <2>1. Fits(q[i], q, i) /\ s[Len(p) + i] = q[i] /\ i \in 0 .. Len(q)
    BY <1>2 DEF Shape
  <2> QED
    BY <1>2, <2>1, FitsAlike
<1>5. ASSUME NEW k \in 1 .. Len(s)
      PROVE  Fits(s[k], s, k)
  <2>1. k \in 1 .. Len(p) \/ (k - Len(p) \in 1 .. Len(q) /\ k = Len(p) + (k - Len(p)))
    BY <1>2
  <2> QED
    BY <1>3, <1>4, <2>1
<1> QED
  BY <1>2, <1>5 DEF Shape, s

(* An access in front of a list it fits.                                   *)
LEMMA ConsShape ==
  ASSUME NEW x \in Accesses, NEW q, Shape(q), Fits(x, q, 0)
  PROVE  Shape(<< x >> \o q)
<1> DEFINE p == << x >>
           s == p \o q
<1>1. q \in Seq(Accesses) /\ p \in Seq(Accesses) /\ Len(p) = 1 /\ p[1] = x
      /\ \A y : ~ Later(p, 1, y)
      /\ \A op : ~ LaterOp(p, 1, op)
  BY OneStep DEF Shape
<1> HIDE DEF p
<1>2. /\ s \in Seq(Accesses) /\ Len(s) = 1 + Len(q) /\ Len(q) \in Nat
      /\ s[1] = x
      /\ \A i \in 1 .. Len(q) : s[1 + i] = q[i]
      /\ \A y : Later(s, 1, y) <=> Later(q, 0, y)
      /\ \A op : LaterOp(s, 1, op) <=> LaterOp(q, 0, op)
      /\ \A i \in 0 .. Len(q) :
           /\ \A y : Later(s, 1 + i, y) <=> Later(q, i, y)
           /\ \A op : LaterOp(s, 1 + i, op) <=> LaterOp(q, i, op)
  <2>1. /\ s \in Seq(Accesses) /\ Len(s) = Len(p) + Len(q)
        /\ Len(p) \in Nat /\ Len(q) \in Nat
        /\ \A i \in 1 .. Len(p) : s[i] = p[i]
        /\ \A i \in 1 .. Len(q) : s[Len(p) + i] = q[i]
        /\ \A i \in 0 .. Len(p) :
             /\ \A y : Later(s, i, y) <=> Later(p, i, y) \/ Later(q, 0, y)
             /\ \A op : LaterOp(s, i, op) <=> LaterOp(p, i, op) \/ LaterOp(q, 0, op)
        /\ \A i \in 0 .. Len(q) :
             /\ \A y : Later(s, Len(p) + i, y) <=> Later(q, i, y)
             /\ \A op : LaterOp(s, Len(p) + i, op) <=> LaterOp(q, i, op)
    BY <1>1, JoinLater
  <2> HIDE DEF s
  <2>2. 1 \in 0 .. Len(p) /\ 1 \in 1 .. Len(p)
    BY <1>1
  <2>3. /\ \A y : Later(s, 1, y) <=> Later(q, 0, y)
        /\ \A op : LaterOp(s, 1, op) <=> LaterOp(q, 0, op)
    BY <1>1, <2>1, <2>2
  <2> QED
    BY <1>1, <2>1, <2>2, <2>3
<1> HIDE DEF s
<1>3. Fits(s[1], s, 1)
  BY <1>2, FitsAlike
<1>4. ASSUME NEW i \in 1 .. Len(q)
      PROVE  Fits(s[1 + i], s, 1 + i)
  <2>1. Fits(q[i], q, i) /\ s[1 + i] = q[i] /\ i \in 0 .. Len(q)
    BY <1>2 DEF Shape
  <2> QED
    BY <1>2, <2>1, FitsAlike
<1>5. ASSUME NEW k \in 1 .. Len(s)
      PROVE  Fits(s[k], s, k)
  <2>1. k = 1 \/ (k - 1 \in 1 .. Len(q) /\ k = 1 + (k - 1))
    BY <1>2
  <2> QED
    BY <1>3, <1>4, <2>1
<1> QED
  BY <1>2, <1>5 DEF Shape, s, p

(***************************************************************************)
(* The handlers                                                            *)
(***************************************************************************)

LEMMA DoAccess ==
  ASSUME NEW op \in Steps, NEW on \in Names
  PROVE  Do(op, on) \in Accesses /\ Do(op, on).op = op /\ Do(op, on).on = on
BY DEF Do, Accesses

LEMMA ForFieldsSteps ==
  ASSUME NEW op \in Steps
  PROVE  /\ ForFields(op) \in Seq(Accesses) /\ OpsIn(ForFields(op), {op})
         /\ Len(ForFields(op)) = Len(Order) /\ Len(Order) \in Nat
         /\ \A i \in 1 .. Len(Order) : /\ ForFields(op)[i] = Do(op, Order[i])
                                      /\ Order[i] \in Fields
         /\ \A f \in Fields : Later(ForFields(op), 0, Do(op, f))
<1> DEFINE s == ForFields(op)
<1>1. Len(Order) \in Nat /\ \A i \in 1 .. Len(Order) : Order[i] \in Fields
  BY OrderAssumption DEF Fields
<1>2. \A i \in 1 .. Len(Order) : s[i] = Do(op, Order[i]) /\ Do(op, Order[i]) \in Accesses
  BY <1>1, DoAccess DEF ForFields, Names
<1>3. s \in [1 .. Len(Order) -> Accesses]
  BY <1>2 DEF ForFields
<1>4. s \in Seq(Accesses) /\ Len(s) = Len(Order)
  BY <1>1, <1>3
<1> HIDE DEF s
<1>5. \A f \in Fields : Later(s, 0, Do(op, f))
  BY <1>2, <1>4 DEF Later, Fields
<1>6. OpsIn(s, {op})
  <2>1. \A on : Do(op, on).op = op
    BY DEF Do
  <2> QED
    BY <1>2, <1>4, <2>1 DEF OpsIn
<1> QED
  BY <1>1, <1>2, <1>4, <1>5, <1>6 DEF s

(* saveNetPrefs. *)
LEMMA SaveNetPrefsShape ==
  /\ Shape(SaveNetPrefs) /\ OpsIn(SaveNetPrefs, {"begin", "put", "end"})
  /\ LaterOp(SaveNetPrefs, 0, "begin")
<1> DEFINE first == Do("begin", "prefs")
           puts == ForFields("put")
           last == Do("end", "prefs")
           rest == puts \o << last >>
<1>1. /\ first \in Accesses /\ first.op = "begin"
      /\ last \in Accesses /\ last.op = "end"
      /\ {"begin", "put", "end"} \subseteq Steps
  <2>1. {"begin", "put", "end"} \subseteq Steps /\ "prefs" \in Names
    BY DEF Steps, Names
  <2> QED
    BY <2>1, DoAccess
<1>2. /\ puts \in Seq(Accesses) /\ OpsIn(puts, {"put"}) /\ Len(puts) \in Nat
      /\ \A i \in 1 .. Len(puts) : puts[i] = Do("put", puts[i].on) /\ puts[i].on \in Fields
      /\ \A f \in Fields : Later(puts, 0, Do("put", f))
  <2>1. /\ puts \in Seq(Accesses) /\ OpsIn(puts, {"put"}) /\ Len(puts) = Len(Order)
        /\ Len(Order) \in Nat
        /\ \A i \in 1 .. Len(Order) : puts[i] = Do("put", Order[i]) /\ Order[i] \in Fields
        /\ \A f \in Fields : Later(puts, 0, Do("put", f))
    BY <1>1, ForFieldsSteps
  <2> HIDE DEF puts
  <2>2. \A f : Do("put", f).on = f
    BY DEF Do
  <2> QED
    BY <2>1, <2>2
<1>3. /\ << first >> \in Seq(Accesses) /\ << last >> \in Seq(Accesses)
      /\ Len(<< last >>) = 1 /\ << last >>[1] = last
      /\ Len(<< first >>) = 1 /\ << first >>[1] = first
      /\ \A op : LaterOp(<< last >>, 0, op) <=> last.op = op
      /\ \A op : ~ LaterOp(<< last >>, 1, op)
      /\ LaterOp(<< first >>, 0, "begin")
  BY <1>1, OneStep
<1>4. SaveNetPrefs = << first >> \o rest
  BY <1>2, <1>3, ConcatAssociative DEF SaveNetPrefs
<1> HIDE DEF first, puts, last
<1>5. /\ rest \in Seq(Accesses) /\ Len(rest) = Len(puts) + 1
      /\ \A i \in 1 .. Len(puts) : rest[i] = puts[i]
      /\ rest[Len(puts) + 1] = last
      /\ \A f \in Fields : Later(rest, 0, Do("put", f))
      /\ \A i \in 0 .. Len(puts) : LaterOp(rest, i, "end")
      /\ \A i \in 0 .. Len(puts) : \A op : LaterOp(rest, i, op) => LaterOp(puts, i, op) \/ op = "end"
      /\ \A op : ~ LaterOp(rest, Len(puts) + 1, op)
  <2> DEFINE one == << last >>
  <2>1. /\ 0 \in 0 .. Len(puts) /\ 1 \in 1 .. Len(one) /\ 1 \in 0 .. Len(one)
        /\ one \in Seq(Accesses) /\ Len(one) = 1 /\ one[1] = last
        /\ \A op : LaterOp(one, 0, op) <=> op = "end"
        /\ \A op : ~ LaterOp(one, 1, op)
    BY <1>1, <1>2, <1>3
  <2> HIDE DEF one
  <2>0. puts \in Seq(Accesses) /\ one \in Seq(Accesses)
    BY <1>2, <2>1
  <2>2. /\ puts \o one \in Seq(Accesses) /\ Len(puts \o one) = Len(puts) + Len(one)
        /\ \A i \in 1 .. Len(puts) : (puts \o one)[i] = puts[i]
        /\ \A i \in 1 .. Len(one) : (puts \o one)[Len(puts) + i] = one[i]
        /\ \A i \in 0 .. Len(puts) :
             /\ \A x : Later(puts \o one, i, x) <=> Later(puts, i, x) \/ Later(one, 0, x)
             /\ \A op : LaterOp(puts \o one, i, op) <=> LaterOp(puts, i, op) \/ LaterOp(one, 0, op)
        /\ \A i \in 0 .. Len(one) :
             /\ \A x : Later(puts \o one, Len(puts) + i, x) <=> Later(one, i, x)
             /\ \A op : LaterOp(puts \o one, Len(puts) + i, op) <=> LaterOp(one, i, op)
    BY <2>0, JoinLater
  <2>3. rest = puts \o one
    BY DEF one
  <2> HIDE DEF rest
  <2> QED
    BY <1>2, <2>1, <2>2, <2>3
<1> HIDE DEF rest
<1>6. \A i \in 0 .. Len(puts) : \A op : LaterOp(puts, i, op) => op = "put"
  BY <1>2 DEF LaterOp, OpsIn
<1>7. ASSUME NEW i \in 1 .. Len(puts)
      PROVE  Fits(rest[i], rest, i)
  <2>1. rest[i].op = "put" /\ rest[i] = Do("put", rest[i].on) /\ rest[i].on \in Fields
    BY <1>2, <1>5 DEF OpsIn
  <2>2. LaterOp(rest, i, "end") /\ ~ LaterOp(rest, i, "begin")
    BY <1>2, <1>5, <1>6
  <2>3. Barred("put") = {"begin"}
    BY DEF Barred
  <2> QED
    BY <2>1, <2>2, <2>3 DEF Fits
<1>8. Fits(last, rest, Len(puts) + 1)
  BY <1>1, <1>5 DEF Fits
<1>9. Shape(rest)
  <2> SUFFICES ASSUME NEW k \in 1 .. Len(rest)
               PROVE  Fits(rest[k], rest, k)
    BY <1>5 DEF Shape
  <2>1. k \in 1 .. Len(puts) \/ k = Len(puts) + 1
    BY <1>2, <1>5
  <2> QED
    BY <1>5, <1>7, <1>8, <2>1
<1>10. Fits(first, rest, 0)
  <2>1. LaterOp(rest, 0, "end") /\ ~ LaterOp(rest, 0, "begin")
        /\ \A f \in Fields : Later(rest, 0, Do("put", f))
    <3>1. 0 \in 0 .. Len(puts)
      BY <1>2
    <3> QED
      BY <1>5, <1>6, <3>1
  <2>2. Barred("begin") = {"begin"}
    BY DEF Barred
  <2> QED
    BY <1>1, <2>1, <2>2 DEF Fits
<1>11. Shape(SaveNetPrefs)
  BY <1>1, <1>4, <1>9, <1>10, ConsShape
<1>12. OpsIn(SaveNetPrefs, {"begin", "put", "end"})
  <2>1. OpsIn(rest, {"begin", "put", "end"})
    <3>1. \A k \in 1 .. Len(rest) : k \in 1 .. Len(puts) \/ k = Len(puts) + 1
      BY <1>2, <1>5
    <3> QED
      BY <1>1, <1>2, <1>5, <3>1 DEF OpsIn
  <2>2. OpsIn(<< first >>, {"begin", "put", "end"})
    BY <1>1, <1>3 DEF OpsIn
  <2> QED
    BY <1>3, <1>4, <1>5, <2>1, <2>2, OpsJoin
<1>13. LaterOp(SaveNetPrefs, 0, "begin")
  <2>1. 0 \in 0 .. Len(<< first >>)
    BY <1>3
  <2> QED
    BY <1>3, <1>4, <1>5, <2>1, JoinLater
<1> QED
  BY <1>11, <1>12, <1>13

(* A list that bars none of the kinds found behind it. *)
LEMMA JoinBehind ==
  ASSUME NEW p, Shape(p), NEW q, Shape(q), NEW ops, NEW others,
         OpsIn(p, ops), OpsIn(q, others), \A op \in ops : Barred(op) \cap others = {}
  PROVE  Shape(p \o q)
<1>1. ASSUME NEW i \in 1 .. Len(p), NEW op \in Barred(p[i].op)
      PROVE  ~ LaterOp(q, 0, op)
  BY OpsLater DEF OpsIn
<1> QED
  BY <1>1, JoinShape

(* A list of one access that needs nothing behind it. *)
LEMMA OneShape ==
  ASSUME NEW x \in Accesses,
         x.op = "request" \/ (x.op = "show" /\ x.on \in {Console, Menu} \cup Fields)
  PROVE  Shape(<< x >>) /\ OpsIn(<< x >>, {x.op}) /\ LaterOp(<< x >>, 0, x.op)
<1>1. /\ << x >> \in Seq(Accesses) /\ Len(<< x >>) = 1 /\ << x >>[1] = x
      /\ \A op : ~ LaterOp(<< x >>, 1, op)
      /\ LaterOp(<< x >>, 0, x.op)
  BY OneStep
<1>2. Fits(x, << x >>, 1)
  BY <1>1 DEF Fits
<1> QED
  BY <1>1, <1>2 DEF Shape, OpsIn

(* A save and the request behind it.                                       *)
LEMMA SaveAndRequest ==
  /\ Shape(SaveNetPrefs \o Request)
  /\ OpsIn(SaveNetPrefs \o Request, {"begin", "put", "end", "request"})
  /\ LaterOp(SaveNetPrefs \o Request, 0, "begin")
  /\ LaterOp(SaveNetPrefs \o Request, 0, "request")
  /\ Shape(Request) /\ OpsIn(Request, {"request"})
<1>1. Shape(Request) /\ OpsIn(Request, {"request"}) /\ LaterOp(Request, 0, "request")
  <2>1. "request" \in Steps /\ "restart" \in Names
    BY DEF Steps, Names
  <2> QED
    BY <2>1, DoAccess, OneShape DEF Request
<1>2. Barred("begin") = {"begin"} /\ Barred("put") = {"begin"} /\ Barred("end") = {"begin", "end"}
  BY DEF Barred
<1>3. Shape(SaveNetPrefs \o Request)
  BY <1>1, <1>2, SaveNetPrefsShape, JoinBehind
<1>4. SaveNetPrefs \in Seq(Accesses) /\ Request \in Seq(Accesses)
  BY <1>1, SaveNetPrefsShape DEF Shape
<1>5. OpsIn(SaveNetPrefs \o Request, {"begin", "put", "end", "request"})
  <2>1. /\ OpsIn(SaveNetPrefs, {"begin", "put", "end", "request"})
        /\ OpsIn(Request, {"begin", "put", "end", "request"})
    BY <1>1, SaveNetPrefsShape DEF OpsIn
  <2> QED
    BY <1>4, <2>1, OpsJoin
<1>6. \A op : LaterOp(SaveNetPrefs \o Request, 0, op)
                <=> LaterOp(SaveNetPrefs, 0, op) \/ LaterOp(Request, 0, op)
  <2>1. 0 \in 0 .. Len(SaveNetPrefs)
    BY <1>4, LenProperties
  <2> QED
    BY <1>4, <2>1, JoinLater
<1> QED
  BY <1>1, <1>3, <1>5, <1>6, SaveNetPrefsShape

(* A handler opens the preferences that it closes. *)
Opens(p) == LaterOp(p, 0, "end") => LaterOp(p, 0, "begin")

(* What a reader of lines executes. *)
Handler(p) == Shape(p) /\ Opens(p) /\ ~ LaterOp(p, 0, "show")

LEMMA NetCommandsShape ==
  ASSUME NEW line \in NetCommands
  PROVE  Handler(line)
<1>1. CASE line = Request
  BY <1>1, SaveAndRequest, OpsLater DEF Opens, Handler
<1>2. CASE line = SaveNetPrefs
  BY <1>2, SaveNetPrefsShape, OpsLater DEF Opens, Handler
<1>3. ASSUME NEW f \in Fields, NEW v \in Values[f], line = NetSet(f, v)
      PROVE  Handler(line)
  <2> DEFINE x == [op |-> "set", on |-> f, value |-> v]
             rest == SaveNetPrefs \o Request
  <2>1. x \in Accesses /\ x.op = "set" /\ x.on = f /\ x.value = v
    BY DEF Accesses
  <2>2. << x >> \in Seq(Accesses) /\ SaveNetPrefs \in Seq(Accesses) /\ Request \in Seq(Accesses)
    BY <2>1, OneStep, SaveNetPrefsShape, SaveAndRequest DEF Shape
  <2>3. line = << x >> \o rest
    BY <1>3, <2>2, ConcatAssociative DEF NetSet
  <2> HIDE DEF x
  <2>4. Fits(x, rest, 0)
    <3>1. Barred("set") = {}
      BY DEF Barred
    <3> QED
      BY <2>1, <3>1, SaveAndRequest DEF Fits
  <2>5. Shape(line)
    BY <2>1, <2>3, <2>4, SaveAndRequest, ConsShape
  <2>6. LaterOp(line, 0, "begin") /\ ~ LaterOp(line, 0, "show")
    <3>1. /\ rest \in Seq(Accesses) /\ 0 \in 0 .. Len(<< x >>) /\ LaterOp(rest, 0, "begin")
          /\ ~ LaterOp(rest, 0, "show") /\ ~ LaterOp(<< x >>, 0, "show")
      BY <2>1, OneStep, SaveAndRequest, OpsLater DEF Shape
    <3> HIDE DEF rest
    <3> QED
      BY <2>2, <2>3, <3>1, JoinLater
  <2> QED
    BY <2>5, <2>6 DEF Opens, Handler
<1> QED
  BY <1>1, <1>2, <1>3 DEF NetCommands

(* A restart of the W5500 and a line behind it.                            *)
LEMMA ServeRestartShape ==
  ASSUME NEW line, Handler(line)
  PROVE  Handler(ServeRestart \o line)
<1> DEFINE x == Do("clear", "restart")
<1>1. x \in Accesses /\ x.op = "clear" /\ "apply" \in Steps
  <2>1. {"clear", "apply"} \subseteq Steps /\ "restart" \in Names
    BY DEF Steps, Names
  <2> QED
    BY <2>1, DoAccess
<1>2. /\ InitW5500 \in Seq(Accesses) /\ OpsIn(InitW5500, {"apply"})
      /\ \A i \in 1 .. Len(InitW5500) : \E f \in Fields : InitW5500[i] = Do("apply", f)
      /\ \A f \in Fields : Later(InitW5500, 0, Do("apply", f))
  BY <1>1, ForFieldsSteps DEF InitW5500
<1>3. Shape(InitW5500)
  <2> SUFFICES ASSUME NEW i \in 1 .. Len(InitW5500)
               PROVE  Fits(InitW5500[i], InitW5500, i)
    BY <1>2 DEF Shape
  <2>1. PICK f \in Fields : InitW5500[i] = Do("apply", f)
    BY <1>2
  <2>2. Do("apply", f).op = "apply" /\ Do("apply", f).on = f /\ Barred("apply") = {}
    BY DEF Do, Barred
  <2> QED
    BY <2>1, <2>2 DEF Fits
<1> HIDE DEF x
<1>4. Fits(x, InitW5500, 0)
  <2>1. Barred("clear") = {}
    BY DEF Barred
  <2> QED
    BY <1>1, <1>2, <2>1 DEF Fits
<1>5. ServeRestart = << x >> \o InitW5500
  BY DEF ServeRestart, x
<1>6. Shape(ServeRestart)
  BY <1>1, <1>3, <1>4, <1>5, ConsShape
<1>7. OpsIn(ServeRestart, {"clear", "apply"})
  <2>1. << x >> \in Seq(Accesses) /\ Len(<< x >>) = 1 /\ << x >>[1] = x
    BY <1>1, OneStep
  <2>2. OpsIn(<< x >>, {"clear", "apply"}) /\ OpsIn(InitW5500, {"clear", "apply"})
    BY <1>1, <1>2, <2>1 DEF OpsIn
  <2> QED
    BY <1>2, <1>5, <2>1, <2>2, OpsJoin
<1>8. Shape(ServeRestart \o line)
  <2>1. Shape(line) /\ OpsIn(line, Steps)
    BY DEF Handler, Shape, OpsIn, Accesses, Steps
  <2>2. Barred("clear") = {} /\ Barred("apply") = {}
    BY DEF Barred
  <2> QED
    BY <1>6, <1>7, <2>1, <2>2, JoinBehind
<1>9. \A op : LaterOp(ServeRestart \o line, 0, op)
                <=> LaterOp(ServeRestart, 0, op) \/ LaterOp(line, 0, op)
  <2>1. ServeRestart \in Seq(Accesses) /\ line \in Seq(Accesses) /\ 0 \in 0 .. Len(ServeRestart)
    BY <1>6, LenProperties DEF Shape, Handler
  <2> QED
    BY <2>1, JoinLater
<1>10. ~ LaterOp(ServeRestart, 0, "end") /\ ~ LaterOp(ServeRestart, 0, "show")
  BY <1>7, OpsLater
<1> QED
  BY <1>8, <1>9, <1>10 DEF Opens, Handler

(* What the button starts: whoever requests has saved before.              *)
LEMMA EncoderShape ==
  ASSUME NEW mode \in {Console, Menu} \cup Fields
  PROVE  /\ Shape(Show(mode)) /\ Opens(Show(mode)) /\ ~ LaterOp(Show(mode), 0, "request")
         /\ LET p == SaveNetPrefs \o Request \o Show(mode)
            IN  Shape(p) /\ Opens(p) /\ LaterOp(p, 0, "begin")
<1> DEFINE q == SaveNetPrefs \o Request
           p == q \o Show(mode)
<1>1. Shape(Show(mode)) /\ OpsIn(Show(mode), {"show"})
  <2>1. "show" \in Steps /\ mode \in Names
    BY DEF Steps, Names
  <2> QED
    BY <2>1, DoAccess, OneShape DEF Show
<1>2. ~ LaterOp(Show(mode), 0, "request") /\ ~ LaterOp(Show(mode), 0, "end")
  BY <1>1, OpsLater
<1>3. /\ Shape(q) /\ OpsIn(q, {"begin", "put", "end", "request"}) /\ LaterOp(q, 0, "begin")
  BY SaveAndRequest
<1> HIDE DEF q
<1>4. Shape(p)
  <2>1. /\ Barred("begin") = {"begin"} /\ Barred("put") = {"begin"}
        /\ Barred("end") = {"begin", "end"} /\ Barred("request") = {"begin"}
    BY DEF Barred
  <2> QED
    BY <1>1, <1>3, <2>1, JoinBehind
<1>5. LaterOp(p, 0, "begin")
  <2>1. q \in Seq(Accesses) /\ Show(mode) \in Seq(Accesses) /\ 0 \in 0 .. Len(q)
    BY <1>1, <1>3, LenProperties DEF Shape
  <2> QED
    BY <1>3, <2>1, JoinLater
<1>6. Opens(Show(mode)) /\ Opens(p)
  BY <1>2, <1>5 DEF Opens
<1> QED
  BY <1>1, <1>2, <1>4, <1>5, <1>6 DEF q

(***************************************************************************)
(* The inductive invariant                                                 *)
(***************************************************************************)

(* The lists fit, and only taskEncoder changes what the screen shows. *)
Shapes ==
  /\ todo \in [Tasks -> Seq(Accesses)]
  /\ \A t \in Tasks : Shape(todo[t])
  /\ \A t \in Tasks \ {"encoder"} : ~ LaterOp(todo[t], 0, "show")

(* A variable that the W5500 does not run with is being edited, or will be *)
(* applied: a restart is requested, or a task has the request or the apply *)
(* of that variable before it.                                             *)
ApplyPending ==
  \A f \in Fields \ edited :
    \/ applied[f] = cfg[f]
    \/ netRestartRequest
    \/ \E t \in Tasks : LaterOp(todo[t], 0, "request") \/ Later(todo[t], 0, Do("apply", f))

(* taskEncoder leaves the editor of f and has opened the preferences. *)
LeavesEditor(f) ==
  /\ uiMode = f /\ LaterOp(todo["encoder"], 0, "request")
  /\ ~ LaterOp(todo["encoder"], 0, "begin")

(* Unless the last save shared the preferences: one task at most is saving *)
(* and has them open, and a variable that flash does not hold is being     *)
(* edited or a task has its put before it.                                 *)
SavePending ==
  ~ overlapped =>
    /\ \A t \in Tasks : Saving(t) => started /\ \A s \in Tasks : Saving(s) => s = t
    /\ \A f \in Fields :
         \/ f \in edited /\ ~ LeavesEditor(f)
         \/ saved[f] = cfg[f]
         \/ \E t \in Tasks : Later(todo[t], 0, Do("put", f))

IInv == TypeOK /\ Shapes /\ ApplyPending /\ SavePending

(***************************************************************************)
(* One step of a task                                                      *)
(***************************************************************************)

InSave(s) == LaterOp(s, 0, "end") /\ ~ LaterOp(s, 0, "begin")

LEMMA SavingIsInSave ==
  ASSUME NEW t \in Tasks
  PROVE  /\ Saving(t) <=> InSave(todo[t])
         /\ Saving(t)' <=> InSave(todo'[t])
<1>1. 0 + 1 = 1
  OBVIOUS
<1> QED
  BY <1>1 DEF Saving, Has, InSave, LaterOp

LEMMA NothingLater ==
  /\ \A x : ~ Later(<< >>, 0, x)
  /\ \A op : ~ LaterOp(<< >>, 0, op)
  /\ ~ InSave(<< >>) /\ Shape(<< >>) /\ Opens(<< >>)
<1>1. 0 + 1 .. Len(<< >>) = {} /\ 1 .. Len(<< >>) = {} /\ << >> \in Seq(Accesses)
  OBVIOUS
<1> QED
  BY <1>1 DEF Later, LaterOp, InSave, Shape, Opens

(* What a step of task t does to the lists.                                *)
LEMMA Advance ==
  ASSUME Shapes, NEW t \in Tasks, NEW op, Does(t, op)
  PROVE  /\ Shapes'
         /\ Head(todo[t]).op = op /\ Fits(Head(todo[t]), todo'[t], 0)
         /\ \A s \in Tasks \ {t} : todo'[s] = todo[s]
         /\ \A x : Later(todo[t], 0, x) <=> Head(todo[t]) = x \/ Later(todo'[t], 0, x)
         /\ \A o : LaterOp(todo[t], 0, o) <=> op = o \/ LaterOp(todo'[t], 0, o)
<1> DEFINE s == todo[t]
<1>1. s \in Seq(Accesses) /\ Shape(s) /\ s # << >> /\ Head(s).op = op
  BY DEF Shapes, Does
<1>2. /\ todo'[t] = Tail(s)
      /\ \A r \in Tasks \ {t} : todo'[r] = todo[r]
      /\ todo' \in [Tasks -> Seq(Accesses)]
  <2>1. Tail(s) \in Seq(Accesses)
    BY <1>1, TailMoves
  <2> QED
    BY <2>1 DEF Shapes, Does
<1> HIDE DEF s
<1>3. Shape(Tail(s)) /\ Fits(Head(s), Tail(s), 0)
  BY <1>1, TailShape
<1>4. /\ \A x : Later(s, 0, x) <=> Head(s) = x \/ Later(Tail(s), 0, x)
      /\ \A o : LaterOp(s, 0, o) <=> Head(s).op = o \/ LaterOp(Tail(s), 0, o)
  BY <1>1, HeadLater
<1>5. \A r \in Tasks \ {"encoder"} : ~ LaterOp(todo'[r], 0, "show")
  BY <1>2, <1>4 DEF Shapes, s
<1>6. Shapes'
  BY <1>2, <1>3, <1>5 DEF Shapes
<1> QED
  BY <1>1, <1>2, <1>3, <1>4, <1>6 DEF s

LEMMA ShapesOps ==
  ASSUME Shapes
  PROVE  \A t \in Tasks : \A i \in DOMAIN todo[t] : todo[t][i].op \in Steps
<1> SUFFICES ASSUME NEW t \in Tasks, NEW i \in DOMAIN todo[t]
             PROVE  todo[t][i].op \in Steps
  OBVIOUS
<1>1. todo[t] \in Seq(Accesses)
  BY DEF Shapes
<1>2. todo[t][i] \in Accesses
  BY <1>1
<1> QED
  BY <1>2 DEF Accesses, Steps

LEMMA ConfigurationStep ==
  ASSUME NEW c \in Configurations, NEW f \in Fields
  PROVE  /\ c[f] \in Values[f]
         /\ \A v \in Values[f] :
              /\ [c EXCEPT ![f] = v] \in Configurations
              /\ [c EXCEPT ![f] = v][f] = v
              /\ \A g \in Fields \ {f} : [c EXCEPT ![f] = v][g] = c[g]
BY DEF Configurations

(* The types, from what changes.                                           *)
LEMMA TypeStep ==
  ASSUME IInv, Shapes',
         cfg' \in Configurations, saved' \in Configurations, applied' \in Configurations,
         netRestartRequest' \in BOOLEAN, overlapped' \in BOOLEAN,
         uiMode' \in {Console, Menu} \cup Fields, edited' \subseteq Fields,
         started' => \E t \in Tasks : InSave(todo'[t])
  PROVE  TypeOK'
<1>1. (\A t \in Tasks : \A i \in DOMAIN todo[t] : todo[t][i].op \in Steps)'
  BY ShapesOps, PTL
<1> QED
  BY <1>1, SavingIsInSave DEF TypeOK

(* A step takes one access of its kind off one list and no other.          *)
LEMMA OthersKept ==
  ASSUME Shapes, NEW t \in Tasks, NEW op, Does(t, op)
  PROVE  \A s \in Tasks :
           /\ \A o : o # op => (LaterOp(todo'[s], 0, o) <=> LaterOp(todo[s], 0, o))
           /\ \A x : x.op # op => (Later(todo'[s], 0, x) <=> Later(todo[s], 0, x))
           /\ op \notin {"begin", "end"} => (InSave(todo'[s]) <=> InSave(todo[s]))
<1> SUFFICES ASSUME NEW s \in Tasks
             PROVE  /\ \A o : o # op => (LaterOp(todo'[s], 0, o) <=> LaterOp(todo[s], 0, o))
                    /\ \A x : x.op # op => (Later(todo'[s], 0, x) <=> Later(todo[s], 0, x))
                    /\ op \notin {"begin", "end"} => (InSave(todo'[s]) <=> InSave(todo[s]))
  OBVIOUS
<1>1. CASE s # t
  BY <1>1, Advance
<1>2. CASE s = t
  BY <1>2, Advance DEF InSave
<1> QED
  BY <1>1, <1>2

LEMMA DoOp == \A op, on : Do(op, on).op = op /\ Do(op, on).on = on
BY DEF Do

(* A list in which the preferences are opened has the put of every         *)
(* variable before it.                                                     *)
LEMMA BeginMeansPuts ==
  ASSUME NEW s, Shape(s), LaterOp(s, 0, "begin")
  PROVE  \A f \in Fields : Later(s, 0, Do("put", f))
<1>1. PICK i \in 0 + 1 .. Len(s) : s[i].op = "begin"
  BY DEF LaterOp
<1>2. i \in 1 .. Len(s) /\ Len(s) \in Nat
  BY LenProperties DEF Shape
<1>3. \A f \in Fields : Later(s, i, Do("put", f))
  BY <1>1, <1>2 DEF Shape, Fits
<1>4. \A j \in i + 1 .. Len(s) : j \in 0 + 1 .. Len(s)
  BY <1>2
<1> QED
  BY <1>3, <1>4 DEF Later

(* The part of the invariant about flash that a step leaves alone when it  *)
(* neither opens, puts nor closes.                                         *)
LEMMA SaveKept ==
  ASSUME IInv, ~ overlapped, UNCHANGED <<started, overlapped>>,
         \A s \in Tasks : InSave(todo'[s]) <=> InSave(todo[s])
  PROVE  \A t \in Tasks :
           Saving(t)' => started' /\ \A s \in Tasks : Saving(s)' => s = t
BY SavingIsInSave DEF IInv, SavePending

LEMMA StartedKept ==
  ASSUME IInv, started, \A s \in Tasks : InSave(todo[s]) => InSave(todo'[s])
  PROVE  \E t \in Tasks : InSave(todo'[t])
BY SavingIsInSave DEF IInv, TypeOK

LEMMA SetIInv ==
  ASSUME IInv, NEW t \in Tasks, Set(t)
  PROVE  IInv'
<1> DEFINE f == On(t)
           v == Head(todo[t]).value
<1>1. Does(t, "set") /\ Shapes /\ cfg' = [cfg EXCEPT ![f] = v]
  BY DEF Set, IInv
<1>2. /\ f \in Fields /\ v \in Values[f]
      /\ LaterOp(todo'[t], 0, "begin") /\ LaterOp(todo'[t], 0, "request")
      /\ Shapes'
  BY <1>1, Advance DEF Fits, On
<1>3. \A s \in Tasks :
        /\ \A o : o # "set" => (LaterOp(todo'[s], 0, o) <=> LaterOp(todo[s], 0, o))
        /\ \A x : x.op # "set" => (Later(todo'[s], 0, x) <=> Later(todo[s], 0, x))
        /\ InSave(todo'[s]) <=> InSave(todo[s])
  BY <1>1, OthersKept
<1> HIDE DEF f, v
<1>4. cfg' \in Configurations /\ \A g \in Fields \ {f} : cfg'[g] = cfg[g]
  <2>1. cfg \in Configurations
    BY DEF IInv, TypeOK
  <2>2. /\ [cfg EXCEPT ![f] = v] \in Configurations
        /\ \A g \in Fields \ {f} : [cfg EXCEPT ![f] = v][g] = cfg[g]
    BY <1>2, <2>1, ConfigurationStep
  <2> QED
    BY <1>1, <2>2
<1>5. TypeOK'
  <2>1. started => \E s \in Tasks : InSave(todo'[s])
    BY <1>3, StartedKept
  <2> QED
    BY <1>2, <1>4, <2>1, TypeStep DEF Set, IInv, TypeOK
<1>6. ApplyPending'
  BY <1>2 DEF ApplyPending
<1>7. SavePending'
  <2> SUFFICES ASSUME ~ overlapped
               PROVE  \A g \in Fields :
                        \/ g \in edited /\ ~ LeavesEditor(g)'
                        \/ saved[g] = cfg'[g]
                        \/ \E s \in Tasks : Later(todo'[s], 0, Do("put", g))
    BY <1>3, SaveKept DEF Set, SavePending
  <2>1. Later(todo'[t], 0, Do("put", f))
    BY <1>2, BeginMeansPuts DEF Shapes
  <2>2. \A g \in Fields : LeavesEditor(g)' <=> LeavesEditor(g)
    BY <1>3 DEF LeavesEditor, Set, Tasks
  <2>3. \A s \in Tasks, g \in Fields :
          Later(todo'[s], 0, Do("put", g)) <=> Later(todo[s], 0, Do("put", g))
    BY <1>3, DoOp
  <2> QED
    BY <1>2, <1>4, <2>1, <2>2, <2>3 DEF IInv, SavePending
<1> QED
  BY <1>2, <1>5, <1>6, <1>7 DEF IInv

LEMMA BeginPrefsIInv ==
  ASSUME IInv, NEW t \in Tasks, BeginPrefs(t)
  PROVE  IInv'
<1>1. /\ Does(t, "begin") /\ Shapes /\ started' = TRUE
      /\ overlapped' = \E s \in Tasks \ {t} : Saving(s)
      /\ UNCHANGED <<cfg, saved, applied, netRestartRequest, uiMode, edited>>
  BY DEF BeginPrefs, IInv
<1>2. /\ Shapes' /\ LaterOp(todo'[t], 0, "end") /\ ~ LaterOp(todo'[t], 0, "begin")
      /\ \A f \in Fields : Later(todo'[t], 0, Do("put", f))
      /\ \A s \in Tasks \ {t} : todo'[s] = todo[s]
  BY <1>1, Advance DEF Fits, Barred
<1>3. InSave(todo'[t])
  BY <1>2 DEF InSave
<1>4. TypeOK'
  <2>1. overlapped' \in BOOLEAN
    BY <1>1
  <2> QED
    BY <1>1, <1>2, <1>3, <2>1, TypeStep DEF IInv, TypeOK
<1>5. ApplyPending'
  <2>1. \A s \in Tasks :
          /\ LaterOp(todo'[s], 0, "request") <=> LaterOp(todo[s], 0, "request")
          /\ \A f \in Fields : Later(todo'[s], 0, Do("apply", f)) <=> Later(todo[s], 0, Do("apply", f))
    BY <1>1, OthersKept, DoOp
  <2> QED
    BY <1>1, <2>1 DEF IInv, ApplyPending
<1>6. SavePending'
  <2>1. ASSUME ~ overlapped', NEW r \in Tasks, Saving(r)'
        PROVE  r = t
    <3>1. CASE r # t
      <4>1. InSave(todo[r])
        BY <1>2, <2>1, <3>1, SavingIsInSave
      <4> QED
        BY <1>1, <2>1, <3>1, <4>1, SavingIsInSave
    <3> QED
      BY <3>1
  <2> QED
    BY <1>1, <1>2, <2>1 DEF SavePending
<1> QED
  BY <1>2, <1>4, <1>5, <1>6 DEF IInv

(* A variable that t puts into the preferences it has open.                *)
LEMMA PutIInv ==
  ASSUME IInv, NEW t \in Tasks, Put(t)
  PROVE  IInv'
<1> DEFINE f == On(t)
<1>1. /\ Does(t, "put") /\ Shapes
      /\ saved' = IF started THEN [saved EXCEPT ![f] = cfg[f]] ELSE saved
      /\ UNCHANGED <<cfg, applied, netRestartRequest, started, uiMode, edited, overlapped>>
  BY DEF Put, IInv
<1>2. /\ f \in Fields /\ Head(todo[t]) = Do("put", f) /\ Shapes'
      /\ LaterOp(todo'[t], 0, "end") /\ ~ LaterOp(todo'[t], 0, "begin")
      /\ \A x : Later(todo[t], 0, x) <=> Head(todo[t]) = x \/ Later(todo'[t], 0, x)
      /\ \A s \in Tasks \ {t} : todo'[s] = todo[s]
  BY <1>1, Advance DEF Fits, Barred, On
<1>3. \A s \in Tasks :
        /\ \A o : o # "put" => (LaterOp(todo'[s], 0, o) <=> LaterOp(todo[s], 0, o))
        /\ \A x : x.op # "put" => (Later(todo'[s], 0, x) <=> Later(todo[s], 0, x))
        /\ InSave(todo'[s]) <=> InSave(todo[s])
  BY <1>1, OthersKept
<1> HIDE DEF f
<1>4. /\ saved' \in Configurations
      /\ \A g \in Fields \ {f} : saved'[g] = saved[g]
      /\ started => saved'[f] = cfg[f]
  <2>1. cfg \in Configurations /\ saved \in Configurations
    BY DEF IInv, TypeOK
  <2>2. /\ [saved EXCEPT ![f] = cfg[f]] \in Configurations
        /\ [saved EXCEPT ![f] = cfg[f]][f] = cfg[f]
        /\ \A g \in Fields \ {f} : [saved EXCEPT ![f] = cfg[f]][g] = saved[g]
    BY <1>2, <2>1, ConfigurationStep
  <2> QED
    BY <1>1, <2>1, <2>2
<1>5. TypeOK'
  <2>1. started => \E s \in Tasks : InSave(todo'[s])
    BY <1>3, StartedKept
  <2> QED
    BY <1>1, <1>2, <1>4, <2>1, TypeStep DEF IInv, TypeOK
<1>6. ApplyPending'
  BY <1>1, <1>3, DoOp DEF IInv, ApplyPending
<1>7. SavePending'
  <2> SUFFICES ASSUME ~ overlapped
               PROVE  \A g \in Fields :
                        \/ g \in edited /\ ~ LeavesEditor(g)'
                        \/ saved'[g] = cfg[g]
                        \/ \E s \in Tasks : Later(todo'[s], 0, Do("put", g))
    BY <1>1, <1>3, SaveKept DEF SavePending
  <2>1. started
    <3>1. InSave(todo[t])
      BY <1>2, <1>3 DEF InSave
    <3> QED
      BY <3>1, SavingIsInSave DEF IInv, SavePending
  <2>2. \A g \in Fields : LeavesEditor(g)' <=> LeavesEditor(g)
    BY <1>1, <1>3 DEF LeavesEditor, Tasks
  <2>3. ASSUME NEW s \in Tasks, NEW g \in Fields \ {f}, Later(todo[s], 0, Do("put", g))
        PROVE  Later(todo'[s], 0, Do("put", g))
    <3>1. Head(todo[t]) # Do("put", g)
      BY <1>2, DoOp
    <3> QED
      BY <1>2, <2>3, <3>1
  <2> QED
    BY <1>2, <1>4, <2>1, <2>2, <2>3 DEF IInv, SavePending
<1> QED
  BY <1>2, <1>5, <1>6, <1>7 DEF IInv

(* The task that closes the preferences was the only one to save.          *)
LEMMA EndPrefsIInv ==
  ASSUME IInv, NEW t \in Tasks, EndPrefs(t)
  PROVE  IInv'
<1>1. /\ Does(t, "end") /\ Shapes /\ started' = FALSE
      /\ UNCHANGED <<cfg, saved, applied, netRestartRequest, uiMode, edited, overlapped>>
  BY DEF EndPrefs, IInv
<1>2. /\ Shapes' /\ ~ LaterOp(todo'[t], 0, "begin") /\ ~ LaterOp(todo'[t], 0, "end")
      /\ \A s \in Tasks \ {t} : todo'[s] = todo[s]
      /\ \A o : LaterOp(todo[t], 0, o) <=> "end" = o \/ LaterOp(todo'[t], 0, o)
  BY <1>1, Advance DEF Fits, Barred
<1>3. \A s \in Tasks :
        /\ \A o : o # "end" => (LaterOp(todo'[s], 0, o) <=> LaterOp(todo[s], 0, o))
        /\ \A x : x.op # "end" => (Later(todo'[s], 0, x) <=> Later(todo[s], 0, x))
  BY <1>1, OthersKept
<1>4. InSave(todo[t]) /\ ~ InSave(todo'[t])
  BY <1>2 DEF InSave
<1>5. TypeOK'
  BY <1>1, <1>2, TypeStep DEF IInv, TypeOK
<1>6. ApplyPending'
  BY <1>1, <1>3, DoOp DEF IInv, ApplyPending
<1>7. SavePending'
  <2> SUFFICES ASSUME ~ overlapped
               PROVE  /\ \A s \in Tasks : ~ Saving(s)'
                      /\ \A g \in Fields :
                           \/ g \in edited /\ ~ LeavesEditor(g)'
                           \/ saved[g] = cfg[g]
                           \/ \E s \in Tasks : Later(todo'[s], 0, Do("put", g))
    BY <1>1 DEF SavePending
  <2>1. \A s \in Tasks : ~ Saving(s)'
    BY <1>2, <1>4, SavingIsInSave DEF IInv, SavePending
  <2>2. \A g \in Fields : LeavesEditor(g)' <=> LeavesEditor(g)
    BY <1>1, <1>3 DEF LeavesEditor, Tasks
  <2>3. \A s \in Tasks, g \in Fields :
          Later(todo'[s], 0, Do("put", g)) <=> Later(todo[s], 0, Do("put", g))
    BY <1>3, DoOp
  <2> QED
    BY <2>1, <2>2, <2>3 DEF IInv, SavePending
<1> QED
  BY <1>2, <1>5, <1>6, <1>7 DEF IInv

(* The request: what taskEncoder edited counts from here on as settled,    *)
(* and it has saved it before.                                             *)
LEMMA SetRequestIInv ==
  ASSUME IInv, NEW t \in Tasks, SetRequest(t)
  PROVE  IInv'
<1>1. /\ Does(t, "request") /\ Shapes /\ netRestartRequest' = TRUE
      /\ edited' = IF t = "encoder" THEN edited \ {uiMode} ELSE edited
      /\ UNCHANGED <<cfg, saved, applied, started, uiMode, overlapped>>
  BY DEF SetRequest, IInv
<1>2. /\ Shapes' /\ ~ LaterOp(todo'[t], 0, "begin") /\ LaterOp(todo[t], 0, "request")
      /\ \A s \in Tasks \ {t} : todo'[s] = todo[s]
      /\ \A o : LaterOp(todo'[t], 0, o) => LaterOp(todo[t], 0, o)
  BY <1>1, Advance DEF Fits, Barred
<1>3. \A s \in Tasks :
        /\ \A o : o # "request" => (LaterOp(todo'[s], 0, o) <=> LaterOp(todo[s], 0, o))
        /\ \A x : x.op # "request" => (Later(todo'[s], 0, x) <=> Later(todo[s], 0, x))
        /\ InSave(todo'[s]) <=> InSave(todo[s])
  BY <1>1, OthersKept
<1>4. TypeOK'
  <2>1. started => \E s \in Tasks : InSave(todo'[s])
    BY <1>3, StartedKept
  <2>2. edited' \subseteq Fields
    BY <1>1 DEF IInv, TypeOK
  <2> QED
    BY <1>1, <1>2, <2>1, <2>2, TypeStep DEF IInv, TypeOK
<1>5. ApplyPending'
  BY <1>1 DEF ApplyPending
<1>6. SavePending'
  <2> SUFFICES ASSUME ~ overlapped
               PROVE  \A g \in Fields :
                        \/ g \in edited' /\ ~ LeavesEditor(g)'
                        \/ saved[g] = cfg[g]
                        \/ \E s \in Tasks : Later(todo'[s], 0, Do("put", g))
    BY <1>1, <1>3, SaveKept DEF SavePending
  <2>1. ASSUME NEW g \in Fields, g \in edited, ~ LeavesEditor(g)
        PROVE  g \in edited' /\ ~ LeavesEditor(g)'
    <3>1. CASE t = "encoder"
      <4>1. ~ LaterOp(todo[t], 0, "begin")
        BY <1>2, <1>3
      <4>2. uiMode # g
        BY <1>2, <2>1, <3>1, <4>1 DEF LeavesEditor
      <4> QED
        BY <1>1, <2>1, <4>2 DEF LeavesEditor
    <3>2. CASE t # "encoder"
      BY <1>1, <1>2, <2>1, <3>2 DEF LeavesEditor, Tasks
    <3> QED
      BY <3>1, <3>2
  <2>2. \A s \in Tasks, g \in Fields :
          Later(todo'[s], 0, Do("put", g)) <=> Later(todo[s], 0, Do("put", g))
    BY <1>3, DoOp
  <2> QED
    BY <2>1, <2>2 DEF IInv, SavePending
<1> QED
  BY <1>2, <1>4, <1>5, <1>6 DEF IInv

(* The part of the invariant about flash, when nothing it speaks of        *)
(* changes but the mode on the screen.                                     *)
LEMMA SavePendingKept ==
  ASSUME IInv, UNCHANGED <<cfg, saved, edited, started, overlapped>>,
         \A g \in Fields : LeavesEditor(g)' => LeavesEditor(g),
         \A s \in Tasks :
           /\ InSave(todo'[s]) <=> InSave(todo[s])
           /\ \A g \in Fields : Later(todo'[s], 0, Do("put", g)) <=> Later(todo[s], 0, Do("put", g))
  PROVE  SavePending'
<1>1. ASSUME ~ overlapped
      PROVE  \A g \in Fields :
               \/ g \in edited' /\ ~ LeavesEditor(g)'
               \/ saved'[g] = cfg'[g]
               \/ \E s \in Tasks : Later(todo'[s], 0, Do("put", g))
  BY <1>1 DEF IInv, SavePending
<1> QED
  BY <1>1, SaveKept DEF SavePending

LEMMA ClearRequestIInv ==
  ASSUME IInv, NEW t \in Tasks, ClearRequest(t)
  PROVE  IInv'
<1>1. /\ Does(t, "clear") /\ Shapes /\ netRestartRequest' = FALSE
      /\ UNCHANGED <<cfg, saved, applied, started, uiMode, edited, overlapped>>
  BY DEF ClearRequest, IInv
<1>2. Shapes' /\ \A f \in Fields : Later(todo'[t], 0, Do("apply", f))
  BY <1>1, Advance DEF Fits
<1>3. \A s \in Tasks :
        /\ \A o : o # "clear" => (LaterOp(todo'[s], 0, o) <=> LaterOp(todo[s], 0, o))
        /\ \A x : x.op # "clear" => (Later(todo'[s], 0, x) <=> Later(todo[s], 0, x))
        /\ InSave(todo'[s]) <=> InSave(todo[s])
  BY <1>1, OthersKept
<1>4. TypeOK'
  <2>1. started => \E s \in Tasks : InSave(todo'[s])
    BY <1>3, StartedKept
  <2> QED
    BY <1>1, <1>2, <2>1, TypeStep DEF IInv, TypeOK
<1>5. ApplyPending'
  BY <1>2 DEF ApplyPending
<1>6. SavePending'
  <2>1. \A g \in Fields : LeavesEditor(g)' => LeavesEditor(g)
    BY <1>1, <1>3 DEF LeavesEditor, Tasks
  <2> QED
    BY <1>1, <1>3, <2>1, DoOp, SavePendingKept
<1> QED
  BY <1>2, <1>4, <1>5, <1>6 DEF IInv

LEMMA ApplyIInv ==
  ASSUME IInv, NEW t \in Tasks, Apply(t)
  PROVE  IInv'
<1> DEFINE f == On(t)
<1>1. /\ Does(t, "apply") /\ Shapes /\ applied' = [applied EXCEPT ![f] = cfg[f]]
      /\ UNCHANGED <<cfg, saved, netRestartRequest, started, uiMode, edited, overlapped>>
  BY DEF Apply, IInv
<1>2. /\ Shapes' /\ f \in Fields /\ Head(todo[t]) = Do("apply", f)
      /\ \A x : Later(todo[t], 0, x) <=> Head(todo[t]) = x \/ Later(todo'[t], 0, x)
      /\ \A s \in Tasks \ {t} : todo'[s] = todo[s]
  BY <1>1, Advance DEF Fits, On
<1>3. \A s \in Tasks :
        /\ \A o : o # "apply" => (LaterOp(todo'[s], 0, o) <=> LaterOp(todo[s], 0, o))
        /\ \A x : x.op # "apply" => (Later(todo'[s], 0, x) <=> Later(todo[s], 0, x))
        /\ InSave(todo'[s]) <=> InSave(todo[s])
  BY <1>1, OthersKept
<1> HIDE DEF f
<1>4. /\ applied' \in Configurations /\ applied'[f] = cfg[f]
      /\ \A g \in Fields \ {f} : applied'[g] = applied[g]
  <2>1. cfg \in Configurations /\ applied \in Configurations
    BY DEF IInv, TypeOK
  <2>2. /\ [applied EXCEPT ![f] = cfg[f]] \in Configurations
        /\ [applied EXCEPT ![f] = cfg[f]][f] = cfg[f]
        /\ \A g \in Fields \ {f} : [applied EXCEPT ![f] = cfg[f]][g] = applied[g]
    BY <1>2, <2>1, ConfigurationStep
  <2> QED
    BY <1>1, <2>2
<1>5. TypeOK'
  <2>1. started => \E s \in Tasks : InSave(todo'[s])
    BY <1>3, StartedKept
  <2> QED
    BY <1>1, <1>2, <1>4, <2>1, TypeStep DEF IInv, TypeOK
<1>6. ApplyPending'
  <2>1. ASSUME NEW s \in Tasks, NEW g \in Fields \ {f}, Later(todo[s], 0, Do("apply", g))
        PROVE  Later(todo'[s], 0, Do("apply", g))
    <3>1. Head(todo[t]) # Do("apply", g)
      BY <1>2, DoOp
    <3> QED
      BY <1>2, <2>1, <3>1
  <2>2. \A s \in Tasks : LaterOp(todo'[s], 0, "request") <=> LaterOp(todo[s], 0, "request")
    BY <1>3
  <2> QED
    BY <1>1, <1>4, <2>1, <2>2 DEF IInv, ApplyPending
<1>7. SavePending'
  <2>1. \A g \in Fields : LeavesEditor(g)' => LeavesEditor(g)
    BY <1>1, <1>3 DEF LeavesEditor, Tasks
  <2> QED
    BY <1>1, <1>3, <2>1, DoOp, SavePendingKept
<1> QED
  BY <1>2, <1>5, <1>6, <1>7 DEF IInv

(* The screen changes when taskEncoder has nothing left to request.        *)
LEMMA ShowModeIInv ==
  ASSUME IInv, NEW t \in Tasks, ShowMode(t)
  PROVE  IInv'
<1>1. /\ Does(t, "show") /\ Shapes /\ uiMode' = On(t)
      /\ UNCHANGED <<cfg, saved, applied, netRestartRequest, started, edited, overlapped>>
  BY DEF ShowMode, IInv
<1>2. /\ Shapes' /\ On(t) \in {Console, Menu} \cup Fields
      /\ ~ LaterOp(todo'[t], 0, "request") /\ LaterOp(todo[t], 0, "show")
  BY <1>1, Advance DEF Fits, Barred, On
<1>3. \A s \in Tasks :
        /\ \A o : o # "show" => (LaterOp(todo'[s], 0, o) <=> LaterOp(todo[s], 0, o))
        /\ \A x : x.op # "show" => (Later(todo'[s], 0, x) <=> Later(todo[s], 0, x))
        /\ InSave(todo'[s]) <=> InSave(todo[s])
  BY <1>1, OthersKept
<1>4. TypeOK'
  <2>1. started => \E s \in Tasks : InSave(todo'[s])
    BY <1>3, StartedKept
  <2> QED
    BY <1>1, <1>2, <2>1, TypeStep DEF IInv, TypeOK
<1>5. ApplyPending'
  BY <1>1, <1>3, DoOp DEF IInv, ApplyPending
<1>6. SavePending'
  <2>1. t = "encoder"
    BY <1>1, <1>2 DEF Shapes
  <2>2. \A g \in Fields : ~ LeavesEditor(g)'
    BY <1>2, <2>1 DEF LeavesEditor
  <2> QED
    BY <1>1, <1>3, <2>2, DoOp, SavePendingKept
<1> QED
  BY <1>2, <1>4, <1>5, <1>6 DEF IInv

(***************************************************************************)
(* The other steps                                                         *)
(***************************************************************************)

(* A task that slept starts a handler.                                     *)
LEMMA BeginIInv ==
  ASSUME IInv, NEW t \in Tasks, NEW steps, Begin(t, steps),
         Shape(steps), Opens(steps), UNCHANGED <<cfg, uiMode, edited>>,
         IF t = "encoder" THEN LaterOp(steps, 0, "request") => LaterOp(steps, 0, "begin")
                          ELSE ~ LaterOp(steps, 0, "show")
  PROVE  IInv'
<1>1. /\ todo[t] = << >> /\ todo' = [todo EXCEPT ![t] = steps] /\ Shapes
      /\ UNCHANGED <<cfg, saved, applied, netRestartRequest, started, uiMode, edited, overlapped>>
  BY DEF Begin, IInv
<1>2. /\ todo'[t] = steps /\ Shapes'
      /\ \A s \in Tasks \ {t} : todo'[s] = todo[s]
  <2>1. steps \in Seq(Accesses)
    BY DEF Shape
  <2>2. /\ todo'[t] = steps /\ todo' \in [Tasks -> Seq(Accesses)]
        /\ \A s \in Tasks \ {t} : todo'[s] = todo[s]
    BY <1>1, <2>1 DEF Shapes
  <2> QED
    BY <1>1, <2>2 DEF Shapes
<1>3. \A s \in Tasks :
        /\ InSave(todo'[s]) <=> InSave(todo[s])
        /\ \A o : LaterOp(todo[s], 0, o) => LaterOp(todo'[s], 0, o)
        /\ \A x : Later(todo[s], 0, x) => Later(todo'[s], 0, x)
  <2>1. ~ InSave(steps)
    BY DEF Opens, InSave
  <2> QED
    BY <1>1, <1>2, <2>1, NothingLater
<1>4. TypeOK'
  <2>1. started => \E s \in Tasks : InSave(todo'[s])
    BY <1>3, StartedKept
  <2> QED
    BY <1>1, <1>2, <2>1, TypeStep DEF IInv, TypeOK
<1>5. ApplyPending'
  BY <1>1, <1>3 DEF IInv, ApplyPending
<1>6. SavePending'
  <2> SUFFICES ASSUME ~ overlapped
               PROVE  \A g \in Fields :
                        \/ g \in edited /\ ~ LeavesEditor(g)'
                        \/ saved[g] = cfg[g]
                        \/ \E s \in Tasks : Later(todo'[s], 0, Do("put", g))
    BY <1>1, <1>3, SaveKept DEF SavePending
  <2>1. ASSUME NEW g \in Fields, LeavesEditor(g)'
        PROVE  LeavesEditor(g)
    <3>1. CASE t = "encoder"
      BY <1>2, <2>1, <3>1 DEF LeavesEditor
    <3>2. CASE t # "encoder"
      BY <1>1, <1>2, <2>1, <3>2 DEF LeavesEditor, Tasks
    <3> QED
      BY <3>1, <3>2
  <2> QED
    BY <1>3, <2>1 DEF IInv, SavePending
<1> QED
  BY <1>2, <1>4, <1>5, <1>6 DEF IInv

(* Turning in the editor of f changes f, and f counts as edited.           *)
LEMMA EncoderTurnIInv ==
  ASSUME IInv, EncoderTurn
  PROVE  IInv'
<1> DEFINE f == uiMode
<1>1. /\ f \in Fields /\ todo["encoder"] = << >> /\ todo' = [todo EXCEPT !["encoder"] = << >>]
      /\ edited' = edited \cup {f} /\ Shapes
      /\ UNCHANGED <<saved, applied, netRestartRequest, started, uiMode, overlapped>>
  BY DEF EncoderTurn, Begin, IInv
<1>2. PICK v \in Values[f] : cfg' = [cfg EXCEPT ![f] = v]
  BY DEF EncoderTurn
<1>3. todo' = todo /\ Shapes' /\ "encoder" \in Tasks
  BY <1>1 DEF Shapes, Tasks
<1> HIDE DEF f
<1>4. cfg' \in Configurations /\ \A g \in Fields \ {f} : cfg'[g] = cfg[g]
  <2>1. cfg \in Configurations
    BY DEF IInv, TypeOK
  <2>2. /\ [cfg EXCEPT ![f] = v] \in Configurations
        /\ \A g \in Fields \ {f} : [cfg EXCEPT ![f] = v][g] = cfg[g]
    BY <1>1, <2>1, ConfigurationStep
  <2> QED
    BY <1>2, <2>2
<1>5. TypeOK'
  <2>1. started => \E s \in Tasks : InSave(todo'[s])
    BY <1>3, StartedKept
  <2>2. edited' \subseteq Fields
    BY <1>1 DEF IInv, TypeOK
  <2> QED
    BY <1>1, <1>3, <1>4, <2>1, <2>2, TypeStep DEF IInv, TypeOK
<1>6. ApplyPending'
  BY <1>1, <1>3, <1>4 DEF IInv, ApplyPending
<1>7. SavePending'
  <2> SUFFICES ASSUME ~ overlapped
               PROVE  \A g \in Fields :
                        \/ g \in edited' /\ ~ LeavesEditor(g)'
                        \/ saved[g] = cfg'[g]
                        \/ \E s \in Tasks : Later(todo'[s], 0, Do("put", g))
    BY <1>1, <1>3, SaveKept DEF SavePending
  <2>1. \A g \in Fields : ~ LeavesEditor(g)' /\ ~ LeavesEditor(g)
    BY <1>1, <1>3, NothingLater DEF LeavesEditor
  <2> QED
    BY <1>1, <1>3, <1>4, <2>1 DEF IInv, SavePending
<1> QED
  BY <1>3, <1>5, <1>6, <1>7 DEF IInv

(* With nothing to do and the three copies alike the invariant holds: so   *)
(* at the start, and again after the power failed.                         *)
Fresh ==
  /\ cfg \in Configurations /\ saved = cfg /\ applied = cfg
  /\ netRestartRequest = FALSE /\ started = FALSE
  /\ todo = [t \in Tasks |-> << >>]
  /\ uiMode = Console /\ edited = {} /\ overlapped = FALSE

LEMMA FreshIInv ==
  ASSUME Fresh
  PROVE  IInv
<1>1. \A t \in Tasks : todo[t] = << >>
  BY DEF Fresh
<1>2. Shapes
  <2>1. << >> \in Seq(Accesses)
    OBVIOUS
  <2> QED
    BY <1>1, <2>1, NothingLater DEF Shapes, Fresh
<1>3. TypeOK
  BY <1>2, ShapesOps DEF TypeOK, Fresh
<1>4. ApplyPending
  BY DEF ApplyPending, Fresh
<1>5. \A t \in Tasks : ~ Saving(t)
  BY <1>1, NothingLater, SavingIsInSave
<1>6. SavePending
  BY <1>5 DEF SavePending, Fresh
<1> QED
  BY <1>2, <1>3, <1>4, <1>6 DEF IInv

LEMMA PowerCycleIInv ==
  ASSUME IInv, PowerCycle
  PROVE  IInv'
<1>1. Fresh'
  BY DEF PowerCycle, Fresh, IInv, TypeOK
<1> QED
  BY <1>1, FreshIInv, PTL

LEMMA SerialLineIInv ==
  ASSUME IInv, SerialLine
  PROVE  IInv'
<1>1. PICK line \in NetCommands : Begin("serial", line)
  BY DEF SerialLine
<1>2. Handler(line) /\ UNCHANGED <<cfg, uiMode, edited>> /\ "serial" \in Tasks
  BY NetCommandsShape DEF SerialLine, Tasks
<1> QED
  BY <1>1, <1>2, BeginIInv DEF Handler

LEMMA EthernetPassIInv ==
  ASSUME IInv, EthernetPass
  PROVE  IInv'
<1> DEFINE steps(line) == (IF netRestartRequest THEN ServeRestart ELSE << >>) \o line
<1>1. PICK line \in NetCommands \cup {<< >>} : Begin("eth", steps(line))
  BY DEF EthernetPass
<1>2. Handler(line)
  BY NetCommandsShape, NothingLater DEF Handler
<1>3. Handler(steps(line))
  <2>1. CASE netRestartRequest
    BY <1>2, <2>1, ServeRestartShape
  <2>2. CASE ~ netRestartRequest
    <3>1. line \in Seq(Accesses)
      BY <1>2 DEF Handler, Shape
    <3>2. << >> \o line = line
      BY <3>1
    <3> QED
      BY <1>2, <2>2, <3>2
  <2> QED
    BY <2>1, <2>2
<1>4. UNCHANGED <<cfg, uiMode, edited>> /\ "eth" \in Tasks
  BY DEF EthernetPass, Tasks
<1> HIDE DEF steps
<1> QED
  BY <1>1, <1>3, <1>4, BeginIInv DEF Handler

LEMMA EncoderButtonIInv ==
  ASSUME IInv, EncoderButton
  PROVE  IInv'
<1> DEFINE save(mode) == SaveNetPrefs \o Request \o Show(mode)
<1>1. PICK mode \in {Console, Menu} \cup Fields :
        Begin("encoder", Show(mode)) \/ Begin("encoder", save(mode))
  BY DEF EncoderButton
<1>2. UNCHANGED <<cfg, uiMode, edited>> /\ "encoder" \in Tasks
  BY DEF EncoderButton, Tasks
<1>3. /\ Shape(Show(mode)) /\ Opens(Show(mode)) /\ ~ LaterOp(Show(mode), 0, "request")
      /\ Shape(save(mode)) /\ Opens(save(mode)) /\ LaterOp(save(mode), 0, "begin")
  BY EncoderShape
<1> HIDE DEF save
<1> QED
  BY <1>1, <1>2, <1>3, BeginIInv

LEMMA QuietIInv ==
  ASSUME IInv, UNCHANGED vars
  PROVE  IInv'
BY DEF IInv, TypeOK, Shapes, ApplyPending, SavePending, LeavesEditor, Saving, Has, vars

LEMMA StepIInv ==
  ASSUME IInv, NEW t \in Tasks, Step(t)
  PROVE  IInv'
<1>1. CASE Set(t)
  BY <1>1, SetIInv
<1>2. CASE BeginPrefs(t)
  BY <1>2, BeginPrefsIInv
<1>3. CASE Put(t)
  BY <1>3, PutIInv
<1>4. CASE EndPrefs(t)
  BY <1>4, EndPrefsIInv
<1>5. CASE SetRequest(t)
  BY <1>5, SetRequestIInv
<1>6. CASE ClearRequest(t)
  BY <1>6, ClearRequestIInv
<1>7. CASE Apply(t)
  BY <1>7, ApplyIInv
<1>8. CASE ShowMode(t)
  BY <1>8, ShowModeIInv
<1> QED
  BY <1>1, <1>2, <1>3, <1>4, <1>5, <1>6, <1>7, <1>8 DEF Step

LEMMA Invariance == Spec => []IInv
<1>1. Init => IInv
  BY FreshIInv DEF Init, Fresh
<1>2. IInv /\ [Next]_vars => IInv'
  <2> SUFFICES ASSUME IInv, [Next]_vars
               PROVE  IInv'
    OBVIOUS
  <2>1. CASE SerialLine
    BY <2>1, SerialLineIInv
  <2>2. CASE EthernetPass
    BY <2>2, EthernetPassIInv
  <2>3. CASE EncoderTurn
    BY <2>3, EncoderTurnIInv
  <2>4. CASE EncoderButton
    BY <2>4, EncoderButtonIInv
  <2>5. ASSUME NEW t \in Tasks, Step(t)
        PROVE  IInv'
    BY <2>5, StepIInv
  <2>6. CASE PowerCycle
    BY <2>6, PowerCycleIInv
  <2>7. CASE UNCHANGED vars
    BY <2>7, QuietIInv
  <2> QED
    BY <2>1, <2>2, <2>3, <2>4, <2>5, <2>6, <2>7 DEF Next
<1> QED
  BY <1>1, <1>2, PTL DEF Spec

(***************************************************************************)
(* The theorems                                                            *)
(***************************************************************************)

(* The variables of the network configuration keep their types, and the    *)
(* one Preferences object is never left open by a task that has saved.     *)
THEOREM TypeCorrect == Spec => []TypeOK
<1>1. IInv => TypeOK
  BY DEF IInv
<1> QED
  BY <1>1, Invariance, PTL

(* When every handler of the three tasks has returned and the flag         *)
(* netRestartRequest is clear, the W5500 runs with the cfg variables as    *)
(* they are, but for what is turned in the editor just now: no request is  *)
(* lost between taskEthernet clearing it and initW5500 reading them.       *)
THEOREM SettledIsApplied == Spec => []AppliedWhenSettled
<1>1. IInv => AppliedWhenSettled
  BY NothingLater DEF IInv, ApplyPending, AppliedWhenSettled, Settled
<1> QED
  BY <1>1, Invariance, PTL

(* When every handler has returned, flash holds the cfg variables as they  *)
(* are, but for what is turned in the editor, unless the last call of      *)
(* saveNetPrefs shared the Preferences object with another task's.         *)
THEOREM SettledIsSaved == Spec => []SavedWhenSettled
<1>1. IInv => SavedWhenSettled
  <2> SUFFICES ASSUME IInv, Settled, ~ overlapped, NEW f \in Fields \ edited
               PROVE  saved[f] = cfg[f]
    BY DEF SavedWhenSettled
  <2>1. \A t \in Tasks : ~ Later(todo[t], 0, Do("put", f))
    BY NothingLater DEF Settled
  <2> QED
    BY <2>1 DEF IInv, SavePending
<1> QED
  BY <1>1, Invariance, PTL

=============================================================================
