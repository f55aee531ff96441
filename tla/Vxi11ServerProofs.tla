-------------------------- MODULE Vxi11ServerProofs --------------------------
(***************************************************************************)
(* Proofs about Vxi11Server, for output buffers of any size above one and  *)
(* messages of any number of units that write any number of characters:    *)
(* an answer is whole, is given once, and the controller is told of it.    *)
(***************************************************************************)
EXTENDS Vxi11Server, ListProofs

Fragments == Seq(Nat \X Int)

(* What the device may be like between two units of a message. *)
Devices ==
    [status : Outcome, text : Fragments, rd : Nat, cmd_error : BOOLEAN,
     first_output : BOOLEAN, interrupted : BOOLEAN, mishap : BOOLEAN]

Mav(d) == Available(d.status.regs)

(* Unless a mishap left text, the buffer holds an answer or nothing.       *)
Kept ==
    ~stray => IF Available(registers)
                THEN /\ buffer # << >> /\ buffer[1][1] \in 1 .. Len(sent)
                     /\ buffer = Cut(AnswerOf(buffer[1][1]))
                ELSE buffer = << >>

Types ==
    /\ registers \in Registers
    /\ buffer \in Fragments /\ Len(buffer) < BufferSize
    /\ rd_idx \in 0 .. Len(buffer)
    /\ sent \in Seq(Messages) /\ Len(sent) <= MaxMessages
    /\ fate \in [flushed : Nat, read : Nat, interrupted : Nat] /\ fate.flushed <= Len(sent)

IInv == Types /\ MavMeansText /\ EveryAnswerAccounted /\ Kept

(***************************************************************************)
(* MAV and the registers                                                   *)
(***************************************************************************)

LEMMA NoCallOutcome ==
    ASSUME NEW regs \in Registers
    PROVE  NoCall(regs) \in Outcome /\ NoCall(regs).regs = regs /\ NoCall(regs).control = << >>
<1>1. << >> \in Seq(SUBSET Bits)
  OBVIOUS
<1> QED
  BY <1>1 DEF NoCall, Outcome

(* Writing STB sets MAV to what is written; if that makes it a reason for  *)
(* service, service is requested.                                          *)
LEMMA StatusByteWritten ==
    ASSUME NEW regs \in Registers, NEW val \in SUBSET Bits
    PROVE  LET o == SetStatusByte(regs, "STB", val)
           IN  /\ o \in Outcome
               /\ o.regs["SRE"] = regs["SRE"]
               /\ Available(o.regs) <=> STB_MAV \in val
               /\ STB_MAV \in (val \ regs["STB"]) \cap regs["SRE"]
                    => Len(o.control) = 1 /\ {STB_MAV, STB_SRQ} \subseteq o.control[1]
<1> DEFINE o == SetStatusByte(regs, "STB", val)
           written == [regs EXCEPT !["STB"] = val]
           raised == [written EXCEPT !["STB"] = @ \cup {STB_SRQ}]
           lowered == [written EXCEPT !["STB"] = @ \ {STB_SRQ}]
           calls == IF val \ regs["STB"] # {} THEN << raised["STB"] >> ELSE << >>
<1>1. {"STB", "SRE"} \subseteq RegName /\ STB_SRQ \in Bits /\ STB_MAV # STB_SRQ
  BY DEF RegName, Bits, STB_SRQ, STB_MAV
<1>2. written \in Registers /\ written["STB"] = val /\ written["SRE"] = regs["SRE"]
  BY <1>1 DEF Registers
<1>3. /\ raised \in Registers /\ lowered \in Registers
      /\ raised["SRE"] = regs["SRE"] /\ lowered["SRE"] = regs["SRE"]
      /\ raised["STB"] = val \cup {STB_SRQ} /\ lowered["STB"] = val \ {STB_SRQ}
  BY <1>1, <1>2 DEF Registers
<1>4. STB_MAV \in val \cap regs["SRE"] => Reasons(written) # {}
  BY <1>1, <1>2 DEF Reasons
<1>5. CASE regs["STB"] = val
  <2>1. o = NoCall(regs)
    BY <1>5 DEF SetStatusByte
  <2> QED
    BY <1>5, <2>1, NoCallOutcome DEF Available
<1>6. CASE regs["STB"] # val /\ Reasons(written) = {}
  <2>1. o = NoCall(lowered)
    BY <1>6 DEF SetStatusByte
  <2> HIDE DEF lowered, written
  <2> QED
    BY <1>1, <1>3, <1>4, <1>6, <2>1, NoCallOutcome DEF Available
<1>7. CASE regs["STB"] # val /\ Reasons(written) # {}
  <2>1. o = [regs |-> raised, control |-> calls]
    BY <1>7 DEF SetStatusByte
  <2>2. raised["STB"] \in SUBSET Bits
    BY <1>1, <1>3 DEF Registers
  <2> HIDE DEF raised, o
  <2>3. << raised["STB"] >> \in Seq(SUBSET Bits) /\ << >> \in Seq(SUBSET Bits)
    BY <2>2
  <2>4. calls \in Seq(SUBSET Bits)
    BY <2>3
  <2>5. STB_MAV \in val \ regs["STB"] =>
          Len(calls) = 1 /\ {STB_MAV, STB_SRQ} \subseteq calls[1]
    BY <1>3
  <2> HIDE DEF calls
  <2>6. o \in Outcome /\ o.regs = raised /\ o.control = calls
    BY <1>3, <2>1, <2>4 DEF Outcome
  <2>7. Available(o.regs) <=> STB_MAV \in val
    BY <1>1, <1>3, <2>6 DEF Available
  <2> QED
    BY <1>3, <2>5, <2>6, <2>7 DEF o
<1> QED
  BY <1>5, <1>6, <1>7

(* Writing ESR leaves MAV alone, whatever becomes of its summary bit. *)
LEMMA EventWritten ==
    ASSUME NEW regs \in Registers, NEW val \in SUBSET Bits
    PROVE  LET o == SetEvent(regs, "ESR", val)
           IN  /\ o \in Outcome
               /\ o.regs["SRE"] = regs["SRE"]
               /\ Available(o.regs) <=> Available(regs)
<1> DEFINE o == SetEvent(regs, "ESR", val)
           written == [regs EXCEPT !["ESR"] = val]
           stb == IF val \cap regs[EnableOf("ESR")] # {}
                    THEN regs["STB"] \cup {SummaryBit("ESR")}
                    ELSE regs["STB"] \ {SummaryBit("ESR")}
<1>1. /\ {"STB", "SRE", "ESR"} \subseteq RegName
      /\ SummaryBit("ESR") \in Bits /\ SummaryBit("ESR") # STB_MAV
  BY DEF RegName, EventReg, SummaryBit, Bits, STB_ESR, STB_MAV
<1>2. written \in Registers /\ written["STB"] = regs["STB"] /\ written["SRE"] = regs["SRE"]
  BY <1>1 DEF Registers
<1>3. stb \in SUBSET Bits /\ (STB_MAV \in stb <=> Available(regs))
  BY <1>1 DEF Registers, Available
<1>4. CASE regs["ESR"] = val
  <2>1. o = NoCall(regs)
    BY <1>4 DEF SetEvent
  <2> QED
    BY <2>1, NoCallOutcome
<1>5. CASE regs["ESR"] # val
  <2>1. o = SetStatusByte(written, "STB", stb)
    BY <1>5 DEF SetEvent
  <2> HIDE DEF written, stb
  <2> QED
    BY <1>2, <1>3, <2>1, StatusByteWritten
<1> QED
  BY <1>4, <1>5

(* The same of a call that follows others. *)
LEMMA RegisterWritten ==
    ASSUME NEW o \in Outcome, NEW name \in {"STB", "ESR"}, NEW val \in SUBSET Bits
    PROVE  LET p == AndThen(o, name, val)
           IN  /\ p \in Outcome
               /\ p.regs["SRE"] = o.regs["SRE"]
               /\ Available(p.regs) <=> IF name = "STB" THEN STB_MAV \in val ELSE Available(o.regs)
               /\ name = "STB" /\ STB_MAV \in (val \ o.regs["STB"]) \cap o.regs["SRE"]
                    => \E i \in DOMAIN p.control : {STB_MAV, STB_SRQ} \subseteq p.control[i]
<1> DEFINE next == RegSet(o.regs, name, val)
           both == o.control \o next.control
<1>1. o.regs \in Registers /\ o.control \in Seq(SUBSET Bits)
  BY DEF Outcome
<1>2. /\ next \in Outcome
      /\ next.regs["SRE"] = o.regs["SRE"]
      /\ Available(next.regs) <=> IF name = "STB" THEN STB_MAV \in val ELSE Available(o.regs)
      /\ name = "STB" /\ STB_MAV \in (val \ o.regs["STB"]) \cap o.regs["SRE"]
           => Len(next.control) = 1 /\ {STB_MAV, STB_SRQ} \subseteq next.control[1]
  <2>1. CASE name = "STB"
    BY <1>1, <2>1, StatusByteWritten DEF RegSet
  <2>2. CASE name = "ESR"
    BY <1>1, <2>2, EventWritten DEF RegSet, EventReg
  <2> QED
    BY <2>1, <2>2
<1>3. AndThen(o, name, val) = [regs |-> next.regs, control |-> both]
  BY DEF AndThen
<1> HIDE DEF next
<1>4. next.regs \in Registers /\ next.control \in Seq(SUBSET Bits)
  BY <1>2 DEF Outcome
<1>5. both \in Seq(SUBSET Bits)
  BY <1>1, <1>4, ConcatProperties
<1>6. Len(next.control) = 1 =>
        Len(o.control) + 1 \in DOMAIN both /\ both[Len(o.control) + 1] = next.control[1]
  <2>1. /\ Len(both) = Len(o.control) + Len(next.control)
        /\ \A i \in 1 .. Len(o.control) + Len(next.control) :
             both[i] = IF i <= Len(o.control) THEN o.control[i]
                                             ELSE next.control[i - Len(o.control)]
    BY <1>1, <1>4, ConcatProperties
  <2>2. Len(o.control) \in Nat /\ DOMAIN both = 1 .. Len(both)
    BY <1>1, <1>5
  <2> HIDE DEF both
  <2> QED
    BY <2>1, <2>2
<1> HIDE DEF both
<1> QED
  BY <1>2, <1>3, <1>4, <1>5, <1>6 DEF Outcome

LEMMA BitsWritten ==
    ASSUME NEW o \in Outcome, NEW name \in {"STB", "ESR"}, NEW bits \in SUBSET Bits
    PROVE  /\ SetBits(o, name, bits) \in Outcome
           /\ SetBits(o, name, bits).regs["SRE"] = o.regs["SRE"]
           /\ Available(SetBits(o, name, bits).regs)
                <=> Available(o.regs) \/ (name = "STB" /\ STB_MAV \in bits)
           /\ ClearBits(o, name, bits) \in Outcome
           /\ ClearBits(o, name, bits).regs["SRE"] = o.regs["SRE"]
           /\ Available(ClearBits(o, name, bits).regs)
                <=> Available(o.regs) /\ ~(name = "STB" /\ STB_MAV \in bits)
<1>1. name \in RegName /\ o.regs[name] \in SUBSET Bits
  BY DEF Outcome, Registers, RegName, EventReg
<1>2. o.regs[name] \cup bits \in SUBSET Bits /\ o.regs[name] \ bits \in SUBSET Bits
  BY <1>1
<1>3. STB_MAV \in o.regs["STB"] <=> Available(o.regs)
  BY DEF Available
<1> QED
  BY <1>2, <1>3, RegisterWritten DEF SetBits, ClearBits

(***************************************************************************)
(* Texts, and what the buffer holds of them                                *)
(***************************************************************************)

LEMMA JoinTexts ==
    ASSUME NEW x \in Fragments, NEW y \in Fragments
    PROVE  /\ x \o y \in Fragments
           /\ Len(x \o y) = Len(x) + Len(y)
           /\ \A i \in 1 .. Len(x) + Len(y) :
                (x \o y)[i] = IF i <= Len(x) THEN x[i] ELSE y[i - Len(x)]
BY ConcatProperties DEF Fragments

LEMMA JoinTwice ==
    ASSUME NEW x \in Fragments, NEW y \in Fragments, NEW z \in Fragments
    PROVE  (x \o y) \o z = x \o (y \o z)
<1> DEFINE S == Nat \X Int
<1>1. x \in Seq(S) /\ y \in Seq(S) /\ z \in Seq(S)
  BY DEF Fragments
<1> HIDE DEF S
<1>2. ASSUME NEW s \in Seq(S), NEW t \in Seq(S), NEW u \in Seq(S)
      PROVE  (s \o t) \o u = s \o (t \o u)
  BY ConcatAssociative
<1> QED
  BY <1>1, <1>2, Zenon

LEMMA JoinNothing ==
    ASSUME NEW x \in Fragments
    PROVE  x \o << >> = x /\ << >> \o x = x /\ << >> \in Fragments
BY ConcatEmptySeq DEF Fragments

(* The first BufferSize - 1 characters are held, all if there are no more. *)
LEMMA CutFacts ==
    ASSUME NEW x \in Fragments
    PROVE  /\ Cut(x) \in Fragments
           /\ Len(Cut(x)) = IF Len(x) < BufferSize THEN Len(x) ELSE BufferSize - 1
           /\ \A i \in 1 .. Len(Cut(x)) : Cut(x)[i] = x[i]
           /\ Len(x) < BufferSize => Cut(x) = x
<1>1. BufferSize \in Nat /\ BufferSize > 1
  BY Vxi11Assumption
<1>2. CASE Len(x) < BufferSize
  BY <1>2 DEF Cut
<1>3. CASE ~(Len(x) < BufferSize)
  <2> DEFINE n == BufferSize - 1
             y == SubSeq(x, 1, n)
  <2>1. Len(x) \in Nat /\ n \in Nat /\ n <= Len(x) /\ n >= 1
    BY <1>1, <1>3 DEF Fragments
  <2>2. Cut(x) = y
    BY <1>3 DEF Cut
  <2> HIDE DEF n
  <2>3. \A i \in 1 .. n : x[i] \in Nat \X Int
    BY <2>1, ElementOfSeq DEF Fragments
  <2>4. y \in Fragments /\ Len(y) = n /\ \A i \in 1 .. n : y[i] = x[i]
    <3>1. /\ y \in Seq(Nat \X Int)
          /\ Len(y) = IF 1 <= n THEN n - 1 + 1 ELSE 0
          /\ \A i \in 1 .. n - 1 + 1 : y[i] = x[1 + i - 1]
      BY <2>1, <2>3, SubSeqProperties
    <3> HIDE DEF y
    <3> QED
      BY <2>1, <3>1 DEF Fragments
  <2> HIDE DEF y
  <2> QED
    BY <1>3, <2>2, <2>4 DEF n
<1> QED
  BY <1>2, <1>3

(* Texts are the same when they have the same characters. *)
LEMMA SameTexts ==
    ASSUME NEW x \in Fragments, NEW y \in Fragments, Len(x) = Len(y),
           \A i \in 1 .. Len(x) : x[i] = y[i]
    PROVE  x = y
BY SeqEqual DEF Fragments

(* What was left out stays left out when more is written. *)
LEMMA CutTwice ==
    ASSUME NEW x \in Fragments, NEW y \in Fragments
    PROVE  Cut(Cut(x) \o y) = Cut(x \o y) /\ Len(Cut(x \o y)) >= Len(Cut(x))
<1> DEFINE c == Cut(x)
           p == c \o y
           q == x \o y
<1>1. BufferSize \in Nat /\ BufferSize > 1 /\ Len(x) \in Nat /\ Len(y) \in Nat
  BY Vxi11Assumption DEF Fragments
<1>2. /\ c \in Fragments
      /\ Len(c) = IF Len(x) < BufferSize THEN Len(x) ELSE BufferSize - 1
      /\ \A i \in 1 .. Len(c) : c[i] = x[i]
      /\ Len(x) < BufferSize => c = x
  BY CutFacts
<1> HIDE DEF c
<1>3. /\ p \in Fragments /\ Len(p) = Len(c) + Len(y)
      /\ \A i \in 1 .. Len(c) + Len(y) : p[i] = IF i <= Len(c) THEN c[i] ELSE y[i - Len(c)]
  BY <1>2, JoinTexts
<1>4. /\ q \in Fragments /\ Len(q) = Len(x) + Len(y)
      /\ \A i \in 1 .. Len(x) + Len(y) : q[i] = IF i <= Len(x) THEN x[i] ELSE y[i - Len(x)]
  BY JoinTexts
<1>5. Len(Cut(q)) >= Len(c)
  <2>1. Len(Cut(q)) = IF Len(q) < BufferSize THEN Len(q) ELSE BufferSize - 1
    BY <1>4, CutFacts
  <2> HIDE DEF q
  <2> QED
    BY <1>1, <1>2, <1>4, <2>1
<1>6. CASE Len(x) < BufferSize
  BY <1>2, <1>5, <1>6 DEF c
<1>7. CASE ~(Len(x) < BufferSize)
  <2> HIDE DEF p, q
  <2>1. Len(c) = BufferSize - 1 /\ Len(p) >= BufferSize - 1 /\ Len(q) >= BufferSize
    BY <1>1, <1>2, <1>3, <1>4, <1>7
  <2>2. /\ Cut(p) \in Fragments
        /\ Len(Cut(p)) = IF Len(p) < BufferSize THEN Len(p) ELSE BufferSize - 1
        /\ \A i \in 1 .. Len(Cut(p)) : Cut(p)[i] = p[i]
    BY <1>3, CutFacts
  <2>3. /\ Cut(q) \in Fragments
        /\ Len(Cut(q)) = IF Len(q) < BufferSize THEN Len(q) ELSE BufferSize - 1
        /\ \A i \in 1 .. Len(Cut(q)) : Cut(q)[i] = q[i]
    BY <1>4, CutFacts
  <2>4. Len(Cut(p)) = BufferSize - 1 /\ Len(Cut(q)) = BufferSize - 1
    BY <1>1, <1>3, <1>4, <2>1, <2>2, <2>3
  <2>5. ASSUME NEW i \in 1 .. BufferSize - 1
        PROVE  Cut(p)[i] = Cut(q)[i]
    <3>1. i \in 1 .. Len(c) /\ i \in 1 .. Len(c) + Len(y) /\ i \in 1 .. Len(x) + Len(y)
          /\ i <= Len(x) /\ i <= Len(c)
      BY <1>1, <1>7, <2>1
    <3>2. p[i] = x[i] /\ q[i] = x[i]
      BY <1>2, <1>3, <1>4, <3>1
    <3> QED
      BY <2>2, <2>3, <2>4, <3>2
  <2>6. Cut(p) = Cut(q)
    BY <2>2, <2>3, <2>4, <2>5, SameTexts
  <2> QED
    BY <1>5, <2>6 DEF p, q, c
<1> QED
  BY <1>6, <1>7

(* The characters of one message. *)
Own(m) == Seq({m} \X Int)

LEMMA OwnTexts ==
    ASSUME NEW m \in Nat
    PROVE  /\ Own(m) \subseteq Fragments
           /\ << >> \in Own(m)
           /\ <<<<m, Semicolon>>>> \in Own(m) /\ <<<<m, NewLine>>>> \in Own(m)
           /\ <<<<m, Semicolon>>>> # << >> /\ <<<<m, NewLine>>>> # << >>
           /\ \A x, y \in Own(m) : x \o y \in Own(m)
           /\ \A x \in Own(m) : x # << >> => Len(x) > 0 /\ x[1][1] = m
<1>1. {m} \X Int \subseteq Nat \X Int
  OBVIOUS
<1>2. Own(m) \subseteq Fragments
  BY <1>1 DEF Own, Fragments
<1>3. <<m, Semicolon>> \in {m} \X Int /\ <<m, NewLine>> \in {m} \X Int
  BY DEF Semicolon, NewLine
<1>4. \A x, y \in Own(m) : x \o y \in Own(m)
  BY ConcatProperties DEF Own
<1>5. ASSUME NEW x \in Own(m), x # << >>
      PROVE  Len(x) > 0 /\ x[1][1] = m
  <2>1. Len(x) > 0
    BY <1>5, EmptySeq DEF Own
  <2>2. x[1] \in {m} \X Int
    BY <2>1, ElementOfSeq DEF Own
  <2> QED
    BY <2>1, <2>2
<1> QED
  BY <1>2, <1>3, <1>4, <1>5 DEF Own

LEMMA OwnText ==
    ASSUME NEW m \in Nat, NEW unit \in Units
    PROVE  /\ Text(m, unit) \in Own(m)
           /\ Text(m, unit) = << >> <=> unit.writes = 0
<1>1. unit.writes \in Nat
  BY DEF Units
<1>2. Text(m, unit) \in Own(m) /\ Len(Text(m, unit)) = unit.writes
  BY <1>1 DEF Text, Own
<1> QED
  BY <1>1, <1>2, EmptySeq DEF Own

(* The answer grows by what a query writes, behind its separator.          *)
Further(text, m, units, i) ==
    IF ~units[i].query THEN text
    ELSE text \o Separator(m, units, i) \o Text(m, units[i])

Answers(t, m, units) ==
    /\ t \in [0 .. Len(units) -> Own(m)]
    /\ t[0] = << >>
    /\ \A i \in 1 .. Len(units) : t[i] = Further(t[i - 1], m, units, i)

LEMMA FurtherOwn ==
    ASSUME NEW m \in Nat, NEW units \in Seq(Units), NEW i \in 1 .. Len(units),
           NEW text \in Own(m)
    PROVE  Separator(m, units, i) \in Own(m) /\ Further(text, m, units, i) \in Own(m)
<1> DEFINE sep == Separator(m, units, i)
<1>1. sep \in Own(m)
  BY OwnTexts DEF Separator
<1>2. Text(m, units[i]) \in Own(m)
  <2>1. units[i] \in Units
    BY ElementOfSeq
  <2> QED
    BY <2>1, OwnText
<1> HIDE DEF sep
<1>3. text \o sep \in Own(m)
  BY <1>1, OwnTexts
<1>4. (text \o sep) \o Text(m, units[i]) \in Own(m)
  BY <1>2, <1>3, OwnTexts
<1> QED
  BY <1>1, <1>4 DEF Further, sep

LEMMA AnswersInTurn ==
    ASSUME NEW m \in Nat, NEW units \in Seq(Units)
    PROVE  \E t : /\ Answers(t, m, units)
                  /\ AnswerTo(m, units) = t[Len(units)] \o <<<<m, NewLine>>>>
<1> DEFINE n == Len(units)
           Step(t, i) == IF i = 0 THEN << >>
                         ELSE IF ~units[i].query THEN t[i - 1]
                         ELSE t[i - 1] \o Separator(m, units, i) \o Text(m, units[i])
           Writing(t) == t = [i \in 0 .. n |-> Step(t, i)]
           t == CHOOSE t : Writing(t)
           g == [p \in (1 .. n) \X Own(m) |-> Further(p[2], m, units, p[1])]
<1>1. AnswerTo(m, units) = t[n] \o <<<<m, NewLine>>>>
  BY DEF AnswerTo
<1>2. n \in Nat
  OBVIOUS
<1>3. g \in [(1 .. n) \X Own(m) -> Own(m)]
  BY FurtherOwn
<1>4. << >> \in Own(m)
  BY OwnTexts
<1>5. \A i \in 1 .. n, x \in Own(m) : g[<<i, x>>] = Further(x, m, units, i)
  OBVIOUS
<1> HIDE DEF g, t
<1>6. PICK f : Recurs(f, << >>, g, n, Own(m))
  <2>1. Goes(g, n, Own(m))
    BY <1>3 DEF Goes
  <2> HIDE DEF n
  <2> QED
    BY <1>2, <1>4, <2>1, Recursion
<1>7. \A i \in 0 .. n : f[i] = Step(f, i)
  <2> SUFFICES ASSUME NEW i \in 0 .. n
               PROVE  f[i] = Step(f, i)
    OBVIOUS
  <2>1. CASE i = 0
    BY <1>6, <2>1 DEF Recurs
  <2>2. CASE i # 0
    <3>1. i \in 1 .. n /\ i - 1 \in 0 .. n
      BY <1>2, <2>2
    <3>2. f[i - 1] \in Own(m)
      BY <1>6, <3>1 DEF Recurs
    <3>3. f[i] = Further(f[i - 1], m, units, i)
      BY <1>5, <1>6, <3>1, <3>2 DEF Recurs
    <3> QED
      BY <2>2, <3>3 DEF Further
  <2> QED
    BY <2>1, <2>2
<1>8. Writing(f)
  <2> HIDE DEF Step
  <2>1. f = [i \in 0 .. n |-> f[i]]
    BY <1>6 DEF Recurs
  <2>2. [i \in 0 .. n |-> f[i]] = [i \in 0 .. n |-> Step(f, i)]
    BY <1>7
  <2> QED
    BY <2>1, <2>2
<1>9. Writing(t)
  <2> HIDE DEF Writing
  <2> QED
    BY <1>8 DEF t
<1>10. t[0] = << >>
  <2>1. 0 \in 0 .. n
    BY <1>2
  <2> QED
    BY <1>9, <2>1
<1>11. ASSUME NEW i \in 1 .. n
       PROVE  t[i] = Further(t[i - 1], m, units, i)
  <2>1. i \in 0 .. n /\ i # 0
    BY <1>2
  <2> QED
    BY <1>9, <2>1 DEF Further
<1>12. \A i \in 0 .. n : t[i] \in Own(m)
  <2> DEFINE S == {i \in 0 .. n : t[i] \in Own(m)}
  <2>1. 0 \in S
    BY <1>2, <1>4, <1>10
  <2>2. ASSUME NEW i \in 0 .. n - 1, i \in S
        PROVE  i + 1 \in S
    <3>1. i + 1 \in 1 .. n /\ (i + 1) - 1 = i /\ i + 1 \in 0 .. n
      BY <1>2
    <3>2. t[i + 1] = Further(t[i], m, units, i + 1)
      BY <1>11, <3>1
    <3> QED
      BY <2>2, <3>1, <3>2, FurtherOwn
  <2> HIDE DEF S
  <2>3. 0 .. n \subseteq S
    BY <1>2, <2>1, <2>2, UpTo
  <2> QED
    BY <2>3 DEF S
<1>13. t \in [0 .. n -> Own(m)]
  <2> HIDE DEF Step
  <2>1. t = [i \in 0 .. n |-> Step(t, i)]
    BY <1>9
  <2> QED
    BY <1>12, <2>1
<1> QED
  BY <1>1, <1>10, <1>11, <1>13 DEF Answers

(***************************************************************************)
(* One message                                                             *)
(***************************************************************************)

(* What lies in the buffer before what the message writes. *)
Base(d) == IF d.interrupted THEN << >> ELSE buffer

(* An answer that waits is in the buffer until it is interrupted, and is   *)
(* announced until then.                                                   *)
Sound(d) ==
    /\ d \in Devices
    /\ Len(d.text) < BufferSize /\ d.rd <= Len(d.text)
    /\ d.status.regs["SRE"] = registers["SRE"]
    /\ Mav(d) <=> Available(registers) /\ ~d.interrupted
    /\ d.interrupted => Available(registers)
    /\ Mav(d) => d.text = buffer /\ d.rd = rd_idx

(* The message has written the text t. *)
Wrote(d, t) == IF Mav(d) THEN t = << >> ELSE d.text = Cut(Base(d) \o t)

(* The parts that a call need not tell apart. *)
Unmoved(d, e) ==
    e.first_output = d.first_output /\ e.interrupted = d.interrupted /\ e.mishap = d.mishap

LEMMA ErrorPushed ==
    ASSUME NEW d \in Devices, NEW bit \in Bits
    PROVE  LET e == PushError(d, bit)
           IN  /\ e \in Devices
               /\ Unmoved(d, e) /\ e.text = d.text /\ e.rd = d.rd /\ e.cmd_error = TRUE
               /\ e.status.regs["SRE"] = d.status.regs["SRE"]
               /\ Mav(e) <=> Mav(d)
<1> DEFINE o == SetBits(d.status, "ESR", {bit})
           p == SetBits(o, "STB", {STB_QMA})
<1>1. d.status \in Outcome
  BY DEF Devices
<1>2. {bit} \in SUBSET Bits /\ {STB_QMA} \in SUBSET Bits /\ STB_QMA # STB_MAV
  BY DEF Bits, STB_QMA, STB_MAV
<1>3. o \in Outcome /\ o.regs["SRE"] = d.status.regs["SRE"]
      /\ (Available(o.regs) <=> Available(d.status.regs))
  BY <1>1, <1>2, BitsWritten
<1> HIDE DEF o
<1>4. p \in Outcome /\ p.regs["SRE"] = o.regs["SRE"] /\ (Available(p.regs) <=> Available(o.regs))
  BY <1>2, <1>3, BitsWritten
<1>5. PushError(d, bit) = [d EXCEPT !.status = p, !.cmd_error = TRUE]
  BY DEF PushError, o
<1> HIDE DEF p
<1> QED
  BY <1>3, <1>4, <1>5 DEF Devices, Unmoved, Mav

LEMMA ErrorSound ==
    ASSUME NEW d, Sound(d), NEW bit \in Bits
    PROVE  LET e == PushError(d, bit)
           IN  /\ Sound(e) /\ Unmoved(d, e) /\ e.cmd_error = TRUE
               /\ Mav(e) <=> Mav(d)
               /\ \A t : Wrote(d, t) => Wrote(e, t)
<1> DEFINE e == PushError(d, bit)
<1>1. d \in Devices
  BY DEF Sound
<1>2. /\ e \in Devices
      /\ Unmoved(d, e) /\ e.text = d.text /\ e.rd = d.rd /\ e.cmd_error = TRUE
      /\ e.status.regs["SRE"] = d.status.regs["SRE"]
      /\ Mav(e) <=> Mav(d)
  BY <1>1, ErrorPushed
<1> HIDE DEF e
<1>3. Sound(e)
  BY <1>2 DEF Sound, Unmoved
<1>4. \A t : Wrote(d, t) => Wrote(e, t)
  BY <1>2 DEF Wrote, Base, Unmoved
<1> QED
  BY <1>2, <1>3, <1>4 DEF e

(* SCPI_Write drops the answer that waits, with an error, and MAV with it. *)
LEMMA InterruptSound ==
    ASSUME NEW d, Sound(d)
    PROVE  LET e == Interrupt(d)
           IN  /\ Sound(e) /\ ~Mav(e)
               /\ e.first_output = d.first_output /\ e.mishap = d.mishap
               /\ d.interrupted => e.interrupted
               /\ Mav(d) => e.cmd_error = TRUE /\ e.interrupted /\ e.text = << >>
               /\ ~Mav(d) => e = d
<1> DEFINE e == Interrupt(d)
<1>1. d \in Devices
  BY DEF Sound
<1>2. CASE ~Mav(d)
  <2>1. e = d
    BY <1>2 DEF Interrupt, Mav
  <2> QED
    BY <1>2, <2>1
<1>3. CASE Mav(d)
  <2> DEFINE o == ClearBits(d.status, "STB", {STB_MAV})
             c == [d EXCEPT !.status = o]
             p == PushError(c, ESR_QER)
  <2>1. {STB_MAV} \in SUBSET Bits /\ ESR_QER \in Bits /\ d.status \in Outcome
    BY <1>1 DEF Bits, STB_MAV, ESR_QER, Devices
  <2>2. o \in Outcome /\ o.regs["SRE"] = d.status.regs["SRE"] /\ ~Available(o.regs)
    BY <2>1, BitsWritten
  <2>3. e = [p EXCEPT !.text = << >>, !.rd = 0, !.interrupted = TRUE]
    BY <1>3 DEF Interrupt, Mav
  <2> HIDE DEF o
  <2>4. /\ c \in Devices /\ c.status.regs["SRE"] = d.status.regs["SRE"] /\ ~Mav(c)
        /\ c.first_output = d.first_output /\ c.mishap = d.mishap
    BY <1>1, <2>2 DEF Devices, Mav
  <2> HIDE DEF c
  <2>5. /\ p \in Devices /\ Unmoved(c, p) /\ p.cmd_error = TRUE
        /\ p.status.regs["SRE"] = d.status.regs["SRE"] /\ ~Mav(p)
    BY <2>1, <2>4, ErrorPushed
  <2> HIDE DEF p
  <2>6. << >> \in Fragments /\ Len(<< >>) = 0
    BY DEF Fragments
  <2> HIDE DEF e
  <2>7. /\ e \in Devices /\ e.text = << >> /\ e.rd = 0 /\ e.interrupted = TRUE
        /\ e.first_output = d.first_output /\ e.mishap = d.mishap /\ e.cmd_error = TRUE
        /\ e.status = p.status
    <3>1. p \in Devices
      BY <2>5
    <3>2. /\ e.text = << >> /\ e.rd = 0 /\ e.interrupted = TRUE /\ e.status = p.status
          /\ e.first_output = p.first_output /\ e.mishap = p.mishap /\ e.cmd_error = p.cmd_error
      BY <2>3, <3>1 DEF Devices
    <3>3. e \in Devices
      BY <2>3, <2>6, <3>1 DEF Devices
    <3> QED
      BY <2>4, <2>5, <3>2, <3>3 DEF Unmoved
  <2>8. BufferSize > 0
    BY Vxi11Assumption
  <2>9. ~Mav(e) /\ Available(registers) /\ e.status.regs["SRE"] = registers["SRE"]
    BY <1>3, <2>5, <2>7 DEF Mav, Sound
  <2>10. Sound(e)
    BY <2>6, <2>7, <2>8, <2>9 DEF Sound
  <2> QED
    BY <1>3, <2>7, <2>9, <2>10 DEF e
<1> QED
  BY <1>2, <1>3

(* What is written stands behind what was written before. *)
LEMMA WriteSound ==
    ASSUME NEW d, Sound(d), NEW x \in Fragments, buffer \in Fragments
    PROVE  LET e == Write(d, x)
           IN  /\ Sound(e) /\ ~Mav(e)
               /\ e.first_output = d.first_output /\ e.mishap = d.mishap
               /\ d.interrupted => e.interrupted
               /\ Mav(d) => e.cmd_error = TRUE /\ e.interrupted
               /\ ~Mav(d) => e.cmd_error = d.cmd_error /\ e.interrupted = d.interrupted
               /\ \A t \in Fragments : Wrote(d, t) => Wrote(e, t \o x)
               /\ x # << >> => e.text # << >>
<1> DEFINE i == Interrupt(d)
           e == Write(d, x)
           text == Cut(i.text \o x)
<1>1. /\ Sound(i) /\ ~Mav(i)
      /\ i.first_output = d.first_output /\ i.mishap = d.mishap
      /\ d.interrupted => i.interrupted
      /\ Mav(d) => i.cmd_error = TRUE /\ i.interrupted /\ i.text = << >>
      /\ ~Mav(d) => i = d
  BY InterruptSound
<1>2. e = [i EXCEPT !.text = text]
  BY DEF Write
<1> HIDE DEF i, e
<1>3. i \in Devices /\ i.text \in Fragments /\ Len(i.text) < BufferSize
  BY <1>1 DEF Sound, Devices
<1>4. /\ i.text \o x \in Fragments /\ Len(i.text \o x) = Len(i.text) + Len(x)
      /\ Len(i.text) \in Nat /\ Len(x) \in Nat /\ BufferSize \in Nat /\ BufferSize > 1
  BY <1>3, JoinTexts, Vxi11Assumption DEF Fragments
<1>5. /\ text \in Fragments
      /\ Len(text) = IF Len(i.text \o x) < BufferSize THEN Len(i.text \o x) ELSE BufferSize - 1
  BY <1>4, CutFacts
<1> HIDE DEF text
<1>6. Len(text) >= Len(i.text) /\ Len(text) < BufferSize /\ (Len(x) > 0 => Len(text) > 0)
  BY <1>3, <1>4, <1>5
<1>7. /\ e \in Devices /\ e.text = text /\ e.status = i.status /\ e.rd = i.rd
      /\ Unmoved(i, e) /\ e.cmd_error = i.cmd_error
  BY <1>2, <1>3, <1>5 DEF Devices, Unmoved
<1>8. ~Mav(e)
  BY <1>1, <1>7 DEF Mav
<1>9. Sound(e)
  <2>1. e.rd \in Nat /\ e.rd <= Len(i.text) /\ Len(text) \in Nat
    BY <1>1, <1>5, <1>7 DEF Sound, Devices, Fragments
  <2>2. e.rd <= Len(e.text) /\ Len(e.text) < BufferSize
    BY <1>4, <1>6, <1>7, <2>1
  <2> QED
    BY <1>1, <1>7, <1>8, <2>2 DEF Sound, Unmoved
<1>10. ASSUME NEW t \in Fragments, Wrote(d, t)
       PROVE  Wrote(e, t \o x)
  <2>1. Base(e) = Base(i) /\ Base(i) \in Fragments
    BY <1>7, JoinNothing DEF Base, Unmoved
  <2>2. CASE Mav(d)
    <3>1. t = << >> /\ i.text = << >> /\ Base(e) = << >>
      BY <1>1, <1>10, <2>1, <2>2 DEF Wrote, Base
    <3>2. e.text = Cut(Base(e) \o (t \o x))
      <4>1. << >> \o (<< >> \o x) = x /\ << >> \o x = x
        BY JoinNothing
      <4> QED
        BY <1>7, <3>1, <4>1 DEF text
    <3> QED
      BY <1>8, <3>2 DEF Wrote
  <2>3. CASE ~Mav(d)
    <3>1. i.text = Cut(Base(i) \o t)
      BY <1>1, <1>10, <2>3 DEF Wrote
    <3>2. Base(i) \o t \in Fragments
      BY <2>1, JoinTexts
    <3>3. text = Cut((Base(i) \o t) \o x)
      BY <3>1, <3>2, CutTwice DEF text
    <3>4. (Base(i) \o t) \o x = Base(i) \o (t \o x)
      BY <2>1, JoinTwice
    <3> QED
      BY <1>7, <1>8, <2>1, <3>3, <3>4 DEF Wrote
  <2> QED
    BY <2>2, <2>3
<1>11. x # << >> => e.text # << >>
  <2>1. x # << >> => Len(x) > 0
    BY EmptySeq DEF Fragments
  <2>2. Len(text) > 0 => text # << >>
    OBVIOUS
  <2> QED
    BY <1>4, <1>6, <1>7, <2>1, <2>2
<1> QED
  BY <1>1, <1>7, <1>8, <1>9, <1>10, <1>11 DEF Unmoved, e

(* The flags of the context matter to neither. *)
LEMMA FlagsFree ==
    ASSUME NEW d, Sound(d), NEW e \in Devices,
           e.status = d.status, e.text = d.text, e.rd = d.rd, e.interrupted = d.interrupted
    PROVE  Sound(e) /\ (Mav(e) <=> Mav(d)) /\ \A t : Wrote(d, t) => Wrote(e, t)
<1>1. Mav(e) <=> Mav(d)
  BY DEF Mav
<1>2. Sound(e)
  BY <1>1 DEF Sound
<1>3. \A t : Wrote(d, t) => Wrote(e, t)
  BY <1>1 DEF Wrote, Base
<1> QED
  BY <1>1, <1>2, <1>3

(* The separator that processCommand writes, or nothing. *)
Sep(d, m, unit) == IF ~d.first_output /\ unit.query THEN <<<<m, Semicolon>>>> ELSE << >>

LEMMA Began ==
    ASSUME NEW d, Sound(d), NEW m \in Nat, NEW unit \in Units, buffer \in Fragments
    PROVE  LET e == BeginCommand(d, m, unit)
           IN  /\ Sound(e) /\ e.cmd_error = FALSE
               /\ e.first_output = d.first_output /\ e.mishap = d.mishap
               /\ d.first_output => e.interrupted = d.interrupted
               /\ \A t \in Fragments : Wrote(d, t) => Wrote(e, t \o Sep(d, m, unit))
<1> DEFINE e == BeginCommand(d, m, unit)
<1>1. CASE ~d.first_output /\ unit.query
  <2> DEFINE x == <<<<m, Semicolon>>>>
             f == Write(d, x)
  <2>1. x \in Fragments
    BY OwnTexts
  <2> HIDE DEF x
  <2>2. /\ Sound(f)
        /\ f.first_output = d.first_output /\ f.mishap = d.mishap
        /\ \A t \in Fragments : Wrote(d, t) => Wrote(f, t \o x)
    BY <2>1, WriteSound
  <2>3. e = [f EXCEPT !.cmd_error = FALSE]
    BY <1>1 DEF BeginCommand, x
  <2> HIDE DEF f
  <2>4. f \in Devices
    BY <2>2 DEF Sound
  <2> HIDE DEF e
  <2>5. /\ e \in Devices /\ e.cmd_error = FALSE /\ Unmoved(f, e)
        /\ e.status = f.status /\ e.text = f.text /\ e.rd = f.rd
    BY <2>3, <2>4 DEF Devices, Unmoved
  <2>6. Sound(e) /\ \A t : Wrote(f, t) => Wrote(e, t)
    BY <2>2, <2>5, FlagsFree DEF Unmoved
  <2>7. Sep(d, m, unit) = x
    BY <1>1 DEF Sep, x
  <2> QED
    BY <1>1, <2>2, <2>5, <2>6, <2>7 DEF Unmoved, e
<1>2. CASE ~(~d.first_output /\ unit.query)
  <2>1. e = [d EXCEPT !.cmd_error = FALSE]
    BY <1>2 DEF BeginCommand
  <2>2. d \in Devices
    BY DEF Sound
  <2> HIDE DEF e
  <2>3. /\ e \in Devices /\ e.cmd_error = FALSE /\ Unmoved(d, e)
        /\ e.status = d.status /\ e.text = d.text /\ e.rd = d.rd
    BY <2>1, <2>2 DEF Devices, Unmoved
  <2>4. Sound(e) /\ \A t : Wrote(d, t) => Wrote(e, t)
    BY <2>3, FlagsFree DEF Unmoved
  <2>5. \A t \in Fragments : t \o Sep(d, m, unit) = t
    BY <1>2, JoinNothing DEF Sep
  <2> QED
    BY <2>3, <2>4, <2>5 DEF Unmoved, e
<1> QED
  BY <1>1, <1>2

LEMMA Called ==
    ASSUME NEW d, Sound(d), NEW m \in Nat, NEW unit \in Units, buffer \in Fragments
    PROVE  LET e == Callback(d, m, unit)
           IN  /\ Sound(e)
               /\ e.first_output = d.first_output /\ e.mishap = d.mishap
               /\ unit.writes = 0 \/ ~Mav(d)
                    => e.cmd_error = d.cmd_error /\ e.interrupted = d.interrupted
               /\ unit.writes # 0 /\ Mav(d) => e.cmd_error = TRUE
               /\ \A t \in Fragments : Wrote(d, t) => Wrote(e, t \o Text(m, unit))
<1> DEFINE x == Text(m, unit)
<1>1. x \in Fragments /\ (x = << >> <=> unit.writes = 0)
  BY OwnText, OwnTexts
<1>2. CASE unit.writes = 0
  <2>1. Callback(d, m, unit) = d
    BY <1>2 DEF Callback
  <2>2. \A t \in Fragments : t \o x = t
    BY <1>1, <1>2, JoinNothing
  <2> HIDE DEF x
  <2> QED
    BY <1>2, <2>1, <2>2 DEF x
<1>3. CASE unit.writes # 0
  <2> DEFINE e == Write(d, x)
  <2>1. Callback(d, m, unit) = e
    BY <1>3 DEF Callback
  <2> HIDE DEF x
  <2>2. /\ Sound(e)
        /\ e.first_output = d.first_output /\ e.mishap = d.mishap
        /\ Mav(d) => e.cmd_error = TRUE
        /\ ~Mav(d) => e.cmd_error = d.cmd_error /\ e.interrupted = d.interrupted
        /\ \A t \in Fragments : Wrote(d, t) => Wrote(e, t \o x)
    BY <1>1, WriteSound
  <2> HIDE DEF e
  <2> QED
    BY <1>3, <2>1, <2>2 DEF x
<1> QED
  BY <1>2, <1>3

(* A query counts as answered if its callback succeeds and left no error. *)
Succeeds(d, unit) == unit.query /\ unit.ok /\ ~d.cmd_error

LEMMA Ended ==
    ASSUME NEW d, Sound(d), NEW unit \in Units
    PROVE  LET e == CheckSurplus(EndCallback(d, unit), unit)
           IN  /\ Sound(e) /\ e.interrupted = d.interrupted
               /\ e.first_output <=> d.first_output /\ ~Succeeds(d, unit)
               /\ e.mishap <=> d.mishap \/ (~Succeeds(d, unit) /\ unit.writes > 0)
               /\ \A t : Wrote(d, t) => Wrote(e, t)
<1> DEFINE c == EndCallback(d, unit)
           e == CheckSurplus(c, unit)
<1>1. d \in Devices /\ ESR_EER \in Bits /\ ESR_CER \in Bits
  BY DEF Sound, Bits, ESR_EER, ESR_CER
<1>2. /\ Sound(c) /\ c.interrupted = d.interrupted
      /\ c.first_output <=> d.first_output /\ ~Succeeds(d, unit)
      /\ c.mishap <=> d.mishap \/ (~Succeeds(d, unit) /\ unit.writes > 0)
      /\ \A t : Wrote(d, t) => Wrote(c, t)
  <2>1. CASE Succeeds(d, unit)
    <3>1. c = [d EXCEPT !.first_output = FALSE]
      BY <2>1 DEF EndCallback, Succeeds
    <3> HIDE DEF c
    <3>2. /\ c \in Devices /\ c.first_output = FALSE /\ c.mishap = d.mishap
          /\ c.status = d.status /\ c.text = d.text /\ c.rd = d.rd
          /\ c.interrupted = d.interrupted
      BY <1>1, <3>1 DEF Devices
    <3>3. Sound(c) /\ \A t : Wrote(d, t) => Wrote(c, t)
      BY <3>2, FlagsFree
    <3> QED
      BY <2>1, <3>2, <3>3
  <2>2. CASE ~Succeeds(d, unit)
    <3> DEFINE f == FailCommand(d, unit)
               worse == f.mishap \/ unit.writes > 0
    <3>1. Sound(f) /\ Unmoved(d, f) /\ \A t : Wrote(d, t) => Wrote(f, t)
      <4>1. f = d \/ f = PushError(d, ESR_EER)
        BY DEF FailCommand
      <4> HIDE DEF f
      <4>2. CASE f = d
        BY <4>2 DEF Unmoved
      <4>3. CASE f = PushError(d, ESR_EER)
        BY <1>1, <4>3, ErrorSound
      <4> QED
        BY <4>1, <4>2, <4>3
    <3>2. c = [f EXCEPT !.mishap = worse]
      BY <2>2 DEF EndCallback, Succeeds
    <3> HIDE DEF c, f
    <3>3. f \in Devices
      BY <3>1 DEF Sound
    <3>4. worse \in BOOLEAN
      OBVIOUS
    <3>5. worse <=> d.mishap \/ unit.writes > 0
      BY <3>1 DEF Unmoved
    <3> HIDE DEF worse
    <3>6. /\ c \in Devices /\ c.first_output = f.first_output /\ c.mishap = worse
          /\ c.status = f.status /\ c.text = f.text /\ c.rd = f.rd
          /\ c.interrupted = f.interrupted
      BY <3>2, <3>3, <3>4 DEF Devices
    <3>7. Sound(c) /\ \A t : Wrote(f, t) => Wrote(c, t)
      BY <3>1, <3>6, FlagsFree
    <3> QED
      BY <2>2, <3>1, <3>5, <3>6, <3>7 DEF Unmoved
  <2> QED
    BY <2>1, <2>2
<1>3. e = c \/ e = PushError(c, ESR_CER)
  BY DEF CheckSurplus
<1> HIDE DEF c
<1>4. Sound(e) /\ Unmoved(c, e) /\ \A t : Wrote(c, t) => Wrote(e, t)
  <2> HIDE DEF e
  <2>1. CASE e = c
    BY <1>2, <2>1 DEF Unmoved
  <2>2. CASE e = PushError(c, ESR_CER)
    BY <1>1, <1>2, <2>2, ErrorSound
  <2> QED
    BY <1>3, <2>1, <2>2
<1> HIDE DEF e
<1> QED
  BY <1>2, <1>4 DEF Unmoved, e, c

(* One unit, unless it ends in a mishap. *)
LEMMA UnitDone ==
    ASSUME NEW d, Sound(d), NEW m \in Nat, NEW unit \in Units, buffer \in Fragments,
           NEW t \in Fragments
    PROVE  LET e == ProcessCommand(d, m, unit)
               more == IF unit.query THEN t \o Sep(d, m, unit) \o Text(m, unit) ELSE t
           IN  /\ Sound(e)
               /\ d.mishap => e.mishap
               /\ ~e.mishap \/ ~Available(registers)
                    => (e.first_output <=> d.first_output /\ ~(unit.query /\ unit.ok))
               /\ ~e.mishap /\ Wrote(d, t) => Wrote(e, more)
               /\ ~e.mishap /\ e.first_output
                    => e.interrupted = d.interrupted /\ (unit.query => unit.writes = 0)
<1> DEFINE b == BeginCommand(d, m, unit)
           c == Callback(b, m, unit)
           e == CheckSurplus(EndCallback(c, unit), unit)
           sep == Sep(d, m, unit)
           text == Text(m, unit)
<1>1. ProcessCommand(d, m, unit) = e
  BY DEF ProcessCommand
<1>2. /\ Sound(b) /\ b.cmd_error = FALSE
      /\ b.first_output = d.first_output /\ b.mishap = d.mishap
      /\ d.first_output => b.interrupted = d.interrupted
      /\ Wrote(d, t) => Wrote(b, t \o sep)
  BY Began
<1> HIDE DEF b
<1>3. sep \in Fragments /\ (~unit.query => sep = << >>)
  BY OwnTexts, JoinNothing DEF Sep
<1> HIDE DEF sep
<1>4. t \o sep \in Fragments
  BY <1>3, JoinTexts
<1>5. /\ Sound(c)
      /\ c.first_output = b.first_output /\ c.mishap = b.mishap
      /\ unit.writes = 0 \/ ~Mav(b) => c.cmd_error = b.cmd_error /\ c.interrupted = b.interrupted
      /\ Wrote(b, t \o sep) => Wrote(c, (t \o sep) \o text)
  BY <1>2, <1>4, Called
<1> HIDE DEF c
<1>6. /\ Sound(e) /\ e.interrupted = c.interrupted
      /\ e.first_output <=> c.first_output /\ ~Succeeds(c, unit)
      /\ e.mishap <=> c.mishap \/ (~Succeeds(c, unit) /\ unit.writes > 0)
      /\ Wrote(c, (t \o sep) \o text) => Wrote(e, (t \o sep) \o text)
  BY <1>5, Ended
<1> HIDE DEF e
<1>7. unit.writes \in Nat /\ (text = << >> <=> unit.writes = 0)
  BY OwnText DEF Units
<1>8. ~Available(registers) => ~Mav(b)
  BY <1>2 DEF Sound
<1>9. unit.writes = 0 \/ ~Mav(b) => (Succeeds(c, unit) <=> unit.query /\ unit.ok)
  BY <1>2, <1>5 DEF Succeeds
<1>10. Succeeds(c, unit) => unit.query /\ unit.ok
  BY DEF Succeeds
<1>11. ~e.mishap => Succeeds(c, unit) \/ unit.writes = 0
  BY <1>6, <1>7
<1>12. ~e.mishap \/ ~Available(registers)
         => (e.first_output <=> d.first_output /\ ~(unit.query /\ unit.ok))
  BY <1>2, <1>5, <1>6, <1>8, <1>9, <1>10, <1>11
<1>13. ASSUME ~e.mishap, Wrote(d, t)
       PROVE  Wrote(e, IF unit.query THEN (t \o sep) \o text ELSE t)
  <2>1. Wrote(e, (t \o sep) \o text)
    BY <1>2, <1>5, <1>6, <1>13
  <2>2. ~unit.query => (t \o sep) \o text = t
    <3>1. ~unit.query => sep = << >> /\ text = << >>
      BY <1>3, <1>7, <1>10, <1>11, <1>13
    <3>2. (t \o << >>) \o << >> = t
      BY JoinNothing
    <3> HIDE DEF text
    <3> QED
      BY <3>1, <3>2
  <2> HIDE DEF text
  <2>3. CASE unit.query
    BY <2>1, <2>3
  <2>4. CASE ~unit.query
    BY <2>1, <2>2, <2>4
  <2> QED
    BY <2>3, <2>4
<1>14. ~e.mishap /\ e.first_output => e.interrupted = d.interrupted /\ unit.writes = 0
  BY <1>2, <1>5, <1>6, <1>11
<1>15. d.mishap => e.mishap
  BY <1>2, <1>5, <1>6
<1> QED
  BY <1>1, <1>6, <1>12, <1>13, <1>14, <1>15 DEF sep

(* Behind the units up to i, whose queries are to be answered by t. *)
Reached(d, t, units, i) ==
    /\ Sound(d)
    /\ ~d.mishap \/ ~Available(registers) => (d.first_output <=> ~Answered(units, i))
    /\ ~d.mishap => Wrote(d, t) /\ (d.first_output => t = << >> /\ ~d.interrupted)

LEMMA ReachedNext ==
    ASSUME NEW m \in Nat, NEW units \in Seq(Units), NEW i \in 1 .. Len(units),
           buffer \in Fragments, NEW t \in Own(m), NEW d, Reached(d, t, units, i - 1)
    PROVE  Reached(ProcessCommand(d, m, units[i]), Further(t, m, units, i), units, i)
<1> DEFINE unit == units[i]
           e == ProcessCommand(d, m, unit)
           sep == Sep(d, m, unit)
           text == Text(m, unit)
           more == IF unit.query THEN (t \o sep) \o text ELSE t
<1>1. unit \in Units /\ t \in Fragments
  BY ElementOfSeq, OwnTexts
<1>2. Answered(units, i) <=> Answered(units, i - 1) \/ (unit.query /\ unit.ok)
  <2>1. \A j : j \in 1 .. i <=> j \in 1 .. i - 1 \/ j = i
    OBVIOUS
  <2> QED
    BY <2>1 DEF Answered
<1> HIDE DEF unit
<1>3. /\ Sound(e)
      /\ d.mishap => e.mishap
      /\ ~e.mishap \/ ~Available(registers)
           => (e.first_output <=> d.first_output /\ ~(unit.query /\ unit.ok))
      /\ ~e.mishap /\ Wrote(d, t) => Wrote(e, more)
      /\ ~e.mishap /\ e.first_output
           => e.interrupted = d.interrupted /\ (unit.query => unit.writes = 0)
  BY <1>1, UnitDone DEF Reached
<1> HIDE DEF e
<1>4. ~e.mishap \/ ~Available(registers) => (e.first_output <=> ~Answered(units, i))
  BY <1>2, <1>3 DEF Reached
<1>5. ASSUME ~e.mishap
      PROVE  more = Further(t, m, units, i)
  <2>1. d.first_output <=> ~Answered(units, i - 1)
    BY <1>3, <1>5 DEF Reached
  <2>2. unit.query => sep = Separator(m, units, i)
    BY <2>1 DEF Sep, Separator
  <2> HIDE DEF sep, text
  <2> QED
    BY <2>2 DEF Further, unit, text
<1>6. ASSUME ~e.mishap, e.first_output
      PROVE  more = << >> /\ ~e.interrupted
  <2>1. d.first_output /\ ~d.mishap /\ t = << >> /\ ~d.interrupted
    BY <1>3, <1>6 DEF Reached
  <2>2. unit.query => sep = << >> /\ text = << >>
    BY <1>1, <1>3, <1>6, <2>1, OwnText DEF Sep
  <2>3. (<< >> \o << >>) \o << >> = << >>
    BY JoinNothing
  <2> HIDE DEF sep, text
  <2> QED
    BY <1>3, <1>6, <2>1, <2>2, <2>3
<1>7. ~e.mishap => Wrote(e, more)
  BY <1>3 DEF Reached
<1> HIDE DEF more
<1>8. ~e.mishap => /\ Wrote(e, Further(t, m, units, i))
                   /\ e.first_output => Further(t, m, units, i) = << >> /\ ~e.interrupted
  BY <1>5, <1>6, <1>7
<1> QED
  BY <1>3, <1>4, <1>8 DEF Reached, e, unit

(* The units are processed in turn, each on what the one before left. *)
LEMMA UnitsInTurn ==
    ASSUME NEW m \in Nat, NEW units \in Seq(Units), buffer \in Fragments, NEW d, Sound(d)
    PROVE  \E v : /\ v[0] = d
                  /\ \A i \in 1 .. Len(units) : v[i] = ProcessCommand(v[i - 1], m, units[i])
                  /\ Parse(d, m, units) = EndMessage(v[Len(units)], m)
<1> DEFINE n == Len(units)
           S == {e \in Devices : Sound(e)}
           Step(v, i) == IF i = 0 THEN d ELSE ProcessCommand(v[i - 1], m, units[i])
           Passing(v) == v = [i \in 0 .. n |-> Step(v, i)]
           v == CHOOSE v : Passing(v)
           g == [p \in (1 .. n) \X S |-> ProcessCommand(p[2], m, units[p[1]])]
<1>1. Parse(d, m, units) = EndMessage(v[n], m)
  BY DEF Parse
<1>2. n \in Nat /\ d \in S
  BY DEF Sound
<1>3. \A i \in 1 .. n, e \in S : ProcessCommand(e, m, units[i]) \in S
  <2> SUFFICES ASSUME NEW i \in 1 .. n, NEW e \in S
               PROVE  ProcessCommand(e, m, units[i]) \in S
    OBVIOUS
  <2> DEFINE f == ProcessCommand(e, m, units[i])
  <2>1. units[i] \in Units /\ << >> \in Fragments
    BY ElementOfSeq, JoinNothing, OwnTexts
  <2>2. Sound(f)
    BY <2>1, UnitDone
  <2> HIDE DEF f
  <2>3. f \in S
    BY <2>2 DEF Sound
  <2> QED
    BY <2>3 DEF f
<1>4. g \in [(1 .. n) \X S -> S]
  <2> HIDE DEF S
  <2> QED
    BY <1>3
<1>5. \A i \in 1 .. n, e \in S : g[<<i, e>>] = ProcessCommand(e, m, units[i])
  OBVIOUS
<1> HIDE DEF g, v, S
<1>6. PICK f : Recurs(f, d, g, n, S)
  <2>1. Goes(g, n, S)
    BY <1>4 DEF Goes
  <2> HIDE DEF n
  <2> QED
    BY <1>2, <2>1, Recursion
<1>7. \A i \in 0 .. n : f[i] = Step(f, i)
  <2> SUFFICES ASSUME NEW i \in 0 .. n
               PROVE  f[i] = Step(f, i)
    OBVIOUS
  <2>1. CASE i = 0
    BY <1>6, <2>1 DEF Recurs
  <2>2. CASE i # 0
    <3>1. i \in 1 .. n /\ i - 1 \in 0 .. n
      BY <1>2, <2>2
    <3>2. f[i - 1] \in S
      BY <1>6, <3>1 DEF Recurs
    <3>3. f[i] = ProcessCommand(f[i - 1], m, units[i])
      BY <1>5, <1>6, <3>1, <3>2 DEF Recurs
    <3> QED
      BY <2>2, <3>3
  <2> QED
    BY <2>1, <2>2
<1>8. Passing(f)
  <2> HIDE DEF Step
  <2>1. f = [i \in 0 .. n |-> f[i]]
    BY <1>6 DEF Recurs
  <2>2. [i \in 0 .. n |-> f[i]] = [i \in 0 .. n |-> Step(f, i)]
    BY <1>7
  <2> QED
    BY <2>1, <2>2
<1>9. Passing(v)
  <2> HIDE DEF Passing
  <2> QED
    BY <1>8 DEF v
<1>10. v[0] = d
  <2>1. 0 \in 0 .. n
    BY <1>2
  <2> QED
    BY <1>9, <2>1
<1>11. ASSUME NEW i \in 1 .. n
       PROVE  v[i] = ProcessCommand(v[i - 1], m, units[i])
  <2>1. i \in 0 .. n /\ i # 0
    BY <1>2
  <2> QED
    BY <1>9, <2>1
<1> QED
  BY <1>1, <1>10, <1>11

LEMMA IdleReached ==
    ASSUME Types, NEW units
    PROVE  Reached(Idle, << >>, units, 0) /\ Sound(Idle)
<1>1. /\ registers \in Registers /\ buffer \in Fragments /\ Len(buffer) < BufferSize
      /\ rd_idx \in 0 .. Len(buffer)
  BY DEF Types
<1>2. /\ NoCall(registers) \in Outcome /\ NoCall(registers).regs = registers
  BY <1>1, NoCallOutcome
<1>3. rd_idx \in Nat /\ rd_idx <= Len(buffer)
  BY <1>1
<1>4. /\ Idle \in Devices /\ Idle.status = NoCall(registers) /\ Idle.text = buffer
      /\ Idle.rd = rd_idx /\ Idle.first_output = TRUE /\ Idle.interrupted = FALSE
      /\ Idle.mishap = FALSE
  BY <1>1, <1>2, <1>3 DEF Idle, Devices
<1>5. Mav(Idle) <=> Available(registers)
  BY <1>2, <1>4 DEF Mav
<1>6. Sound(Idle)
  BY <1>1, <1>2, <1>3, <1>4, <1>5 DEF Sound
<1>7. Cut(buffer \o << >>) = buffer
  <2>1. buffer \o << >> = buffer
    BY <1>1, JoinNothing
  <2> QED
    BY <1>1, <2>1, CutFacts
<1>8. Wrote(Idle, << >>)
  BY <1>4, <1>7 DEF Wrote, Base
<1>9. ~Answered(units, 0)
  BY DEF Answered
<1> QED
  BY <1>4, <1>6, <1>8, <1>9 DEF Reached

(* All units of a message, up to writeNewLine. *)
LEMMA UnitsReached ==
    ASSUME Types, NEW m \in Nat, NEW units \in Seq(Units)
    PROVE  \E d, t : /\ t \in Own(m)
                     /\ Reached(d, t, units, Len(units))
                     /\ Parse(Idle, m, units) = EndMessage(d, m)
                     /\ AnswerTo(m, units) = t \o <<<<m, NewLine>>>>
<1> DEFINE n == Len(units)
<1>1. buffer \in Fragments /\ n \in Nat
  BY DEF Types
<1>2. Reached(Idle, << >>, units, 0) /\ Sound(Idle)
  BY IdleReached
<1>3. PICK v : /\ v[0] = Idle
               /\ \A i \in 1 .. n : v[i] = ProcessCommand(v[i - 1], m, units[i])
               /\ Parse(Idle, m, units) = EndMessage(v[n], m)
  BY <1>1, <1>2, UnitsInTurn
<1>4. PICK t : Answers(t, m, units) /\ AnswerTo(m, units) = t[n] \o <<<<m, NewLine>>>>
  BY AnswersInTurn
<1> DEFINE R == {i \in 0 .. n : Reached(v[i], t[i], units, i)}
<1>5. 0 \in R
  BY <1>1, <1>2, <1>3, <1>4 DEF Answers
<1>6. ASSUME NEW i \in 0 .. n - 1, i \in R
      PROVE  i + 1 \in R
  <2>1. i + 1 \in 1 .. n /\ (i + 1) - 1 = i /\ i + 1 \in 0 .. n
    BY <1>1
  <2>2. v[i + 1] = ProcessCommand(v[i], m, units[i + 1])
    BY <1>3, <2>1
  <2>3. t[i] \in Own(m) /\ t[i + 1] = Further(t[i], m, units, i + 1)
    BY <1>4, <2>1 DEF Answers
  <2>4. Reached(v[i], t[i], units, (i + 1) - 1)
    BY <1>6, <2>1
  <2> HIDE DEF n
  <2>5. Reached(ProcessCommand(v[i], m, units[i + 1]), Further(t[i], m, units, i + 1), units, i + 1)
    BY <1>1, <2>1, <2>3, <2>4, ReachedNext DEF n
  <2> QED
    BY <2>1, <2>2, <2>3, <2>5
<1> HIDE DEF R
<1>7. 0 .. n \subseteq R
  BY <1>1, <1>5, <1>6, UpTo
<1>8. Reached(v[n], t[n], units, n) /\ t[n] \in Own(m)
  <2>1. n \in 0 .. n
    BY <1>1
  <2> QED
    BY <1>4, <1>7, <2>1 DEF R, Answers
<1> QED
  BY <1>3, <1>4, <1>8

(* MAV raised in a status byte that the controller has asked for is told.  *)
Told(control_) == \E i \in DOMAIN control_ : {STB_MAV, STB_SRQ} \subseteq control_[i]

(* A message that answered ends with a new line, and the answer is         *)
(* announced.                                                              *)
LEMMA AnswerFlushed ==
    ASSUME NEW d, Sound(d), ~d.first_output, NEW m \in Nat, buffer \in Fragments
    PROVE  LET e == EndMessage(d, m)
           IN  /\ e \in Devices /\ Mav(e) /\ e.rd = 0
               /\ e.text # << >> /\ Len(e.text) < BufferSize
               /\ e.first_output = d.first_output /\ e.mishap = d.mishap
               /\ e.interrupted <=> Available(registers)
               /\ STB_MAV \in registers["SRE"] => Told(e.status.control)
               /\ \A t \in Fragments :
                    Wrote(d, t) => e.text = Cut(Base(e) \o (t \o <<<<m, NewLine>>>>))
<1> DEFINE x == <<<<m, NewLine>>>>
           f == Write(d, x)
           o == SetBits(f.status, "STB", {STB_MAV})
           e == EndMessage(d, m)
<1>1. x \in Fragments /\ x # << >>
  BY OwnTexts
<1>2. e = Flush(f)
  BY DEF EndMessage
<1> HIDE DEF x
<1>3. /\ Sound(f) /\ ~Mav(f)
      /\ f.first_output = d.first_output /\ f.mishap = d.mishap
      /\ Mav(d) => f.interrupted
      /\ ~Mav(d) => f.interrupted = d.interrupted
      /\ \A t \in Fragments : Wrote(d, t) => Wrote(f, t \o x)
      /\ f.text # << >>
  BY <1>1, WriteSound
<1> HIDE DEF f
<1>4. f \in Devices /\ f.status \in Outcome /\ f.status.regs \in Registers
  BY <1>3 DEF Sound, Devices, Outcome
<1>5. {STB_MAV} \in SUBSET Bits
  BY DEF Bits, STB_MAV
<1>6. o \in Outcome /\ Available(o.regs)
  BY <1>4, <1>5, BitsWritten
<1>7. STB_MAV \in registers["SRE"] => Told(o.control)
  <2> DEFINE val == f.status.regs["STB"] \cup {STB_MAV}
  <2>1. val \in SUBSET Bits
    <3>1. "STB" \in RegName
      BY DEF RegName
    <3> QED
      BY <1>4, <1>5, <3>1 DEF Registers
  <2>2. STB_MAV \in registers["SRE"]
          => STB_MAV \in (val \ f.status.regs["STB"]) \cap f.status.regs["SRE"]
    BY <1>3 DEF Sound, Mav, Available
  <2>3. o = AndThen(f.status, "STB", val)
    BY DEF SetBits
  <2> HIDE DEF val, o
  <2> QED
    BY <1>4, <2>1, <2>2, <2>3, RegisterWritten DEF Told
<1>8. e = [f EXCEPT !.status = o, !.rd = 0]
  BY <1>2 DEF Flush
<1> HIDE DEF o, e
<1>9. /\ e \in Devices /\ e.status = o /\ e.rd = 0 /\ e.text = f.text /\ Unmoved(f, e)
  BY <1>4, <1>6, <1>8 DEF Devices, Unmoved
<1>10. e.interrupted <=> Available(registers)
  BY <1>3, <1>9 DEF Sound, Unmoved
<1>11. ASSUME NEW t \in Fragments, Wrote(d, t)
       PROVE  e.text = Cut(Base(e) \o (t \o x))
  BY <1>3, <1>9, <1>11 DEF Wrote, Base, Unmoved
<1>12. Mav(e) /\ Len(e.text) < BufferSize
  BY <1>3, <1>6, <1>9 DEF Mav, Sound
<1> QED
  BY <1>3, <1>7, <1>9, <1>10, <1>11, <1>12 DEF Unmoved, x, e

(***************************************************************************)
(* The invariant                                                           *)
(***************************************************************************)

LEMMA InitIInv == Init => IInv
<1> SUFFICES ASSUME Init
             PROVE  IInv
  OBVIOUS
<1>1. PICK sre \in Enabled : registers = [AllZero EXCEPT !["SRE"] = sre]
  BY DEF Init
<1>2. sre \in SUBSET Bits /\ BufferSize > 0 /\ MaxMessages \in Nat /\ BufferSize \in Nat
  BY Vxi11Assumption
<1>3. AllZero \in Registers
  BY DEF AllZero, Registers
<1>4. registers \in Registers /\ registers["STB"] = {}
  BY <1>1, <1>2, <1>3 DEF Registers, RegName, AllZero
<1>5. ~Available(registers)
  BY <1>4 DEF Available
<1>6. /\ buffer = << >> /\ rd_idx = 0 /\ sent = << >>
      /\ fate = [flushed |-> 0, read |-> 0, interrupted |-> 0]
  BY DEF Init
<1>7. << >> \in Seq(Messages) /\ << >> \in Fragments /\ Len(<< >>) = 0
  BY DEF Fragments
<1>8. Types
  BY <1>2, <1>4, <1>6, <1>7 DEF Types
<1>9. MavMeansText /\ EveryAnswerAccounted /\ Kept
  BY <1>5, <1>6 DEF MavMeansText, EveryAnswerAccounted, Kept
<1> QED
  BY <1>8, <1>9 DEF IInv

LEMMA Sent ==
    ASSUME Types, NEW units \in Messages, sent' = Append(sent, units), Len(sent) < MaxMessages
    PROVE  /\ sent' \in Seq(Messages) /\ Len(sent') = Len(sent) + 1
           /\ Len(sent) \in Nat /\ Len(sent') <= MaxMessages
           /\ sent'[Len(sent) + 1] = units
           /\ \A i \in 1 .. Len(sent) : sent'[i] = sent[i]
<1>1. sent \in Seq(Messages) /\ MaxMessages \in Nat
  BY Vxi11Assumption DEF Types
<1> QED
  BY <1>1, AppendProperties

(* What a step has to tell. *)
Announces ==
    /\ (/\ Len(sent') > Len(sent) /\ ~Available(registers)
        /\ \E i \in DOMAIN Last(sent') : Last(sent')[i].query
        /\ \A i \in DOMAIN Last(sent') : Last(sent')[i].ok)
           => Available(registers')
    /\ (fate'.flushed > fate.flushed /\ STB_MAV \in registers["SRE"])
           => \E i \in DOMAIN control' : {STB_MAV, STB_SRQ} \subseteq control'[i]

(* A message counts in fate as flushed, and perhaps as an interruption.    *)
LEMMA Counted ==
    ASSUME NEW f \in [flushed : Nat, read : Nat, interrupted : Nat], NEW a, NEW b,
           NEW g, g = [f EXCEPT !.flushed = IF a THEN @ ELSE @ + 1,
                                !.interrupted = IF b THEN @ + 1 ELSE @]
    PROVE  /\ g \in [flushed : Nat, read : Nat, interrupted : Nat]
           /\ g.flushed = (IF a THEN f.flushed ELSE f.flushed + 1)
           /\ g.read = f.read
           /\ g.interrupted = (IF b THEN f.interrupted + 1 ELSE f.interrupted)
<1> DEFINE flushed == IF a THEN f.flushed ELSE f.flushed + 1
           interrupted == IF b THEN f.interrupted + 1 ELSE f.interrupted
<1>1. flushed \in Nat /\ interrupted \in Nat
  OBVIOUS
<1>2. g = [f EXCEPT !.flushed = flushed, !.interrupted = interrupted]
  BY Zenon
<1> HIDE DEF flushed, interrupted
<1>3. /\ g \in [flushed : Nat, read : Nat, interrupted : Nat]
      /\ g.flushed = flushed /\ g.read = f.read /\ g.interrupted = interrupted
  BY <1>1, <1>2
<1> QED
  BY <1>3 DEF flushed, interrupted

(* A message adds its answer to those that are accounted for, and takes    *)
(* away the one it interrupts.                                             *)
LEMMA MessageStep ==
    ASSUME IInv, NEW units \in Messages, DeviceWrite(units)
    PROVE  IInv' /\ Announces
<1> DEFINE m == Len(sent) + 1
           n == Len(units)
           e == Parse(Idle, m, units)
<1>1. Types /\ units \in Seq(Units)
  BY Vxi11Assumption DEF IInv
<1>2. /\ registers \in Registers /\ buffer \in Fragments /\ rd_idx \in 0 .. Len(buffer)
      /\ fate \in [flushed : Nat, read : Nat, interrupted : Nat] /\ fate.flushed <= Len(sent)
      /\ Len(buffer) \in Nat
  BY <1>1 DEF Types, Fragments
<1>3. /\ registers' = e.status.regs /\ control' = e.status.control
      /\ buffer' = e.text /\ rd_idx' = e.rd
      /\ stray' = ((stray /\ ~e.interrupted) \/ e.mishap)
      /\ fate' = [fate EXCEPT !.flushed = IF e.first_output THEN @ ELSE @ + 1,
                              !.interrupted = IF e.interrupted THEN @ + 1 ELSE @]
      /\ sent' = Append(sent, units) /\ Len(sent) < MaxMessages
  BY DEF DeviceWrite
<1>4. /\ sent' \in Seq(Messages) /\ Len(sent') = m /\ Len(sent) \in Nat
      /\ Len(sent') <= MaxMessages /\ sent'[m] = units
      /\ \A i \in 1 .. Len(sent) : sent'[i] = sent[i]
  BY <1>1, <1>3, Sent
<1>5. m \in Nat
  BY <1>4
<1> HIDE DEF m, e
<1>6. PICK d, t : /\ t \in Own(m)
                  /\ Reached(d, t, units, n)
                  /\ e = EndMessage(d, m)
                  /\ AnswerTo(m, units) = t \o <<<<m, NewLine>>>>
  BY <1>1, <1>5, UnitsReached DEF e
<1>7. Sound(d) /\ d \in Devices /\ t \in Fragments
  BY <1>5, <1>6, OwnTexts DEF Reached, Sound
<1>8. Last(sent') = units
  BY <1>4 DEF Last
<1>9. /\ fate' \in [flushed : Nat, read : Nat, interrupted : Nat]
      /\ fate'.flushed = (IF e.first_output THEN fate.flushed ELSE fate.flushed + 1)
      /\ fate'.read = fate.read
      /\ fate'.interrupted = (IF e.interrupted THEN fate.interrupted + 1 ELSE fate.interrupted)
  BY <1>2, <1>3, Counted
<1>10. CASE d.first_output
  <2>1. e = d
    BY <1>6, <1>10 DEF EndMessage
  <2>2. /\ registers' = d.status.regs /\ buffer' = d.text /\ rd_idx' = d.rd
        /\ registers' \in Registers /\ buffer' \in Fragments /\ rd_idx' \in Nat
        /\ Len(buffer') < BufferSize /\ rd_idx' <= Len(buffer')
        /\ Available(registers') <=> Mav(d)
    BY <1>3, <1>7, <2>1 DEF Sound, Devices, Outcome, Mav
  <2>3. /\ fate' \in [flushed : Nat, read : Nat, interrupted : Nat]
        /\ fate'.flushed = fate.flushed /\ fate'.read = fate.read
        /\ fate'.interrupted = fate.interrupted + (IF d.interrupted THEN 1 ELSE 0)
    BY <1>2, <1>9, <1>10, <2>1
  <2>4. Types'
    <3>1. rd_idx' \in 0 .. Len(buffer')
      BY <2>2 DEF Fragments
    <3>2. fate'.flushed <= Len(sent')
      BY <1>2, <1>4, <2>3 DEF m
    <3> QED
      BY <1>4, <2>2, <2>3, <3>1, <3>2 DEF Types
  <2>5. MavMeansText'
    BY <2>2, <1>7 DEF IInv, MavMeansText, Sound
  <2>6. EveryAnswerAccounted'
    <3>1. /\ Available(registers') <=> Available(registers) /\ ~d.interrupted
          /\ d.interrupted => Available(registers)
      BY <1>7, <2>2 DEF Sound
    <3>2. fate.flushed = fate.read + fate.interrupted + (IF Available(registers) THEN 1 ELSE 0)
      BY DEF IInv, EveryAnswerAccounted
    <3> QED
      BY <1>2, <2>3, <3>1, <3>2 DEF EveryAnswerAccounted
  <2>7. ASSUME ~stray'
        PROVE  IF Available(registers')
                 THEN /\ buffer' # << >> /\ buffer'[1][1] \in 1 .. Len(sent')
                      /\ buffer' = Cut(AnswerOf(buffer[1][1])')
                 ELSE buffer' = << >>
    <3>1. ~d.mishap /\ t = << >> /\ ~d.interrupted /\ Wrote(d, t) /\ ~stray
      BY <1>3, <1>6, <1>10, <2>1, <2>7 DEF Reached
    <3>2. CASE Mav(d)
      <4>1. Available(registers) /\ buffer' = buffer
        BY <1>7, <2>2, <3>2 DEF Sound
      <4>2. /\ buffer # << >> /\ buffer[1][1] \in 1 .. Len(sent)
            /\ buffer = Cut(AnswerOf(buffer[1][1]))
        BY <3>1, <4>1 DEF IInv, Kept
      <4>3. buffer'[1][1] = buffer[1][1] /\ buffer[1][1] \in 1 .. Len(sent')
        BY <1>4, <4>1, <4>2 DEF m
      <4>4. AnswerOf(buffer[1][1])' = AnswerOf(buffer[1][1])
        BY <1>4, <4>1, <4>2 DEF AnswerOf
      <4> QED
        BY <2>2, <3>2, <4>1, <4>2, <4>3, <4>4
    <3>3. CASE ~Mav(d)
      <4>1. ~Available(registers) /\ buffer = << >>
        BY <1>7, <3>1, <3>3 DEF Sound, IInv, Kept
      <4>2. d.text = Cut(<< >> \o << >>)
        BY <3>1, <3>3, <4>1 DEF Wrote, Base
      <4>3. << >> \o << >> = << >> /\ << >> \in Fragments /\ Len(<< >>) < BufferSize
        BY JoinNothing, Vxi11Assumption DEF Fragments
      <4>4. d.text = << >>
        BY <4>2, <4>3, CutFacts
      <4> QED
        BY <2>2, <3>3, <4>4
    <3> QED
      BY <3>2, <3>3
  <2>8. Kept'
    BY <2>7 DEF Kept
  <2>9. Announces
    <3>1. ~Available(registers) => ~Answered(units, n)
      BY <1>6, <1>10 DEF Reached
    <3>2. ~Available(registers) /\ (\A i \in DOMAIN units : units[i].ok)
            => ~\E i \in DOMAIN units : units[i].query
      BY <1>1, <3>1 DEF Answered
    <3>3. ~(fate'.flushed > fate.flushed)
      BY <1>2, <2>3
    <3> QED
      BY <1>8, <3>2, <3>3 DEF Announces
  <2> QED
    BY <2>4, <2>5, <2>6, <2>8, <2>9 DEF IInv
<1>11. CASE ~d.first_output
  <2> DEFINE x == t \o <<<<m, NewLine>>>>
  <2>1. /\ e \in Devices /\ Mav(e) /\ e.rd = 0
        /\ e.text # << >> /\ Len(e.text) < BufferSize
        /\ e.first_output = FALSE /\ e.mishap = d.mishap
        /\ e.interrupted <=> Available(registers)
        /\ STB_MAV \in registers["SRE"] => Told(e.status.control)
        /\ Wrote(d, t) => e.text = Cut(Base(e) \o x)
    BY <1>2, <1>5, <1>6, <1>7, <1>11, AnswerFlushed
  <2>2. x \in Own(m) /\ x # << >> /\ x \in Fragments
    <3>1. x \in Own(m) /\ <<<<m, NewLine>>>> \in Own(m)
      BY <1>5, <1>6, OwnTexts
    <3>2. x \in Fragments /\ <<<<m, NewLine>>>> \in Fragments
      BY <1>5, <3>1, OwnTexts
    <3>3. Len(x) = Len(t) + 1 /\ Len(t) \in Nat
      BY <1>7, <3>2, JoinTexts DEF Fragments
    <3>4. x # << >>
      BY <3>3
    <3> QED
      BY <3>1, <3>2, <3>4
  <2> HIDE DEF x
  <2>3. /\ registers' \in Registers /\ buffer' \in Fragments /\ Len(buffer') \in Nat
        /\ Available(registers')
    BY <1>3, <2>1 DEF Devices, Outcome, Mav, Fragments
  <2>4. /\ fate' \in [flushed : Nat, read : Nat, interrupted : Nat]
        /\ fate'.flushed = fate.flushed + 1 /\ fate'.read = fate.read
        /\ fate'.interrupted = fate.interrupted + (IF Available(registers) THEN 1 ELSE 0)
    BY <1>2, <1>9, <2>1
  <2>5. buffer' # << >> /\ Len(buffer') > 0
    BY <1>3, <2>1, <2>3, EmptySeq DEF Fragments
  <2>6. Types'
    <3>1. rd_idx' \in 0 .. Len(buffer')
      BY <1>3, <2>1, <2>3
    <3>2. fate'.flushed <= Len(sent')
      BY <1>2, <1>4, <2>4 DEF m
    <3> QED
      BY <1>3, <1>4, <2>1, <2>3, <2>4, <3>1, <3>2 DEF Types
  <2>7. MavMeansText'
    BY <1>3, <2>1, <2>5 DEF MavMeansText
  <2>8. EveryAnswerAccounted'
    <3>1. fate.flushed = fate.read + fate.interrupted + (IF Available(registers) THEN 1 ELSE 0)
      BY DEF IInv, EveryAnswerAccounted
    <3> QED
      BY <1>2, <2>3, <2>4, <3>1 DEF EveryAnswerAccounted
  <2>9. ASSUME ~stray'
        PROVE  /\ buffer'[1][1] \in 1 .. Len(sent')
               /\ buffer' = Cut(AnswerTo(buffer'[1][1], sent'[buffer'[1][1]]))
    <3>1. ~d.mishap /\ (~stray \/ e.interrupted) /\ Wrote(d, t)
      BY <1>3, <1>6, <2>1, <2>9 DEF Reached
    <3>2. Base(e) = << >>
      <4>1. CASE e.interrupted
        BY <4>1 DEF Base
      <4>2. CASE ~e.interrupted
        <5>1. ~Available(registers) /\ ~stray
          BY <2>1, <3>1, <4>2
        <5> QED
          BY <4>2, <5>1 DEF Base, IInv, Kept
      <4> QED
        BY <4>1, <4>2
    <3>3. buffer' = Cut(x)
      <4>1. << >> \o x = x
        BY <2>2, JoinNothing
      <4> QED
        BY <1>3, <2>1, <3>1, <3>2, <4>1
    <3>4. buffer'[1] = x[1]
      BY <2>2, <2>3, <2>5, <3>3, CutFacts
    <3>5. buffer'[1][1] = m
      BY <1>5, <2>2, <3>4, OwnTexts
    <3>6. m \in 1 .. Len(sent')
      BY <1>4 DEF m
    <3> QED
      BY <1>4, <1>6, <3>3, <3>5, <3>6 DEF x
  <2>10. Kept'
    BY <2>3, <2>5, <2>9 DEF Kept, AnswerOf
  <2>11. Announces
    BY <1>3, <2>1, <2>3 DEF Announces, Told
  <2> QED
    BY <2>6, <2>7, <2>8, <2>10, <2>11 DEF IInv
<1> QED
  BY <1>10, <1>11

(* Reading takes pieces off the answer that waits; with the last piece MAV *)
(* is cleared.                                                             *)
LEMMA ReadStep ==
    ASSUME IInv, NEW requestSize \in RequestSizes, DeviceRead(requestSize)
    PROVE  IInv' /\ Announces
<1> DEFINE left == SubSeq(buffer, rd_idx + 1, Len(buffer))
           to_copy == IF requestSize > Len(left) THEN Len(left) ELSE requestSize
           end == to_copy = Len(left)
           cleared == TakenCleared(registers)
<1>1. /\ registers \in Registers /\ buffer \in Fragments /\ rd_idx \in 0 .. Len(buffer)
      /\ fate \in [flushed : Nat, read : Nat, interrupted : Nat] /\ fate.flushed <= Len(sent)
      /\ Len(buffer) \in Nat /\ Len(buffer) < BufferSize
      /\ requestSize \in Nat /\ requestSize > 0 /\ BufferSize > 0
  BY Vxi11Assumption DEF IInv, Types, Fragments
<1>2. /\ Available(registers)
      /\ buffer' = IF end THEN << >> ELSE buffer
      /\ rd_idx' = IF end THEN 0 ELSE rd_idx + to_copy
      /\ registers' = IF end THEN cleared.regs ELSE registers
      /\ stray' = (stray /\ ~end)
      /\ fate' = [fate EXCEPT !.read = IF end THEN @ + 1 ELSE @]
      /\ sent' = sent
  BY DEF DeviceRead
<1>3. Len(left) = Len(buffer) - rd_idx
  <2>1. \A i \in rd_idx + 1 .. Len(buffer) : buffer[i] \in Nat \X Int
    <3>1. rd_idx \in Nat
      BY <1>1
    <3>2. \A i \in rd_idx + 1 .. Len(buffer) : i \in 1 .. Len(buffer)
      BY <1>1, <3>1
    <3> QED
      BY <1>1, <3>2, ElementOfSeq DEF Fragments
  <2>2. /\ rd_idx + 1 \in Int /\ Len(buffer) \in Int /\ rd_idx <= Len(buffer)
    BY <1>1
  <2>3. Len(left) = IF rd_idx + 1 <= Len(buffer) THEN Len(buffer) - (rd_idx + 1) + 1 ELSE 0
    BY <2>1, <2>2, SubSeqProperties
  <2> HIDE DEF left
  <2> QED
    BY <1>1, <2>2, <2>3
<1> HIDE DEF left
<1>4. to_copy \in 0 .. Len(left) /\ (~end => rd_idx + to_copy < Len(buffer))
  BY <1>1, <1>3
<1> HIDE DEF to_copy
<1>5. cleared.regs \in Registers /\ ~Available(cleared.regs)
  <2>1. NoCall(registers) \in Outcome /\ {STB_MAV} \in SUBSET Bits
    BY <1>1, NoCallOutcome DEF Bits, STB_MAV
  <2>2. cleared \in Outcome /\ ~Available(cleared.regs)
    BY <2>1, BitsWritten DEF TakenCleared
  <2> QED
    BY <2>2 DEF Outcome
<1> HIDE DEF cleared, end
<1>6. /\ fate' \in [flushed : Nat, read : Nat, interrupted : Nat]
      /\ fate'.flushed = fate.flushed /\ fate'.interrupted = fate.interrupted
      /\ fate'.read = fate.read + (IF end THEN 1 ELSE 0)
  <2> DEFINE more == fate.read + (IF end THEN 1 ELSE 0)
  <2>1. more \in Nat
    BY <1>1
  <2>2. fate' = [fate EXCEPT !.read = more]
    BY <1>1, <1>2
  <2> HIDE DEF more
  <2>3. /\ fate' \in [flushed : Nat, read : Nat, interrupted : Nat]
        /\ fate'.flushed = fate.flushed /\ fate'.interrupted = fate.interrupted
        /\ fate'.read = more
    BY <1>1, <2>1, <2>2
  <2> QED
    BY <2>3 DEF more
<1>7. Types'
  <2>1. registers' \in Registers
    BY <1>1, <1>2, <1>5
  <2>2. buffer' \in Fragments /\ Len(buffer') < BufferSize /\ Len(<< >>) = 0
    BY <1>1, <1>2 DEF Fragments
  <2>3. rd_idx' \in 0 .. Len(buffer')
    BY <1>1, <1>2, <1>3, <1>4, <2>2
  <2> QED
    BY <1>2, <1>6, <2>1, <2>2, <2>3 DEF IInv, Types
<1>8. Available(registers') <=> ~end
  BY <1>2, <1>5
<1>9. MavMeansText'
  BY <1>2, <1>4, <1>8 DEF MavMeansText
<1>10. EveryAnswerAccounted'
  <2>1. fate.flushed = fate.read + fate.interrupted + 1
    BY <1>2 DEF IInv, EveryAnswerAccounted
  <2> QED
    BY <1>1, <1>6, <1>8, <2>1 DEF EveryAnswerAccounted
<1>11. Kept'
  BY <1>2, <1>8 DEF IInv, Kept, AnswerOf
<1>12. Announces
  <2>1. ~(fate'.flushed > fate.flushed)
    BY <1>1, <1>6
  <2>2. ~(Len(sent') > Len(sent))
    <3>1. Len(sent) \in Nat
      BY DEF IInv, Types
    <3> QED
      BY <1>2, <3>1
  <2> QED
    BY <2>1, <2>2 DEF Announces
<1> QED
  BY <1>7, <1>9, <1>10, <1>11, <1>12 DEF IInv

LEMMA StepIInv == IInv /\ [Next]_deviceVars => IInv' /\ [Announces]_deviceVars
<1> SUFFICES ASSUME IInv, [Next]_deviceVars
             PROVE  IInv' /\ [Announces]_deviceVars
  OBVIOUS
<1>1. ASSUME NEW units \in Messages, DeviceWrite(units)
      PROVE  IInv' /\ Announces
  BY <1>1, MessageStep
<1>2. ASSUME NEW requestSize \in RequestSizes, DeviceRead(requestSize)
      PROVE  IInv' /\ Announces
  BY <1>2, ReadStep
<1>3. CASE UNCHANGED deviceVars
  BY <1>3 DEF deviceVars, IInv, Types, MavMeansText, EveryAnswerAccounted, Kept, AnswerOf
<1> QED
  BY <1>1, <1>2, <1>3 DEF Next

LEMMA Invariance == Spec => []IInv
BY InitIInv, StepIInv, PTL DEF Spec

(***************************************************************************)
(* The theorems                                                            *)
(***************************************************************************)

(* The registers are registers, what SCPI_Write puts into the buffer       *)
(* leaves room for the zero behind it, device_read never reads beyond it,  *)
(* and no more answers are flushed than messages came.                     *)
THEOREM TypeCorrect == Spec => []Vxi11TypeOK
<1>1. IInv => Vxi11TypeOK
  BY DEF IInv, Types, Vxi11TypeOK
<1> QED
  BY <1>1, Invariance, PTL

(* An answer that waits is announced by MAV and can be read to its end; it *)
(* is read or interrupted once, and is the answer to one message, unless a *)
(* failed query left text before it: for every size of the buffer, every   *)
(* message and every order of writes and reads.                            *)
THEOREM AnswersAreWhole == Spec => []AnswersWhole
<1>1. IInv => AnswersWhole
  BY DEF IInv, Kept, AnswerIntact, AnswersWhole
<1> QED
  BY <1>1, Invariance, PTL

(* A message whose queries succeed leaves its answer to be read, and every *)
(* answer that SCPI_Flush announces requests service if MAV is enabled.    *)
THEOREM AnswersAreAnnounced == Spec => AnswersAnnounced
BY Invariance, StepIInv, PTL DEF Spec, AnswersAnnounced, Announces

=============================================================================
