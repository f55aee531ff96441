------------------------ MODULE StatusReportingProofs ------------------------
(***************************************************************************)
(* Proofs about StatusReporting, for every queue size, every set of error  *)
(* codes and every value written to a register.                            *)
(***************************************************************************)
EXTENDS StatusReporting, SequenceTheorems, TLAPS

(***************************************************************************)
(* The ring buffer: what its operations do to its indices and to the queue *)
(* it stands for.                                                          *)
(***************************************************************************)

(* Indices advance by at most one lap at a time, so "% size" either leaves *)
(* them alone or takes one lap off.                                        *)
LEMMA ModWrap ==
  ASSUME NEW x \in 0 .. 2 * Size - 1
  PROVE  x % Size = IF x < Size THEN x ELSE x - Size
BY SizeAssumption

(* A well formed fifo whose indices agree. *)
Good(Element, f) == f \in Fifos(Element) /\ IndicesAgree(f)

(* The fields of a well formed fifo, and the contents as a sequence.       *)
LEMMA FifoFields ==
  ASSUME NEW Element, NEW f \in Fifos(Element)
  PROVE  /\ f = [data |-> f.data, wr |-> f.wr, rd |-> f.rd, count |-> f.count]
         /\ f.data \in [Slots -> Element]
         /\ f.wr \in 0 .. Size - 1
         /\ f.rd \in 0 .. Size - 1
         /\ f.count \in 0 .. Size
BY DEF Fifos, Slots

LEMMA ContentsSeq ==
  ASSUME NEW Element, NEW f \in Fifos(Element)
  PROVE  /\ Contents(f) \in Seq(Element)
         /\ Len(Contents(f)) = f.count
<1>1. ASSUME NEW i \in 1 .. f.count
      PROVE  f.data[(f.rd + i - 1) % Size] \in Element
  <2>1. f.rd + i - 1 \in 0 .. 2 * Size - 1
    BY FifoFields, SizeAssumption
  <2>2. (f.rd + i - 1) % Size \in Slots
    BY <2>1, ModWrap, SizeAssumption DEF Slots
  <2> QED
    BY <2>2, FifoFields
<1>2. f.count \in Nat
  BY FifoFields, SizeAssumption
<1>3. Contents(f) \in [1 .. f.count -> Element]
  BY <1>1 DEF Contents
<1> QED
  BY <1>2, <1>3

LEMMA FifoInitGood ==
  ASSUME NEW Element, NEW array \in [Slots -> Element]
  PROVE  /\ Good(Element, FifoInit(array))
         /\ Contents(FifoInit(array)) = << >>
<1>1. 0 \in 0 .. 2 * Size - 1
  BY SizeAssumption
<1>2. Good(Element, FifoInit(array))
  BY <1>1, ModWrap, SizeAssumption DEF Good, FifoInit, Fifos, Slots, IndicesAgree
<1>3. Contents(FifoInit(array)) = << >>
  BY DEF Contents, FifoInit
<1> QED
  BY <1>2, <1>3

LEMMA FifoClearGood ==
  ASSUME NEW Element, NEW f, Good(Element, f)
  PROVE  /\ Good(Element, FifoClear(f))
         /\ IsEmpty(FifoClear(f))
         /\ Contents(FifoClear(f)) = << >>
<1>1. 0 \in 0 .. 2 * Size - 1
  BY SizeAssumption
<1>2. Good(Element, FifoClear(f))
  BY <1>1, ModWrap, FifoFields, SizeAssumption
     DEF Good, FifoClear, Fifos, Slots, IndicesAgree
<1>3. Contents(FifoClear(f)) = << >>
  BY DEF Contents, FifoClear
<1> QED
  BY <1>2, <1>3 DEF IsEmpty, FifoClear

(* fifo_add on a fifo with room appends.                                   *)
LEMMA FifoAddGood ==
  ASSUME NEW Element, NEW f, Good(Element, f), ~ IsFull(f), NEW v \in Element
  PROVE  /\ Good(Element, FifoAdd(f, v))
         /\ FifoAdd(f, v).count = f.count + 1
         /\ Contents(FifoAdd(f, v)) = Append(Contents(f), v)
<1> DEFINE g == FifoAdd(f, v)
<1> f \in Fifos(Element) /\ f.count < Size
  BY FifoFields, SizeAssumption DEF Good, IsFull
<1>1. /\ f.wr + 1 \in 0 .. 2 * Size - 1
      /\ f.rd + f.count \in 0 .. 2 * Size - 1
      /\ f.rd + f.count + 1 \in 0 .. 2 * Size - 1
  BY FifoFields, SizeAssumption
<1>2. g.data = [f.data EXCEPT ![f.wr] = v] /\ g.rd = f.rd /\ g.count = f.count + 1
      /\ g.wr = (f.wr + 1) % Size
      /\ g = [data |-> g.data, wr |-> g.wr, rd |-> g.rd, count |-> g.count]
  BY DEF FifoAdd, IsFull
<1>3. g \in Fifos(Element)
  <2>1. g.wr \in Slots
    BY <1>1, <1>2, ModWrap, SizeAssumption DEF Slots
  <2>2. g.data \in [Slots -> Element] /\ g.rd \in Slots /\ g.count \in 0 .. Size
    BY <1>2, FifoFields, SizeAssumption DEF Slots
  <2> QED
    BY <1>2, <2>1, <2>2 DEF Fifos
<1>4. IndicesAgree(g)
  <2> g.wr = (g.rd + g.count) % Size
    BY <1>1, <1>2, ModWrap, FifoFields, SizeAssumption DEF Good, IndicesAgree
  <2> QED
    BY DEF IndicesAgree
<1>5. ASSUME NEW i \in 1 .. f.count + 1
      PROVE  Contents(g)[i] = Append(Contents(f), v)[i]
  <2> DEFINE slot == (f.rd + i - 1) % Size
  <2>1. f.rd + i - 1 \in 0 .. 2 * Size - 1
    BY FifoFields, SizeAssumption
  <2>2. slot = IF f.rd + i - 1 < Size THEN f.rd + i - 1 ELSE f.rd + i - 1 - Size
    BY <2>1, ModWrap, SizeAssumption, FifoFields
  <2>3. slot \in Slots
    <3> HIDE DEF slot
    <3> QED
      BY <2>1, <2>2, FifoFields, SizeAssumption DEF Slots
  <2>4. f.wr = IF f.rd + f.count < Size THEN f.rd + f.count ELSE f.rd + f.count - Size
    <3>1. (f.rd + f.count) % Size
            = IF f.rd + f.count < Size THEN f.rd + f.count ELSE f.rd + f.count - Size
      BY <1>1, ModWrap, SizeAssumption, FifoFields
    <3> QED
      BY <3>1 DEF Good, IndicesAgree
  <2>5. Contents(g)[i] = IF slot = f.wr THEN v ELSE f.data[slot]
    BY <1>2, <2>3, FifoFields DEF Contents
  <2>6. slot = f.wr <=> i = f.count + 1
    <3> HIDE DEF slot
    <3> QED
      BY <2>2, <2>4, FifoFields, SizeAssumption
  <2>7. Append(Contents(f), v)[i] = IF i = f.count + 1 THEN v ELSE Contents(f)[i]
    BY ContentsSeq, FifoFields
  <2>8. i # f.count + 1 => Contents(f)[i] = f.data[slot]
    BY FifoFields DEF Contents
  <2> QED
    BY <2>5, <2>6, <2>7, <2>8
<1>6. Contents(g) = Append(Contents(f), v)
  <2>1. Append(Contents(f), v) \in Seq(Element) /\ Len(Append(Contents(f), v)) = f.count + 1
    BY ContentsSeq
  <2>2. Contents(g) \in Seq(Element) /\ Len(Contents(g)) = f.count + 1
    BY <1>2, <1>3, ContentsSeq
  <2> HIDE DEF g
  <2> QED
    BY <1>5, <2>1, <2>2, SeqEqual
<1> QED
  BY <1>2, <1>3, <1>4, <1>6 DEF Good

(* fifo_remove on a fifo that is not empty takes the oldest element.       *)
LEMMA FifoRemoveGood ==
  ASSUME NEW Element, NEW f, Good(Element, f), ~ IsEmpty(f)
  PROVE  /\ Good(Element, FifoRemove(f))
         /\ FifoRemove(f).count = f.count - 1
         /\ Contents(f) # << >>
         /\ Contents(FifoRemove(f)) = Tail(Contents(f))
         /\ Oldest(f) = Head(Contents(f))
<1> DEFINE g == FifoRemove(f)
<1> f \in Fifos(Element) /\ f.count > 0
  BY FifoFields, SizeAssumption DEF Good, IsEmpty
<1>1. /\ f.rd + 1 \in 0 .. 2 * Size - 1
      /\ f.rd + f.count \in 0 .. 2 * Size - 1
  BY FifoFields, SizeAssumption
<1>2. g.data = f.data /\ g.wr = f.wr /\ g.count = f.count - 1
      /\ g.rd = (f.rd + 1) % Size
      /\ g = [data |-> g.data, wr |-> g.wr, rd |-> g.rd, count |-> g.count]
  BY DEF FifoRemove, IsEmpty
<1>3. g.rd = IF f.rd + 1 < Size THEN f.rd + 1 ELSE f.rd + 1 - Size
  <2>1. (f.rd + 1) % Size = IF f.rd + 1 < Size THEN f.rd + 1 ELSE f.rd + 1 - Size
    BY <1>1, ModWrap, SizeAssumption, FifoFields
  <2> QED
    BY <1>2, <2>1
<1>4. g \in Fifos(Element)
  <2>1. g.rd \in Slots /\ g.count \in 0 .. Size
    BY <1>1, <1>2, <1>3, FifoFields, SizeAssumption DEF Slots
  <2> QED
    BY <1>2, <2>1, FifoFields DEF Fifos, Slots
<1>5. IndicesAgree(g)
  <2>1. g.rd + g.count \in 0 .. 2 * Size - 1
    BY <1>2, <1>3, FifoFields, SizeAssumption
  <2>2. f.wr = (f.rd + f.count) % Size
    BY DEF Good, IndicesAgree
  <2>3. (g.rd + g.count) % Size = (f.rd + f.count) % Size
    BY <1>1, <1>2, <1>3, <2>1, ModWrap, FifoFields, SizeAssumption
  <2> QED
    BY <1>2, <2>2, <2>3 DEF IndicesAgree
<1>6. Contents(f) \in Seq(Element) /\ Len(Contents(f)) = f.count /\ Contents(f) # << >>
  BY ContentsSeq, FifoFields
<1>7. ASSUME NEW i \in 1 .. g.count
      PROVE  Contents(g)[i] = Tail(Contents(f))[i]
  <2>1. f.rd + (i + 1) - 1 \in 0 .. 2 * Size - 1 /\ g.rd + i - 1 \in 0 .. 2 * Size - 1
        /\ i + 1 \in 1 .. f.count
    BY <1>2, <1>3, FifoFields, SizeAssumption
  <2>2. (g.rd + i - 1) % Size = (f.rd + (i + 1) - 1) % Size
    BY <1>3, <2>1, ModWrap, FifoFields, SizeAssumption
  <2>3. Contents(g)[i] = f.data[(g.rd + i - 1) % Size]
    BY <1>2 DEF Contents
  <2>4. Contents(f)[i + 1] = f.data[(f.rd + (i + 1) - 1) % Size]
    BY <2>1 DEF Contents
  <2>5. Tail(Contents(f))[i] = Contents(f)[i + 1]
    BY <1>2, <1>6, HeadTailProperties
  <2> QED
    BY <2>2, <2>3, <2>4, <2>5
<1>8. Contents(g) = Tail(Contents(f))
  <2>1. Tail(Contents(f)) \in Seq(Element) /\ Len(Tail(Contents(f))) = f.count - 1
    BY <1>6, HeadTailProperties
  <2>2. Contents(g) \in Seq(Element) /\ Len(Contents(g)) = g.count
    BY <1>4, ContentsSeq
  <2> HIDE DEF g
  <2> QED
    BY <1>2, <1>7, <2>1, <2>2, SeqEqual
<1>9. Oldest(f) = Head(Contents(f))
  <2>1. f.rd + 1 - 1 = f.rd /\ f.rd % Size = f.rd
    BY ModWrap, FifoFields, SizeAssumption
  <2>2. 1 \in 1 .. f.count
    BY FifoFields, SizeAssumption
  <2>3. Contents(f)[1] = f.data[f.rd]
    BY <2>1, <2>2 DEF Contents
  <2> QED
    BY <1>6, <2>3 DEF Oldest
<1> QED
  BY <1>2, <1>4, <1>5, <1>6, <1>8, <1>9 DEF Good

(* fifo_remove_last on a fifo that is not empty takes the youngest element *)
(* and leaves room for one.                                                *)
LEMMA FifoRemoveLastGood ==
  ASSUME NEW Element, NEW f, Good(Element, f), ~ IsEmpty(f)
  PROVE  /\ Good(Element, FifoRemoveLast(f))
         /\ FifoRemoveLast(f).count = f.count - 1
         /\ \A i \in 1 .. f.count - 1 : Contents(FifoRemoveLast(f))[i] = Contents(f)[i]
<1> DEFINE g == FifoRemoveLast(f)
<1> f \in Fifos(Element) /\ f.count > 0
  BY FifoFields, SizeAssumption DEF Good, IsEmpty
<1>1. /\ f.wr + Size - 1 \in 0 .. 2 * Size - 1
      /\ f.rd + f.count \in 0 .. 2 * Size - 1
      /\ f.rd + f.count - 1 \in 0 .. 2 * Size - 1
  BY FifoFields, SizeAssumption
<1>2. g.data = f.data /\ g.rd = f.rd /\ g.count = f.count - 1
      /\ g.wr = (f.wr + Size - 1) % Size
      /\ g = [data |-> g.data, wr |-> g.wr, rd |-> g.rd, count |-> g.count]
  BY DEF FifoRemoveLast, IsEmpty
<1>3. g.wr = IF f.wr + Size - 1 < Size THEN f.wr + Size - 1 ELSE f.wr - 1
  BY <1>1, <1>2, ModWrap, FifoFields, SizeAssumption
<1>4. g \in Fifos(Element)
  <2>1. g.wr \in Slots
    <3> HIDE DEF g
    <3> QED
      BY <1>3, FifoFields, SizeAssumption DEF Slots
  <2>2. g.count \in 0 .. Size
    BY <1>2, FifoFields, SizeAssumption
  <2> QED
    BY <1>2, <2>1, <2>2, FifoFields DEF Fifos, Slots
<1>5. IndicesAgree(g)
  <2> DEFINE last == f.rd + f.count
  <2>1. f.wr = IF last < Size THEN last ELSE last - Size
    <3>1. last % Size = IF last < Size THEN last ELSE last - Size
      BY <1>1, ModWrap, SizeAssumption, FifoFields
    <3> QED
      BY <3>1 DEF Good, IndicesAgree
  <2>2. g.wr = (last - 1) % Size
    <3>1. (last - 1) % Size = IF last - 1 < Size THEN last - 1 ELSE last - 1 - Size
      BY <1>1, ModWrap, SizeAssumption, FifoFields
    <3> HIDE DEF g
    <3> QED
      BY <1>3, <2>1, <3>1, FifoFields, SizeAssumption
  <2>3. g.rd + g.count = last - 1
    BY <1>2, FifoFields
  <2> HIDE DEF last, g
  <2> QED
    BY <2>2, <2>3 DEF IndicesAgree
<1>6. ASSUME NEW i \in 1 .. f.count - 1
      PROVE  Contents(g)[i] = Contents(f)[i]
  BY <1>2, FifoFields DEF Contents
<1> QED
  BY <1>2, <1>4, <1>5, <1>6 DEF Good

(***************************************************************************)
(* The cascade of SCPI_RegSet                                              *)
(***************************************************************************)

(* The SRQ bit agrees with the enabled reasons. *)
SrqAgrees(regs) == STB_SRQ \in regs["STB"] <=> Reasons(regs) # {}

(* What every outcome of a call satisfies. *)
Consistent(o) ==
  /\ o.regs \in Registers
  /\ o.control \in Seq(SUBSET Bits)
  /\ SrqAgrees(o.regs)

Qma(regs) == STB_QMA \in regs["STB"]

LEMMA NoCallConsistent ==
  ASSUME NEW regs \in Registers, SrqAgrees(regs)
  PROVE  Consistent(NoCall(regs)) /\ NoCall(regs).regs = regs
BY DEF Consistent, NoCall

(* Writing STB or SRE re-establishes the SRQ bit and changes no other bit  *)
(* than those written.                                                     *)
LEMMA SetStatusByteStep ==
  ASSUME NEW regs \in Registers, SrqAgrees(regs),
         NEW name \in {"STB", "SRE"}, NEW val \in SUBSET Bits
  PROVE  LET o == SetStatusByte(regs, name, val)
         IN  /\ Consistent(o)
             /\ \A r \in RegName \ {"STB", name} : o.regs[r] = regs[r]
             /\ Qma(o.regs) <=> IF name = "STB" THEN STB_QMA \in val ELSE Qma(regs)
<1> DEFINE o == SetStatusByte(regs, name, val)
           written == [regs EXCEPT ![name] = val]
           raised == [written EXCEPT !["STB"] = @ \cup {STB_SRQ}]
           lowered == [written EXCEPT !["STB"] = @ \ {STB_SRQ}]
<1>1. {"STB", "SRE"} \subseteq RegName /\ STB_SRQ \in Bits /\ STB_QMA # STB_SRQ
  BY DEF RegName, Bits, STB_SRQ, STB_QMA
<1>2. written \in Registers
  BY <1>1 DEF Registers
<1>3. /\ raised \in Registers /\ lowered \in Registers
      /\ \A r \in RegName \ {"STB"} : raised[r] = written[r] /\ lowered[r] = written[r]
      /\ raised["STB"] = written["STB"] \cup {STB_SRQ}
      /\ lowered["STB"] = written["STB"] \ {STB_SRQ}
  BY <1>1, <1>2 DEF Registers
<1>4. \A r \in RegName : written[r] = IF r = name THEN val ELSE regs[r]
  BY <1>1 DEF Registers
<1>5. Reasons(raised) = Reasons(written) /\ Reasons(lowered) = Reasons(written)
  BY <1>1, <1>3 DEF Reasons
<1> HIDE DEF raised, lowered, written
<1>6. CASE regs[name] = val
  <2>1. o = NoCall(regs)
    BY <1>6 DEF SetStatusByte
  <2> QED
    BY <1>1, <1>6, <2>1, NoCallConsistent DEF Qma
<1>7. CASE regs[name] # val /\ Reasons(written) = {}
  <2>1. o = NoCall(lowered)
    BY <1>7 DEF SetStatusByte, lowered, written
  <2>2. SrqAgrees(lowered)
    BY <1>3, <1>5, <1>7 DEF SrqAgrees
  <2> QED
    BY <1>1, <1>3, <1>4, <2>1, <2>2, NoCallConsistent DEF Qma
<1>8. CASE regs[name] # val /\ Reasons(written) # {}
  <2> DEFINE calls == IF val \ regs[name] # {} THEN << raised["STB"] >> ELSE << >>
  <2>1. o = [regs |-> raised, control |-> calls]
    BY <1>8 DEF SetStatusByte, raised, written
  <2>2. SrqAgrees(raised)
    BY <1>3, <1>5, <1>8 DEF SrqAgrees
  <2>3. o.regs = raised /\ o.control \in Seq(SUBSET Bits)
    <3>1. raised["STB"] \in SUBSET Bits
      BY <1>1, <1>3 DEF Registers
    <3>2. << raised["STB"] >> \in Seq(SUBSET Bits) /\ << >> \in Seq(SUBSET Bits)
      BY <3>1
    <3>3. calls \in Seq(SUBSET Bits)
      BY <3>2
    <3> HIDE DEF calls, o
    <3> QED
      BY <2>1, <3>3
  <2> QED
    BY <1>1, <1>3, <1>4, <2>2, <2>3 DEF Consistent, Qma
<1> QED
  BY <1>6, <1>7, <1>8

(* Writing an event register also writes its summary bit, which is not QMA. *)
LEMMA SetEventStep ==
  ASSUME NEW regs \in Registers, SrqAgrees(regs),
         NEW event \in EventReg, NEW val \in SUBSET Bits
  PROVE  LET o == SetEvent(regs, event, val)
         IN  /\ Consistent(o)
             /\ \A r \in RegName \ {"STB", event} : o.regs[r] = regs[r]
             /\ Qma(o.regs) <=> Qma(regs)
<1> DEFINE o == SetEvent(regs, event, val)
           written == [regs EXCEPT ![event] = val]
           stb == IF val \cap regs[EnableOf(event)] # {}
                    THEN regs["STB"] \cup {SummaryBit(event)}
                    ELSE regs["STB"] \ {SummaryBit(event)}
<1>1. /\ event \in RegName \ {"STB", "SRE"} /\ "STB" \in RegName /\ "SRE" \in RegName
      /\ SummaryBit(event) \in Bits /\ SummaryBit(event) # STB_QMA
  BY DEF RegName, EventReg, SummaryBit, Bits, STB_ESR, STB_OPS, STB_QES, STB_QMA
<1>2. /\ written \in Registers
      /\ \A r \in RegName \ {event} : written[r] = regs[r]
  BY <1>1 DEF Registers
<1>3. stb \in SUBSET Bits /\ (STB_QMA \in stb <=> Qma(regs))
  BY <1>1 DEF Registers, Qma
<1>4. SrqAgrees(written)
  BY <1>1, <1>2 DEF SrqAgrees, Reasons
<1>5. CASE regs[event] = val
  <2>1. o = NoCall(regs)
    BY <1>5 DEF SetEvent
  <2> QED
    BY <2>1, NoCallConsistent
<1>6. CASE regs[event] # val
  <2>1. o = SetStatusByte(written, "STB", stb)
    BY <1>6 DEF SetEvent
  <2> HIDE DEF written, stb
  <2> QED
    BY <1>1, <1>2, <1>3, <1>4, <2>1, SetStatusByteStep
<1> QED
  BY <1>5, <1>6

LEMMA SetConditionStep ==
  ASSUME NEW regs \in Registers, SrqAgrees(regs),
         NEW condition \in ConditionReg, NEW val \in SUBSET Bits
  PROVE  LET o == SetCondition(regs, condition, val)
         IN  /\ Consistent(o)
             /\ Qma(o.regs) <=> Qma(regs)
<1> DEFINE o == SetCondition(regs, condition, val)
           written == [regs EXCEPT ![condition] = val]
           event == EventOf(condition)
           latched == regs[event] \cup (val \ regs[condition])
<1>1. /\ condition \in RegName \ {"STB", "SRE"} /\ "STB" \in RegName /\ "SRE" \in RegName
      /\ event \in EventReg /\ event \in RegName
  BY DEF RegName, EventReg, ConditionReg, EventOf
<1>2. /\ written \in Registers
      /\ \A r \in RegName \ {condition} : written[r] = regs[r]
      /\ latched \in SUBSET Bits
  BY <1>1 DEF Registers
<1>3. SrqAgrees(written) /\ (Qma(written) <=> Qma(regs))
  BY <1>1, <1>2 DEF SrqAgrees, Reasons, Qma
<1>4. CASE regs[condition] = val
  BY <1>4, NoCallConsistent DEF SetCondition
<1>5. CASE regs[condition] # val
  <2>1. o = SetEvent(written, event, latched)
    BY <1>5 DEF SetCondition
  <2> HIDE DEF written, event, latched
  <2> QED
    BY <1>1, <1>2, <1>3, <2>1, SetEventStep
<1> QED
  BY <1>4, <1>5

(* Every call of SCPI_RegSet keeps the registers consistent, and only a    *)
(* write of STB itself touches QMA.                                        *)
LEMMA RegSetStep ==
  ASSUME NEW regs \in Registers, SrqAgrees(regs),
         NEW name \in RegName, NEW val \in SUBSET Bits
  PROVE  LET o == RegSet(regs, name, val)
         IN  /\ Consistent(o)
             /\ Qma(o.regs) <=> IF name = "STB" THEN STB_QMA \in val ELSE Qma(regs)
<1>1. CASE name \in {"STB", "SRE"}
  BY <1>1, SetStatusByteStep DEF RegSet
<1>2. CASE name \in EventReg
  BY <1>2, SetEventStep DEF RegSet, EventReg
<1>3. CASE name \in ConditionReg
  BY <1>3, SetConditionStep DEF RegSet, EventReg, ConditionReg
<1>4. CASE name \in EnableReg
  <2> DEFINE written == [regs EXCEPT ![name] = val]
  <2>1. RegSet(regs, name, val) = NoCall(written)
    BY <1>4 DEF RegSet, EventReg, ConditionReg, EnableReg
  <2>2. /\ written \in Registers
        /\ written["STB"] = regs["STB"] /\ written["SRE"] = regs["SRE"]
    BY <1>4 DEF Registers, EnableReg, RegName
  <2>3. SrqAgrees(written) /\ (Qma(written) <=> Qma(regs))
    BY <2>2 DEF SrqAgrees, Reasons, Qma
  <2> HIDE DEF written
  <2> QED
    BY <1>4, <2>1, <2>2, <2>3, NoCallConsistent DEF EnableReg
<1> QED
  BY <1>1, <1>2, <1>3, <1>4 DEF RegName

LEMMA AndThenStep ==
  ASSUME NEW o, Consistent(o), NEW name \in RegName, NEW val \in SUBSET Bits
  PROVE  LET p == AndThen(o, name, val)
         IN  /\ Consistent(p)
             /\ Qma(p.regs) <=> IF name = "STB" THEN STB_QMA \in val ELSE Qma(o.regs)
<1> DEFINE next == RegSet(o.regs, name, val)
<1>1. Consistent(next)
      /\ (Qma(next.regs) <=> IF name = "STB" THEN STB_QMA \in val ELSE Qma(o.regs))
  BY RegSetStep DEF Consistent
<1>2. AndThen(o, name, val) = [regs |-> next.regs, control |-> o.control \o next.control]
  BY DEF AndThen
<1> HIDE DEF next
<1>3. o.control \o next.control \in Seq(SUBSET Bits)
  BY <1>1, ConcatProperties DEF Consistent
<1> QED
  BY <1>1, <1>2, <1>3 DEF Consistent

(***************************************************************************)
(* The error queue                                                         *)
(***************************************************************************)

(* An error is always queued: in its own right, or as the overflow mark    *)
(* that takes the place of the youngest entry of a full queue.             *)
LEMMA AfterAddStep ==
  ASSUME NEW q, Good(Codes, q), NEW err \in ErrorCodes
  PROVE  /\ Good(Codes, AfterAdd(q, err))
         /\ ~ IsEmpty(AfterAdd(q, err))
         /\ Contents(AfterAdd(q, err))
              = IF Len(Contents(q)) < Size THEN Append(Contents(q), err)
                ELSE [Contents(q) EXCEPT ![Size] = QUEUE_OVERFLOW]
<1>1. err \in Codes /\ QUEUE_OVERFLOW \in Codes
  BY DEF Codes
<1>2. /\ q \in Fifos(Codes) /\ q.count \in 0 .. Size
      /\ Contents(q) \in Seq(Codes) /\ Len(Contents(q)) = q.count
  BY FifoFields, ContentsSeq DEF Good
<1>3. CASE ~ IsFull(q)
  <2>1. AfterAdd(q, err) = FifoAdd(q, err) /\ q.count < Size
    BY <1>2, <1>3, SizeAssumption DEF AfterAdd, IsFull
  <2> QED
    BY <1>1, <1>2, <1>3, <2>1, FifoAddGood DEF IsEmpty
<1>4. CASE IsFull(q)
  <2> DEFINE r == FifoRemoveLast(q)
             s == FifoAdd(r, QUEUE_OVERFLOW)
  <2>1. AfterAdd(q, err) = s /\ q.count = Size /\ ~ IsEmpty(q)
    BY <1>4, SizeAssumption DEF AfterAdd, IsFull, IsEmpty
  <2>2. /\ Good(Codes, r) /\ r.count = Size - 1
        /\ \A i \in 1 .. Size - 1 : Contents(r)[i] = Contents(q)[i]
    BY <2>1, FifoRemoveLastGood
  <2>3. ~ IsFull(r)
    BY <2>2, SizeAssumption DEF IsFull
  <2>4. Contents(r) \in Seq(Codes) /\ Len(Contents(r)) = Size - 1
    BY <2>2, ContentsSeq DEF Good
  <2> HIDE DEF r
  <2>5. /\ Good(Codes, s) /\ s.count = Size
        /\ Contents(s) = Append(Contents(r), QUEUE_OVERFLOW)
    BY <1>1, <2>2, <2>3, FifoAddGood, SizeAssumption
  <2> HIDE DEF s
  <2>6. Contents(s) = [Contents(q) EXCEPT ![Size] = QUEUE_OVERFLOW]
    <3> DEFINE marked == [Contents(q) EXCEPT ![Size] = QUEUE_OVERFLOW]
    <3>1. /\ marked \in Seq(Codes) /\ Len(marked) = Size
          /\ \A i \in 1 .. Size :
               marked[i] = IF i = Size THEN QUEUE_OVERFLOW ELSE Contents(q)[i]
      BY <1>1, <1>2, <2>1, ExceptSeq, SizeAssumption
    <3>2. /\ Contents(s) \in Seq(Codes) /\ Len(Contents(s)) = Size
          /\ \A i \in 1 .. Size :
               Contents(s)[i] = IF i = Size THEN QUEUE_OVERFLOW ELSE Contents(r)[i]
      BY <1>1, <2>4, <2>5, SizeAssumption
    <3> HIDE DEF marked
    <3>3. \A i \in 1 .. Size : Contents(s)[i] = marked[i]
      BY <2>2, <3>1, <3>2, SizeAssumption
    <3>4. Contents(s) = marked
      BY <3>1, <3>2, <3>3, SeqEqual
    <3> QED
      BY <3>4 DEF marked
  <2> QED
    BY <1>2, <2>1, <2>5, <2>6, SizeAssumption DEF IsEmpty
<1> QED
  BY <1>3, <1>4

(* SCPI_ErrorEmitEmpty clears QMA exactly when the queue is left empty.    *)
LEMMA EmitEmptyStep ==
  ASSUME registers \in Registers, SrqAgrees(registers), NEW q,
         ~ IsEmpty(q) => Qma(registers)
  PROVE  /\ Consistent(EmitEmpty(q))
         /\ Qma(EmitEmpty(q).regs) <=> ~ IsEmpty(q)
         /\ EmptyNotice(q) = IF IsEmpty(q) /\ Qma(registers) THEN <<0>> ELSE << >>
<1>1. "STB" \in RegName /\ STB_QMA \in Bits
  BY DEF RegName, Bits, STB_QMA
<1> DEFINE val == registers["STB"] \ EmptyBits(q)
<1>2. val \in SUBSET Bits
  BY <1>1 DEF Registers
<1>3. EmitEmpty(q) = AndThen(NoCall(registers), "STB", val)
  BY NoCallConsistent DEF EmitEmpty, ClearBits
<1>4. STB_QMA \in val <=> ~ IsEmpty(q)
  BY DEF EmptyBits, Qma
<1> HIDE DEF val
<1>5. Consistent(EmitEmpty(q)) /\ (Qma(EmitEmpty(q).regs) <=> ~ IsEmpty(q))
  BY <1>1, <1>2, <1>3, <1>4, NoCallConsistent, AndThenStep
<1>6. EmptyNotice(q) = IF IsEmpty(q) /\ Qma(registers) THEN <<0>> ELSE << >>
  BY DEF EmptyNotice, EmptyBits, Qma
<1> QED
  BY <1>5, <1>6

(***************************************************************************)
(* The invariant                                                           *)
(***************************************************************************)

(* The SRQ bit alone is inductive given the types; the indicator and the   *)
(* QMA bit are not: interface->error(0) is called only if QMA was set, so  *)
(* each of the two needs the other and the queue.                          *)
IInv == TypeOK /\ SrqIffReason /\ QmaIffErrors /\ IndicatorMatchesQueue

LEMMA InitIInv == Init => IInv
<1> SUFFICES ASSUME Init PROVE IInv
  OBVIOUS
<1>1. [s \in Slots |-> 0] \in [Slots -> Codes] /\ 0 \in Codes
  BY DEF Codes
<1>2. Good(Codes, queue) /\ IsEmpty(queue)
  BY <1>1, FifoInitGood DEF Init, FifoInit, IsEmpty
<1>3. registers \in Registers /\ registers["STB"] = {}
  BY DEF Init, AllZero, Registers, RegName
<1>4. control \in Seq(SUBSET Bits) /\ notified \in Seq(Codes)
  BY DEF Init
<1>5. TypeOK
  BY <1>1, <1>2, <1>3, <1>4 DEF Init, TypeOK, Good
<1> QED
  BY <1>2, <1>3, <1>5
     DEF Init, IInv, SrqIffReason, Reasons, QmaIffErrors, IndicatorMatchesQueue

(* A step that leaves the queue empty tells the indicator so, if it was    *)
(* not off already.                                                        *)
LEMMA DrainStep ==
  ASSUME IInv, Good(Codes, queue'), IsEmpty(queue) => IsEmpty(queue'),
         NEW o, Consistent(o), Qma(o.regs) <=> ~ IsEmpty(queue'),
         Report(o, EmptyNotice(queue')), staleSummary' \subseteq EventReg
  PROVE  IInv'
<1>1. EmptyNotice(queue')
        = IF IsEmpty(queue') /\ Qma(registers) THEN << 0 >> ELSE << >>
  BY DEF EmptyNotice, EmptyBits, Qma
<1>2. 0 \in Codes
  BY DEF Codes
<1>3. << 0 >> \in Seq(Codes) /\ << >> \in Seq(Codes) /\ Len(<< 0 >>) = 1 /\ << 0 >>[1] = 0
      /\ << 0 >> # << >>
  BY <1>2
<1>4. EmptyNotice(queue') \in Seq(Codes)
  BY <1>1, <1>3
<1>5. indicator' = IF IsEmpty(queue') /\ Qma(registers) THEN 0 ELSE indicator
  BY <1>1, <1>3 DEF Report, Remember
<1>6. registers' \in Registers /\ SrqIffReason' /\ control' \in Seq(SUBSET Bits)
      /\ notified' \in Seq(Codes) /\ indicator' \in Codes
  BY <1>2, <1>4, <1>5 DEF IInv, TypeOK, Consistent, SrqAgrees, SrqIffReason, Reasons, Report
<1>7. TypeOK'
  BY <1>6 DEF TypeOK, Good
<1>8. QmaIffErrors'
  BY DEF Report, QmaIffErrors, Qma
<1>9. IndicatorMatchesQueue'
  BY <1>5 DEF IInv, QmaIffErrors, IndicatorMatchesQueue, Qma
<1> QED
  BY <1>6, <1>7, <1>8, <1>9 DEF IInv

LEMMA ErrorPushIInv ==
  ASSUME IInv, NEW err \in ErrorCodes, ErrorPush(err)
  PROVE  IInv'
<1> DEFINE esr == SetBits(NoCall(registers), "ESR", EsrBits(err))
           stb == SetBits(esr, "STB", {STB_QMA})
           codes == IF IsFull(queue) THEN << err, QUEUE_OVERFLOW >> ELSE << err >>
<1>1. /\ queue' = AfterAdd(queue, err) /\ Report(stb, codes)
      /\ staleSummary' \subseteq EventReg
  BY DEF ErrorPush, IInv, TypeOK
<1>2. Good(Codes, queue') /\ ~ IsEmpty(queue')
  BY <1>1, AfterAddStep DEF IInv, TypeOK, Good
<1>3. "ESR" \in RegName /\ "STB" \in RegName /\ STB_QMA \in Bits /\ EsrBits(err) \in SUBSET Bits
  BY DEF RegName, EventReg, Bits, STB_QMA, EsrBits, ErrorClasses, ESR_OPC, ESR_REQ, ESR_QER,
         ESR_DER, ESR_EER, ESR_CER, ESR_URQ, ESR_PON
<1>4. Consistent(NoCall(registers)) /\ NoCall(registers).regs = registers
  BY NoCallConsistent DEF IInv, TypeOK, SrqIffReason, SrqAgrees
<1>5. registers["ESR"] \cup EsrBits(err) \in SUBSET Bits
  BY <1>3 DEF IInv, TypeOK, Registers
<1>6. Consistent(esr)
  BY <1>3, <1>4, <1>5, AndThenStep DEF SetBits
<1> HIDE DEF esr
<1>7. esr.regs["STB"] \cup {STB_QMA} \in SUBSET Bits
  BY <1>3, <1>6 DEF Consistent, Registers
<1>8. Consistent(stb) /\ Qma(stb.regs)
  BY <1>3, <1>6, <1>7, AndThenStep DEF SetBits
<1>9. /\ codes \in Seq(Codes) /\ codes # << >>
      /\ codes[Len(codes)] \in Codes \ {0}
  <2>1. err \in Codes \ {0} /\ QUEUE_OVERFLOW \in Codes \ {0}
    BY ErrorCodesAssumption DEF Codes, QUEUE_OVERFLOW
  <2> QED
    BY <2>1
<1> HIDE DEF stb, codes
<1>10. indicator' \in Codes \ {0}
  BY <1>1, <1>9 DEF Report, Remember
<1>11. registers' \in Registers /\ SrqIffReason' /\ control' \in Seq(SUBSET Bits)
       /\ notified' \in Seq(Codes)
  BY <1>1, <1>8, <1>9 DEF Consistent, SrqAgrees, SrqIffReason, Reasons, Report
<1>12. TypeOK'
  BY <1>1, <1>2, <1>10, <1>11 DEF TypeOK, Good
<1> QED
  BY <1>1, <1>2, <1>8, <1>10, <1>11, <1>12
     DEF IInv, QmaIffErrors, IndicatorMatchesQueue, Report, Qma

LEMMA DrainIInv ==
  ASSUME IInv, ErrorPop \/ ErrorClear \/ CoreCls
  PROVE  IInv'
<1>1. /\ Good(Codes, queue) /\ registers \in Registers /\ SrqAgrees(registers)
      /\ Qma(registers) <=> ~ IsEmpty(queue)
  BY DEF IInv, TypeOK, Good, SrqIffReason, SrqAgrees, QmaIffErrors, Qma
<1>2. CASE ErrorPop
  <2>1. Good(Codes, queue') /\ (IsEmpty(queue) => IsEmpty(queue'))
    BY <1>1, <1>2, FifoRemoveGood DEF ErrorPop, FifoRemove
  <2>2. Consistent(EmitEmpty(queue')) /\ (Qma(EmitEmpty(queue').regs) <=> ~ IsEmpty(queue'))
    BY <1>1, <2>1, EmitEmptyStep
  <2> QED
    BY <1>2, <2>1, <2>2, DrainStep DEF ErrorPop, IInv, TypeOK
<1>3. CASE ErrorClear
  <2>1. Good(Codes, queue') /\ IsEmpty(queue')
    BY <1>1, <1>3, FifoClearGood DEF ErrorClear
  <2>2. Consistent(EmitEmpty(queue')) /\ ~ Qma(EmitEmpty(queue').regs)
    BY <1>1, <2>1, EmitEmptyStep
  <2> QED
    BY <1>3, <2>1, <2>2, DrainStep DEF ErrorClear, IInv, TypeOK
<1>4. CASE CoreCls
  <2> DEFINE esr == AndThen(EmitEmpty(queue'), "ESR", {})
             oper == AndThen(esr, "OPER", {})
             ques == AndThen(oper, "QUES", {})
  <2>1. Good(Codes, queue') /\ IsEmpty(queue')
    BY <1>1, <1>4, FifoClearGood DEF CoreCls
  <2>2. Consistent(EmitEmpty(queue')) /\ ~ Qma(EmitEmpty(queue').regs)
    BY <1>1, <2>1, EmitEmptyStep
  <2>3. {"ESR", "OPER", "QUES"} \subseteq RegName /\ {} \in SUBSET Bits
    BY DEF RegName, EventReg
  <2>4. Report(ques, EmptyNotice(queue')) /\ staleSummary' \subseteq EventReg
    BY <1>4 DEF CoreCls, IInv, TypeOK
  <2>5. Consistent(esr) /\ ~ Qma(esr.regs)
    BY <2>2, <2>3, AndThenStep
  <2> HIDE DEF esr
  <2>6. Consistent(oper) /\ ~ Qma(oper.regs)
    BY <2>3, <2>5, AndThenStep
  <2> HIDE DEF oper
  <2>7. Consistent(ques) /\ ~ Qma(ques.regs)
    BY <2>3, <2>6, AndThenStep
  <2> HIDE DEF ques
  <2> QED
    BY <2>1, <2>4, <2>7, DrainStep
<1> QED
  BY <1>2, <1>3, <1>4

(* A write of a register keeps the invariant unless it is the write of a   *)
(* status byte with another QMA bit.                                       *)
LEMMA WriteRegisterIInv ==
  ASSUME IInv, NEW name \in RegName, NEW val \in SUBSET Bits,
         name = "STB" => (STB_QMA \in val <=> Qma(registers)),
         WriteRegister(name, val), staleSummary' \subseteq EventReg
  PROVE  IInv'
<1> DEFINE o == RegSet(registers, name, val)
<1>1. Consistent(o) /\ (Qma(o.regs) <=> Qma(registers))
  BY RegSetStep DEF IInv, TypeOK, SrqIffReason, SrqAgrees
<1>2. Report(o, << >>) /\ queue' = queue
  BY DEF WriteRegister
<1> HIDE DEF o
<1>3. registers' \in Registers /\ SrqIffReason' /\ control' \in Seq(SUBSET Bits)
      /\ notified' \in Seq(Codes) /\ indicator' = indicator
  BY <1>1, <1>2 DEF Consistent, SrqAgrees, SrqIffReason, Reasons, Report, Remember
<1>4. TypeOK'
  BY <1>2, <1>3 DEF IInv, TypeOK
<1>5. QmaIffErrors' /\ IndicatorMatchesQueue'
  BY <1>1, <1>2, <1>3 DEF IInv, QmaIffErrors, IndicatorMatchesQueue, Qma, Report
<1> QED
  BY <1>3, <1>4, <1>5 DEF IInv

LEMMA WriteEnableIInv ==
  ASSUME IInv, NEW event \in EventReg, NEW val \in SUBSET Bits, WriteEnable(event, val)
  PROVE  IInv'
<1>1. EnableOf(event) \in RegName \ {"STB"}
  BY DEF EnableOf, EventReg, EnableReg, RegName
<1>2. WriteRegister(EnableOf(event), val) /\ staleSummary' \subseteq EventReg
  BY DEF WriteEnable, IInv, TypeOK
<1> QED
  BY <1>1, <1>2, WriteRegisterIInv

LEMMA WriteEventIInv ==
  ASSUME IInv, NEW name \in EventReg \cup ConditionReg, NEW val \in SUBSET Bits,
         WriteEvent(name, val)
  PROVE  IInv'
<1>1. name \in RegName \ {"STB"}
  BY DEF EventReg, ConditionReg, RegName
<1>2. WriteRegister(name, val) /\ staleSummary' \subseteq EventReg
  BY DEF WriteEvent, IInv, TypeOK
<1> QED
  BY <1>1, <1>2, WriteRegisterIInv

LEMMA MessageAvailableIInv ==
  ASSUME IInv, SetMessageAvailable \/ ClearMessageAvailable
  PROVE  IInv'
<1>1. "STB" \in RegName /\ STB_MAV \in Bits /\ STB_MAV # STB_QMA
  BY DEF RegName, Bits, STB_MAV, STB_QMA
<1>2. registers["STB"] \in SUBSET Bits
  BY <1>1 DEF IInv, TypeOK, Registers
<1> DEFINE set == registers["STB"] \cup {STB_MAV}
           clear == registers["STB"] \ {STB_MAV}
<1>3. /\ set \in SUBSET Bits /\ clear \in SUBSET Bits
      /\ STB_QMA \in set <=> Qma(registers)
      /\ STB_QMA \in clear <=> Qma(registers)
  BY <1>1, <1>2 DEF Qma
<1>4. CASE SetMessageAvailable
  <2>1. WriteRegister("STB", set) /\ staleSummary' \subseteq EventReg
    BY <1>4 DEF SetMessageAvailable, IInv, TypeOK
  <2> HIDE DEF set
  <2> QED
    BY <1>1, <1>3, <2>1, WriteRegisterIInv
<1>5. CASE ClearMessageAvailable
  <2>1. WriteRegister("STB", clear) /\ staleSummary' \subseteq EventReg
    BY <1>5 DEF ClearMessageAvailable, IInv, TypeOK
  <2> HIDE DEF clear
  <2> QED
    BY <1>1, <1>3, <2>1, WriteRegisterIInv
<1> QED
  BY <1>4, <1>5

LEMMA StepIInv == IInv /\ [Next]_vars => IInv'
<1> SUFFICES ASSUME IInv, [Next]_vars
             PROVE  IInv'
  OBVIOUS
<1>1. /\ {"ESR", "OPER", "QUES"} \subseteq EventReg
      /\ {"OPERC", "QUESC"} \subseteq ConditionReg
      /\ "SRE" \in RegName /\ {} \in SUBSET Bits
  BY DEF EventReg, ConditionReg, RegName
<1>2. CASE ErrorPop \/ ErrorClear \/ CoreCls
  BY <1>2, DrainIInv
<1>3. ASSUME NEW err \in ErrorCodes, ErrorPush(err)
      PROVE  IInv'
  BY <1>3, ErrorPushIInv
<1>4. ASSUME NEW mask \in EventMasks, CoreEse(mask)
      PROVE  IInv'
  BY <1>1, <1>4, WriteEnableIInv, MasksAssumption DEF CoreEse
<1>5. ASSUME NEW mask \in ServiceMasks, CoreSre(mask)
      PROVE  IInv'
  <2>1. WriteRegister("SRE", mask) /\ staleSummary' \subseteq EventReg
    BY <1>5 DEF CoreSre, IInv, TypeOK
  <2> QED
    BY <1>1, <2>1, WriteRegisterIInv, MasksAssumption
<1>6. CASE CoreOpc
  <2>1. registers["ESR"] \cup {ESR_OPC} \in SUBSET Bits
    BY DEF IInv, TypeOK, Registers, RegName, EventReg, Bits, ESR_OPC
  <2> QED
    BY <1>1, <1>6, <2>1, WriteEventIInv DEF CoreOpc
<1>7. CASE CoreEsrQ \/ StatusOperationEventQ \/ StatusQuestionableEventQ \/ StatusPreset
  BY <1>1, <1>7, WriteEventIInv
     DEF CoreEsrQ, StatusOperationEventQ, StatusQuestionableEventQ, StatusPreset
<1>8. ASSUME NEW val \in OperationValues, StatusOperationEnable(val)
      PROVE  IInv'
  BY <1>1, <1>8, WriteEnableIInv, MasksAssumption DEF StatusOperationEnable
<1>9. ASSUME NEW val \in QuestionableValues, StatusQuestionableEnable(val)
      PROVE  IInv'
  BY <1>1, <1>9, WriteEnableIInv, MasksAssumption DEF StatusQuestionableEnable
<1>10. ASSUME NEW val \in OperationValues, SetOperationCondition(val)
       PROVE  IInv'
  BY <1>1, <1>10, WriteEventIInv, MasksAssumption DEF SetOperationCondition
<1>11. ASSUME NEW val \in QuestionableValues, SetQuestionableCondition(val)
       PROVE  IInv'
  BY <1>1, <1>11, WriteEventIInv, MasksAssumption DEF SetQuestionableCondition
<1>12. CASE SetMessageAvailable \/ ClearMessageAvailable
  BY <1>12, MessageAvailableIInv
<1>13. CASE UNCHANGED vars
  BY <1>13 DEF vars, IInv, TypeOK, SrqIffReason, Reasons, QmaIffErrors, IndicatorMatchesQueue
<1> QED
  BY <1>2, <1>3, <1>4, <1>5, <1>6, <1>7, <1>8, <1>9, <1>10, <1>11, <1>12, <1>13
     DEF Next, Controller, Instrument

LEMMA Invariance == Spec => []IInv
  BY InitIInv, StepIInv, PTL DEF Spec

(* The queue's indices agree and every variable keeps its type.            *)
THEOREM TypeCorrect == Spec => []TypeOK
  BY Invariance, PTL DEF IInv

(* The SRQ bit of the status byte tells whether an enabled reason for      *)
(* service exists (SCPI_RegSet).                                           *)
THEOREM SrqTellsReason == Spec => []SrqIffReason
  BY Invariance, PTL DEF IInv

(* The QMA bit of the status byte tells whether the error queue holds an   *)
(* error (error.c).                                                        *)
THEOREM QmaTellsErrors == Spec => []QmaIffErrors
  BY Invariance, PTL DEF IInv

(* An error indicator driven by interface->error is on while the error     *)
(* queue holds an error, and only then.                                    *)
THEOREM IndicatorTellsErrors == Spec => []IndicatorMatchesQueue
  BY Invariance, PTL DEF IInv

(***************************************************************************)
(* Refinement                                                              *)
(***************************************************************************)

(* Every step does to the contents of the ring buffer what an operation of *)
(* the abstract queue does, or leaves them alone.                          *)
LEMMA QueueStep ==
  IInv /\ [Next]_vars => [AbstractQueue!Next]_(Contents(queue))
<1> SUFFICES ASSUME IInv, [Next]_vars
             PROVE  AbstractQueue!Next \/ Contents(queue)' = Contents(queue)
  OBVIOUS
<1>1. Good(Codes, queue)
  BY DEF IInv, TypeOK, Good
<1>2. ASSUME NEW err \in ErrorCodes, ErrorPush(err)
      PROVE  AbstractQueue!Next
  <2>1. AbstractQueue!Push(err)
    BY <1>1, <1>2, AfterAddStep DEF ErrorPush, AbstractQueue!Push
  <2> QED
    BY <2>1 DEF AbstractQueue!Next
<1>3. CASE ErrorPop /\ ~ IsEmpty(queue)
  <2>1. AbstractQueue!Pop
    BY <1>1, <1>3, FifoRemoveGood DEF ErrorPop, AbstractQueue!Pop
  <2> QED
    BY <2>1 DEF AbstractQueue!Next
<1>4. CASE ErrorPop /\ IsEmpty(queue)
  BY <1>4 DEF ErrorPop, FifoRemove
<1>5. CASE ErrorClear \/ CoreCls
  <2>1. AbstractQueue!Clear
    BY <1>1, <1>5, FifoClearGood DEF ErrorClear, CoreCls, AbstractQueue!Clear
  <2> QED
    BY <2>1 DEF AbstractQueue!Next
<1>6. CASE UNCHANGED queue
  BY <1>6
<1> QED
  BY <1>2, <1>3, <1>4, <1>5, <1>6
     DEF Next, Controller, Instrument, vars, WriteRegister, WriteEvent, WriteEnable,
         CoreEse, CoreSre, CoreOpc, CoreEsrQ, StatusOperationEnable,
         StatusQuestionableEnable, StatusOperationEventQ, StatusQuestionableEventQ,
         StatusPreset, SetOperationCondition, SetQuestionableCondition,
         SetMessageAvailable, ClearMessageAvailable

LEMMA QueueInit == Init => AbstractQueue!Init
<1> SUFFICES ASSUME Init PROVE Contents(queue) = << >>
  BY DEF AbstractQueue!Init
<1>1. [s \in Slots |-> 0] \in [Slots -> Codes]
  BY DEF Codes
<1> QED
  BY <1>1, FifoInitGood DEF Init

(* The ring buffer of fifo.c and the overflow path of error.c implement    *)
(* the bounded queue of module ErrorQueue, for every capacity.             *)
THEOREM QueueRefinement == Spec => ImplementsErrorQueue
  BY Invariance, QueueInit, QueueStep, PTL
     DEF Spec, ImplementsErrorQueue, AbstractQueue!Spec

(***************************************************************************)
(* What a step may do: whom it calls, which events it keeps and which      *)
(* summary bits it leaves up to date.                                      *)
(***************************************************************************)

(***************************************************************************)
(* What one call of SCPI_RegSet tells the controller                       *)
(***************************************************************************)

(* A status byte that says why service is requested. *)
Justified(stb, regs) == STB_SRQ \in stb /\ (stb \cap regs["SRE"]) \ {STB_SRQ} # {}

(* A call's last request carries the status byte it leaves, and all of its *)
(* requests are justified.                                                 *)
Truthful(o) ==
  /\ o.control # << >> => o.control[Len(o.control)] = o.regs["STB"]
  /\ \A i \in DOMAIN o.control : Justified(o.control[i], o.regs)

NewReasons(before, after) == Reasons(after) \ Reasons(before) # {}

(* A reason the registers did not have before is announced. *)
Announced(regs, o) == NewReasons(regs, o.regs) => o.control # << >>

(* The bits of STB a write leaves alone, the SRQ bit apart. *)
SameBits(before, after) ==
  \A b \in Bits \ {STB_SRQ} : b \in before["STB"] <=> b \in after["STB"]

(* Writing STB or SRE: no request goes out only if nothing was added or    *)
(* there is no reason.                                                     *)
LEMMA SetStatusByteTells ==
  ASSUME NEW regs \in Registers, SrqAgrees(regs),
         NEW name \in {"STB", "SRE"}, NEW val \in SUBSET Bits
  PROVE  LET o == SetStatusByte(regs, name, val)
         IN  /\ Truthful(o) /\ Announced(regs, o)
             /\ \A r \in RegName \ {"STB", name} : o.regs[r] = regs[r]
             /\ name = "STB" => \A b \in Bits \ {STB_SRQ} : b \in o.regs["STB"] <=> b \in val
             /\ name = "SRE" => SameBits(regs, o.regs)
             /\ name = "STB" /\ val \subseteq regs["STB"] => o.control = << >>
             /\ name = "STB" /\ regs["STB"] \subseteq val =>
                  o.control # << >> \/ o.regs = regs \/ Reasons(o.regs) = {}
<1> DEFINE o == SetStatusByte(regs, name, val)
           written == [regs EXCEPT ![name] = val]
           raised == [written EXCEPT !["STB"] = @ \cup {STB_SRQ}]
           lowered == [written EXCEPT !["STB"] = @ \ {STB_SRQ}]
           calls == IF val \ regs[name] # {} THEN << raised["STB"] >> ELSE << >>
<1>1. {"STB", "SRE"} \subseteq RegName /\ STB_SRQ \in Bits
  BY DEF RegName, Bits, STB_SRQ
<1>2. /\ written \in Registers
      /\ \A r \in RegName : written[r] = IF r = name THEN val ELSE regs[r]
  BY <1>1 DEF Registers
<1>3. /\ \A r \in RegName \ {"STB"} : raised[r] = written[r] /\ lowered[r] = written[r]
      /\ raised["STB"] = written["STB"] \cup {STB_SRQ}
      /\ lowered["STB"] = written["STB"] \ {STB_SRQ}
  BY <1>1, <1>2 DEF Registers
<1>4. \/ regs[name] = val /\ o = NoCall(regs)
      \/ regs[name] # val /\ Reasons(written) = {} /\ o = NoCall(lowered)
      \/ regs[name] # val /\ Reasons(written) # {} /\ o = [regs |-> raised, control |-> calls]
  BY DEF SetStatusByte
<1>5. Reasons(raised) = Reasons(written) /\ Reasons(lowered) = Reasons(written)
  BY <1>1, <1>3 DEF Reasons
<1>6. /\ << raised["STB"] >> # << >> /\ Len(<< raised["STB"] >>) = 1
      /\ DOMAIN << raised["STB"] >> = {1} /\ << raised["STB"] >>[1] = raised["STB"]
      /\ DOMAIN << >> = {}
  OBVIOUS
<1>7. Justified(raised["STB"], raised) <=> Reasons(raised) # {}
  BY <1>3 DEF Justified, Reasons
<1> HIDE DEF written, raised, lowered, o
<1>8. CASE regs[name] = val /\ o = NoCall(regs)
  <2>1. o.regs = regs /\ o.control = << >>
    BY <1>8 DEF NoCall
  <2>2. Truthful(o) /\ Announced(regs, o)
    BY <1>6, <2>1 DEF Truthful, Announced, NewReasons
  <2> QED
    BY <1>8, <2>1, <2>2 DEF SameBits, o
<1>9. CASE regs[name] # val /\ Reasons(written) = {} /\ o = NoCall(lowered)
  <2>1. o.regs = lowered /\ o.control = << >> /\ Reasons(o.regs) = {}
    BY <1>5, <1>9 DEF NoCall
  <2>2. Truthful(o) /\ Announced(regs, o)
    BY <1>6, <2>1 DEF Truthful, Announced, NewReasons
  <2> QED
    BY <1>1, <1>2, <1>3, <2>1, <2>2 DEF SameBits, o
<1>10. CASE /\ regs[name] # val /\ Reasons(written) # {}
            /\ o = [regs |-> raised, control |-> calls]
  <2>1. o.regs = raised /\ o.control = calls
    BY <1>10
  <2>2. calls = << >> \/ calls = << raised["STB"] >>
    OBVIOUS
  <2>3. Truthful(o)
    BY <1>5, <1>6, <1>7, <1>10, <2>1, <2>2 DEF Truthful
  <2>4. NewReasons(regs, raised) => val \ regs[name] # {}
    BY <1>1, <1>2, <1>3 DEF NewReasons, Reasons
  <2>5. Announced(regs, o)
    BY <1>6, <2>1, <2>4 DEF Announced
  <2>6. /\ name = "STB" /\ val \subseteq regs["STB"] => calls = << >>
        /\ name = "STB" /\ regs["STB"] \subseteq val => calls # << >>
    BY <1>6, <1>10
  <2> HIDE DEF calls
  <2> QED
    BY <1>1, <1>2, <1>3, <2>1, <2>3, <2>5, <2>6 DEF SameBits, o
<1> QED
  BY <1>4, <1>8, <1>9, <1>10

(* The summary bit of a group is up to date. *)
Summarised(regs, e) ==
  SummaryBit(e) \in regs["STB"] <=> regs[e] \cap regs[EnableOf(e)] # {}

(* A summary bit that was up to date stays so, and one whose event         *)
(* register changes becomes so.                                            *)
SummaryKept(before, after) ==
  \A e \in EventReg :
    Summarised(before, e) \/ after[e] # before[e] => Summarised(after, e)

LEMMA SummaryBits ==
  /\ \A e \in EventReg :
       /\ SummaryBit(e) \in Bits \ {STB_SRQ, STB_QMA, STB_MAV}
       /\ EnableOf(e) \in RegName \ ({"STB", "SRE"} \cup EventReg)
       /\ e \in RegName \ {"STB", "SRE"}
  /\ \A d, e \in EventReg : SummaryBit(d) = SummaryBit(e) => d = e
BY DEF EventReg, EnableReg, SummaryBit, EnableOf, Bits, RegName, STB_ESR, STB_OPS, STB_QES,
       STB_SRQ, STB_QMA, STB_MAV

(* Writing an event register: the summary bit follows, a cleared register  *)
(* requests nothing.                                                       *)
LEMMA SetEventTells ==
  ASSUME NEW regs \in Registers, SrqAgrees(regs),
         NEW event \in EventReg, NEW val \in SUBSET Bits
  PROVE  LET o == SetEvent(regs, event, val)
         IN  /\ Truthful(o) /\ Announced(regs, o) /\ SummaryKept(regs, o.regs)
             /\ o.regs[event] = val
             /\ \A r \in RegName \ {"STB", event} : o.regs[r] = regs[r]
             /\ val = {} => o.control = << >>
<1> DEFINE o == SetEvent(regs, event, val)
           written == [regs EXCEPT ![event] = val]
           stb == IF val \cap regs[EnableOf(event)] # {}
                    THEN regs["STB"] \cup {SummaryBit(event)}
                    ELSE regs["STB"] \ {SummaryBit(event)}
<1>1. CASE regs[event] = val
  <2>1. o.regs = regs /\ o.control = << >>
    BY <1>1 DEF SetEvent, NoCall
  <2>2. Truthful(o) /\ Announced(regs, o) /\ SummaryKept(regs, o.regs)
    BY <2>1 DEF Truthful, Announced, NewReasons, SummaryKept
  <2> QED
    BY <1>1, <2>1, <2>2
<1>2. CASE regs[event] # val
  <2>1. o = SetStatusByte(written, "STB", stb)
    BY <1>2 DEF SetEvent
  <2>2. /\ written \in Registers /\ written[event] = val
        /\ \A r \in RegName \ {event} : written[r] = regs[r]
    BY SummaryBits DEF Registers
  <2>3. stb \in SUBSET Bits
    BY SummaryBits DEF Registers, RegName
  <2>4. Reasons(written) = Reasons(regs) /\ SrqAgrees(written)
    BY <2>2, SummaryBits DEF SrqAgrees, Reasons, RegName
  <2>5. val = {} => stb \subseteq written["STB"]
    BY <2>2, SummaryBits DEF RegName
  <2>6. SummaryBit(event) \in stb <=> val \cap regs[EnableOf(event)] # {}
    OBVIOUS
  <2>7. \A b \in Bits \ {SummaryBit(event)} : b \in stb <=> b \in regs["STB"]
    OBVIOUS
  <2> HIDE DEF o, written, stb
  <2>8. /\ Truthful(o) /\ Announced(written, o)
        /\ \A r \in RegName \ {"STB"} : o.regs[r] = written[r]
        /\ \A b \in Bits \ {STB_SRQ} : b \in o.regs["STB"] <=> b \in stb
        /\ val = {} => o.control = << >>
    BY <2>1, <2>2, <2>3, <2>4, <2>5, SetStatusByteTells
  <2>9. Announced(regs, o)
    BY <2>4, <2>8 DEF Announced, NewReasons
  <2>10. o.regs[event] = val /\ \A r \in RegName \ {"STB", event} : o.regs[r] = regs[r]
    BY <2>2, <2>8, SummaryBits
  <2>11. SummaryKept(regs, o.regs)
    <3> SUFFICES ASSUME NEW e \in EventReg, Summarised(regs, e) \/ o.regs[e] # regs[e]
                 PROVE  Summarised(o.regs, e)
      BY DEF SummaryKept
    <3>1. CASE e = event
      <4>1. SummaryBit(e) \in o.regs["STB"] <=> val \cap regs[EnableOf(e)] # {}
        BY <2>6, <2>8, <3>1, SummaryBits
      <4>2. o.regs[EnableOf(e)] = regs[EnableOf(e)]
        BY <2>10, SummaryBits
      <4> QED
        BY <2>10, <3>1, <4>1, <4>2 DEF Summarised
    <3>2. CASE e # event
      <4>1. o.regs[e] = regs[e] /\ o.regs[EnableOf(e)] = regs[EnableOf(e)]
        BY <2>10, <3>2, SummaryBits
      <4>2. SummaryBit(e) \in o.regs["STB"] <=> SummaryBit(e) \in regs["STB"]
        BY <2>7, <2>8, <3>2, SummaryBits
      <4> QED
        BY <4>1, <4>2 DEF Summarised
    <3> QED
      BY <3>1, <3>2
  <2> QED
    BY <2>8, <2>9, <2>10, <2>11 DEF o
<1> QED
  BY <1>1, <1>2

(* A new condition: events are added to those latched, none is taken away. *)
LEMMA SetConditionTells ==
  ASSUME NEW regs \in Registers, SrqAgrees(regs),
         NEW condition \in ConditionReg, NEW val \in SUBSET Bits
  PROVE  LET o == SetCondition(regs, condition, val)
         IN  /\ Truthful(o) /\ Announced(regs, o) /\ SummaryKept(regs, o.regs)
             /\ \A e \in EventReg : regs[e] \subseteq o.regs[e]
<1> DEFINE o == SetCondition(regs, condition, val)
           written == [regs EXCEPT ![condition] = val]
           event == EventOf(condition)
           latched == regs[event] \cup (val \ regs[condition])
<1>1. CASE regs[condition] = val
  <2>1. o.regs = regs /\ o.control = << >>
    BY <1>1 DEF SetCondition, NoCall
  <2> QED
    BY <2>1 DEF Truthful, Announced, NewReasons, SummaryKept
<1>2. CASE regs[condition] # val
  <2>1. o = SetEvent(written, event, latched)
    BY <1>2 DEF SetCondition
  <2>2. /\ condition \in RegName \ ({"STB", "SRE"} \cup EventReg)
        /\ event \in EventReg
        /\ \A e \in EventReg : EnableOf(e) # condition
    BY DEF ConditionReg, RegName, EventReg, EventOf, EnableOf
  <2>3. /\ written \in Registers
        /\ \A r \in RegName \ {condition} : written[r] = regs[r]
        /\ latched \in SUBSET Bits
    BY <2>2, SummaryBits DEF Registers
  <2>4. Reasons(written) = Reasons(regs) /\ SrqAgrees(written)
    BY <2>2, <2>3 DEF SrqAgrees, Reasons, RegName
  <2>5. \A e \in EventReg : (Summarised(written, e) <=> Summarised(regs, e))
                            /\ written[e] = regs[e]
    BY <2>2, <2>3, SummaryBits DEF Summarised, RegName
  <2>6. regs[event] \subseteq latched
    OBVIOUS
  <2> HIDE DEF o, written, latched, event
  <2>7. /\ Truthful(o) /\ Announced(written, o) /\ SummaryKept(written, o.regs)
        /\ o.regs[event] = latched
        /\ \A e \in EventReg \ {event} : o.regs[e] = written[e]
    BY <2>1, <2>2, <2>3, <2>4, SetEventTells, SummaryBits
  <2>8. Announced(regs, o) /\ SummaryKept(regs, o.regs)
    BY <2>4, <2>5, <2>7 DEF Announced, NewReasons, SummaryKept
  <2> QED
    BY <2>5, <2>6, <2>7, <2>8 DEF o
<1> QED
  BY <1>1, <1>2

(* A call that writes an event register or STB.                            *)
LEMMA RegSetTells ==
  ASSUME NEW regs \in Registers, SrqAgrees(regs),
         NEW name \in RegName, NEW val \in SUBSET Bits
  PROVE  LET o == RegSet(regs, name, val)
         IN  /\ Truthful(o) /\ Announced(regs, o)
             /\ \A e \in EventReg \ {name} : regs[e] \subseteq o.regs[e]
             /\ name \notin EnableReg /\ (name = "STB" =>
                  \A e \in EventReg : SummaryBit(e) \in val <=> SummaryBit(e) \in regs["STB"])
                  => SummaryKept(regs, o.regs)
             /\ name \in EventReg => o.regs[name] = val
             /\ name \in EventReg \cup {"STB"} => o.regs["SRE"] = regs["SRE"]
<1> DEFINE o == RegSet(regs, name, val)
<1>1. CASE name \in {"STB", "SRE"}
  <2>1. o = SetStatusByte(regs, name, val)
    BY <1>1 DEF RegSet
  <2>2. /\ Truthful(o) /\ Announced(regs, o)
        /\ \A r \in RegName \ {"STB", name} : o.regs[r] = regs[r]
        /\ name = "STB" => \A b \in Bits \ {STB_SRQ} : b \in o.regs["STB"] <=> b \in val
        /\ name = "SRE" => SameBits(regs, o.regs)
    BY <1>1, <2>1, SetStatusByteTells DEF SameBits
  <2> HIDE DEF o
  <2>3. \A e \in EventReg : o.regs[e] = regs[e] /\ o.regs[EnableOf(e)] = regs[EnableOf(e)]
    BY <1>1, <2>2, SummaryBits
  <2>4. (name = "STB" =>
           \A e \in EventReg : SummaryBit(e) \in val <=> SummaryBit(e) \in regs["STB"])
          => SummaryKept(regs, o.regs)
    BY <1>1, <2>2, <2>3, SummaryBits DEF SummaryKept, Summarised, SameBits
  <2>5. name \notin EventReg /\ "SRE" \in RegName
    BY <1>1 DEF EventReg, RegName
  <2> QED
    BY <1>1, <2>2, <2>3, <2>4, <2>5 DEF o
<1>2. CASE name \in EventReg
  <2>1. o = SetEvent(regs, name, val)
    BY <1>2 DEF RegSet, EventReg
  <2> HIDE DEF o
  <2>2. \A r \in RegName \ {"STB", name} : o.regs[r] = regs[r]
    BY <1>2, <2>1, SetEventTells
  <2>3. "SRE" \in RegName \ {"STB", name}
    BY <1>2 DEF EventReg, RegName
  <2>4. \A e \in EventReg \ {name} : o.regs[e] = regs[e]
    BY <2>2, SummaryBits
  <2> QED
    BY <1>2, <2>1, <2>2, <2>3, <2>4, SetEventTells DEF o
<1>3. CASE name \in ConditionReg
  <2>1. o = SetCondition(regs, name, val) /\ name \notin EventReg \cup {"STB"}
    BY <1>3 DEF RegSet, EventReg, ConditionReg
  <2> HIDE DEF o
  <2> QED
    BY <1>3, <2>1, SetConditionTells DEF o
<1>4. CASE name \in EnableReg
  <2>1. o = NoCall([regs EXCEPT ![name] = val])
    BY <1>4 DEF RegSet, EventReg, ConditionReg, EnableReg
  <2>2. /\ o.control = << >> /\ name \notin EventReg \cup {"STB", "SRE"}
        /\ \A r \in RegName \ {name} : o.regs[r] = regs[r]
    BY <1>4, <2>1 DEF NoCall, EventReg, EnableReg, Registers
  <2> HIDE DEF o
  <2>3. Reasons(o.regs) = Reasons(regs)
    BY <2>2 DEF Reasons, RegName
  <2>4. Truthful(o) /\ Announced(regs, o)
    BY <2>2, <2>3 DEF Truthful, Announced, NewReasons
  <2>5. \A e \in EventReg : o.regs[e] = regs[e]
    BY <2>2, SummaryBits
  <2> QED
    BY <1>4, <2>2, <2>4, <2>5 DEF o
<1> QED
  BY <1>1, <1>2, <1>3, <1>4 DEF RegName

(* A step that asks for nothing and gives no reason for asking. *)
Quiet(regs, o) == o.control = << >> /\ ~ NewReasons(regs, o.regs)

(* Clearing an event register, or bits of STB, behind a quiet call.        *)
LEMMA AndThenQuiet ==
  ASSUME NEW regs, NEW o, Consistent(o), Quiet(regs, o), SummaryKept(regs, o.regs),
         NEW name \in EventReg \cup {"STB"}, NEW val \in SUBSET Bits,
         IF name = "STB"
           THEN /\ val \subseteq o.regs["STB"]
                /\ \A e \in EventReg : SummaryBit(e) \in val <=> SummaryBit(e) \in o.regs["STB"]
           ELSE val = {}
  PROVE  LET p == AndThen(o, name, val)
         IN  Quiet(regs, p) /\ SummaryKept(regs, p.regs)
<1> DEFINE next == RegSet(o.regs, name, val)
           p == AndThen(o, name, val)
<1>1. p.regs = next.regs /\ p.control = o.control \o next.control
  BY DEF AndThen
<1>2. o.regs \in Registers /\ SrqAgrees(o.regs) /\ name \in RegName \ EnableReg
  BY DEF Consistent, RegName, EventReg, EnableReg
<1>3. next.control = << >>
  <2>1. CASE name = "STB"
    <3>1. next = SetStatusByte(o.regs, name, val)
      BY <2>1 DEF RegSet
    <3> QED
      BY <1>2, <2>1, <3>1, SetStatusByteTells
  <2>2. CASE name \in EventReg
    <3>1. next = SetEvent(o.regs, name, val)
      BY <2>2 DEF RegSet, EventReg
    <3>2. val = {}
      BY <2>2 DEF EventReg
    <3> QED
      BY <1>2, <2>2, <3>1, <3>2, SetEventTells
  <2> QED
    BY <2>1, <2>2
<1>4. Announced(o.regs, next) /\ SummaryKept(o.regs, next.regs)
  <2>1. name = "STB" =>
          \A e \in EventReg : SummaryBit(e) \in val <=> SummaryBit(e) \in o.regs["STB"]
    OBVIOUS
  <2> QED
    BY <1>2, <2>1, RegSetTells
<1> HIDE DEF next, p
<1>5. p.control = << >>
  BY <1>1, <1>3 DEF Quiet
<1>6. ~ NewReasons(regs, p.regs)
  BY <1>1, <1>3, <1>4 DEF Quiet, Announced, NewReasons
<1>7. SummaryKept(regs, p.regs)
  BY <1>1, <1>4 DEF SummaryKept
<1> QED
  BY <1>5, <1>6, <1>7 DEF Quiet, p

(* Adding bits to STB behind a call: a request of the first call is not    *)
(* outdated by the second.                                                 *)
LEMMA AndThenAdd ==
  ASSUME NEW regs, NEW o, Consistent(o), Truthful(o), Announced(regs, o),
         NEW val \in SUBSET Bits, o.regs["STB"] \subseteq val
  PROVE  LET p == AndThen(o, "STB", val)
         IN  Truthful(p) /\ Announced(regs, p)
<1> DEFINE next == RegSet(o.regs, "STB", val)
           p == AndThen(o, "STB", val)
<1>1. p.regs = next.regs /\ p.control = o.control \o next.control
  BY DEF AndThen
<1>2. o.regs \in Registers /\ SrqAgrees(o.regs) /\ "STB" \in RegName /\ "SRE" \in RegName
  BY DEF Consistent, RegName
<1>3. next = SetStatusByte(o.regs, "STB", val)
  BY DEF RegSet
<1>4. /\ Truthful(next) /\ Announced(o.regs, next)
      /\ next.regs["SRE"] = o.regs["SRE"]
      /\ \A b \in Bits \ {STB_SRQ} : b \in next.regs["STB"] <=> b \in val
      /\ next.control # << >> \/ next.regs = o.regs \/ Reasons(next.regs) = {}
      /\ next.control \in Seq(SUBSET Bits) /\ o.control \in Seq(SUBSET Bits)
  <2>1. Consistent(next)
    BY <1>2, RegSetStep
  <2> QED
    BY <1>2, <1>3, <2>1, SetStatusByteTells DEF Consistent
<1> HIDE DEF next, p
<1>5. Reasons(o.regs) \subseteq Reasons(next.regs)
  BY <1>2, <1>4 DEF Reasons, Registers
<1>6. CASE next.control = << >>
  <2>1. p.control = o.control
    BY <1>1, <1>4, <1>6
  <2>2. CASE next.regs = o.regs
    BY <1>1, <2>1, <2>2 DEF Truthful, Announced, p
  <2>3. CASE Reasons(next.regs) = {}
    <3>1. o.control = << >>
      <4>1. SUFFICES ASSUME o.control # << >> PROVE FALSE
        OBVIOUS
      <4>2. Len(o.control) \in DOMAIN o.control
        BY <1>4, <4>1
      <4>3. Reasons(o.regs) # {}
        BY <4>1, <4>2 DEF Truthful, Justified, Reasons
      <4> QED
        BY <1>5, <2>3, <4>3
    <3> QED
      BY <1>1, <2>1, <2>3, <3>1 DEF Truthful, Announced, NewReasons, p
  <2> QED
    BY <1>4, <1>6, <2>2, <2>3
<1>7. CASE next.control # << >>
  <2> DEFINE first == o.control
             last == next.control
  <2>1. first \in Seq(SUBSET Bits) /\ last \in Seq(SUBSET Bits) /\ last # << >>
    BY <1>4, <1>7
  <2>2. p.control = first \o last
    BY <1>1
  <2> HIDE DEF first, last
  <2>3. /\ Len(p.control) = Len(first) + Len(last)
        /\ Len(last) \in Nat \ {0} /\ Len(first) \in Nat
        /\ DOMAIN p.control = 1 .. Len(first) + Len(last)
        /\ DOMAIN first = 1 .. Len(first) /\ DOMAIN last = 1 .. Len(last)
        /\ \A i \in 1 .. Len(first) + Len(last) :
             p.control[i] = IF i <= Len(first) THEN first[i] ELSE last[i - Len(first)]
    BY <2>1, <2>2, ConcatProperties, EmptySeq, LenProperties
  <2>4. p.control # << >> /\ p.control[Len(p.control)] = last[Len(last)]
    BY <2>1, <2>3
  <2>5. p.control # << >> /\ p.control[Len(p.control)] = p.regs["STB"]
    BY <1>1, <1>4, <1>7, <2>4 DEF Truthful, last
  <2>6. ASSUME NEW i \in DOMAIN p.control
        PROVE  Justified(p.control[i], p.regs)
    <3>1. CASE i <= Len(first)
      <4>1. i \in DOMAIN first /\ p.control[i] = first[i]
        BY <2>3, <3>1
      <4> QED
        BY <1>1, <1>4, <4>1 DEF Truthful, Justified, first
    <3>2. CASE i > Len(first)
      <4>1. i - Len(first) \in DOMAIN last /\ p.control[i] = last[i - Len(first)]
        BY <2>3, <3>2
      <4> QED
        BY <1>1, <1>4, <4>1 DEF Truthful, last
    <3> QED
      BY <2>3, <3>1, <3>2
  <2> QED
    BY <2>5, <2>6 DEF Truthful, Announced, p
<1> QED
  BY <1>6, <1>7

(***************************************************************************)
(* What a step tells, keeps and leaves up to date                          *)
(***************************************************************************)

(* The registers a step leaves and the requests it makes. *)
Outcomes == [regs |-> registers', control |-> control']

(* What every step does: its requests are truthful, a new reason is        *)
(* announced, the summary bits it disturbs are remembered as such.         *)
StepTells ==
  /\ Truthful(Outcomes) /\ Announced(registers, Outcomes)
  /\ \A e \in EventReg \ staleSummary' :
       (e \notin staleSummary => Summarised(registers, e))
         => Summarised(registers', e)

(* A call that keeps the summaries, and what the history variable says.    *)
LEMMA ReportTells ==
  ASSUME NEW o, NEW codes, Report(o, codes),
         Truthful(o), Announced(registers, o), SummaryKept(registers, o.regs),
         staleSummary \ Refreshed \subseteq staleSummary'
  PROVE  StepTells
<1>1. registers' = o.regs /\ control' = o.control
  BY DEF Report
<1>2. Truthful(Outcomes) /\ Announced(registers, Outcomes)
  BY <1>1 DEF Outcomes, Truthful, Announced
<1>3. ASSUME NEW e \in EventReg \ staleSummary', e \notin staleSummary => Summarised(registers, e)
      PROVE  Summarised(registers', e)
  BY <1>1, <1>3 DEF SummaryKept, Refreshed
<1> QED
  BY <1>2, <1>3 DEF StepTells

LEMMA QuietTells ==
  ASSUME NEW regs, NEW o, Quiet(regs, o)
  PROVE  Truthful(o) /\ Announced(regs, o)
BY DEF Quiet, Truthful, Announced

(* The registers as the invariant has them. *)
LEMMA RegistersSound ==
  ASSUME IInv
  PROVE  /\ registers \in Registers /\ SrqAgrees(registers)
         /\ \A r \in RegName : registers[r] \in SUBSET Bits
         /\ Consistent(NoCall(registers)) /\ NoCall(registers).regs = registers
         /\ Quiet(registers, NoCall(registers))
         /\ SummaryKept(registers, NoCall(registers).regs)
<1>1. registers \in Registers /\ SrqAgrees(registers)
  BY DEF IInv, TypeOK, SrqIffReason, SrqAgrees
<1>2. \A r \in RegName : registers[r] \in SUBSET Bits
  BY <1>1 DEF Registers
<1>3. Consistent(NoCall(registers)) /\ NoCall(registers).regs = registers
  BY <1>1, NoCallConsistent
<1>4. Quiet(registers, NoCall(registers)) /\ SummaryKept(registers, NoCall(registers).regs)
  BY DEF NoCall, Quiet, NewReasons, SummaryKept
<1> QED
  BY <1>1, <1>2, <1>3, <1>4

(* SCPI_ErrorPushEx: the event and then the QMA bit.                       *)
LEMMA ErrorPushTells ==
  ASSUME IInv, NEW err \in ErrorCodes, ErrorPush(err)
  PROVE  StepTells /\ \A e \in EventReg : registers[e] \subseteq registers'[e]
<1> DEFINE val == registers["ESR"] \cup EsrBits(err)
           first == RegSet(registers, "ESR", val)
           esr == AndThen(NoCall(registers), "ESR", val)
           stb == AndThen(esr, "STB", esr.regs["STB"] \cup {STB_QMA})
<1>1. /\ "ESR" \in EventReg /\ "ESR" \in RegName /\ "STB" \in RegName /\ STB_QMA \in Bits
      /\ EsrBits(err) \in SUBSET Bits
  BY DEF EventReg, RegName, Bits, STB_QMA, EsrBits, ErrorClasses, ESR_OPC, ESR_REQ, ESR_QER,
         ESR_DER, ESR_EER, ESR_CER, ESR_URQ, ESR_PON
<1>2. val \in SUBSET Bits
  BY <1>1, RegistersSound
<1>3. /\ SetBits(NoCall(registers), "ESR", EsrBits(err)) = esr
      /\ SetBits(esr, "STB", {STB_QMA}) = stb
  BY RegistersSound DEF SetBits
<1>4. /\ Consistent(first) /\ Truthful(first) /\ Announced(registers, first)
      /\ \A e \in EventReg : registers[e] \subseteq first.regs[e]
      /\ SummaryKept(registers, first.regs)
  <2>1. "ESR" \notin EnableReg /\ registers["ESR"] \subseteq val
    BY DEF EnableReg
  <2> HIDE DEF val
  <2>2. first.regs["ESR"] = val
    BY <1>1, <1>2, RegistersSound, RegSetTells
  <2> QED
    BY <1>1, <1>2, <2>1, <2>2, RegistersSound, RegSetStep, RegSetTells
<1>5. esr.regs = first.regs /\ esr.control = first.control
  <2>1. first.control \in Seq(SUBSET Bits)
    BY <1>4 DEF Consistent
  <2> HIDE DEF first
  <2>2. << >> \o first.control = first.control
    BY <2>1
  <2> QED
    BY <2>2 DEF AndThen, NoCall, first
<1> HIDE DEF first, esr, val
<1>6. Consistent(esr) /\ Truthful(esr) /\ Announced(registers, esr)
  BY <1>4, <1>5 DEF Consistent, Truthful, Announced
<1>7. esr.regs["STB"] \cup {STB_QMA} \in SUBSET Bits
  BY <1>1, <1>6 DEF Consistent, Registers
<1>8. Truthful(stb) /\ Announced(registers, stb)
  BY <1>6, <1>7, AndThenAdd
<1>9. /\ \A e \in EventReg : esr.regs[e] \subseteq stb.regs[e]
      /\ SummaryKept(esr.regs, stb.regs)
  <2> DEFINE more == esr.regs["STB"] \cup {STB_QMA}
  <2>1. stb.regs = RegSet(esr.regs, "STB", more).regs
    BY DEF AndThen
  <2>2. \A e \in EventReg : SummaryBit(e) \in more <=> SummaryBit(e) \in esr.regs["STB"]
    BY SummaryBits
  <2>3. "STB" \notin EnableReg /\ "STB" \notin EventReg
    BY DEF EnableReg, EventReg
  <2> HIDE DEF more, stb
  <2> QED
    BY <1>1, <1>6, <1>7, <2>1, <2>2, <2>3, RegSetTells DEF Consistent, more
<1>10. /\ SummaryKept(registers, stb.regs)
       /\ \A e \in EventReg : registers[e] \subseteq stb.regs[e]
  BY <1>4, <1>5, <1>9 DEF SummaryKept
<1>11. /\ Report(stb, IF IsFull(queue) THEN << err, QUEUE_OVERFLOW >> ELSE << err >>)
       /\ staleSummary' = staleSummary \ Refreshed
  BY <1>3 DEF ErrorPush
<1> HIDE DEF stb
<1>12. registers' = stb.regs
  BY <1>11 DEF Report
<1> QED
  BY <1>8, <1>10, <1>11, <1>12, ReportTells

(* SCPI_ErrorEmitEmpty takes back a reason, and *CLS takes back all.       *)
LEMMA EmitEmptyQuiet ==
  ASSUME IInv, NEW q, ~ IsEmpty(q) => ~ IsEmpty(queue)
  PROVE  /\ Consistent(EmitEmpty(q)) /\ Quiet(registers, EmitEmpty(q))
         /\ SummaryKept(registers, EmitEmpty(q).regs)
         /\ \A e \in EventReg : registers[e] \subseteq EmitEmpty(q).regs[e]
<1> DEFINE val == registers["STB"] \ EmptyBits(q)
<1>1. EmitEmpty(q) = AndThen(NoCall(registers), "STB", val)
  BY RegistersSound DEF EmitEmpty, ClearBits
<1>2. "STB" \in RegName /\ "STB" \notin EventReg /\ "STB" \notin EnableReg
  BY DEF RegName, EventReg, EnableReg
<1>3. val \in SUBSET Bits /\ val \subseteq registers["STB"]
  BY <1>2, RegistersSound
<1>4. \A e \in EventReg : SummaryBit(e) \in val <=> SummaryBit(e) \in registers["STB"]
  BY SummaryBits DEF EmptyBits
<1> HIDE DEF val
<1>5. Consistent(EmitEmpty(q))
  BY RegistersSound, EmitEmptyStep DEF IInv, QmaIffErrors, Qma
<1>6. Quiet(registers, EmitEmpty(q)) /\ SummaryKept(registers, EmitEmpty(q).regs)
  BY <1>1, <1>3, <1>4, RegistersSound, AndThenQuiet
<1>7. EmitEmpty(q).regs = RegSet(registers, "STB", val).regs
  BY <1>1, RegistersSound DEF AndThen
<1>8. \A e \in EventReg : registers[e] \subseteq EmitEmpty(q).regs[e]
  BY <1>2, <1>3, <1>7, RegistersSound, RegSetTells
<1> QED
  BY <1>5, <1>6, <1>8

LEMMA DrainTells ==
  ASSUME IInv, ErrorPop \/ ErrorClear
  PROVE  StepTells /\ \A e \in EventReg : registers[e] \subseteq registers'[e]
<1>1. ~ IsEmpty(queue') => ~ IsEmpty(queue)
  BY DEF ErrorPop, ErrorClear, FifoRemove, FifoClear, IsEmpty
<1>2. /\ Report(EmitEmpty(queue'), EmptyNotice(queue'))
      /\ staleSummary \ Refreshed \subseteq staleSummary'
  BY DEF ErrorPop, ErrorClear
<1>3. registers' = EmitEmpty(queue').regs
  BY <1>2 DEF Report
<1> QED
  BY <1>1, <1>2, <1>3, EmitEmptyQuiet, QuietTells, ReportTells

LEMMA CoreClsTells ==
  ASSUME IInv, CoreCls
  PROVE  StepTells
<1> DEFINE empty == EmitEmpty(queue')
           esr == AndThen(empty, "ESR", {})
           oper == AndThen(esr, "OPER", {})
           ques == AndThen(oper, "QUES", {})
<1>1. /\ {"ESR", "OPER", "QUES"} \subseteq EventReg /\ "STB" \notin EventReg
      /\ {"ESR", "OPER", "QUES"} \subseteq RegName
  BY DEF EventReg, RegName
<1>2. Report(ques, EmptyNotice(queue')) /\ staleSummary' = staleSummary \ Refreshed
  BY DEF CoreCls
<1>3. Consistent(empty) /\ Quiet(registers, empty) /\ SummaryKept(registers, empty.regs)
  <2>1. IsEmpty(queue')
    BY DEF CoreCls, FifoClear, IsEmpty
  <2> QED
    BY <2>1, EmitEmptyQuiet
<1> HIDE DEF empty
<1>4. Consistent(esr) /\ Quiet(registers, esr) /\ SummaryKept(registers, esr.regs)
  BY <1>1, <1>3, AndThenStep, AndThenQuiet
<1> HIDE DEF esr
<1>5. Consistent(oper) /\ Quiet(registers, oper) /\ SummaryKept(registers, oper.regs)
  BY <1>1, <1>4, AndThenStep, AndThenQuiet
<1> HIDE DEF oper
<1>6. Quiet(registers, ques) /\ SummaryKept(registers, ques.regs)
  BY <1>1, <1>5, AndThenQuiet
<1> HIDE DEF ques
<1> QED
  BY <1>2, <1>6, QuietTells, ReportTells

(* A write of one register, an enable register apart.                      *)
LEMMA WriteTells ==
  ASSUME IInv, NEW name \in RegName \ EnableReg, NEW val \in SUBSET Bits,
         name = "STB" =>
           \A e \in EventReg : SummaryBit(e) \in val <=> SummaryBit(e) \in registers["STB"],
         WriteRegister(name, val), staleSummary \ Refreshed \subseteq staleSummary'
  PROVE  /\ StepTells
         /\ \A e \in EventReg \ {name} : registers[e] \subseteq registers'[e]
         /\ name \in EventReg => registers'[name] = val
<1> DEFINE o == RegSet(registers, name, val)
<1>1. /\ Truthful(o) /\ Announced(registers, o) /\ SummaryKept(registers, o.regs)
      /\ \A e \in EventReg \ {name} : registers[e] \subseteq o.regs[e]
      /\ name \in EventReg => o.regs[name] = val
  BY RegistersSound, RegSetTells
<1>2. Report(o, << >>)
  BY DEF WriteRegister
<1> HIDE DEF o
<1>3. registers' = o.regs
  BY <1>2 DEF Report
<1> QED
  BY <1>1, <1>2, <1>3, ReportTells

(* An enable register: only the group's own summary may be outdated.       *)
LEMMA WriteEnableTells ==
  ASSUME IInv, NEW event \in EventReg, NEW val \in SUBSET Bits, WriteEnable(event, val)
  PROVE  StepTells /\ \A e \in EventReg : registers[e] \subseteq registers'[e]
<1> DEFINE name == EnableOf(event)
           o == RegSet(registers, name, val)
<1>1. /\ name \in EnableReg /\ name \in RegName \ ({"STB", "SRE"} \cup EventReg)
      /\ \A e \in EventReg : EnableOf(e) = name => e = event
  BY DEF EnableOf, EventReg, EnableReg, RegName
<1>2. Report(o, << >>) /\ staleSummary' = IF registers[name] = val THEN staleSummary
                                          ELSE staleSummary \cup {event}
  BY DEF WriteEnable, WriteRegister
<1>3. o = NoCall([registers EXCEPT ![name] = val])
  BY <1>1 DEF RegSet, EventReg, ConditionReg, EnableReg
<1>4. /\ \A r \in RegName \ {name} : registers'[r] = registers[r]
      /\ registers[name] = val => registers' = registers
      /\ registers' = o.regs /\ control' = o.control
  BY <1>1, <1>2, <1>3, RegistersSound DEF Report, NoCall, Registers
<1>5. Truthful(o) /\ Announced(registers, o)
  BY <1>1, RegistersSound, RegSetTells
<1> HIDE DEF o
<1>6. Truthful(Outcomes) /\ Announced(registers, Outcomes)
  BY <1>4, <1>5 DEF Outcomes, Truthful, Announced
<1>7. ASSUME NEW e \in EventReg \ staleSummary', e \notin staleSummary => Summarised(registers, e)
      PROVE  Summarised(registers', e)
  <2>1. CASE registers[name] = val
    BY <1>2, <1>4, <1>7, <2>1
  <2>2. CASE registers[name] # val
    <3>1. e # event /\ e \notin staleSummary /\ EnableOf(e) # name
      BY <1>1, <1>2, <2>2
    <3>2. /\ registers'[e] = registers[e] /\ registers'["STB"] = registers["STB"]
          /\ registers'[EnableOf(e)] = registers[EnableOf(e)]
      BY <1>1, <1>4, <3>1, SummaryBits DEF RegName
    <3> QED
      BY <1>7, <3>1, <3>2 DEF Summarised
  <2> QED
    BY <2>1, <2>2
<1>8. \A e \in EventReg : registers[e] \subseteq registers'[e]
  BY <1>1, <1>4, SummaryBits
<1> QED
  BY <1>6, <1>7, <1>8 DEF StepTells

(* The events a step keeps. *)
LatchesKept ==
  \A e \in EventReg :
    registers[e] \subseteq registers'[e]
      \/ CoreCls
      \/ (e = "ESR" /\ CoreEsrQ)
      \/ (e = "OPER" /\ StatusOperationEventQ)
      \/ (e = "QUES" /\ (StatusQuestionableEventQ \/ StatusPreset))

LEMMA NextTells == IInv /\ Next => StepTells /\ LatchesKept
<1> SUFFICES ASSUME IInv, Next
             PROVE  StepTells /\ LatchesKept
  OBVIOUS
<1>1. /\ EventReg = {"ESR", "OPER", "QUES"} /\ {} \in SUBSET Bits
      /\ {"ESR", "OPER", "QUES", "OPERC", "QUESC", "SRE", "STB"} \subseteq RegName \ EnableReg
      /\ {"OPERC", "QUESC", "SRE", "STB"} \cap EventReg = {} /\ "SRE" # "STB"
  BY DEF EventReg, EnableReg, ConditionReg, RegName
<1>2. CASE ErrorPop \/ ErrorClear
  BY <1>2, DrainTells DEF LatchesKept
<1>3. CASE CoreCls
  BY <1>3, CoreClsTells DEF LatchesKept
<1>4. ASSUME NEW err \in ErrorCodes, ErrorPush(err)
      PROVE  StepTells /\ LatchesKept
  BY <1>4, ErrorPushTells DEF LatchesKept
<1>5. ASSUME NEW event \in EventReg, NEW val \in SUBSET Bits, WriteEnable(event, val)
      PROVE  StepTells /\ LatchesKept
  BY <1>5, WriteEnableTells DEF LatchesKept
<1>6. ASSUME NEW mask \in ServiceMasks, CoreSre(mask)
      PROVE  StepTells /\ LatchesKept
  <2>1. WriteRegister("SRE", mask) /\ staleSummary \ Refreshed \subseteq staleSummary'
    BY <1>6 DEF CoreSre
  <2> QED
    BY <1>1, <2>1, WriteTells, MasksAssumption DEF LatchesKept
<1>7. CASE CoreOpc
  <2> DEFINE val == registers["ESR"] \cup {ESR_OPC}
  <2>1. val \in SUBSET Bits /\ registers["ESR"] \subseteq val
    BY <1>1, RegistersSound DEF Bits, ESR_OPC
  <2>2. WriteRegister("ESR", val) /\ staleSummary \ Refreshed \subseteq staleSummary'
    BY <1>7 DEF CoreOpc, WriteEvent
  <2> HIDE DEF val
  <2>3. /\ StepTells /\ \A e \in EventReg \ {"ESR"} : registers[e] \subseteq registers'[e]
        /\ registers'["ESR"] = val
    BY <1>1, <2>1, <2>2, WriteTells
  <2> QED
    BY <2>1, <2>3 DEF LatchesKept
<1>8. ASSUME NEW event \in EventReg, WriteEvent(event, {})
      PROVE  StepTells /\ \A e \in EventReg \ {event} : registers[e] \subseteq registers'[e]
  <2>1. WriteRegister(event, {}) /\ staleSummary \ Refreshed \subseteq staleSummary'
    BY <1>8 DEF WriteEvent
  <2> QED
    BY <1>1, <2>1, WriteTells
<1>9. CASE CoreEsrQ
  BY <1>1, <1>8, <1>9 DEF CoreEsrQ, LatchesKept
<1>10. CASE StatusOperationEventQ
  BY <1>1, <1>8, <1>10 DEF StatusOperationEventQ, LatchesKept
<1>11. CASE StatusQuestionableEventQ \/ StatusPreset
  BY <1>1, <1>8, <1>11 DEF StatusQuestionableEventQ, StatusPreset, LatchesKept
<1>12. ASSUME NEW condition \in {"OPERC", "QUESC"}, NEW val \in SUBSET Bits,
              WriteEvent(condition, val)
       PROVE  StepTells /\ LatchesKept
  <2>1. WriteRegister(condition, val) /\ staleSummary \ Refreshed \subseteq staleSummary'
    BY <1>12 DEF WriteEvent
  <2> QED
    BY <1>1, <2>1, WriteTells DEF LatchesKept
<1>13. ASSUME NEW val, val = registers["STB"] \cup {STB_MAV} \/ val = registers["STB"] \ {STB_MAV},
              WriteRegister("STB", val), UNCHANGED staleSummary
       PROVE  StepTells /\ LatchesKept
  <2>1. val \in SUBSET Bits
    BY <1>1, <1>13, RegistersSound DEF Bits, STB_MAV
  <2>2. \A e \in EventReg : SummaryBit(e) \in val <=> SummaryBit(e) \in registers["STB"]
    BY <1>13, SummaryBits
  <2> QED
    BY <1>1, <1>13, <2>1, <2>2, WriteTells DEF LatchesKept
<1>14. CASE \/ \E mask \in EventMasks : CoreEse(mask)
            \/ \E val \in OperationValues : StatusOperationEnable(val)
            \/ \E val \in QuestionableValues : StatusQuestionableEnable(val)
  BY <1>1, <1>5, <1>14, MasksAssumption
     DEF CoreEse, StatusOperationEnable, StatusQuestionableEnable
<1>15. CASE \/ \E val \in OperationValues : SetOperationCondition(val)
            \/ \E val \in QuestionableValues : SetQuestionableCondition(val)
  BY <1>12, <1>15, MasksAssumption DEF SetOperationCondition, SetQuestionableCondition
<1>16. CASE SetMessageAvailable \/ ClearMessageAvailable
  BY <1>13, <1>16 DEF SetMessageAvailable, ClearMessageAvailable
<1> QED
  BY <1>2, <1>3, <1>4, <1>6, <1>7, <1>9, <1>10, <1>11, <1>14, <1>15, <1>16
     DEF Next, Controller, Instrument

(***************************************************************************)
(* The results                                                             *)
(***************************************************************************)

(* A summary bit of STB is the OR of the enabled event bits, but for a     *)
(* group whose enable register was rewritten since its event register last *)
(* changed (SCPI_RegSet).                                                  *)
THEOREM SummaryTellsEvents == Spec => []SummaryCurrent
<1>1. Init => SummaryCurrent
  BY SummaryBits DEF Init, AllZero, SummaryCurrent, RegName
<1>2. IInv /\ SummaryCurrent /\ [Next]_vars => SummaryCurrent'
  <2> SUFFICES ASSUME IInv, SummaryCurrent, [Next]_vars
               PROVE  SummaryCurrent'
    OBVIOUS
  <2>1. CASE Next
    <3>1. \A e \in EventReg \ staleSummary : Summarised(registers, e)
      BY DEF SummaryCurrent, Summarised
    <3>2. \A e \in EventReg \ staleSummary' : Summarised(registers', e)
      BY <2>1, <3>1, NextTells DEF StepTells
    <3> QED
      BY <3>2 DEF SummaryCurrent, Summarised
  <2>2. CASE UNCHANGED vars
    BY <2>2 DEF vars, SummaryCurrent
  <2> QED
    BY <2>1, <2>2
<1> QED
  BY <1>1, <1>2, Invariance, PTL DEF Spec

(* The controller is called with the status byte of the moment whenever an *)
(* enabled reason for service is new, and each of its calls has a reason   *)
(* (SCPI_RegSet, writeControl).                                            *)
THEOREM RequestsTellReasons == Spec => ServiceRequestedForReasons
<1>1. IInv /\ [Next]_vars =>
        [Reasons(registers') \ Reasons(registers) # {}
           => /\ control' # << >>
              /\ control'[Len(control')] = registers'["STB"]]_vars
  BY NextTells DEF StepTells, Truthful, Announced, NewReasons, Outcomes
<1>2. IInv /\ [Next]_vars =>
        [\A i \in DOMAIN control' :
           /\ STB_SRQ \in control'[i]
           /\ (control'[i] \cap registers'["SRE"]) \ {STB_SRQ} # {}]_vars
  BY NextTells DEF StepTells, Truthful, Justified, Outcomes
<1>3. Spec => NewReasonRequestsService
  BY <1>1, Invariance, PTL DEF Spec, NewReasonRequestsService
<1>4. Spec => RequestsHaveReason
  BY <1>2, Invariance, PTL DEF Spec, RequestsHaveReason
<1> QED
  BY <1>3, <1>4, PTL DEF ServiceRequestedForReasons

(* A latched event bit stays until its own register is read or preset or   *)
(* *CLS clears it (the event and condition cases of SCPI_RegSet).          *)
THEOREM LatchesHold == Spec => EventsLatched
<1>1. IInv /\ [Next]_vars =>
        [\A e \in EventReg :
           registers[e] \subseteq registers'[e]
             \/ CoreCls
             \/ (e = "ESR" /\ CoreEsrQ)
             \/ (e = "OPER" /\ StatusOperationEventQ)
             \/ (e = "QUES" /\ (StatusQuestionableEventQ \/ StatusPreset))]_vars
  BY NextTells DEF LatchesKept
<1> QED
  BY <1>1, Invariance, PTL DEF Spec, EventsLatched

(* A pushed error is the youngest entry of the queue, or the overflow mark *)
(* is (SCPI_ErrorAddInternal).                                             *)
THEOREM PushLeavesTrace == Spec => NoSilentLoss
<1>1. ASSUME IInv, NEW err \in ErrorCodes, ErrorPush(err)
      PROVE  LET after == Contents(queue')
             IN  /\ after # << >>
                 /\ after[Len(after)] = IF Len(Contents(queue)) < Size THEN err
                                                                     ELSE QUEUE_OVERFLOW
  <2> DEFINE before == Contents(queue)
  <2>1. Good(Codes, queue)
    BY <1>1 DEF IInv, TypeOK, Good
  <2>2. before \in Seq(Codes) /\ Len(before) \in 0 .. Size
    BY <2>1, ContentsSeq, FifoFields DEF Good
  <2>3. Contents(queue') = IF Len(before) < Size THEN Append(before, err)
                           ELSE [before EXCEPT ![Size] = QUEUE_OVERFLOW]
    BY <1>1, <2>1, AfterAddStep DEF ErrorPush
  <2> HIDE DEF before
  <2>4. CASE Len(before) < Size
    <3>1. err \in Codes
      BY DEF Codes
    <3>2. /\ Append(before, err) # << >>
          /\ Len(Append(before, err)) = Len(before) + 1
          /\ Append(before, err)[Len(before) + 1] = err
      BY <2>2, <3>1, AppendProperties
    <3> QED
      BY <2>3, <2>4, <3>2 DEF before
  <2>5. CASE Len(before) = Size
    <3>1. QUEUE_OVERFLOW \in Codes /\ Size \in 1 .. Len(before)
      BY <2>2, <2>5, SizeAssumption DEF Codes
    <3> DEFINE marked == [before EXCEPT ![Size] = QUEUE_OVERFLOW]
    <3>2. /\ marked \in Seq(Codes) /\ Len(marked) = Len(before)
          /\ marked[Size] = QUEUE_OVERFLOW
      BY <2>2, <3>1, ExceptSeq
    <3>3. Contents(queue') = marked
      BY <2>3, <2>5, SizeAssumption
    <3> HIDE DEF marked
    <3>4. marked # << >> /\ marked[Len(marked)] = QUEUE_OVERFLOW
      BY <2>5, <3>2, SizeAssumption
    <3> QED
      BY <2>5, <3>3, <3>4, SizeAssumption DEF before
  <2>6. Len(before) < Size \/ Len(before) = Size
    BY <2>2, SizeAssumption
  <2> QED
    BY <2>4, <2>5, <2>6
<1>2. IInv /\ [Next]_vars =>
        [\A err \in ErrorCodes :
           ErrorPush(err) =>
             LET after == Contents(queue')
             IN  /\ after # << >>
                 /\ after[Len(after)] = IF Len(Contents(queue)) < Size THEN err
                                                                     ELSE QUEUE_OVERFLOW]_vars
  BY <1>1
<1> QED
  BY <1>2, Invariance, PTL DEF Spec, NoSilentLoss

=============================================================================
