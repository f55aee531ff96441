--------------------------- MODULE StatusRegisters ---------------------------
(***************************************************************************)
(* The IEEE 488.2 / SCPI status registers of libscpi/src/ieee488.c and the *)
(* cascade of SCPI_RegSet:                                                 *)
(*                                                                         *)
(*   condition -> event -> (masked by enable) summary bit of STB           *)
(*             -> (masked by SRE) the SRQ bit and a service request.       *)
(*                                                                         *)
(* A register is the set of the numbers of its bits that are one, so that  *)
(* "|" is \cup, "&" is \cap, "& ~" is set difference and a rising edge     *)
(* (old ^ val) & val is val \ old.  Built without USE_CUSTOM_REGISTERS:    *)
(* the table of groups is the one of scpi_reg_group_details, where no      *)
(* group has transition filters.                                           *)
(***************************************************************************)
EXTENDS Integers, Sequences

Bits == 0 .. 15

(* Status byte and event status bits, scpi_private.h / types.h. *)
STB_QMA == 2
STB_QES == 3
STB_MAV == 4
STB_ESR == 5
STB_SRQ == 6
STB_OPS == 7

ESR_OPC == 0
ESR_REQ == 1
ESR_QER == 2
ESR_DER == 3
ESR_EER == 4
ESR_CER == 5
ESR_URQ == 6
ESR_PON == 7

EventReg == {"ESR", "OPER", "QUES"}
EnableReg == {"ESE", "OPERE", "QUESE"}
ConditionReg == {"OPERC", "QUESC"}
RegName == {"STB", "SRE"} \cup EventReg \cup EnableReg \cup ConditionReg

(* scpi_reg_group_details *)
EnableOf(event) ==
  IF event = "ESR" THEN "ESE" ELSE IF event = "OPER" THEN "OPERE" ELSE "QUESE"

SummaryBit(event) ==
  IF event = "ESR" THEN STB_ESR ELSE IF event = "OPER" THEN STB_OPS ELSE STB_QES

EventOf(condition) == IF condition = "OPERC" THEN "OPER" ELSE "QUES"

Registers == [RegName -> SUBSET Bits]

AllZero == [r \in RegName |-> {}]

(* The enabled reasons for requesting service. *)
Reasons(regs) == (regs["STB"] \cap regs["SRE"]) \ {STB_SRQ}

(***************************************************************************)
(* SCPI_RegSet.  The outcome of a call is the registers it leaves and the  *)
(* calls interface->control(SCPI_CTRL_SRQ, STB) it makes, as the sequence  *)
(* of the STB values passed.                                               *)
(***************************************************************************)
Outcome == [regs : Registers, control : Seq(SUBSET Bits)]

NoCall(regs) == [regs |-> regs, control |-> << >>]

(* Seeded faults: SRQ is never taken back; a request is only sent when SRQ *)
(* rises; the request is sent before SRQ is stored.                        *)
SetStatusByteStuckSrq(regs, name, val) ==
  LET written == [regs EXCEPT ![name] = val]
  IN  IF regs[name] = val THEN NoCall(regs)
      ELSE NoCall([written EXCEPT !["STB"] =
             @ \cup IF Reasons(written) = {} THEN {} ELSE {STB_SRQ}])

SetStatusByteOnSrqEdge(regs, name, val) ==
  LET written == [regs EXCEPT ![name] = val]
      raised  == [written EXCEPT !["STB"] = @ \cup {STB_SRQ}]
  IN  IF regs[name] = val THEN NoCall(regs)
      ELSE IF Reasons(written) = {}
        THEN NoCall([written EXCEPT !["STB"] = @ \ {STB_SRQ}])
        ELSE [regs    |-> raised,
              control |-> IF STB_SRQ \in written["STB"] THEN << >> ELSE << raised["STB"] >>]

SetStatusByteEarlyRequest(regs, name, val) ==
  LET written == [regs EXCEPT ![name] = val]
      raised  == [written EXCEPT !["STB"] = @ \cup {STB_SRQ}]
  IN  IF regs[name] = val THEN NoCall(regs)
      ELSE IF Reasons(written) = {}
        THEN NoCall([written EXCEPT !["STB"] = @ \ {STB_SRQ}])
        ELSE [regs    |-> raised,
              control |-> IF val \ regs[name] # {} THEN << written["STB"] >> ELSE << >>]

(* SCPI_REG_CLASS_STB and SCPI_REG_CLASS_SRE *)
SetStatusByte(regs, name, val) ==
  LET written == [regs EXCEPT ![name] = val]
      raised  == [written EXCEPT !["STB"] = @ \cup {STB_SRQ}]
  IN  IF regs[name] = val THEN NoCall(regs)
      ELSE IF Reasons(written) = {}
        THEN NoCall([written EXCEPT !["STB"] = @ \ {STB_SRQ}])
        ELSE [regs    |-> raised,
              control |-> IF val \ regs[name] # {} THEN << raised["STB"] >> ELSE << >>]

(* Seeded fault: the summary bit is set but never cleared. *)
SetEventStickySummary(regs, event, val) ==
  LET written == [regs EXCEPT ![event] = val]
  IN  IF regs[event] = val THEN NoCall(regs)
      ELSE SetStatusByte(written, "STB",
             IF val \cap regs[EnableOf(event)] # {}
               THEN regs["STB"] \cup {SummaryBit(event)} ELSE regs["STB"])

(* SCPI_REG_CLASS_EVEN: the summary bit follows event & enable *)
SetEvent(regs, event, val) ==
  LET written == [regs EXCEPT ![event] = val]
      summary == val \cap regs[EnableOf(event)] # {}
  IN  IF regs[event] = val THEN NoCall(regs)
      ELSE SetStatusByte(written, "STB",
             IF summary THEN regs["STB"] \cup {SummaryBit(event)}
                        ELSE regs["STB"] \ {SummaryBit(event)})

(* Seeded fault: the edges replace the events latched before. *)
SetConditionUnlatched(regs, condition, val) ==
  IF regs[condition] = val THEN NoCall(regs)
  ELSE SetEvent([regs EXCEPT ![condition] = val], EventOf(condition), val \ regs[condition])

(* SCPI_REG_CLASS_COND: rising edges are latched in the event register *)
SetCondition(regs, condition, val) ==
  LET written == [regs EXCEPT ![condition] = val]
      event   == EventOf(condition)
  IN  IF regs[condition] = val THEN NoCall(regs)
      ELSE SetEvent(written, event, regs[event] \cup (val \ regs[condition]))

RegSet(regs, name, val) ==
  IF name \in {"STB", "SRE"} THEN SetStatusByte(regs, name, val)
  ELSE IF name \in EventReg THEN SetEvent(regs, name, val)
  ELSE IF name \in ConditionReg THEN SetCondition(regs, name, val)
  ELSE NoCall([regs EXCEPT ![name] = val])

(* A call made on the registers an earlier call left. *)
AndThen(outcome, name, val) ==
  LET next == RegSet(outcome.regs, name, val)
  IN  [regs |-> next.regs, control |-> outcome.control \o next.control]

(* SCPI_RegSetBits and SCPI_RegClearBits *)
SetBits(outcome, name, bits) == AndThen(outcome, name, outcome.regs[name] \cup bits)

ClearBits(outcome, name, bits) == AndThen(outcome, name, outcome.regs[name] \ bits)

=============================================================================
