--------------------------- MODULE StatusReporting ---------------------------
(***************************************************************************)
(* Status and error reporting of one SCPI context: the error queue         *)
(* (error.c over fifo.c), the status registers (ieee488.c) and the two     *)
(* callbacks through which the instrument learns of changes:               *)
(* interface->error(code) and interface->control(SCPI_CTRL_SRQ, STB).      *)
(*                                                                         *)
(* The steps are the calls that change this state: the instrument pushes   *)
(* errors and writes its condition and event registers, the controller     *)
(* sends *CLS, *ESE, *SRE, *ESR?, *OPC, SYSTem:ERRor? and STATus: commands.*)
(* All run to completion in the caller's thread, so each is one step.      *)
(*                                                                         *)
(* notified and control are what a step told the instrument; indicator     *)
(* and staleSummary remember, for the properties, the last code given to   *)
(* interface->error and the groups whose enable register was rewritten     *)
(* after their event register last changed.                                *)
(***************************************************************************)
EXTENDS StatusRegisters, Fifo

CONSTANTS
  ErrorCodes,        \* codes the instrument and the parser push
  EventMasks,        \* values the controller writes with *ESE
  ServiceMasks,      \* values the controller writes with *SRE
  OperationValues,     \* values written to the registers of the OPERation group
  QuestionableValues   \* values written to the registers of the QUEStionable group

ASSUME ErrorCodesAssumption == ErrorCodes \subseteq Int \ {0}

ASSUME MasksAssumption ==
  /\ EventMasks \subseteq SUBSET Bits
  /\ ServiceMasks \subseteq SUBSET Bits
  /\ OperationValues \subseteq SUBSET Bits
  /\ QuestionableValues \subseteq SUBSET Bits

QUEUE_OVERFLOW == -350

Codes == ErrorCodes \cup {0, QUEUE_OVERFLOW}

VARIABLES
  queue,         \* context->error_queue
  registers,     \* context->registers
  notified,      \* codes passed to interface->error by the last step
  control,       \* STB values passed to interface->control by the last step
  indicator,     \* last code ever passed to interface->error
  staleSummary   \* event registers whose enable changed after they did

vars == <<queue, registers, notified, control, indicator, staleSummary>>

(***************************************************************************)
(* error.c                                                                 *)
(***************************************************************************)

(* The table errs: [from, to, esrBit] *)
ErrorClasses ==
  { <<-100, -199, ESR_CER>>, <<-200, -299, ESR_EER>>, <<-300, -399, ESR_DER>>,
    <<1, 32767, ESR_DER>>,   <<-400, -499, ESR_QER>>, <<-500, -599, ESR_PON>>,
    <<-600, -699, ESR_URQ>>, <<-700, -799, ESR_REQ>>, <<-800, -899, ESR_OPC>> }

EsrBits(err) == { c[3] : c \in { d \in ErrorClasses : err <= d[1] /\ err >= d[2] } }

(* Seeded faults: no room is made for the overflow mark; the newest error  *)
(* displaces the youngest entry unmarked.                                  *)
AfterAddWithoutRoom(q, err) ==
  IF IsFull(q) THEN FifoAdd(q, QUEUE_OVERFLOW) ELSE FifoAdd(q, err)

AfterAddUnmarked(q, err) ==
  IF IsFull(q) THEN FifoAdd(FifoRemoveLast(q), err) ELSE FifoAdd(q, err)

(* SCPI_ErrorAddInternal *)
AfterAdd(q, err) ==
  IF IsFull(q) THEN FifoAdd(FifoRemoveLast(q), QUEUE_OVERFLOW) ELSE FifoAdd(q, err)

Remember(codes) == indicator' = IF codes = << >> THEN indicator ELSE codes[Len(codes)]

(* A summary is up to date again once its event register has changed. *)
Refreshed == { e \in EventReg : registers'[e] # registers[e] }

(* The registers and callbacks of a step that leaves outcome o. *)
Report(o, codes) ==
  /\ registers' = o.regs
  /\ control' = o.control
  /\ notified' = codes
  /\ Remember(codes)

(* SCPI_ErrorPushEx: queue the error, set its ESR bit, notify. *)
ErrorPush(err) ==
  /\ queue' = AfterAdd(queue, err)
  /\ LET esr == SetBits(NoCall(registers), "ESR", EsrBits(err))
     IN  Report(SetBits(esr, "STB", {STB_QMA}),
                IF IsFull(queue) THEN <<err, QUEUE_OVERFLOW>> ELSE <<err>>)
  /\ staleSummary' = staleSummary \ Refreshed

(* SCPI_ErrorEmitEmpty, called when the queue is left as q. *)
EmptyBits(q) == IF IsEmpty(q) THEN {STB_QMA} \cap registers["STB"] ELSE {}

EmitEmpty(q) == ClearBits(NoCall(registers), "STB", EmptyBits(q))

(* Seeded fault: QMA is tested after it was cleared. *)
EmptyNoticeAfterClear(q) ==
  IF IsEmpty(q) /\ STB_QMA \in EmitEmpty(q).regs["STB"] THEN <<0>> ELSE << >>

EmptyNotice(q) == IF EmptyBits(q) # {} THEN <<0>> ELSE << >>

(* SYSTem:ERRor[:NEXT]?, SCPI_ErrorPop *)
ErrorPop ==
  /\ queue' = FifoRemove(queue)
  /\ Report(EmitEmpty(queue'), EmptyNotice(queue'))
  /\ UNCHANGED staleSummary

(* Seeded fault: the registers are not told that the queue is empty. *)
ErrorClearQuietly ==
  /\ queue' = FifoClear(queue)
  /\ Report(NoCall(registers), << >>)
  /\ UNCHANGED staleSummary

(* SCPI_ErrorClear called by the instrument. *)
ErrorClear ==
  /\ queue' = FifoClear(queue)
  /\ Report(EmitEmpty(queue'), EmptyNotice(queue'))
  /\ UNCHANGED staleSummary

(***************************************************************************)
(* ieee488.c and minimal.c                                                 *)
(***************************************************************************)

(* *CLS: SCPI_ErrorClear, then every event register of the group table.    *)
CoreCls ==
  /\ queue' = FifoClear(queue)
  /\ LET esr  == AndThen(EmitEmpty(queue'), "ESR", {})
         oper == AndThen(esr, "OPER", {})
     IN  Report(AndThen(oper, "QUES", {}), EmptyNotice(queue'))
  /\ staleSummary' = staleSummary \ Refreshed

(* A call of SCPI_RegSet that leaves the error queue alone. *)
WriteRegister(name, val) ==
  /\ Report(RegSet(registers, name, val), << >>)
  /\ UNCHANGED queue

WriteEvent(name, val) ==
  /\ WriteRegister(name, val)
  /\ staleSummary' = staleSummary \ Refreshed

(* *ESE, STATus:OPERation:ENABle, STATus:QUEStionable:ENABle *)
WriteEnable(event, val) ==
  /\ WriteRegister(EnableOf(event), val)
  /\ staleSummary' = IF registers[EnableOf(event)] = val THEN staleSummary
                     ELSE staleSummary \cup {event}

CoreEse(val) == WriteEnable("ESR", val)
StatusOperationEnable(val) == WriteEnable("OPER", val)
StatusQuestionableEnable(val) == WriteEnable("QUES", val)

(* *SRE *)
CoreSre(val) == WriteRegister("SRE", val) /\ UNCHANGED staleSummary

(* *OPC *)
CoreOpc == WriteEvent("ESR", registers["ESR"] \cup {ESR_OPC})

(* *ESR?, STATus:OPERation[:EVENt]?, STATus:QUEStionable[:EVENt]? *)
CoreEsrQ == WriteEvent("ESR", {})
StatusOperationEventQ == WriteEvent("OPER", {})
StatusQuestionableEventQ == WriteEvent("QUES", {})

(* STATus:PRESet *)
StatusPreset == WriteEvent("QUES", {})

(* The instrument reports a new condition. *)
SetOperationCondition(val) == WriteEvent("OPERC", val)
SetQuestionableCondition(val) == WriteEvent("QUESC", val)

(* The instrument announces that output is, or no longer is, available:    *)
(* SCPI_RegSetBits / SCPI_RegClearBits(STB, STB_MAV).                      *)
SetMessageAvailable ==
  WriteRegister("STB", registers["STB"] \cup {STB_MAV}) /\ UNCHANGED staleSummary
ClearMessageAvailable ==
  WriteRegister("STB", registers["STB"] \ {STB_MAV}) /\ UNCHANGED staleSummary

-----------------------------------------------------------------------------

(* A context as SCPI_Init leaves it. *)
Init ==
  /\ queue = FifoInit([s \in Slots |-> 0])
  /\ registers = AllZero
  /\ notified = << >>
  /\ control = << >>
  /\ indicator = 0
  /\ staleSummary = {}

Controller ==
  \/ ErrorPop
  \/ CoreCls
  \/ \E mask \in EventMasks : CoreEse(mask)
  \/ \E mask \in ServiceMasks : CoreSre(mask)
  \/ CoreOpc
  \/ CoreEsrQ
  \/ \E val \in OperationValues : StatusOperationEnable(val)
  \/ \E val \in QuestionableValues : StatusQuestionableEnable(val)
  \/ StatusOperationEventQ
  \/ StatusQuestionableEventQ
  \/ StatusPreset

Instrument ==
  \/ \E err \in ErrorCodes : ErrorPush(err)
  \/ ErrorClear
  \/ \E val \in OperationValues : SetOperationCondition(val)
  \/ \E val \in QuestionableValues : SetQuestionableCondition(val)
  \/ SetMessageAvailable
  \/ ClearMessageAvailable

Next == Controller \/ Instrument

Spec == Init /\ [][Next]_vars

-----------------------------------------------------------------------------

TypeOK ==
  /\ queue \in Fifos(Codes)
  /\ IndicesAgree(queue)
  /\ registers \in Registers
  /\ notified \in Seq(Codes)
  /\ control \in Seq(SUBSET Bits)
  /\ indicator \in Codes
  /\ staleSummary \subseteq EventReg

(* The SRQ bit of the status byte is one exactly while an enabled reason   *)
(* for service exists, however STB and SRE were last written               *)
(* (ieee488.c, the STB/SRE case of SCPI_RegSet).                           *)
SrqIffReason == STB_SRQ \in registers["STB"] <=> Reasons(registers) # {}

(* The "error/event queue message available" bit tells whether the queue   *)
(* holds an error: error.c keeps the two in different structures and       *)
(* updates them in different functions.                                    *)
QmaIffErrors == STB_QMA \in registers["STB"] <=> ~ IsEmpty(queue)

(* An error indicator driven only by interface->error (on for a code, off  *)
(* for 0, as examples/test-LwIP-netconn does) is on exactly while the      *)
(* queue holds an error.                                                   *)
IndicatorMatchesQueue == indicator # 0 <=> ~ IsEmpty(queue)

(* A summary bit of STB is the OR of the enabled event bits, unless the    *)
(* enable register was rewritten since the event register last changed:    *)
(* SCPI_RegSet returns on an enable register without recomputing it.       *)
SummaryCurrent ==
  \A e \in EventReg \ staleSummary :
    SummaryBit(e) \in registers["STB"]
      <=> registers[e] \cap registers[EnableOf(e)] # {}

(* A step that gives the status byte a reason for service it did not have  *)
(* ends with a service request that carries the status byte of that        *)
(* moment; no new reason goes unannounced (SCPI_RegSet, writeControl).     *)
NewReasonRequestsService ==
  [][Reasons(registers') \ Reasons(registers) # {}
       => /\ control' # << >>
          /\ control'[Len(control')] = registers'["STB"]]_vars

(* Every service request carries the SRQ bit and an enabled reason.        *)
RequestsHaveReason ==
  [][\A i \in DOMAIN control' :
       /\ STB_SRQ \in control'[i]
       /\ (control'[i] \cap registers'["SRE"]) \ {STB_SRQ} # {}]_vars

(* So the controller is called for every reason, and for nothing else.     *)
ServiceRequestedForReasons == NewReasonRequestsService /\ RequestsHaveReason

(* An event bit, once latched, stays until its register is read, preset or *)
(* *CLS clears it: no condition change, error or enable write loses one.   *)
EventsLatched ==
  [][\A e \in EventReg :
       registers[e] \subseteq registers'[e]
         \/ CoreCls
         \/ (e = "ESR" /\ CoreEsrQ)
         \/ (e = "OPER" /\ StatusOperationEventQ)
         \/ (e = "QUES" /\ (StatusQuestionableEventQ \/ StatusPreset))]_vars

(* The ring buffer and its overflow path implement the bounded queue that  *)
(* delivers errors in order and marks the place of lost ones.              *)
AbstractQueue == INSTANCE ErrorQueue
  WITH Errors <- ErrorCodes, Overflow <- QUEUE_OVERFLOW,
       Capacity <- Size, queue <- Contents(queue)

ImplementsErrorQueue == AbstractQueue!Spec

(* No error is lost without a trace: the youngest entry after a push is    *)
(* the error itself or the overflow mark.  (The refinement alone would     *)
(* let a push be a stuttering step.)                                       *)
NoSilentLoss ==
  [][\A err \in ErrorCodes :
       ErrorPush(err) =>
         LET after == Contents(queue')
         IN  /\ after # << >>
             /\ after[Len(after)] = IF Len(Contents(queue)) < Size THEN err
                                                                 ELSE QUEUE_OVERFLOW]_vars

(* "Device designer provided specific error 1, 32767" sets the device      *)
(* error bit of the event status register (error.c:164).                   *)
DeviceErrorsSetDER ==
  [][\A err \in ErrorCodes \cap 1 .. 32767 :
       ErrorPush(err) => ESR_DER \in registers'["ESR"]]_vars

=============================================================================
