---------------------------- MODULE Vxi11Server ----------------------------
(***************************************************************************)
(* The VXI-11 server of examples/test-vxi11/main.c: device_write hands the *)
(* controller's message to SCPI_Input, the answers go into one output      *)
(* buffer, and device_read gives them out piece by piece.  MAV of the      *)
(* status byte says that an answer waits; a write that finds MAV set drops *)
(* that answer and pushes QUERY_INTERRUPTED, from inside the command whose *)
(* answer is being written.  One thread serves the calls one by one.       *)
(***************************************************************************)
EXTENDS OutputBuffer

NoReply == [data |-> << >>, end |-> FALSE]

Init ==
    /\ \E sre \in Enabled : registers = [AllZero EXCEPT !["SRE"] = sre]
    /\ control = << >>
    /\ buffer = << >> /\ rd_idx = 0
    /\ sent = << >>
    /\ reply = NoReply
    /\ stray = FALSE
    /\ fate = [flushed |-> 0, read |-> 0, interrupted |-> 0]

-----------------------------------------------------------------------------
(* The device while a message is parsed: the outcome of the register calls *)
(* so far, the output buffer, cmd_error and first_output of the context;   *)
(* whether an answer was interrupted, and whether a mishap left text in    *)
(* the buffer: a callback wrote but its command does not count as a query  *)
(* that was answered.                                                      *)
\* SCPI_ErrorPush; the queue itself is not looked at here.
PushError(d, bit) ==
    [d EXCEPT !.status = SetBits(SetBits(@, "ESR", {bit}), "STB", {STB_QMA}),
              !.cmd_error = TRUE]

\* Mutant: the answer that is dropped stays in the buffer.
InterruptKeeping(d) ==
    IF Available(d.status.regs)
      THEN [PushError([d EXCEPT !.status = ClearBits(@, "STB", {STB_MAV})], ESR_QER)
              EXCEPT !.interrupted = TRUE]
      ELSE d

\* Mutant: MAV stays set for the answer that is dropped.
InterruptKeepingMav(d) ==
    IF Available(d.status.regs)
      THEN [PushError(d, ESR_QER) EXCEPT !.text = << >>, !.rd = 0, !.interrupted = TRUE]
      ELSE d

\* The first half of SCPI_Write.
Interrupt(d) ==
    IF Available(d.status.regs)
      THEN [PushError([d EXCEPT !.status = ClearBits(@, "STB", {STB_MAV})], ESR_QER)
              EXCEPT !.text = << >>, !.rd = 0, !.interrupted = TRUE]
      ELSE d

\* SCPI_Write: what does not fit is left out.
Write(d, text) == LET i == Interrupt(d) IN [i EXCEPT !.text = Cut(@ \o text)]

\* Mutant: the status byte does not learn of the answer.
FlushQuietly(d) == [d EXCEPT !.rd = 0]

\* SCPI_Flush
Flush(d) == [d EXCEPT !.status = SetBits(@, "STB", {STB_MAV}), !.rd = 0]

\* processCommand: before the callback, the callback, what it returns, and behind it.
BeginCommand(d, m, unit) ==
    IF ~d.first_output /\ unit.query
      THEN [Write(d, <<<<m, Semicolon>>>>) EXCEPT !.cmd_error = FALSE]
      ELSE [d EXCEPT !.cmd_error = FALSE]

Callback(d, m, unit) == IF unit.writes = 0 THEN d ELSE Write(d, Text(m, unit))

FailCommand(d, unit) == IF unit.ok \/ d.cmd_error THEN d ELSE PushError(d, ESR_EER)

EndCallback(d, unit) ==
    IF unit.query /\ unit.ok /\ ~d.cmd_error
      THEN [d EXCEPT !.first_output = FALSE]
      ELSE [FailCommand(d, unit) EXCEPT !.mishap = @ \/ unit.writes > 0]

CheckSurplus(d, unit) ==
    IF unit.surplus /\ ~d.cmd_error THEN PushError(d, ESR_CER) ELSE d

ProcessCommand(d, m, unit) ==
    CheckSurplus(EndCallback(Callback(BeginCommand(d, m, unit), m, unit), unit), unit)

\* writeNewLine
EndMessage(d, m) == IF d.first_output THEN d ELSE Flush(Write(d, <<<<m, NewLine>>>>))

\* SCPI_Parse on message number m.
Parse(d, m, units) ==
    LET after[i \in 0 .. Len(units)] ==
            IF i = 0 THEN d ELSE ProcessCommand(after[i - 1], m, units[i])
    IN  EndMessage(after[Len(units)], m)

Idle == [status |-> NoCall(registers), text |-> buffer, rd |-> rd_idx,
         cmd_error |-> FALSE, first_output |-> TRUE, interrupted |-> FALSE, mishap |-> FALSE]

\* device_write with one message.
DeviceWrite(units) ==
    /\ Len(sent) < MaxMessages
    /\ \E d \in {Parse(Idle, Len(sent) + 1, units)} :
           /\ registers' = d.status.regs
           /\ control' = d.status.control
           /\ buffer' = d.text
           /\ rd_idx' = d.rd
           /\ stray' = ((stray /\ ~d.interrupted) \/ d.mishap)
           /\ fate' = [fate EXCEPT !.flushed = IF d.first_output THEN @ ELSE @ + 1,
                                   !.interrupted = IF d.interrupted THEN @ + 1 ELSE @]
    /\ sent' = Append(sent, units)
    /\ reply' = NoReply

\* Mutant: MAV stays set when the answer has been read.
TakenUncleared(regs) == NoCall(regs)

TakenCleared(regs) == ClearBits(NoCall(regs), "STB", {STB_MAV})

\* device_read; without MAV it answers IO_TIMEOUT.
DeviceRead(requestSize) ==
    /\ Available(registers)
    /\ LET left == SubSeq(buffer, rd_idx + 1, Len(buffer))
           to_copy == IF requestSize > Len(left) THEN Len(left) ELSE requestSize
           end == to_copy = Len(left)
           cleared == TakenCleared(registers)
       IN  /\ reply' = [data |-> SubSeq(left, 1, to_copy), end |-> end]
           /\ buffer' = IF end THEN << >> ELSE buffer
           /\ rd_idx' = IF end THEN 0 ELSE rd_idx + to_copy
           /\ registers' = IF end THEN cleared.regs ELSE registers
           /\ control' = IF end THEN cleared.control ELSE << >>
           /\ stray' = (stray /\ ~end)
           /\ fate' = [fate EXCEPT !.read = IF end THEN @ + 1 ELSE @]
    /\ UNCHANGED sent

Next ==
    \/ \E units \in Messages : DeviceWrite(units)
    \/ \E requestSize \in RequestSizes : DeviceRead(requestSize)

Spec == Init /\ [][Next]_deviceVars

-----------------------------------------------------------------------------
Vxi11TypeOK ==
    /\ registers \in Registers
    /\ Len(buffer) < BufferSize            \* the terminating zero fits
    /\ rd_idx \in 0 .. Len(buffer)
    /\ Len(sent) <= MaxMessages
    /\ fate.flushed <= Len(sent)

=============================================================================
