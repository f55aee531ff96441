--------------------------- MODULE ProgramMessage ---------------------------
(***************************************************************************)
(* One call of SCPI_Parse (libscpi/src/parser.c): it takes a program       *)
(* message unit by unit, runs the callback of each command through         *)
(* processCommand, and assembles the response message.  A callback is any  *)
(* sequence of calls an instrument may make of the library's parameter,    *)
(* result and error functions before it returns.                           *)
(***************************************************************************)
EXTENDS ResponseMessage

(* What a unit is to SCPI_Parse.  "sent" counts the parameters in the text *)
(* of the unit; dangling says that they are followed by a comma with no    *)
(* parameter behind it, or that the last is an incomplete block.           *)
Units ==
  [kind : {"command", "query"}, sent : 0 .. MaxParameters, dangling : BOOLEAN]
    \cup [kind : {"undefined", "invalid", "empty"}, sent : {0}, dangling : {FALSE}]

NoBlock == [announced |-> 0, written |-> 0, open |-> FALSE]

NoUnit == [kind |-> "empty", sent |-> 0, dangling |-> FALSE]

context == <<input_count, output_count, arbitrary_remaining, cmd_error, first_output>>
vars == <<pc, unit, taken, context, result, output, units, calls, pushed, answers, answer,
          block, mishap>>

Init ==
  /\ pc = "idle"
  /\ unit = NoUnit
  /\ taken = 0
  /\ input_count = 0 /\ output_count = 0 /\ arbitrary_remaining = 0
  /\ cmd_error = FALSE
  /\ first_output = TRUE
  /\ result = TRUE
  /\ output = << >>
  /\ units = 0 /\ calls = 0 /\ pushed = 0
  /\ answers = << >>
  /\ answer = << >>
  /\ block = NoBlock
  /\ mishap = FALSE

(* SCPI_ErrorPush, as far as the message is concerned. *)
ErrorPush ==
  /\ cmd_error' = TRUE
  /\ pushed' = pushed + 1

(* SCPI_Parse begins; cmd_error is as the message before left it. *)
Parse ==
  /\ pc = "idle"
  /\ pc' = "units"
  /\ output_count' = 0
  /\ first_output' = TRUE
  /\ result' = TRUE
  /\ output' = << >>
  /\ units' = 0
  /\ pushed' = 0
  /\ answers' = << >>
  /\ mishap' = FALSE
  /\ UNCHANGED <<unit, taken, input_count, arbitrary_remaining, cmd_error, calls, answer, block>>

(* A unit without a command. *)
BadUnit(u) ==
  /\ pc = "units" /\ units < MaxUnits
  /\ u.kind \in {"undefined", "invalid", "empty"}
  /\ units' = units + 1
  /\ IF u.kind = "empty"
       THEN UNCHANGED <<cmd_error, pushed, result>>
       ELSE ErrorPush /\ result' = FALSE
  /\ UNCHANGED <<pc, unit, taken, input_count, output_count, arbitrary_remaining, first_output,
                 output, calls, answers, answer, block, mishap>>

IsQuery == unit.kind = "query"

(* Seeded faults in the per-command part of the context. *)
ResetKeepingError ==
  /\ output_count' = 0
  /\ input_count' = 0
  /\ arbitrary_remaining' = 0
  /\ UNCHANGED <<cmd_error, pushed>>

ResetKeepingBlock ==
  /\ cmd_error' = FALSE
  /\ output_count' = 0
  /\ input_count' = 0
  /\ UNCHANGED <<arbitrary_remaining, pushed>>

(* processCommand clears the per-command part of the context. *)
Reset ==
  /\ cmd_error' = FALSE
  /\ output_count' = 0
  /\ input_count' = 0
  /\ arbitrary_remaining' = 0
  /\ UNCHANGED pushed

(* processCommand up to the call of the callback. *)
BeginCommand(u) ==
  /\ pc = "units" /\ units < MaxUnits
  /\ u.kind \in {"command", "query"}
  /\ u.dangling => u.sent > 0
  /\ units' = units + 1
  /\ unit' = u
  /\ output' = IF ~ first_output /\ u.kind = "query" THEN Append(output, "SEMI") ELSE output
  /\ Reset
  /\ pc' = "callback"
  /\ taken' = 0
  /\ calls' = 0
  /\ answer' = << >>
  /\ block' = NoBlock
  /\ UNCHANGED <<first_output, result, answers, mishap>>

(***************************************************************************)
(* What a callback may call                                                *)
(***************************************************************************)

Call ==
  /\ pc = "callback" /\ calls < MaxCalls
  /\ calls' = calls + 1
  /\ UNCHANGED <<pc, unit, first_output, result, units, answers>>

(* The parameters the lexer state of the callback spans: malformed data is *)
(* given to it as no data.                                                 *)
Visible == IF unit.dangling THEN 0 ELSE unit.sent

(* SCPI_Parameter.  All but the first are expected behind a comma. *)
Parameter(mandatory) ==
  /\ Call
  /\ IF taken < Visible /\ (input_count # 0 <=> taken # 0)
       THEN /\ taken' = taken + 1
            /\ input_count' = input_count + 1
            /\ UNCHANGED <<cmd_error, pushed>>
       ELSE /\ IF taken < Visible \/ mandatory
                 THEN ErrorPush ELSE UNCHANGED <<cmd_error, pushed>>
            /\ UNCHANGED <<taken, input_count>>
  /\ UNCHANGED <<output_count, arbitrary_remaining, output, answer, block, mishap>>

(* An error of the callback itself: a wrong type, an unknown suffix, ... *)
Complain ==
  /\ Call
  /\ ErrorPush
  /\ UNCHANGED <<taken, input_count, output_count, arbitrary_remaining, output, answer,
                 block, mishap>>

(* Seeded fault: the delimiter looks at the whole response. *)
DelimiterAfterAny == IF output # << >> THEN <<"COMMA">> ELSE << >>

(* writeDelimiter *)
Delimiter == IF output_count > 0 THEN <<"COMMA">> ELSE << >>

(* The SCPI_Result functions for one value. *)
Result ==
  /\ Call
  /\ output' = output \o Delimiter \o <<"item">>
  /\ output_count' = output_count + 1
  /\ answer' = Append(answer, <<"item">>)
  /\ mishap' = (mishap \/ block.open)
  /\ UNCHANGED <<taken, input_count, arbitrary_remaining, cmd_error, pushed, block>>

(* SCPI_ResultArbitraryBlockHeader *)
BlockHeader(len) ==
  /\ Call
  /\ arbitrary_remaining' = len
  /\ output' = output \o Delimiter \o <<"BLOCK">>
  /\ answer' = Append(answer, <<"BLOCK">>)
  /\ block' = [announced |-> len, written |-> 0, open |-> TRUE]
  /\ mishap' = (mishap \/ block.open)
  /\ UNCHANGED <<taken, input_count, output_count, cmd_error, pushed>>

Bytes(len) == [i \in 1 .. len |-> "byte"]

(* SCPI_ResultArbitraryBlockData *)
BlockData(len) ==
  /\ Call
  /\ IF arbitrary_remaining < len
       THEN /\ ErrorPush
            /\ UNCHANGED <<output_count, arbitrary_remaining, output, answer, block, mishap>>
       ELSE /\ arbitrary_remaining' = arbitrary_remaining - len
            /\ output_count' = output_count + (IF arbitrary_remaining = len THEN 1 ELSE 0)
            /\ output' = output \o Bytes(len)
            /\ answer' = IF block.open
                           THEN Append(Front(answer), Last(answer) \o Bytes(len)) ELSE answer
            /\ block' = [announced |-> block.announced, written |-> block.written + len,
                         open |-> block.open /\ arbitrary_remaining > len]
            /\ mishap' = (mishap \/ ~ block.open)
            /\ UNCHANGED <<cmd_error, pushed>>
  /\ UNCHANGED <<taken, input_count>>

(***************************************************************************)
(* The end of a command and of the message                                 *)
(***************************************************************************)

(* Seeded fault: unread parameters pass. *)
IgnoredLeftover(failed) == FALSE

(* Parameters the callback did not read, unless there is an error already. *)
Leftover(failed) == taken < Visible /\ ~ failed

(* processCommand after the callback, which returned SCPI_RES_OK or not. *)
Return(ok) ==
  /\ pc = "callback"
  /\ LET failed == ~ ok \/ cmd_error
         execution_error == ~ ok /\ ~ cmd_error
     IN  /\ first_output' = (first_output /\ (failed \/ ~ IsQuery))
         /\ result' = (result /\ ~ failed /\ ~ Leftover(failed))
         /\ pushed' = pushed + (IF execution_error \/ Leftover(failed) THEN 1 ELSE 0)
         /\ cmd_error' = (failed \/ Leftover(failed))
         /\ answers' = IF IsQuery THEN Append(answers, answer) ELSE answers
         /\ mishap' = \/ mishap
                      \/ block.open
                      \/ IF IsQuery THEN failed ELSE answer # << >>
  /\ pc' = "units"
  /\ unit' = NoUnit /\ taken' = 0 /\ calls' = 0 /\ answer' = << >> /\ block' = NoBlock
  /\ UNCHANGED <<input_count, output_count, arbitrary_remaining, output, units>>

(* Seeded fault: every message is answered with a new line. *)
NewLineAlways == <<"NL">>

(* writeNewLine *)
NewLine == IF first_output THEN << >> ELSE <<"NL">>

EndMessage ==
  /\ pc = "units" /\ units > 0
  /\ pc' = "idle"
  /\ output' = output \o NewLine
  /\ UNCHANGED <<unit, taken, context, result, units, calls, pushed, answers, answer, block,
                 mishap>>

Next ==
  \/ Parse
  \/ \E u \in Units : BadUnit(u) \/ BeginCommand(u)
  \/ \E mandatory \in BOOLEAN : Parameter(mandatory)
  \/ Complain
  \/ Result
  \/ \E len \in 0 .. MaxBlock : BlockHeader(len) \/ BlockData(len)
  \/ \E ok \in BOOLEAN : Return(ok)
  \/ EndMessage

Spec == Init /\ [][Next]_vars

-----------------------------------------------------------------------------

TypeOK ==
  /\ pc \in {"idle", "units", "callback"}
  /\ unit \in Units
  /\ pc = "callback" => taken = input_count /\ taken \in 0 .. Visible
  /\ input_count \in Nat /\ output_count \in Nat /\ arbitrary_remaining \in Nat
  /\ units \in Nat /\ calls \in Nat /\ pushed \in Nat
  /\ cmd_error \in BOOLEAN /\ first_output \in BOOLEAN /\ result \in BOOLEAN /\ mishap \in BOOLEAN
  /\ Range(output) \subseteq Tokens

(* A unit whose callback left parameters unread leaves an error.           *)
LeftoverReported ==
  [][pc = "callback" /\ pc' = "units" /\ taken < Visible => cmd_error']_vars

(* The same for all parameters the controller sent.                        *)
UnreadReported ==
  [][pc = "callback" /\ pc' = "units" /\ taken < unit.sent => cmd_error']_vars

=============================================================================
