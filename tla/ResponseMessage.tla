-------------------------- MODULE ResponseMessage --------------------------
(***************************************************************************)
(* The state of a program message that SCPI_Parse takes apart: the parts   *)
(* of the context that last for a message and for a command, what has been *)
(* written of the response, and what the callbacks meant to answer; and    *)
(* what is to be true of them (libscpi/src/parser.c).                      *)
(*                                                                         *)
(* The characters of a response are tokens: "item" for a value, "BLOCK"    *)
(* and "byte" for the header and the data of an arbitrary block, the       *)
(* separators and the new line.                                            *)
(***************************************************************************)
EXTENDS Integers, Sequences, SequencesExt

CONSTANTS
  MaxUnits,        \* bounds: units of a message,
  MaxParameters,   \* parameters of a unit,
  MaxCalls,        \* library calls of a callback,
  MaxBlock         \* bytes of an arbitrary block

ASSUME BoundsAssumption ==
  {MaxUnits, MaxParameters, MaxCalls, MaxBlock} \subseteq Nat

Tokens == {"item", "BLOCK", "byte", "COMMA", "SEMI", "NL"}

VARIABLES
  pc,            \* "idle", "units" in SCPI_Parse, "callback" in a callback
  unit,          \* the unit in work
  taken,         \* parameters of it the callback has taken
  input_count, output_count, arbitrary_remaining, cmd_error, first_output,
  result,        \* what SCPI_Parse will return
  output,        \* tokens written since SCPI_Parse was called
  units,         \* units taken so far
  calls,         \* library calls of the running callback
  pushed,        \* errors pushed since SCPI_Parse was called
  answers,       \* what the queries meant to answer, each a sequence of values
  answer,        \* the values of the running callback
  block,         \* the arbitrary block it last announced, and what it wrote of it
  mishap         \* a query failed, a command wrote, or a block was left short

(* The texts of a sequence one behind the other, a separator between them. *)
JoinedBy(separator, texts) ==
  LET joined[i \in 0 .. Len(texts)] ==
        IF i = 0 THEN << >>
        ELSE joined[i - 1] \o (IF i = 1 THEN << >> ELSE <<separator>>) \o texts[i]
  IN  joined[Len(texts)]

Formatted ==
  JoinedBy("SEMI", [i \in DOMAIN answers |-> JoinedBy("COMMA", answers[i])])

(* The response message is the answers of the queries in order, the values *)
(* of an answer between commas, the answers between semicolons, and one    *)
(* new line at the end; without queries there is no response at all.  What *)
(* commands, undefined headers and unread parameters do does not matter.   *)
ResponseWellFormed ==
  pc = "idle" /\ ~ mishap =>
    output = IF answers = << >> THEN << >> ELSE Append(Formatted, "NL")

(* A query that answered ends its response with one new line, the last     *)
(* token, whatever fails before or after it in the message.                *)
OneNewLine ==
  \A i \in DOMAIN output : output[i] = "NL" => i = Len(output) /\ pc = "idle" /\ answers # << >>

(* A block never carries more bytes than its header announced. *)
BlockFits == block.written <= block.announced

(* Whatever callbacks do, the response is the answers on one line.         *)
ResponseIsAnswers == ResponseWellFormed /\ OneNewLine /\ BlockFits

(* SCPI_Parse reports failure exactly when it left an error in the queue,  *)
(* for this message: nothing of earlier messages counts.                   *)
ResultTellsErrors == pc = "idle" => (result <=> pushed = 0)

=============================================================================
