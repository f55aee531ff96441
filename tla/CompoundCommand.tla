-------------------------- MODULE CompoundCommand --------------------------
(***************************************************************************)
(* How SCPI_Parse finds the command of each unit of a program message      *)
(* (libscpi/src/parser.c, utils.c).  A header that does not start at the   *)
(* root continues the path of the previous command: composeCompoundCommand *)
(* copies that path in front of the header, in the message buffer itself,  *)
(* over characters that have been read already.                            *)
(*                                                                         *)
(* A token is [ptr, len], ptr an index of buffer.  Program data is one     *)
(* character that no header contains.                                      *)
(***************************************************************************)
EXTENDS CommandMatch

CONSTANTS
  Messages,   \* program messages, as sequences of characters
  Commands    \* the patterns of the command list

HeaderChars == {"A", "B", "C", "X", ":", "*"}

NoToken == [ptr |-> 0, len |-> 0]      \* ptr = NULL

VARIABLES
  received,   \* the message as it arrived
  buffer,     \* the same memory while SCPI_Parse works in it
  data,       \* where the next unit starts
  cmd_prev,   \* header of the last command found in this message
  header,     \* header token of the last unit, after composition
  path,       \* what that last command's header read when it was found
  meant,      \* what the last header means after path
  orphaned    \* a relative header of this message named no command

vars == <<received, buffer, data, cmd_prev, header, path, meant, orphaned>>

(* Memory outside the buffer reads as garbage. *)
CharAt(memory, p) == IF p \in DOMAIN memory THEN memory[p] ELSE "garbage"

Read(memory, token) == [k \in 1 .. token.len |-> CharAt(memory, token.ptr + k - 1)]

IndexesOf(text, chars) == { i \in DOMAIN text : text[i] \in chars }

(* findCommandHeader *)
FindCommandHeader(text) == \E pattern \in Commands : MatchCommand(pattern, text).matches

(* The end of the unit that starts at "from": its semicolon or the end. *)
UnitEnd(from) ==
  Min({ i \in from .. Len(buffer) : buffer[i] = ";" } \cup {Len(buffer)})

(* The header of that unit, behind blanks. *)
ProgramHeader(from) ==
  LET inUnit == from .. UnitEnd(from)
      first  == Min({ i \in inUnit : buffer[i] # " " })
      len    == Cardinality({ i \in inUnit : i >= first /\ \A j \in first .. i : buffer[j] \in HeaderChars })
  IN  [ptr |-> first, len |-> len]

(* The length of the path in a header: up to its last colon. *)
PathLength(text) == Max(IndexesOf(text, {":"}) \cup {0})

(* Seeded fault: a common command loses the path of the message. *)
RelativeToAny(prev, current) ==
  prev.len > 0 /\ buffer[current.ptr] # ":"

(* composeCompoundCommand: does current continue prev's path? *)
Relative(prev, current) ==
  /\ prev.len > 0
  /\ buffer[current.ptr] \notin {"*", ":"}
  /\ buffer[prev.ptr] # "*"

(* Seeded fault: no room is made for the path. *)
ComposedInPlace(prev, current) ==
  LET i == IF Relative(prev, current) THEN PathLength(Read(buffer, prev)) ELSE 0
  IN  [ptr |-> current.ptr, len |-> current.len + i]

(* The token of the composed header; as many characters as it is longer    *)
(* are copied from prev, so that it ends where current ends.               *)
Composed(prev, current) ==
  LET i == IF Relative(prev, current) THEN PathLength(Read(buffer, prev)) ELSE 0
  IN  [ptr |-> current.ptr - i, len |-> current.len + i]

(* memmove(current->ptr, prev->ptr, i) *)
Moved(prev, token, i) ==
  [k \in DOMAIN buffer |->
     IF k \in token.ptr .. token.ptr + i - 1
       THEN CharAt(buffer, prev.ptr + k - token.ptr) ELSE buffer[k]]

(* What a header means: the rule composeCompoundCommand implements, on     *)
(* texts instead of on the buffer.                                         *)
Meaning(previous, text) ==
  IF previous = << >> \/ Head(previous) = "*" \/ Head(text) \in {"*", ":"} THEN text
  ELSE SubSeq(previous, 1, PathLength(previous)) \o text

(* SCPI_Parse is called with a message. *)
Init ==
  /\ received \in Messages
  /\ buffer = received
  /\ data = 1
  /\ cmd_prev = NoToken
  /\ header = NoToken
  /\ path = << >>
  /\ meant = << >>
  /\ orphaned = FALSE

(* One turn of SCPI_Parse's loop. *)
ParseUnit ==
  /\ data <= Len(buffer)
  /\ data' = UnitEnd(data) + 1
  /\ LET current == ProgramHeader(data)
         token   == Composed(cmd_prev, current)
         memory  == Moved(cmd_prev, token, token.len - current.len)
         text    == Read(memory, token)
         found   == FindCommandHeader(text)
     IN  IF current.len = 0
           THEN UNCHANGED <<buffer, cmd_prev, header, path, meant, orphaned>>
           ELSE /\ buffer' = memory
                /\ header' = token
                /\ cmd_prev' = IF found THEN token ELSE cmd_prev
                /\ path' = IF found THEN text ELSE path
                /\ meant' = Meaning(path, Read(buffer, current))
                /\ orphaned' = (orphaned \/ (~ found /\ token.len > current.len))
  /\ UNCHANGED received

Next == ParseUnit

Spec == Init /\ [][Next]_vars

-----------------------------------------------------------------------------

TypeOK ==
  /\ Len(buffer) = Len(received)
  /\ Range(buffer) \subseteq HeaderChars \cup {" ", ";", "1"}
  /\ data \in 1 .. Len(buffer) + 1
  /\ \A token \in {cmd_prev, header} : token.ptr \in Nat /\ token.len \in Nat

(* Composing writes only over what has been parsed: the headers lie in the *)
(* buffer and the units still to come are as they arrived.                 *)
UnreadIntact ==
  /\ \A i \in data .. Len(buffer) : buffer[i] = received[i]
  /\ \A token \in {cmd_prev, header} :
       token # NoToken => token.ptr >= 1 /\ token.ptr + token.len <= data

(* Each header is looked up as what it means after the last command that   *)
(* was found, until a relative header of the message names no command.     *)
HeadersResolve ==
  [][header' # header /\ ~ orphaned => Read(buffer', header') = meant']_vars

(* The same for every header of a message: the previous command is the one *)
(* that composeCompoundCommand's comment and SCPI_Parse's cmd_prev name.   *)
CompoundHeadersResolve ==
  [][header' # header => Read(buffer', header') = meant']_vars

=============================================================================
