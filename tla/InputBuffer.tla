---------------------------- MODULE InputBuffer ----------------------------
(***************************************************************************)
(* The input side of libscpi: SCPI_Input collects what the transport       *)
(* delivers, in pieces of any size, scans it for a message terminator and  *)
(* gives each complete message to SCPI_Parse, which takes it apart into    *)
(* program message units (libscpi/src/parser.c and lexer.c).               *)
(*                                                                         *)
(* A received byte is its place in the stream the controller sends, so     *)
(* that the properties can tell one byte from another; Char gives its      *)
(* class, all that the scanner looks at.                                   *)
(***************************************************************************)
EXTENDS Integers, Sequences, FiniteSets, SequencesExt, FiniteSetsExt

CONSTANTS
  BufferLength,     \* size of the input buffer given to SCPI_Init
  Scripts,          \* what a controller may send, see Script below
  MaxOverruns,      \* bounds: overruns and
  MaxTimeouts       \* timeouts of one behaviour

ASSUME InputAssumption ==
  /\ BufferLength \in Nat \ {0}
  /\ MaxOverruns \in Nat
  /\ MaxTimeouts \in Nat

Numerals == <<"0", "1", "2", "3", "4", "5", "6", "7", "8", "9">>
Digits == Range(Numerals)

(* Character classes: a letter, the digits, a blank, a quote, the # that a *)
(* block starts with, the separators and the two terminator characters.    *)
Chars == {"a", "SP", "QUOTE", "HASH", "COMMA", "SEMI", "CR", "NL"} \cup Digits

ASSUME StreamsAssumption == \A s \in Scripts : s.stream \in Seq(Chars)

(* A script is a stream of characters and what the controller means by it: *)
(* the place of each message and of each of its units, whether the message *)
(* is plain (holds neither text nor block), and the places in a text that  *)
(* lie behind a terminator character of that text.                         *)
VARIABLES
  script,      \* [stream, messages, tears] of this behaviour
  received,    \* bytes the transport has delivered so far
  buffer,      \* context->buffer.data[0 .. position - 1]
  pc,          \* "idle", "scan" in SCPI_Input's loop, "parse" in SCPI_Parse's
  totcmdlen,   \* bytes of buffer scanned by SCPI_Input
  message,     \* what SCPI_Parse has yet to take apart
  executed,    \* units given to command lookup, in order
  lost,        \* bytes an overrun threw away
  overruns,    \* INPUT_BUFFER_OVERRUN errors pushed
  flushed,     \* how much had been received at each timeout
  torn         \* an SCPI_Input call ended at a place of script.tears

vars == <<script, received, buffer, pc, totcmdlen, message, executed, lost, overruns,
          flushed, torn>>

(***************************************************************************)
(* The scanner.  s is a sequence of classes, offsets count from 0.         *)
(***************************************************************************)

At(s, p) == IF p < Len(s) THEN s[p + 1] ELSE "eos"

Skip(s, p, chars) == Min({ q \in p .. Len(s) : At(s, q) \notin chars })

(* A mnemonic, of a header or as data: a letter, then letters and digits.  *)
MnemonicEnd(s, p) == IF At(s, p) = "a" THEN Skip(s, p, {"a"} \cup Digits) ELSE p

(* A number, and a suffix if there is one: letters, then at most one digit.*)
NumberEnd(s, p) ==
  LET number  == Skip(s, p, Digits)
      blanks  == Skip(s, number, {"SP"})
      letters == Skip(s, blanks, {"a"})
  IN  IF letters = blanks THEN number
      ELSE IF At(s, letters) \in Digits THEN letters + 1 ELSE letters

(* The offset behind the quote that closes the text whose opening quote is *)
(* at p; p itself if there is none.  A doubled quote does not close it.    *)
TextEnd(s, p) ==
  LET quotes(q) == { i \in p + 1 .. q : At(s, i) = "QUOTE" }
      closing == { q \in p + 1 .. Len(s) - 1 :
                     /\ At(s, q) = "QUOTE" /\ At(s, q + 1) # "QUOTE"
                     /\ Cardinality(quotes(q)) % 2 = 1 }
  IN  IF closing = {} THEN p ELSE Min(closing) + 1

ValueOf(c) == CHOOSE d \in 0 .. 9 : Numerals[d + 1] = c

(* Seeded fault: a length of several digits is taken for its first. *)
FirstDigit(s, p, n) == ValueOf(At(s, p))

(* What the n digits from p on write. *)
Value(s, p, n) ==
  LET upTo[i \in 0 .. n] == IF i = 0 THEN 0 ELSE 10 * upTo[i - 1] + ValueOf(At(s, p + i - 1))
  IN  upTo[n]

(* Seeded fault: an incomplete block is an invalid one. *)
CutRefused(s, p) == [end |-> p, found |-> FALSE]

(* A block that is cut takes the rest of the input. *)
Cut(s, p) == [end |-> Len(s), found |-> FALSE]

(* scpiLex_ArbitraryBlockProgramData at the # at p: the number of the      *)
(* digits of the length, these digits, then as many bytes.  The input may  *)
(* end anywhere in it; without its length it is no block.                  *)
BlockEnd(s, p) ==
  LET counted == At(s, p + 1) \in Digits \ {"0"}
      count   == IF counted THEN ValueOf(At(s, p + 1)) ELSE 0
      stop    == IF counted THEN Skip(s, p + 2, Digits) ELSE p + 1
      data    == p + 2 + count
      end     == data + Value(s, p + 2, count)
  IN  IF counted /\ data <= stop
        THEN IF end <= Len(s) THEN [end |-> end, found |-> TRUE] ELSE Cut(s, p)
      ELSE IF stop = Len(s) THEN Cut(s, p) ELSE [end |-> p, found |-> FALSE]

(* scpiParser_parseProgramData from p: where it ends, and whether it found *)
(* a parameter.                                                            *)
ProgramData(s, p) ==
  LET from == Skip(s, p, {"SP"})
      c    == At(s, from)
      to   == IF c = "QUOTE" THEN TextEnd(s, from)
              ELSE IF c = "HASH" THEN BlockEnd(s, from).end
              ELSE IF c \in Digits THEN NumberEnd(s, from)
              ELSE MnemonicEnd(s, from)
      found == IF c = "HASH" THEN BlockEnd(s, from).found ELSE to > from
  IN  [end |-> Skip(s, to, {"SP"}), found |-> found]

(* scpiParser_parseAllProgramData *)
AllProgramData(s, p) ==
  LET all[q \in 0 .. Len(s)] ==
        LET d == ProgramData(s, q)
        IN  IF d.found /\ At(s, d.end) = "COMMA" THEN all[d.end + 1] ELSE d.end
  IN  all[p]

(* scpiLex_NewLine *)
NewLineEnd(s, p) ==
  LET q == IF At(s, p) = "CR" THEN p + 1 ELSE p
  IN  IF At(s, q) = "NL" THEN q + 1 ELSE q

(* Seeded fault: an invalid character is not skipped. *)
UnitEndStuck(s, data) ==
  IF At(s, data) = "SEMI" THEN data + 1 ELSE NewLineEnd(s, data)

(* A unit ends behind its separator, terminator or invalid character. *)
UnitEnd(s, data) ==
  IF NewLineEnd(s, data) > data THEN NewLineEnd(s, data)
  ELSE IF data < Len(s) THEN data + 1 ELSE data

(* A unit whose header and data lie between these places. *)
UnitOf(s, from, header, data) ==
  LET next == At(s, data)
  IN  [from |-> from,
       to   |-> data,
       end  |-> UnitEnd(s, data),
       kind |-> IF next \notin {"CR", "NL", "SEMI", "eos"} THEN "invalid"
                ELSE IF header > from THEN "header" ELSE "none",
       termination |-> IF next \in {"CR", "NL"} THEN "NL"
                       ELSE IF next = "SEMI" THEN "SEMICOLON" ELSE "NONE"]

(* scpiParser_detectProgramMessageUnit: the first unit of s. *)
Unit(s) ==
  LET from   == Skip(s, 0, {"SP"})
      header == MnemonicEnd(s, from)
  IN  UnitOf(s, from, header,
             IF At(s, header) = "SP" THEN AllProgramData(s, header) ELSE header)

(* The classes of a sequence of received bytes. *)
Text(bytes) == [i \in DOMAIN bytes |-> script.stream[bytes[i]]]

Rest(bytes, n) == SubSeq(bytes, n + 1, Len(bytes))

(***************************************************************************)
(* SCPI_Input and SCPI_Parse                                               *)
(***************************************************************************)

Init ==
  /\ script \in Scripts
  /\ received = 0
  /\ buffer = << >>
  /\ pc = "idle"
  /\ totcmdlen = 0
  /\ message = << >>
  /\ executed = << >>
  /\ lost = {}
  /\ overruns = 0
  /\ flushed = {}
  /\ torn = FALSE

Chunk(n) == [i \in 1 .. n |-> received + i]

(* Seeded fault: no room is kept for the terminating zero. *)
OverrunsLate(n) == n > BufferLength - Len(buffer)

Overruns(n) == n > BufferLength - Len(buffer) - 1

Arrive(n) ==
  /\ pc = "idle"
  /\ received + n <= Len(script.stream)
  /\ received' = received + n
  /\ torn' = (torn \/ received + n \in script.tears)
  /\ UNCHANGED <<script, message, executed, flushed>>

(* SCPI_Input(data, n): an overrun drops the buffer and the new data. *)
Overrun(n) ==
  /\ Arrive(n)
  /\ Overruns(n)
  /\ overruns < MaxOverruns
  /\ overruns' = overruns + 1
  /\ lost' = lost \cup Range(buffer \o Chunk(n))
  /\ buffer' = << >>
  /\ UNCHANGED <<pc, totcmdlen>>

Collect(n) ==
  /\ Arrive(n)
  /\ ~ Overruns(n)
  /\ buffer' = buffer \o Chunk(n)
  /\ totcmdlen' = 0
  /\ pc' = "scan"
  /\ UNCHANGED <<lost, overruns>>

(* SCPI_Input(NULL, 0), the answer of the examples to a silent controller. *)
Timeout ==
  /\ pc = "idle"
  /\ Cardinality(flushed) < MaxTimeouts
  /\ flushed' = flushed \cup {received}
  /\ message' = buffer
  /\ pc' = "flush"
  /\ UNCHANGED <<script, received, buffer, totcmdlen, executed, lost, overruns, torn>>

(* One turn of SCPI_Input's loop. *)
ScanUnit ==
  /\ pc = "scan"
  /\ LET unit == Unit(Text(Rest(buffer, totcmdlen)))
         scanned == totcmdlen + unit.end
     IN  IF unit.termination = "NL"
           THEN /\ message' = SubSeq(buffer, 1, scanned)
                /\ totcmdlen' = scanned
                /\ pc' = "parse"
         ELSE IF \/ unit.kind = "none" /\ unit.termination = "NONE"
                 \/ scanned >= Len(buffer)
           THEN pc' = "idle" /\ totcmdlen' = 0 /\ UNCHANGED message
         ELSE totcmdlen' = scanned /\ UNCHANGED <<pc, message>>
  /\ UNCHANGED <<script, received, buffer, executed, lost, overruns, flushed, torn>>

(* Seeded fault: a timeout leaves the message in the buffer. *)
LeaveFlushed ==
  /\ pc' = IF pc = "flush" THEN "idle" ELSE "scan"
  /\ buffer' = IF pc = "flush" THEN buffer ELSE Rest(buffer, totcmdlen)
  /\ totcmdlen' = 0

(* SCPI_Parse returns to SCPI_Input. *)
Leave ==
  /\ pc' = IF pc = "flush" THEN "idle" ELSE "scan"
  /\ buffer' = IF pc = "flush" THEN << >> ELSE Rest(buffer, totcmdlen)
  /\ totcmdlen' = 0

(* One turn of SCPI_Parse's loop.  A unit is recorded from the first       *)
(* character of its header to the last of its data; one that ends in an    *)
(* invalid character, up to that character, for which an error is pushed.  *)
ParseUnit ==
  /\ pc \in {"parse", "flush"}
  /\ LET unit == Unit(Text(message))
         to   == IF unit.kind = "invalid" THEN unit.end ELSE unit.to
     IN  /\ executed' = IF unit.kind = "none" THEN executed
                        ELSE Append(executed, [first |-> message[unit.from + 1],
                                               last  |-> message[to]])
         /\ message' = Rest(message, unit.end)
         /\ IF unit.end < Len(message)
              THEN UNCHANGED <<pc, buffer, totcmdlen>>
              ELSE Leave
  /\ UNCHANGED <<script, received, lost, overruns, flushed, torn>>

Next ==
  \/ \E n \in 1 .. Len(script.stream) : Overrun(n) \/ Collect(n)
  \/ Timeout
  \/ ScanUnit
  \/ ParseUnit

Spec == Init /\ [][Next]_vars

-----------------------------------------------------------------------------

TypeOK ==
  /\ received \in 0 .. Len(script.stream)
  /\ pc \in {"idle", "scan", "parse", "flush"}
  /\ totcmdlen \in 0 .. Len(buffer)
  /\ Len(buffer) < BufferLength      \* the terminating zero fits
  /\ \A i \in DOMAIN buffer : buffer[i] \in 1 .. received
  /\ torn \in BOOLEAN

(* What is executed is what arrived: each unit is one stretch of the       *)
(* stream, later units come from later bytes, and no byte is executed      *)
(* twice or after it was thrown away.                                      *)
ExecutedOnce ==
  /\ \A i \in DOMAIN executed : executed[i].first <= executed[i].last
  /\ \A i, j \in DOMAIN executed : i < j => executed[i].last < executed[j].first
  /\ \A i \in DOMAIN executed : executed[i].first .. executed[i].last \cap lost = {}

Disturbed(m) ==
  \/ m.first .. m.last \cap lost # {}
  \/ \E at \in flushed : m.first <= at /\ at < m.last

ExecutedOf(m) == SelectSeq(executed, LAMBDA u : u.last >= m.first /\ u.first <= m.last)

(* However the stream is cut into pieces, a message whose terminator has   *)
(* arrived has been executed unit by unit as the controller meant it when  *)
(* SCPI_Input returns; after a timeout or an overrun in the middle of a    *)
(* plain message this holds again from the next message on.                *)
MessagesAsSent ==
  pc = "idle" /\ ~ torn =>
    \A k \in DOMAIN script.messages :
      LET m == script.messages[k]
      IN  /\ m.last <= received
          /\ ~ Disturbed(m)
          /\ \A j \in 1 .. k - 1 :
               Disturbed(script.messages[j]) => script.messages[j].plain
          => ExecutedOf(m) = m.units

(* The same for a text that holds a terminator character and arrives in    *)
(* pieces: the tests of the library take both for granted.                 *)
TornTextsAsSent ==
  pc = "idle" /\ lost = {} /\ flushed = {} =>
    \A k \in DOMAIN script.messages :
      script.messages[k].last <= received
        => ExecutedOf(script.messages[k]) = script.messages[k].units

(* Neither loop can turn for ever: a turn consumes characters or is the    *)
(* last one, whatever is in the buffer.                                    *)
LoopsAdvance ==
  /\ pc = "scan" =>
       LET unit == Unit(Text(Rest(buffer, totcmdlen)))
       IN  unit.end > 0 \/ (unit.kind = "none" /\ unit.termination = "NONE")
  /\ pc \in {"parse", "flush"} => message = << >> \/ Unit(Text(message)).end > 0

=============================================================================
