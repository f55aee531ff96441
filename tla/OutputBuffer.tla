---------------------------- MODULE OutputBuffer ----------------------------
(***************************************************************************)
(* The state of the VXI-11 server of examples/test-vxi11/main.c between    *)
(* two calls of its client: the status registers and the one output        *)
(* buffer, what was sent and what came back; and what is to be true of     *)
(* them.                                                                   *)
(*                                                                         *)
(* A character is <<number of the message, what it is>>.                   *)
(***************************************************************************)
EXTENDS StatusRegisters, SequencesExt

CONSTANTS
    BufferSize,   \* SCPI_OUPUT_BUFFER_SIZE
    Messages,     \* what a controller may send: sequences of units
    RequestSizes, \* requestSize of device_read
    Enabled,      \* what SRE may hold
    MaxMessages   \* bound: messages of one behaviour

(* A unit: whether its header ends in "?", the characters its callback     *)
(* writes, whether it returns SCPI_RES_OK, and surplus parameters.         *)
Units == [query : BOOLEAN, writes : Nat, ok : BOOLEAN, surplus : BOOLEAN]

ASSUME Vxi11Assumption ==
    /\ BufferSize \in Nat \ {0, 1}
    /\ \A units \in Messages : units \in Seq(Units)
    /\ RequestSizes \subseteq Nat \ {0}
    /\ Enabled \subseteq SUBSET Bits
    /\ MaxMessages \in Nat

VARIABLES
    registers,  \* the status registers
    control,    \* the service requests of the last call
    buffer,     \* SCPI_outputBuffer up to SCPI_outputBuffer_wr_idx
    rd_idx,     \* SCPI_outputBuffer_rd_idx
    sent,       \* messages taken so far, and the last one
    reply,      \* of the last call: data, whether END was given
    stray,      \* text a mishap left is in the buffer
    fate        \* answers flushed, read to END, interrupted

deviceVars == <<registers, control, buffer, rd_idx, sent, reply, stray, fate>>

Available(regs) == STB_MAV \in regs["STB"]

\* What the buffer holds of a text.
Cut(text) == IF Len(text) < BufferSize THEN text ELSE SubSeq(text, 1, BufferSize - 1)

Semicolon == 0
NewLine == -1
Text(m, unit) == [i \in 1 .. unit.writes |-> <<m, i>>]

-----------------------------------------------------------------------------
(* MAV says that there is something to read: a read call that finds it set *)
(* gets at least one character, so that a controller that goes on reading  *)
(* comes to END (device_read, SCPI_Flush).                                 *)
MavMeansText == Available(registers) => rd_idx < Len(buffer)

(* Every answer that is flushed is either read to END or interrupted, and  *)
(* exactly once: none is given out twice, none vanishes without the error  *)
(* (SCPI_Write, device_read).                                              *)
EveryAnswerAccounted ==
    fate.flushed = fate.read + fate.interrupted + (IF Available(registers) THEN 1 ELSE 0)

(* What message m is to be answered: the text of its queries, each but the *)
(* first that succeeds after a semicolon, and the end of the line.         *)
Answered(units, i) == \E j \in 1 .. i : units[j].query /\ units[j].ok

Separator(m, units, i) == IF Answered(units, i - 1) THEN <<<<m, Semicolon>>>> ELSE << >>

AnswerTo(m, units) ==
    LET texts[i \in 0 .. Len(units)] ==
            IF i = 0 THEN << >>
            ELSE IF ~units[i].query THEN texts[i - 1]
            ELSE texts[i - 1] \o Separator(m, units, i) \o Text(m, units[i])
    IN  texts[Len(units)] \o <<<<m, NewLine>>>>

AnswerOf(m) == AnswerTo(m, sent[m])

(* The answer that waits is the answer to the message that flushed it, up  *)
(* to what the buffer holds, with nothing of an answer before it - unless  *)
(* a mishap left its text: a query that fails after it wrote, or whose own *)
(* first write interrupts an answer, is never flushed, and its text stays  *)
(* in front of the next answer (SCPI_Write, SCPI_Flush, processCommand).   *)
AnswerIntact ==
    Available(registers) /\ ~stray => buffer = Cut(AnswerOf(buffer[1][1]))

(* An answer is whole, waits while MAV is set, and is given once.          *)
AnswersWhole == MavMeansText /\ EveryAnswerAccounted /\ AnswerIntact

(* A message with a query, sent while no answer waits, leaves its answer   *)
(* to be read if nothing in it goes wrong; a controller that has enabled   *)
(* MAV in SRE is called for every answer, one that follows an interrupted  *)
(* answer too (writeNewLine, SCPI_Flush, SCPI_RegSet).                     *)
AnswersAnnounced ==
    [][/\ (/\ Len(sent') > Len(sent) /\ ~Available(registers)
           /\ \E i \in DOMAIN Last(sent') : Last(sent')[i].query
           /\ \A i \in DOMAIN Last(sent') : Last(sent')[i].ok)
              => Available(registers')
       /\ (fate'.flushed > fate.flushed /\ STB_MAV \in registers["SRE"])
              => \E i \in DOMAIN control' : {STB_MAV, STB_SRQ} \subseteq control'[i]]_deviceVars

=============================================================================
