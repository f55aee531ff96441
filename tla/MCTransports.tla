---------------------------- MODULE MCTransports ----------------------------
(***************************************************************************)
(* The transports under TLC, and how the firmware takes the lines of its   *)
(* own apart.  They share nothing but the library, so that a behaviour is  *)
(* one of one of them, chosen at the start; the others stay as they were   *)
(* initialised.                                                            *)
(***************************************************************************)
EXTENDS OutputBuffer

CONSTANTS Sockets, LineLength, MaxConnections, MaxRestarts,
          ChunkSize, MaxClients,
          MaxParams, LongMax, Pins

VARIABLES part, input,
          stat, conn, conns, client, ethRx, restart, restarts, pc, inherited, outcomes,
          clients, pending, io, fio, closed, fds, step, held, messages

\* Lines that fit exactly, that do not, and that are empty.
Streams == { <<"a", "\r", "\n", "b">>, <<"\n", "a", "b", "\n", "a", "\n">> }

Query(n) == [query |-> TRUE, writes |-> n, ok |-> TRUE, surplus |-> FALSE]
Command == [query |-> FALSE, writes |-> 0, ok |-> TRUE, surplus |-> FALSE]
Failing(unit) == [unit EXCEPT !.ok = FALSE]
Surplus(unit) == [unit EXCEPT !.surplus = TRUE]

\* Answers that are empty, that fit, that are too long, and that fail half-way.
MCMessages == { <<Query(2)>>, <<Query(0)>>, <<Query(1), Query(2)>>, <<Failing(Query(1))>>,
              <<Command>>, <<Surplus(Query(1)), Query(1)>>,
              <<Query(0), Failing(Query(0)), Query(1)>>, <<Query(4)>> }

\* Several messages in one chunk, and half ones at the end.
Texts == { <<"a", "\n", "a">>, <<"\n", "a", "a", "\n">> }

\* Every character that a line or a word may end at.
Ends == {"A", ",", " ", "'", ")", "(", "\\", "n"}
Quotes == {"", "\"", "'"}

Lines == INSTANCE EthernetLines
Vxi == INSTANCE Vxi11Server
Tcp == INSTANCE TcpServer
Line == INSTANCE CommandLine

ASSUME Lines!LinesAssumption
ASSUME Tcp!TcpAssumption
ASSUME Line!LineAssumption

linesVars == <<stat, conn, conns, client, ethRx, restart, restarts, pc, inherited, outcomes>>
tcpVars == <<clients, pending, io, fio, closed, fds, step, held, messages>>
allVars == <<part, input, linesVars, deviceVars, tcpVars>>

\* Commands of two short words and one too many, or of one that is longer; only what can
\* be written as a word is worth a state.
CommandInputs ==
    /\ part = "command"
    /\ \E form \in Line!Forms :
        \/ \E t1, t2 \in BoundedSeq(Ends, 2), q1, q2 \in Quotes :
            /\ Line!Writable(t1, q1) /\ Line!Writable(t2, q2)
            /\ input = [words |-> <<[text |-> t1, quote |-> q1], [text |-> t2, quote |-> q2],
                                   [text |-> <<"A">>, quote |-> ""]>>,
                        form |-> form]
        \/ \E t \in BoundedSeq(Ends, 4), q \in Quotes :
            /\ Line!Writable(t, q)
            /\ input = [words |-> <<[text |-> t, quote |-> q]>>, form |-> form]

\* What may stand behind the header of a command, well formed or not.
TextInputs == part = "text" /\ input \in BoundedSeq((Ends \ {"("}) \cup {"\"", ";"}, 4)

\* Pins of up to four characters, of the words that a handler can get.
PinInputs ==
    /\ part = "pin"
    /\ input \in {s \in BoundedSeq({"+", "-", "A", " ", "0", "1", "2", "5", "6"}, 4) : Line!Plain(s)}

Init ==
    /\ \/ CommandInputs
       \/ TextInputs
       \/ PinInputs
       \/ part \in {"ethernet", "vxi11", "tcp"} /\ input = << >>
    /\ Lines!Init /\ Vxi!Init /\ Tcp!Init
    /\ part = "vxi11" \/ registers["SRE"] = {}

Ethernet == part = "ethernet" /\ UNCHANGED <<part, input, deviceVars, tcpVars>>
Vxi11 == part = "vxi11" /\ UNCHANGED <<part, input, linesVars, tcpVars>>
TcpSrq == part = "tcp" /\ UNCHANGED <<part, input, linesVars, deviceVars>>

Next ==
    \/ Ethernet /\ Lines!Next
    \/ Vxi11 /\ Vxi!Next
    \/ TcpSrq /\ Tcp!Next

\* The fairness of each, see the modules.
Fairness ==
    /\ WF_allVars(Ethernet /\ Lines!TaskEthernet)
    /\ WF_allVars(TcpSrq /\ Tcp!TcpLoop)

Spec == Init /\ [][Next]_allVars /\ Fairness

TypeOK == Lines!TypeOK /\ Vxi!Vxi11TypeOK /\ Tcp!TcpTypeOK

(* CommandLine: handlers get the words that were written, each its own.    *)
WordsReadBack == part = "command" => Line!WordsRead(<<"H">>, input.words, input.form)
(* CommandLine: whatever is in a line, handlers get words and none empty.  *)
OnlyWords == part = "text" => Line!OnlyWordsRead(<<"H", " ">> \o input)
(* CommandLine: a pin is addressed if and only if its number was written.  *)
PinsAsWritten == part = "pin" => Line!PinAsWritten(input)

(* EthernetLines: each line is executed once, or reported if too long.     *)
EveryLineOnce == Lines!EveryLineOnce
(* EthernetLines: what arrives is read.                                    *)
ArrivedIsRead == Lines!ArrivedIsRead

(* TcpServer: bytes stay in order, connections meet where one ends.        *)
SeamsOnlyAtReplacement == Tcp!SeamsOnlyAtReplacement
(* TcpServer: answers go to the connection that asked, never a closed one. *)
AnswersToOpenFile == Tcp!AnswersToOpenFile
(* TcpServer: half a message is executed after a silence.                  *)
HalfIsExecuted == Tcp!HalfIsExecuted
(* TcpServer: what arrives is read unless its connection is replaced.      *)
ReadOrReplaced == Tcp!ReadOrReplaced

(* The parts above as the properties of the run, by what they protect.     *)

(* A handler gets the words and the pin that were written for it.          *)
CommandsAsWritten == WordsReadBack /\ OnlyWords /\ PinsAsWritten

(* TCP: a message is made of what one connection sent, but where one is    *)
(* replaced, and its answer goes where it came from.                       *)
MessagesInPlace == SeamsOnlyAtReplacement /\ AnswersToOpenFile

(* TCP: what arrives is read, and what was read is executed.               *)
ArrivedIsExecuted == ReadOrReplaced /\ HalfIsExecuted

=============================================================================
