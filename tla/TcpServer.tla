----------------------------- MODULE TcpServer -----------------------------
(***************************************************************************)
(* The TCP server of examples/test-tcp-srq/main.c: one loop around select, *)
(* with one connection for commands (io, and fio opened on it) that a new  *)
(* one replaces without being closed, and the input buffer of the library  *)
(* that outlives both.  Clients connect, send and end at any time between  *)
(* two calls of the loop.                                                  *)
(*                                                                         *)
(* A byte is <<connection, place in its stream>>.  The control connection  *)
(* is left out: what it receives is dropped and it has its own descriptor. *)
(***************************************************************************)
EXTENDS Integers, Sequences, FiniteSets, SequencesExt, FiniteSetsExt

CONSTANTS
    Texts,      \* what a client may send, as sequences of "a" and "\n"
    ChunkSize,  \* the size of smbuffer
    MaxClients  \* bound: connections of one behaviour

TcpAssumption == {ChunkSize, MaxClients} \subseteq Nat \ {0}

None == 0
Listener == -1

VARIABLES
    clients,   \* of each connection: the stream, bytes arrived and taken, ended
    pending,   \* connections to accept, in order
    io,        \* user_data.io
    fio,       \* the connection user_data.fio is open on
    closed,    \* connections the server has closed
    fds,       \* what the last select found ready: connections and Listener
    step,      \* the place in the loop of main
    held,      \* the input buffer
    messages   \* messages executed: text, where answers go, and why

tcpVars == <<clients, pending, io, fio, closed, fds, step, held, messages>>

Init ==
    /\ clients = << >> /\ pending = << >>
    /\ io = None /\ fio = None /\ closed = {}
    /\ fds = {} /\ step = "wait"
    /\ held = << >> /\ messages = << >>

Char(byte) == clients[byte[1]].stream[byte[2]]

-----------------------------------------------------------------------------
(* The clients                                                             *)

Network == UNCHANGED <<io, fio, closed, fds, step, held, messages>>

Connect(text) ==
    /\ Len(clients) < MaxClients
    /\ clients' = Append(clients, [stream |-> text, arrived |-> 0, taken |-> 0, ended |-> FALSE])
    /\ pending' = Append(pending, Len(clients) + 1)
    /\ Network

Arrive(c) ==
    /\ ~clients[c].ended /\ clients[c].arrived < Len(clients[c].stream)
    /\ clients' = [clients EXCEPT ![c].arrived = @ + 1]
    /\ UNCHANGED pending /\ Network

End(c) ==
    /\ ~clients[c].ended
    /\ clients' = [clients EXCEPT ![c].ended = TRUE]
    /\ UNCHANGED pending /\ Network

-----------------------------------------------------------------------------
(* The loop of main                                                        *)

HasBytes(c) == clients[c].taken < clients[c].arrived

\* Mutant: a connection its client has ended is not read.
ReadableWhileOpen == {c \in {io} \ {None} : HasBytes(c) /\ ~clients[c].ended}
                     \cup (IF pending = << >> THEN {} ELSE {Listener})

Readable == {c \in {io} \ {None} : HasBytes(c) \/ clients[c].ended}
            \cup (IF pending = << >> THEN {} ELSE {Listener})

\* waitServer, when something is ready.
WaitServer ==
    /\ step = "wait" /\ Readable # {}
    /\ fds' = Readable
    /\ step' = "listen"
    /\ UNCHANGED <<clients, pending, io, fio, closed, held, messages>>

Executed(text, why) == [text |-> text, to |-> fio, open |-> fio \notin closed, why |-> why]

\* Mutant: an unfinished message waits for ever.
TimeoutIdle ==
    /\ step = "wait" /\ Readable = {}
    /\ UNCHANGED tcpVars

\* select returns 0 after five seconds without anything: SCPI_Input(NULL, 0).
Timeout ==
    /\ step = "wait" /\ Readable = {}
    /\ held # << >>
    /\ messages' = Append(messages, Executed(held, "timeout"))
    /\ held' = << >>
    /\ UNCHANGED <<clients, pending, io, fio, closed, fds, step>>

\* processIoListen; by now the connection may be gone, and accept fails.
ProcessIoListen ==
    /\ step = "listen"
    /\ step' = "io"
    /\ \/ /\ Listener \notin fds
          /\ UNCHANGED <<pending, io, fio>>
       \/ /\ Listener \in fds
          /\ \E accepted \in {Head(pending)} \cup
                             (IF clients[Head(pending)].ended THEN {None} ELSE {}) :
                io' = accepted /\ fio' = accepted
          /\ pending' = Tail(pending)
    /\ UNCHANGED <<clients, closed, fds, held, messages>>

\* Mutant: fio is kept when its file is closed.
FioWhenClosed == fio

\* closeIo clears fio.
FioAfterClose == None

\* Mutant: what follows the message in the buffer is lost.
RestDropped(bytes, at) == IF at = 0 THEN bytes ELSE << >>

\* SCPI_Input keeps what follows a message.
Rest(bytes, at) == SubSeq(bytes, at + 1, Len(bytes))

\* SCPI_Input on the bytes collected: each new line ends a message.
Parsed(bytes) ==
    LET newLines == {i \in DOMAIN bytes : Char(bytes[i]) = "\n"}
        ends == <<0>> \o SetToSortSeq(newLines, <)
    IN  [held |-> Rest(bytes, Last(ends)),
         done |-> [k \in 1 .. Len(ends) - 1 |->
                     Executed(SubSeq(bytes, ends[k] + 1, ends[k + 1]), "line")]]

\* processIo
ProcessIo ==
    /\ step = "io"
    /\ step' = "wait"
    /\ IF io = None \/ io \notin fds
         THEN UNCHANGED <<clients, io, fio, closed, held, messages>>
         ELSE IF HasBytes(io)
         THEN LET n == Min({ChunkSize, clients[io].arrived - clients[io].taken})
                  chunk == [i \in 1 .. n |-> <<io, clients[io].taken + i>>]
                  input == Parsed(held \o chunk)
              IN  /\ clients' = [clients EXCEPT ![io].taken = @ + n]
                  /\ held' = input.held
                  /\ messages' = messages \o input.done
                  /\ UNCHANGED <<io, fio, closed>>
         ELSE /\ closed' = closed \cup {io}
              /\ io' = None
              /\ fio' = FioAfterClose
              /\ UNCHANGED <<clients, held, messages>>
    /\ UNCHANGED <<pending, fds>>

TcpLoop == WaitServer \/ Timeout \/ ProcessIoListen \/ ProcessIo

Next ==
    \/ \E text \in Texts : Connect(text)
    \/ \E c \in DOMAIN clients : Arrive(c) \/ End(c)
    \/ TcpLoop

(* The loop never stops, and five seconds of silence pass.                 *)
TcpFairness == WF_tcpVars(TcpLoop)

Spec == Init /\ [][Next]_tcpVars /\ TcpFairness

-----------------------------------------------------------------------------
TcpTypeOK ==
    /\ io \in 0 .. Len(clients) /\ fio \in 0 .. Len(clients)
    /\ closed \subseteq DOMAIN clients
    /\ fds \subseteq DOMAIN clients \cup {Listener}
    /\ step \in {"wait", "listen", "io"}
    /\ \A c \in DOMAIN clients :
        clients[c].taken <= clients[c].arrived /\ clients[c].arrived <= Len(clients[c].stream)

AllTexts == [i \in DOMAIN messages |-> messages[i].text]

(* Every byte received is in one message and in its place: bytes of one    *)
(* connection follow each other without a gap, and those of another come   *)
(* after only when the first is never read again, beginning with its first *)
(* byte.  So a message is made of two connections only where the first was *)
(* left in the middle of a message, and nowhere else (SCPI_Input,          *)
(* processIoListen, processIo).                                            *)
SeamsOnlyAtReplacement ==
    LET all == FlattenSeq(AllTexts) \o held
    IN  \A i \in 1 .. Len(all) - 1 :
          LET a == all[i]
              b == all[i + 1]
          IN  \/ a[1] = b[1] /\ b[2] = a[2] + 1
              \/ a[1] < b[1] /\ b[2] = 1 /\ a[2] = clients[a[1]].taken /\ io # a[1]

(* An answer is never written to a file that was closed, though a message  *)
(* the client left unfinished is executed by the timeout after that; and   *)
(* one whose end was received is answered on the connection it came from   *)
(* (closeIo, SCPI_Write).                                                  *)
AnswersToOpenFile ==
    \A i \in DOMAIN messages :
        /\ messages[i].open
        /\ messages[i].why = "line" => messages[i].to = Last(messages[i].text)[1]

(* What has been received is executed in the end: half a message is ended  *)
(* by five seconds of silence, whether its client is still there or not.   *)
HalfIsExecuted == held # << >> ~> held = << >>

Waits(c) == c <= Len(clients) /\ HasBytes(c)

Superseded(c) == io # c /\ c \notin Range(pending)

(* What arrives on a connection is received, unless the connection is      *)
(* replaced by a later one, which is not closed but never read again.      *)
ReadOrReplaced ==
    \A c \in 1 .. MaxClients : Waits(c) ~> (~Waits(c) \/ Superseded(c))

=============================================================================
