--------------------------- MODULE EthernetLines ---------------------------
(***************************************************************************)
(* How taskEthernet of the ESP32 firmware (main.cpp) turns the sockets of  *)
(* the W5500 into lines: it accepts one client at a time, collects its     *)
(* bytes in ethRx with readLine, hands on complete lines, and restarts the *)
(* chip on request, which ends every connection.  The sockets belong to    *)
(* the Ethernet library (lib/Ethernet); connections come, send, end and    *)
(* break at any time between two of the task's accesses.                   *)
(*                                                                         *)
(* A byte is <<connection, place in its stream>>.  What is sent back is    *)
(* left out, and so are the port number and the sockets DHCP uses.         *)
(***************************************************************************)
EXTENDS Integers, Sequences, FiniteSets, SequencesExt, FiniteSetsExt

CONSTANTS
    Sockets,        \* the chip's sockets, 0 .. MAX_SOCK_NUM - 1
    LineLength,     \* SCPI_LINE_LENGTH, the capacity of ethRx
    Streams,        \* what a client may send
    MaxConnections, \* bounds: connections and
    MaxRestarts     \* restarts of the network in one behaviour

LinesAssumption ==
    /\ Sockets # {} /\ Sockets \subseteq Nat
    /\ LineLength \in Nat \ {0, 1}
    /\ {MaxConnections, MaxRestarts} \subseteq Nat

NoClient == -1
NoConnection == 0

VARIABLES
    stat,       \* Sn_SR: "LISTEN", "ESTABLISHED", "CLOSE_WAIT" or "CLOSED"
    conn,       \* the connection on each socket
    conns,      \* all connections: the stream, bytes arrived and read, broken
    client,     \* the socket of ethClients[0]
    ethRx,      \* [text, overflow]
    restart,    \* netRestartRequest
    restarts,   \* requests made so far
    pc,         \* where taskEthernet is in its pass
    inherited,  \* a connection came up on the socket of the client served
    outcomes    \* lines executed and errors replied, in order

vars == <<stat, conn, conns, client, ethRx, restart, restarts, pc, inherited, outcomes>>

EmptyLine == [text |-> << >>, overflow |-> FALSE]

\* socketBegin takes the first closed socket; all may be in use.
Listening(status) ==
    LET closed == {s \in Sockets : status[s] = "CLOSED"}
    IN  IF closed = {} THEN status ELSE [status EXCEPT ![Min(closed)] = "LISTEN"]

AllClosed == [s \in Sockets |-> "CLOSED"]

Init ==
    /\ stat = Listening(AllClosed)
    /\ conn = [s \in Sockets |-> NoConnection]
    /\ conns = << >>
    /\ client = NoClient
    /\ ethRx = EmptyLine
    /\ restart = FALSE /\ restarts = 0
    /\ pc = "restart"
    /\ inherited = FALSE
    /\ outcomes = << >>

-----------------------------------------------------------------------------
(* The network and the other tasks.                                        *)

Network == UNCHANGED <<client, ethRx, pc, outcomes>>

Connect(s, stream) ==
    /\ stat[s] = "LISTEN"
    /\ Len(conns) < MaxConnections
    /\ stat' = [stat EXCEPT ![s] = "ESTABLISHED"]
    /\ conns' = Append(conns, [stream |-> stream, arrived |-> 0, taken |-> 0, lost |-> FALSE])
    /\ conn' = [conn EXCEPT ![s] = Len(conns) + 1]
    /\ inherited' = (inherited \/ s = client)
    /\ Network /\ UNCHANGED <<restart, restarts>>

Arrive(s) ==
    /\ stat[s] = "ESTABLISHED"
    /\ conns[conn[s]].arrived < Len(conns[conn[s]].stream)
    /\ conns' = [conns EXCEPT ![conn[s]].arrived = @ + 1]
    /\ Network /\ UNCHANGED <<stat, conn, restart, restarts, inherited>>

\* The client ends the connection, or it breaks.
Disconnect(s) ==
    /\ stat[s] = "ESTABLISHED"
    /\ \E status \in {"CLOSE_WAIT", "CLOSED"} :
          /\ stat' = [stat EXCEPT ![s] = status]
          /\ conns' = [conns EXCEPT ![conn[s]].lost = (status = "CLOSED")]
    /\ Network /\ UNCHANGED <<conn, restart, restarts, inherited>>

\* A NET: command or the menu asks for a restart.
RequestRestart ==
    /\ restarts < MaxRestarts
    /\ restart' = TRUE /\ restarts' = restarts + 1
    /\ Network /\ UNCHANGED <<stat, conn, conns, inherited>>

-----------------------------------------------------------------------------
(* taskEthernet                                                            *)

RecvAvailable(s) ==
    conn[s] # NoConnection /\ conns[conn[s]].taken < conns[conn[s]].arrived

\* Mutant: a client that has sent its lines and closed does not count.
ConnectedOnlyIfOpen(s) == s # NoClient /\ stat[s] = "ESTABLISHED"

\* EthernetClient::connected
Connected(s) ==
    /\ s # NoClient
    /\ \/ stat[s] = "ESTABLISHED"
       \/ stat[s] = "CLOSE_WAIT" /\ RecvAvailable(s)

\* The end of initW5500; EthernetClient::stop is over by then.
ServeRestart ==
    /\ pc = "restart"
    /\ pc' = "accept"
    /\ \/ /\ ~restart
          /\ UNCHANGED <<stat, conns, client, ethRx, restart>>
       \/ /\ restart
          /\ restart' = FALSE
          /\ client' = NoClient /\ ethRx' = EmptyLine
          /\ stat' = Listening(AllClosed)
          /\ conns' = [c \in DOMAIN conns |-> [conns[c] EXCEPT !.lost = TRUE]]
    /\ UNCHANGED <<conn, restarts, outcomes, inherited>>

\* EthernetServer::available closes what the other side has left, listens
\* again if no socket does, and returns the last socket that has bytes.
Ready == {s \in Sockets : stat[s] \in {"ESTABLISHED", "CLOSE_WAIT"} /\ RecvAvailable(s)}

Swept ==
    LET status == [s \in Sockets |-> IF stat[s] = "CLOSE_WAIT" /\ ~RecvAvailable(s)
                                     THEN "CLOSED" ELSE stat[s]]
    IN  IF \E s \in Sockets : stat[s] = "LISTEN" THEN status ELSE Listening(status)

\* Mutant: the line of the client before is kept.
RxOfNewClient == ethRx

\* acceptClient resets the line of the client it takes on.
RxForNewClient == EmptyLine

AcceptClient ==
    /\ pc = "accept"
    /\ pc' = "serve"
    /\ IF Connected(client)
         THEN UNCHANGED <<stat, client, ethRx>>
         ELSE LET stopped == IF client \in Sockets /\ Ready # {}
                               THEN [Swept EXCEPT ![client] = "CLOSED"] ELSE Swept
              IN  /\ stat' = stopped
                  /\ client' = IF Ready = {} THEN client ELSE Max(Ready)
                  /\ ethRx' = IF Ready = {} THEN ethRx ELSE RxForNewClient
    /\ UNCHANGED <<conn, conns, restart, restarts, outcomes, inherited>>

ServeClient ==
    /\ pc = "serve"
    /\ IF client = NoClient \/ Connected(client)
         THEN /\ pc' = IF client = NoClient THEN "restart" ELSE "read"
              /\ UNCHANGED <<stat, client, ethRx>>
         ELSE /\ pc' = "restart"
              /\ stat' = [stat EXCEPT ![client] = "CLOSED"]
              /\ client' = NoClient /\ ethRx' = EmptyLine
    /\ UNCHANGED <<conn, conns, restart, restarts, outcomes, inherited>>

\* One turn of readLine's loop, or its end.
EndRead ==
    /\ pc = "read" /\ ~RecvAvailable(client)
    /\ pc' = "restart"
    /\ UNCHANGED <<stat, conn, conns, client, ethRx, restart, restarts, outcomes, inherited>>

\* Mutant: one character too many.
FitsWithoutZero == Len(ethRx.text) + 1 <= LineLength

Fits == Len(ethRx.text) + 1 < LineLength

ReadChar ==
    /\ pc = "read" /\ RecvAvailable(client)
    /\ LET c == conn[client]
           at == conns[c].taken + 1
           char == conns[c].stream[at]
       IN  /\ conns' = [conns EXCEPT ![c].taken = at]
           /\ \/ /\ char = "\r"
                 /\ UNCHANGED <<pc, ethRx, outcomes>>
              \/ /\ char \notin {"\r", "\n"}
                 /\ ethRx' = IF Fits THEN [ethRx EXCEPT !.text = Append(@, <<c, at>>)]
                                     ELSE [ethRx EXCEPT !.overflow = TRUE]
                 /\ UNCHANGED <<pc, outcomes>>
              \/ /\ char = "\n" /\ ethRx.overflow
                 /\ ethRx' = EmptyLine
                 /\ outcomes' = Append(outcomes, [kind |-> "error", of |-> c, text |-> << >>])
                 /\ pc' = "restart"
              \/ /\ char = "\n" /\ ~ethRx.overflow
                 /\ pc' = IF ethRx.text = << >> THEN "restart" ELSE "handle"
                 /\ UNCHANGED <<ethRx, outcomes>>
    /\ UNCHANGED <<stat, conn, client, restart, restarts, inherited>>

\* handleScpiLine and resetLine.
HandleLine ==
    /\ pc = "handle"
    /\ outcomes' = Append(outcomes, [kind |-> "line", of |-> conn[client], text |-> ethRx.text])
    /\ ethRx' = EmptyLine
    /\ pc' = "restart"
    /\ UNCHANGED <<stat, conn, conns, client, restart, restarts, inherited>>

TaskEthernet ==
    \/ ServeRestart \/ AcceptClient \/ ServeClient
    \/ EndRead \/ ReadChar \/ HandleLine

Next ==
    \/ \E s \in Sockets : \/ \E stream \in Streams : Connect(s, stream)
                          \/ Arrive(s) \/ Disconnect(s)
    \/ RequestRestart
    \/ TaskEthernet

(* The task passes its loop for ever; clients take the answers it writes.  *)
Fairness == WF_vars(TaskEthernet)

Spec == Init /\ [][Next]_vars /\ Fairness

-----------------------------------------------------------------------------
TypeOK ==
    /\ \A s \in Sockets :
        /\ stat[s] \in {"LISTEN", "ESTABLISHED", "CLOSE_WAIT", "CLOSED"}
        /\ conn[s] \in 0 .. Len(conns)
    /\ client \in Sockets \cup {NoClient}
    /\ Len(ethRx.text) < LineLength        \* the terminating zero fits
    /\ pc \in {"restart", "accept", "serve", "read", "handle"}
    /\ client = NoClient => pc \notin {"read", "handle"}
    /\ \A c \in 1 .. Len(conns) :
        conns[c].taken <= conns[c].arrived /\ conns[c].arrived <= Len(conns[c].stream)

(* What must come of the bytes read from a connection: for each line that  *)
(* is not empty its execution or, if it does not fit, an error.            *)
LineTo(c, end) ==
    LET before == {i \in 1 .. end - 1 : conns[c].stream[i] = "\n"}
        from == IF before = {} THEN 1 ELSE Max(before) + 1
        chars == {i \in from .. end - 1 : conns[c].stream[i] # "\r"}
    IN  [i \in 1 .. Cardinality(chars) |-> <<c, SetToSortSeq(chars, <)[i]>>]

Meant(c) ==
    LET ends == {i \in 1 .. conns[c].taken : conns[c].stream[i] = "\n" /\ LineTo(c, i) # << >>}
        outcome(end) ==
            IF Len(LineTo(c, end)) < LineLength
              THEN [kind |-> "line", of |-> c, text |-> LineTo(c, end)]
              ELSE [kind |-> "error", of |-> c, text |-> << >>]
    IN  [i \in 1 .. Cardinality(ends) |-> outcome(SetToSortSeq(ends, <)[i])]

(* Every line read is executed once and as it was sent, or reported once   *)
(* if it is too long, in the order of the connection; what a client leaves *)
(* unfinished - it ends, breaks, is replaced or the chip restarts - never  *)
(* becomes part of a line of the next (readLine, acceptClient, initW5500). *)
(* The exception: available() may listen on the socket of a client that is *)
(* gone, and one that comes up there before connected() is asked is taken  *)
(* for the client before.                                                  *)
EveryLineOnce ==
    pc # "handle" /\ ~inherited =>
        \A c \in 1 .. Len(conns) : SelectSeq(outcomes, LAMBDA o : o.of = c) = Meant(c)

Waiting(c) == c <= Len(conns) /\ conns[c].taken < conns[c].arrived

Blocked(c) == client # NoClient /\ conn[client] # c /\ Connected(client)

(* A byte that has arrived is read in the end, unless the connection       *)
(* breaks, the chip restarts or another client is being served: only one   *)
(* is at a time, and a client that has ended its connection is served to   *)
(* the last byte it sent (connected, taskEthernet).                        *)
ArrivedIsRead ==
    \A c \in 1 .. MaxConnections :
        Waiting(c) ~> (~Waiting(c) \/ conns[c].lost \/ Blocked(c))

=============================================================================
