--------------------------- MODULE FirmwareTasks ---------------------------
(***************************************************************************)
(* The tasks of the ESP32 firmware (main.cpp).  taskSerial and             *)
(* taskEthernet read lines and execute their commands, taskOled draws the  *)
(* console of past commands.  They share two FreeRTOS mutexes: i2cMutex    *)
(* for the bus with the port expanders and the display, stateMutex for     *)
(* lastError, the console and the counters.  Everything else is shared     *)
(* with no lock.                                                           *)
(*                                                                         *)
(* A handler is the sequence of its accesses to what is shared; a task     *)
(* executes the first step of its todo list, and the steps of the tasks    *)
(* interleave.  What a handler prints to its own stream is left out, and   *)
(* so are values nothing here depends on: "touch" stands for an access to  *)
(* such data.                                                              *)
(***************************************************************************)
EXTENDS Naturals, Sequences

CONSTANTS
    Pins,           \* the pins of one port of an MCP23017: they share a register
    ConsoleLines,   \* OLED_CONSOLE_LINES
    Lines,          \* the lines a controller may send
    MaxLines        \* bound: lines each of the two readers receives

ASSUME ConsoleLinesAssumption == ConsoleLines \in Nat \ {0}
ASSUME MaxLinesAssumption == MaxLines \in Nat

Readers == {"serial", "eth"}
Tasks == Readers \cup {"oled"}
Mutexes == {"i2c", "state"}
Nobody == "nobody"
NoCommand == [name |-> "none"]

VARIABLES
    owner,          \* the task that holds each mutex
    todo,           \* the steps each task has before it sleeps in vTaskDelay
    left,           \* lines each reader may still receive
    command,        \* the command each reader is executing
    console,        \* oledConsole: the serial numbers of its texts, 0 is blank
    pushes,         \* number of texts pushed so far
    copied,         \* taskOled's copy of the console
    lastError,      \* the number of the error held, 0 is "No error"
    raised,         \* number of errors raised so far
    fetched,        \* the error each reader has read for SYST:ERR?
    overflowCount,
    overlong,       \* number of overlong lines whose count was stored
    chip,           \* the port register of the expander
    wanted,         \* what the commands carried out so far make of it
    read            \* what each reader last read for an update

tasks == <<owner, todo, left, command>>
screen == <<console, pushes, copied>>
errors == <<lastError, raised, fetched>>
counts == <<overflowCount, overlong>>
port == <<chip, wanted>>
vars == <<tasks, screen, errors, counts, port, read>>

-----------------------------------------------------------------------------
(* The code, as sequences of steps.                                        *)

Do(op, on) == [op |-> op, on |-> on]

Locked(m, steps) == <<Do("take", m)>> \o steps \o <<Do("give", m)>>

ConsolePush ==
    Locked("state", [i \in 1 .. ConsoleLines |->
                        Do(IF i < ConsoleLines THEN "shift" ELSE "append", i)])

ConsoleClear == Locked("state", [i \in 1 .. ConsoleLines |-> Do("blank", i)])

SetErr == Locked("state", <<Do("set", "error")>>)

ResetErr == Locked("state", <<Do("reset", "error")>>)

ReplyErr == SetErr \o ConsolePush

\* Mutant: SYST:ERR? reads and clears in two critical sections.
FetchErrInTwo ==
    Locked("state", <<Do("fetch", "error")>>)
        \o Locked("state", <<Do("clear", "error")>>)
        \o <<Do("print", "error")>> \o ConsolePush

FetchErr ==
    Locked("state", <<Do("fetch", "error"), Do("clear", "error")>>)
        \o <<Do("print", "error")>> \o ConsolePush

\* Mutant: each call of the expander's library takes the mutex by itself.
ToggleByCalls ==
    Locked("i2c", <<Do("touch", "mode"), Do("sample", "pin")>>)
        \o Locked("i2c", <<Do("load", "port"), Do("toggle", "port")>>) \o ConsolePush

Toggle ==
    Locked("i2c", <<Do("touch", "mode"), Do("sample", "pin"), Do("load", "port"),
                    Do("toggle", "port"), Do("touch", "pin")>>) \o ConsolePush

Write ==
    Locked("i2c", <<Do("touch", "mode"), Do("load", "port"), Do("write", "port")>>)
        \o ConsolePush

\* Mutant: the early return keeps the mutex.
BadModeKeeping == <<Do("take", "i2c")>> \o ReplyErr

\* Mutant: the early return gives back and goes on to where the mutex is given back.
BadModeGivingTwice == Locked("i2c", <<>>) \o <<Do("give", "i2c")>> \o ReplyErr

\* MCP:MODE with a mode it does not know gives the mutex back and then replies.
BadMode == Locked("i2c", <<>>) \o ReplyErr

Mode == Locked("i2c", <<Do("touch", "mode")>>) \o ConsolePush

\* What each kind of command does, behind the echo on the console.
Handlers ==
    [blank     |-> <<>>,
     plain     |-> ConsolePush,         \* *IDN?, HELP?, MEM?, GPIO:..., NET:...
     status    |-> Locked("state", <<Do("touch", "state")>>) \o ConsolePush,
     rst       |-> ResetErr \o ConsoleClear \o ConsolePush,
     systerr   |-> FetchErr,
     badparam  |-> ReplyErr,
     undefined |-> SetErr \o ConsolePush,
     mcpmode   |-> Mode,                \* and MCP:READ?
     mcpbad    |-> BadMode,
     mcpwrite  |-> Write,
     mcptoggle |-> Toggle]

\* The commands that the lines are made of; of those that reach a pin the
\* ones without a pin of the port are "badparam".
Commands == UNION {{line[i] : i \in 1 .. Len(line)} : line \in Lines}

ASSUME LinesAssumption ==
    /\ Lines \subseteq Seq(Commands)
    /\ \A c \in Commands :
        /\ c.name \in DOMAIN Handlers
        /\ c.name \in {"mcpwrite", "mcptoggle"} => c.pin \in Pins

HandleOneCommand(c) == ConsolePush \o Handlers[c.name] \o <<Do("return", c)>>

HandleScpiLine(line) ==
    Locked("state", <<Do("touch", "counter")>>)
        \o [i \in 1 .. Len(line) |-> Do("call", line[i])]

OverlongLine ==
    Locked("state", <<Do("load", "overflowCount"), Do("store", "overflowCount")>>)
        \o ReplyErr

\* What taskEthernet does at the end of every pass: the link state.
EndOfPass(t) ==
    IF t = "eth" THEN Locked("state", <<Do("touch", "link")>>) ELSE <<>>

\* Mutant: the display is guarded by the bus mutex alone.
DrawConsoleBusOnly ==
    Locked("i2c", [i \in 1 .. ConsoleLines |-> Do("copy", i)] \o <<Do("draw", "console")>>)

DrawConsole ==
    Locked("i2c", Locked("state", [i \in 1 .. ConsoleLines |-> Do("copy", i)])
                    \o <<Do("draw", "console")>>)

DrawMenu == Locked("i2c", <<Do("touch", "menu")>>)

-----------------------------------------------------------------------------
NoLines == [i \in 1 .. ConsoleLines |-> 0]
NoRead == [pin |-> FALSE, port |-> [p \in Pins |-> FALSE], count |-> 0]

Init ==
    /\ owner = [m \in Mutexes |-> Nobody]
    /\ todo = [t \in Tasks |-> <<>>]
    /\ left = [t \in Readers |-> MaxLines]
    /\ command = [t \in Readers |-> NoCommand]
    /\ console = NoLines /\ pushes = 0 /\ copied = NoLines
    /\ lastError = 0 /\ raised = 0 /\ fetched = [t \in Readers |-> 0]
    /\ overflowCount = 0 /\ overlong = 0
    /\ chip = NoRead.port /\ wanted = NoRead.port
    /\ read = [t \in Readers |-> NoRead]

-----------------------------------------------------------------------------
(* A pass of a task's loop begins: it has slept and has nothing to do.     *)

Begin(t, steps) ==
    /\ todo[t] = <<>>
    /\ todo' = [todo EXCEPT ![t] = steps]

\* A line is complete.  taskEthernet looks at the link in every pass.
ReadLine(t) ==
    /\ left[t] > 0
    /\ \E line \in Lines : Begin(t, HandleScpiLine(line) \o EndOfPass(t))
    /\ left' = [left EXCEPT ![t] = @ - 1]
    /\ UNCHANGED <<owner, command, screen, errors, counts, port, read>>

ReadOverlongLine(t) ==
    /\ left[t] > 0
    /\ Begin(t, OverlongLine \o EndOfPass(t))
    /\ left' = [left EXCEPT ![t] = @ - 1]
    /\ UNCHANGED <<owner, command, screen, errors, counts, port, read>>

\* No line is complete.  taskSerial only sleeps.
IdlePass(t) ==
    /\ Begin(t, EndOfPass(t))
    /\ UNCHANGED <<owner, left, command, screen, errors, counts, port, read>>

Redraw ==
    /\ Begin("oled", DrawConsole) \/ Begin("oled", DrawMenu)
    /\ UNCHANGED <<owner, left, command, screen, errors, counts, port, read>>

-----------------------------------------------------------------------------
(* One step of a task.                                                     *)

Next1(t, op) == todo[t] # <<>> /\ Head(todo[t]).op = op

On(t) == Head(todo[t]).on

Done(t) == todo' = [todo EXCEPT ![t] = Tail(@)]

Take(t) ==
    /\ Next1(t, "take")
    /\ owner[On(t)] = Nobody
    /\ owner' = [owner EXCEPT ![On(t)] = t]
    /\ Done(t)
    /\ UNCHANGED <<left, command, screen, errors, counts, port, read>>

Give(t) ==
    /\ Next1(t, "give")
    /\ owner' = [owner EXCEPT ![On(t)] = Nobody]
    /\ Done(t)
    /\ UNCHANGED <<left, command, screen, errors, counts, port, read>>

Touch(t) ==
    /\ Next1(t, "touch")
    /\ Done(t)
    /\ UNCHANGED <<owner, left, command, screen, errors, counts, port, read>>

Call(t) ==
    /\ Next1(t, "call")
    /\ command' = [command EXCEPT ![t] = On(t)]
    /\ todo' = [todo EXCEPT ![t] = HandleOneCommand(On(t)) \o Tail(@)]
    /\ UNCHANGED <<owner, left, screen, errors, counts, port, read>>

Return(t) ==
    /\ Next1(t, "return")
    /\ command' = [command EXCEPT ![t] = NoCommand]
    /\ Done(t)
    /\ UNCHANGED <<owner, left, screen, errors, counts, port, read>>

ShiftLine(t) ==
    /\ Next1(t, "shift")
    /\ console' = [console EXCEPT ![On(t)] = console[On(t) + 1]]
    /\ Done(t)
    /\ UNCHANGED <<owner, left, command, pushes, copied, errors, counts, port, read>>

AppendLine(t) ==
    /\ Next1(t, "append")
    /\ pushes' = pushes + 1
    /\ console' = [console EXCEPT ![On(t)] = pushes']
    /\ Done(t)
    /\ UNCHANGED <<owner, left, command, copied, errors, counts, port, read>>

BlankLine(t) ==
    /\ Next1(t, "blank")
    /\ console' = [console EXCEPT ![On(t)] = 0]
    /\ Done(t)
    /\ UNCHANGED <<owner, left, command, pushes, copied, errors, counts, port, read>>

CopyLine(t) ==
    /\ Next1(t, "copy")
    /\ copied' = [copied EXCEPT ![On(t)] = console[On(t)]]
    /\ Done(t)
    /\ UNCHANGED <<owner, left, command, console, pushes, errors, counts, port, read>>

\* The copy is a local of one pass.
Draw(t) ==
    /\ Next1(t, "draw")
    /\ copied' = NoLines
    /\ Done(t)
    /\ UNCHANGED <<owner, left, command, console, pushes, errors, counts, port, read>>

SetError(t) ==
    /\ Next1(t, "set")
    /\ raised' = raised + 1
    /\ lastError' = raised'
    /\ Done(t)
    /\ UNCHANGED <<owner, left, command, screen, fetched, counts, port, read>>

ResetError(t) ==
    /\ Next1(t, "reset")
    /\ lastError' = 0
    /\ Done(t)
    /\ UNCHANGED <<owner, left, command, screen, raised, fetched, counts, port, read>>

FetchError(t) ==
    /\ Next1(t, "fetch")
    /\ fetched' = [fetched EXCEPT ![t] = lastError]
    /\ Done(t)
    /\ UNCHANGED <<owner, left, command, screen, lastError, raised, counts, port, read>>

ClearError(t) ==
    /\ Next1(t, "clear")
    /\ lastError' = 0
    /\ Done(t)
    /\ UNCHANGED <<owner, left, command, screen, raised, fetched, counts, port, read>>

PrintError(t) ==
    /\ Next1(t, "print")
    /\ fetched' = [fetched EXCEPT ![t] = 0]
    /\ Done(t)
    /\ UNCHANGED <<owner, left, command, screen, lastError, raised, counts, port, read>>

SamplePin(t) ==
    /\ Next1(t, "sample")
    /\ read' = [read EXCEPT ![t].pin = chip[command[t].pin]]
    /\ Done(t)
    /\ UNCHANGED <<owner, left, command, screen, errors, counts, port>>

Load(t) ==
    /\ Next1(t, "load")
    /\ read' = [read EXCEPT ![t] = IF On(t) = "port"
                                   THEN [@ EXCEPT !.port = chip]
                                   ELSE [@ EXCEPT !.count = overflowCount]]
    /\ Done(t)
    /\ UNCHANGED <<owner, left, command, screen, errors, counts, port>>

StoreCount(t) ==
    /\ Next1(t, "store")
    /\ overflowCount' = read[t].count + 1
    /\ overlong' = overlong + 1
    /\ read' = [read EXCEPT ![t] = NoRead]
    /\ Done(t)
    /\ UNCHANGED <<owner, left, command, screen, errors, port>>

\* The library writes the port back with one bit changed.
StorePin(t, p, stored, meant) ==
    /\ chip' = [read[t].port EXCEPT ![p] = stored]
    /\ wanted' = [wanted EXCEPT ![p] = meant]
    /\ read' = [read EXCEPT ![t] = NoRead]
    /\ Done(t)
    /\ UNCHANGED <<owner, left, command, screen, errors, counts>>

TogglePin(t) ==
    /\ Next1(t, "toggle")
    /\ LET p == command[t].pin IN StorePin(t, p, ~read[t].pin, ~wanted[p])

WritePin(t) ==
    /\ Next1(t, "write")
    /\ StorePin(t, command[t].pin, TRUE, TRUE)

Step(t) ==
    \/ Take(t) \/ Give(t) \/ Touch(t) \/ Call(t) \/ Return(t)
    \/ ShiftLine(t) \/ AppendLine(t) \/ BlankLine(t) \/ CopyLine(t) \/ Draw(t)
    \/ SetError(t) \/ ResetError(t) \/ FetchError(t) \/ ClearError(t) \/ PrintError(t)
    \/ SamplePin(t) \/ Load(t) \/ StoreCount(t) \/ TogglePin(t) \/ WritePin(t)

Next ==
    \/ \E t \in Readers : ReadLine(t) \/ ReadOverlongLine(t) \/ IdlePass(t)
    \/ Redraw
    \/ \E t \in Tasks : Step(t)

(* Every task has a core to run on and sleeps in each pass, so a step it   *)
(* can take is taken.  A mutex that keeps coming free is had in the end:   *)
(* FreeRTOS wakes the waiting task of the highest priority that has waited *)
(* longest, and whoever gave the mutex back sleeps before the next pass.   *)
Fairness == \A t \in Tasks : WF_vars(Step(t)) /\ SF_vars(Take(t))

Spec == Init /\ [][Next]_vars /\ Fairness

-----------------------------------------------------------------------------
AboutMutex(step, m) == step.op \in {"take", "give"} /\ step.on = m

(* The variables have their types, and the mutexes are used as mutexes:    *)
(* what a task does next with a mutex is to give it back if it holds it,   *)
(* and to take it if it does not, on the error paths too.                  *)
TypeOK ==
    /\ owner \in [Mutexes -> Tasks \cup {Nobody}]
    /\ left \in [Readers -> 0 .. MaxLines]
    /\ \A t \in Tasks, m \in Mutexes :
        LET about == {i \in 1 .. Len(todo[t]) : AboutMutex(todo[t][i], m)}
            first == {i \in about : \A j \in about : i <= j}
        IN  /\ owner[m] = t => first # {}
            /\ \A i \in first : todo[t][i].op = IF owner[m] = t THEN "give" ELSE "take"
    /\ console \in [1 .. ConsoleLines -> 0 .. pushes]
    /\ copied \in [1 .. ConsoleLines -> 0 .. pushes]
    /\ lastError \in 0 .. raised
    /\ fetched \in [Readers -> 0 .. raised]
    /\ chip \in [Pins -> BOOLEAN] /\ wanted \in [Pins -> BOOLEAN]
    /\ \A t \in Readers : /\ read[t].pin \in BOOLEAN
                           /\ read[t].port \in [Pins -> BOOLEAN]
                           /\ read[t].count \in 0 .. overlong

(* What taskOled draws was on the console at one time: the texts of        *)
(* consecutive pushes, oldest first, behind blank lines.  The two readers  *)
(* shift the console line by line while taskOled copies it line by line.   *)
ConsoleDrawnWhole ==
    Next1("oled", "draw") =>
        \A i \in 1 .. ConsoleLines - 1 :
            copied[i] # 0 => copied[i + 1] = copied[i] + 1

(* No update is lost: while the bus is free, the expander's port is what   *)
(* the toggles and writes of both readers, one after another, make of it,  *)
(* though each reads the port and writes it back; and while stateMutex is  *)
(* free, overflowCount counts the overlong lines of both.                  *)
UpdatesKept ==
    /\ owner["i2c"] = Nobody => chip = wanted
    /\ owner["state"] = Nobody => overflowCount = overlong

(* SYST:ERR? removes the error it is about to answer and no other: an      *)
(* error the other task raises meanwhile stays for the next SYST:ERR?, and *)
(* no error is answered twice.                                             *)
FetchRemovesWhatItRead ==
    [][\A t \in Readers : ClearError(t) => lastError = fetched[t]]_vars

LineInHand(t) ==
    \/ command[t] # NoCommand
    \/ \E i \in 1 .. Len(todo[t]) : todo[t][i].op = "call"

(* Every line a reader has taken is executed to its end: no order in which *)
(* the tasks take the two mutexes leaves one waiting for ever, though      *)
(* taskOled takes stateMutex while it holds i2cMutex.                      *)
LinesAreExecuted == \A t \in Readers : LineInHand(t) ~> ~LineInHand(t)

(* The README of the firmware (line 103) says that the SCPI parser is      *)
(* protected by a mutex because USB and Ethernet run in separate tasks.    *)
(* Then no two tasks are in handleOneCommand at once.                      *)
ParserProtected ==
    \A s, t \in Readers :
        command[s] # NoCommand /\ command[t] # NoCommand => s = t

=============================================================================
