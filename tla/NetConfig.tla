----------------------------- MODULE NetConfig -----------------------------
(***************************************************************************)
(* The network configuration of the ESP32 firmware (main.cpp): the cfg     *)
(* variables, their copy in flash, and the W5500 that is restarted to use  *)
(* them.  taskSerial and taskEthernet execute the NET: commands,           *)
(* taskEncoder edits the cfg variables in a menu, and taskEthernet serves  *)
(* netRestartRequest.  No lock guards any of this, so every access is a    *)
(* step of its own, and power may fail between any two.  The console texts *)
(* of the handlers are in FirmwareTasks; the clients and line buffers that *)
(* initW5500 resets are left out.                                          *)
(***************************************************************************)
EXTENDS Integers, Sequences

CONSTANTS
    Order,      \* the cfg variables in the order they are saved and applied
    Values      \* the values of each: Values[f]

Fields == {Order[i] : i \in 1 .. Len(Order)}

ASSUME OrderAssumption == Order \in Seq(Fields)

Configurations ==
    {c \in [Fields -> UNION {Values[f] : f \in Fields}] : \A f \in Fields : c[f] \in Values[f]}
Tasks == {"serial", "eth", "encoder"}
Console == "console"
Menu == "menu"

VARIABLES
    cfg,                \* cfgUseDhcp, cfgPort, cfgIp and the others
    saved,              \* their copy in flash
    applied,            \* what the W5500 was initialised with
    netRestartRequest,
    started,            \* the one Preferences object has its namespace open
    todo,               \* the accesses each task has before it sleeps
    uiMode,             \* Console, Menu or the field in the editor
    edited,             \* fields turned in the editor and not requested since
    overlapped          \* the last save shared the Preferences object

vars == <<cfg, saved, applied, netRestartRequest, started, todo, uiMode, edited, overlapped>>

-----------------------------------------------------------------------------
(* The handlers, as sequences of accesses.                                 *)

Do(op, on) == [op |-> op, on |-> on]

ForFields(op) == [i \in 1 .. Len(Order) |-> Do(op, Order[i])]

SaveNetPrefs == <<Do("begin", "prefs")>> \o ForFields("put") \o <<Do("end", "prefs")>>

Request == <<Do("request", "restart")>>

\* Mutant: the variable is changed behind the save.
NetSetUnsaved(f, v) == SaveNetPrefs \o <<[op |-> "set", on |-> f, value |-> v]>> \o Request

\* Mutant: the restart is requested first.
NetSetLate(f, v) == Request \o <<[op |-> "set", on |-> f, value |-> v]>> \o SaveNetPrefs

\* NET:DHCP, NET:PORT, NET:IP, NET:GW, NET:MASK and NET:DNS.
NetSet(f, v) == <<[op |-> "set", on |-> f, value |-> v]>> \o SaveNetPrefs \o Request

\* A line with one NET: command; NET:SAVE and NET:RESTART change no field.
NetCommands ==
    (UNION {{NetSet(f, v) : v \in Values[f]} : f \in Fields}) \cup {SaveNetPrefs, Request}

InitW5500 == ForFields("apply")

\* Mutant: the request is cleared when the W5500 runs again.
InitThenClear == InitW5500 \o <<Do("clear", "restart")>>

ServeRestart == <<Do("clear", "restart")>> \o InitW5500

Show(mode) == <<Do("show", mode)>>

-----------------------------------------------------------------------------
Init ==
    /\ cfg \in Configurations
    /\ saved = cfg /\ applied = cfg
    /\ netRestartRequest = FALSE /\ started = FALSE
    /\ todo = [t \in Tasks |-> <<>>]
    /\ uiMode = Console /\ edited = {} /\ overlapped = FALSE

Begin(t, steps) ==
    /\ todo[t] = <<>>
    /\ todo' = [todo EXCEPT ![t] = steps]
    /\ UNCHANGED <<saved, applied, netRestartRequest, started, overlapped>>

SerialLine ==
    /\ \E line \in NetCommands : Begin("serial", line)
    /\ UNCHANGED <<cfg, uiMode, edited>>

\* A pass of taskEthernet looks at the request first and then for a line.
EthernetPass ==
    /\ \E line \in NetCommands \cup {<<>>} :
        Begin("eth", (IF netRestartRequest THEN ServeRestart ELSE <<>>) \o line)
    /\ UNCHANGED <<cfg, uiMode, edited>>

\* Turning in an editor changes the variable that everyone reads.
EncoderTurn ==
    /\ uiMode \in Fields
    /\ Begin("encoder", <<>>)
    /\ \E v \in Values[uiMode] : cfg' = [cfg EXCEPT ![uiMode] = v]
    /\ edited' = edited \cup {uiMode}
    /\ UNCHANGED uiMode

\* The button; going on to the next octet of an address is left out.
EncoderButton ==
    /\ \/ /\ uiMode = Console
          /\ Begin("encoder", Show(Menu))
       \/ /\ uiMode = Menu
          /\ \/ \E f \in Fields : Begin("encoder", Show(f))
             \/ Begin("encoder", SaveNetPrefs \o Request \o Show(Console))
             \/ Begin("encoder", Show(Console))
       \/ /\ uiMode \in Fields
          /\ Begin("encoder", SaveNetPrefs \o Request \o Show(Menu))
    /\ UNCHANGED <<cfg, uiMode, edited>>

-----------------------------------------------------------------------------
Does(t, op) ==
    /\ todo[t] # <<>>
    /\ Head(todo[t]).op = op
    /\ todo' = [todo EXCEPT ![t] = Tail(@)]

On(t) == Head(todo[t]).on

Set(t) ==
    /\ Does(t, "set")
    /\ cfg' = [cfg EXCEPT ![On(t)] = Head(todo[t]).value]
    /\ UNCHANGED <<saved, applied, netRestartRequest, started, uiMode, edited, overlapped>>

Has(t, op) == \E i \in 1 .. Len(todo[t]) : todo[t][i].op = op

Saving(t) == Has(t, "end") /\ ~Has(t, "begin")

\* begin() of an object that is open refuses, and nobody looks.
BeginPrefs(t) ==
    /\ Does(t, "begin")
    /\ started' = TRUE
    /\ overlapped' = \E s \in Tasks \ {t} : Saving(s)
    /\ UNCHANGED <<cfg, saved, applied, netRestartRequest, uiMode, edited>>

\* A put to an object that is closed is lost.
Put(t) ==
    /\ Does(t, "put")
    /\ saved' = IF started THEN [saved EXCEPT ![On(t)] = cfg[On(t)]] ELSE saved
    /\ UNCHANGED <<cfg, applied, netRestartRequest, started, uiMode, edited, overlapped>>

\* Mutant: the namespace stays open.
EndPrefsOpen(t) ==
    /\ Does(t, "end")
    /\ UNCHANGED <<cfg, saved, applied, netRestartRequest, started, uiMode, edited, overlapped>>

EndPrefs(t) ==
    /\ Does(t, "end")
    /\ started' = FALSE
    /\ UNCHANGED <<cfg, saved, applied, netRestartRequest, uiMode, edited, overlapped>>

SetRequest(t) ==
    /\ Does(t, "request")
    /\ netRestartRequest' = TRUE
    /\ edited' = IF t = "encoder" THEN edited \ {uiMode} ELSE edited
    /\ UNCHANGED <<cfg, saved, applied, started, uiMode, overlapped>>

ClearRequest(t) ==
    /\ Does(t, "clear")
    /\ netRestartRequest' = FALSE
    /\ UNCHANGED <<cfg, saved, applied, started, uiMode, edited, overlapped>>

Apply(t) ==
    /\ Does(t, "apply")
    /\ applied' = [applied EXCEPT ![On(t)] = cfg[On(t)]]
    /\ UNCHANGED <<cfg, saved, netRestartRequest, started, uiMode, edited, overlapped>>

ShowMode(t) ==
    /\ Does(t, "show")
    /\ uiMode' = On(t)
    /\ UNCHANGED <<cfg, saved, applied, netRestartRequest, started, edited, overlapped>>

Step(t) ==
    \/ Set(t) \/ BeginPrefs(t) \/ Put(t) \/ EndPrefs(t)
    \/ SetRequest(t) \/ ClearRequest(t) \/ Apply(t) \/ ShowMode(t)

\* Power fails; setup() loads the preferences and starts the W5500 with them
\* before it creates the tasks.
PowerCycle ==
    /\ cfg' = saved /\ applied' = saved
    /\ netRestartRequest' = FALSE /\ started' = FALSE
    /\ todo' = [t \in Tasks |-> <<>>]
    /\ uiMode' = Console /\ edited' = {} /\ overlapped' = FALSE
    /\ UNCHANGED saved

Next ==
    \/ SerialLine \/ EthernetPass \/ EncoderTurn \/ EncoderButton
    \/ \E t \in Tasks : Step(t)
    \/ PowerCycle

(* Every task runs on, and taskEthernet passes again and again; lines and  *)
(* the encoder are up to the user.                                         *)
Fairness == WF_vars(EthernetPass) /\ \A t \in Tasks : WF_vars(Step(t))

Spec == Init /\ [][Next]_vars /\ Fairness

-----------------------------------------------------------------------------
Steps == {"set", "begin", "put", "end", "request", "clear", "apply", "show"}

(* Types; the Preferences object is open only while a task saves.          *)
TypeOK ==
    /\ {cfg, saved, applied} \subseteq Configurations
    /\ netRestartRequest \in BOOLEAN
    /\ started => \E t \in Tasks : Saving(t)
    /\ \A t \in Tasks : \A i \in DOMAIN todo[t] : todo[t][i].op \in Steps
    /\ uiMode \in {Console, Menu} \cup Fields
    /\ edited \subseteq Fields
    /\ overlapped \in BOOLEAN

Settled == \A t \in Tasks : todo[t] = <<>>

(* With every handler returned and no restart pending, the W5500 runs with *)
(* the configuration NET:STAT? shows, but for what is turned in the editor *)
(* just now: a request that comes while an earlier one is served is not    *)
(* lost.                                                                   *)
AppliedWhenSettled ==
    Settled /\ ~netRestartRequest =>
        \A f \in Fields \ edited : applied[f] = cfg[f]

(* With every handler returned, flash holds the configuration, so a power  *)
(* cycle brings it back - unless the last saves overlapped: they share one *)
(* Preferences object, and the first to end closes it under the other.     *)
SavedWhenSettled ==
    Settled /\ ~overlapped => \A f \in Fields \ edited : saved[f] = cfg[f]

(* A configuration that stays takes effect: when a variable has its last   *)
(* value and is not in the editor, the W5500 will run with that value.     *)
ChangesTakeEffect ==
    \A f \in Fields : \A v \in Values[f] :
        <>[](cfg[f] = v /\ f \notin edited) => []<>(applied[f] = v)

=============================================================================
