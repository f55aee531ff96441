---------------------------- MODULE RegisterGroups ----------------------------
(***************************************************************************)
(* SCPI_RegSet as the loop over tables that it is (libscpi/src/ieee488.c), *)
(* built with USE_CUSTOM_REGISTERS: an instrument's own groups, which may  *)
(* have transition filters and report to a register of another group.      *)
(* StatusRegisters is the cascade of the built-in groups alone, unrolled.  *)
(* A register is the set of its bits that are one.                         *)
(***************************************************************************)
EXTENDS Integers, SequencesExt

CONSTANTS UserDetails,     \* USER_REGISTER_DETAILS
          UserGroups,      \* USER_REGISTER_GROUP_DETAILS
          Written          \* the writes of the program: pairs of a register and a value

VARIABLES registers,
          edges,           \* per event register, what it should have latched
          stale            \* event registers whose enable register was written since

NONE == "NONE"
STB_SRQ == 6

Reg(type, group) == [type |-> type, group |-> group]
Group(event, enable, condition, ptfilt, ntfilt, parent_reg, parent_bit) ==
    [event |-> event, enable |-> enable, condition |-> condition, ptfilt |-> ptfilt,
     ntfilt |-> ntfilt, parent_reg |-> parent_reg, parent_bit |-> parent_bit]

scpi_reg_details ==
    [STB |-> Reg("STB", 1), SRE |-> Reg("SRE", 1),
     ESR |-> Reg("EVEN", 2), ESE |-> Reg("ENAB", 2),
     OPER |-> Reg("EVEN", 3), OPERE |-> Reg("ENAB", 3), OPERC |-> Reg("COND", 3),
     QUES |-> Reg("EVEN", 4), QUESE |-> Reg("ENAB", 4), QUESC |-> Reg("COND", 4)] @@ UserDetails

scpi_reg_group_details ==
    << Group("STB", "SRE", NONE, NONE, NONE, NONE, {}),
       Group("ESR", "ESE", NONE, NONE, NONE, "STB", {5}),
       Group("OPER", "OPERE", "OPERC", NONE, NONE, "STB", {7}),
       Group("QUES", "QUESE", "QUESC", NONE, NONE, "STB", {3}) >> \o UserGroups

RegName == DOMAIN scpi_reg_details
GroupOf(name) == scpi_reg_group_details[scpi_reg_details[name].group]
AllGroups == {scpi_reg_group_details[g] : g \in 2..Len(scpi_reg_group_details)}

\* A group that reports to no register: its conditions would set no event, as the loop
\* of SCPI_RegSet ends before it.
TablesAssumption == \A g \in AllGroups : g.parent_reg \in RegName

\* SCPI_RegGet, of SCPI_REG_NONE as well.
RegGet(regs, name) == IF name \in RegName THEN regs[name] ELSE {}

\* Mutant: falling edges are not looked at.
RisingEdges(regs, group, old_val, val) ==
    IF group.ptfilt = NONE /\ group.ntfilt = NONE THEN val \ old_val
    ELSE (val \ old_val) \cap RegGet(regs, group.ptfilt)

\* The transitions that a change of a condition register latches.
Transitions(regs, group, old_val, val) ==
    IF group.ptfilt = NONE /\ group.ntfilt = NONE THEN val \ old_val
    ELSE ((val \ old_val) \cap RegGet(regs, group.ptfilt))
           \union ((old_val \ val) \cap RegGet(regs, group.ntfilt))

\* Mutant: the bit in the parent is set but not taken back.
SummaryNotTakenBack(regs, group, val) ==
    RegGet(regs, group.parent_reg) \union
      (IF val \cap RegGet(regs, group.enable) # {} THEN group.parent_bit ELSE {})

\* The parent register with the summary of event register val in its bit.
Summarised(regs, group, val) ==
    LET enable == IF group.enable = NONE THEN val ELSE RegGet(regs, group.enable)
    IN  IF val \cap enable # {} THEN RegGet(regs, group.parent_reg) \union group.parent_bit
                                ELSE RegGet(regs, group.parent_reg) \ group.parent_bit

\* Mutant: service is requested for a bit that goes as well.
RequestOnAnyEdge(old_val, val, status) == IF val # old_val THEN <<status>> ELSE << >>

\* The request for service that a write of STB or SRE makes when there is a reason.
Request(old_val, val, status) == IF val \ old_val # {} THEN <<status>> ELSE << >>

\* One round of the loop of SCPI_RegSet: the registers, the requests for service (as the
\* status bytes they carry), and the register to write next, if any.
Round(regs, name, val) ==
    LET written == [regs EXCEPT ![name] = val]
        group   == GroupOf(name)
        type    == scpi_reg_details[name].type
        reason  == (written["STB"] \cap written["SRE"]) \ {STB_SRQ} # {}
        status  == IF reason THEN written["STB"] \union {STB_SRQ} ELSE written["STB"] \ {STB_SRQ}
        done    == [regs |-> written, control |-> << >>, name |-> NONE, val |-> {}]
    IN  CASE type \in {"STB", "SRE"} ->
               [done EXCEPT !.regs["STB"] = status,
                            !.control = IF reason THEN Request(regs[name], val, status) ELSE << >>]
          [] type = "EVEN" ->
               [done EXCEPT !.name = group.parent_reg, !.val = Summarised(written, group, val)]
          [] type = "COND" ->
               [done EXCEPT !.name = IF group.parent_reg = NONE THEN NONE ELSE group.event,
                            !.val  = Transitions(written, group, regs[name], val)
                                       \union RegGet(written, group.event)]
          [] OTHER -> done

\* SCPI_RegSet: rounds until a register does not change or has none to report to.
RECURSIVE RegSet(_, _, _)
RegSet(outcome, name, val) ==
    IF name = NONE \/ outcome.regs[name] = val THEN outcome
    ELSE LET round == Round(outcome.regs, name, val)
         IN  RegSet([regs |-> round.regs, control |-> outcome.control \o round.control],
                    round.name, round.val)

Set(name, val) == RegSet([regs |-> registers, control |-> << >>], name, val).regs

\* Mutant: the loop of *CLS knows the built-in groups only.
ClearBuiltInEvents(regs) ==
    FoldLeftDomain(LAMBDA r, g :
        IF scpi_reg_group_details[g].event \in {"ESR", "OPER", "QUES"}
        THEN RegSet([regs |-> r, control |-> << >>], scpi_reg_group_details[g].event, {}).regs
        ELSE r, regs, scpi_reg_group_details)

\* The loop of *CLS, in the order of the table.
ClearEvents(regs) ==
    FoldLeftDomain(LAMBDA r, g :
        IF scpi_reg_group_details[g].event = "STB" THEN r
        ELSE RegSet([regs |-> r, control |-> << >>], scpi_reg_group_details[g].event, {}).regs,
        regs, scpi_reg_group_details)

-----------------------------------------------------------------------------
\* What the event registers should hold behind a step that clears those in cleared: the
\* transitions of their conditions, through the filters there were.
Latched(cleared) ==
    [e \in DOMAIN edges |->
        LET g == CHOOSE g \in AllGroups : g.event = e
            rises == registers'[g.condition] \ registers[g.condition]
            falls == registers[g.condition] \ registers'[g.condition]
            unfiltered == g.ptfilt = NONE /\ g.ntfilt = NONE
        IN  IF e \in cleared THEN {}
            ELSE edges[e]
                   \union {b \in rises : unfiltered \/ b \in RegGet(registers, g.ptfilt)}
                   \union {b \in falls : b \in RegGet(registers, g.ntfilt)}]

\* A summary is current again once its event register has changed.
Unchanged(events) == {e \in events : registers'[e] = registers[e]}

\* Bits of a register that are the summary of another group.
SummaryBits(name) == UNION {g.parent_bit : g \in {h \in AllGroups : h.parent_reg = name}}

\* The instrument sets its own bits of a condition register.
ConditionChanges(g, val) ==
    /\ registers' = Set(g.condition, (registers[g.condition] \cap SummaryBits(g.condition)) \union val)
    /\ edges' = Latched({}) /\ stale' = Unchanged(stale)

\* The controller writes an enable register or a filter: nothing else changes.
EnableWritten(g, val) ==
    /\ registers' = Set(g.enable, val)
    /\ stale' = IF registers' = registers THEN stale ELSE stale \union {g.event}
    /\ UNCHANGED edges

FilterWritten(filter, val) ==
    /\ registers' = Set(filter, val)
    /\ UNCHANGED <<edges, stale>>

\* The query of an event register, as SCPI_StatusOperationEventQ clears it.
EventRead(g) ==
    /\ registers' = Set(g.event, {})
    /\ edges' = Latched({g.event}) /\ stale' = Unchanged(stale)

\* *CLS, as far as the registers.
CoreCls ==
    /\ registers' = ClearEvents(registers)
    /\ edges' = Latched(DOMAIN edges) /\ stale' = Unchanged(stale)

Init ==
    /\ registers \in [RegName -> {{}}]
    /\ edges = [e \in {g.event : g \in {h \in AllGroups : h.condition # NONE}} |-> {}]
    /\ stale = {}

Next ==
    \/ \E g \in AllGroups, w \in Written : w[1] = g.condition /\ ConditionChanges(g, w[2])
    \/ \E g \in AllGroups, w \in Written : w[1] = g.enable /\ EnableWritten(g, w[2])
    \/ \E g \in AllGroups, w \in Written : w[1] \in {g.ptfilt, g.ntfilt} /\ FilterWritten(w[1], w[2])
    \/ \E g \in AllGroups : EventRead(g)
    \/ CoreCls

-----------------------------------------------------------------------------
\* An event register holds the transitions, of its conditions and through its filters,
\* since it was last read or cleared: those of summaries of other groups too.
EventsAreTransitions == \A e \in DOMAIN edges : registers[e] = edges[e]

\* A summary bit in any register tells whether the group has an enabled event, unless
\* its enable register was written since the events last changed.
SummariesCurrent ==
    \A g \in AllGroups : g.event \notin stale =>
        (g.parent_bit \subseteq registers[g.parent_reg]
           <=> registers[g.event] \cap registers[g.enable] # {})

\* *CLS leaves no event, though clearing one group changes conditions of another.
ClsClearsEvents ==
    LET cleared == ClearEvents(registers) IN \A g \in AllGroups : cleared[g.event] = {}

=============================================================================
