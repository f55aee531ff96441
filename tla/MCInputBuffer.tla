--------------------------- MODULE MCInputBuffer ---------------------------
(***************************************************************************)
(* Scripts of two messages for InputBuffer.  They cover a header alone and *)
(* with data, a number with its suffix, an empty unit, two units, a text   *)
(* that holds a separator, a doubled quote or a terminator, blocks whose   *)
(* bytes are terminators or separators, or that have none, with a length   *)
(* of one digit and of two, and the three ways to end a message.  The      *)
(* first message may hold data that start as a block and are none.         *)
(***************************************************************************)
EXTENDS InputBuffer

PlainUnits == {<<"a">>, <<"SP", "a", "SP", "a">>, <<"a", "SP", "1", "a", "COMMA", "a">>}
TextUnits  == {<<"a", "SP", "QUOTE", "SEMI", "QUOTE">>, <<"a", "SP", "QUOTE", "QUOTE", "QUOTE", "a", "QUOTE">>,
               <<"a", "SP", "QUOTE", "SP", "QUOTE">>, <<"a", "SP", "QUOTE", "NL", "a", "QUOTE">>}
BlockUnits == {<<"a", "SP", "HASH", "1", "2", "NL", "CR">>, <<"a", "SP", "HASH", "1", "0", "COMMA", "a">>,
               <<"a", "SP", "HASH", "2", "0", "3", "QUOTE", "SEMI", "COMMA">>}
NoBlocks   == {<<"a", "SP", "HASH", "0">>, <<"a", "SP", "HASH", "2", "1", "a">>}

Unit1 == PlainUnits \cup TextUnits \cup BlockUnits

(* Messages of one command: its unit alone, or behind an empty one. *)
Singles ==
  {[units |-> <<u>>, terminator |-> <<"NL">>] : u \in Unit1}
    \cup {[units |-> << << >>, u>>, terminator |-> <<"CR", "NL">>] : u \in PlainUnits}

(* Messages of two. *)
Pairs == {[units |-> <<u, <<"a">> >>, terminator |-> <<"CR">>] : u \in Unit1}

(* Messages of which the properties say nothing but that the next is not   *)
(* disturbed.                                                              *)
MCMalformed == {[units |-> <<u>>, terminator |-> <<"NL">>] : u \in NoBlocks}

(* A quoted text is torn where a piece ends behind its terminator.         *)
Tears(unit) ==
  { i \in DOMAIN unit :
      \E open, nl, close \in DOMAIN unit :
        /\ unit[open] = "QUOTE" /\ unit[close] = "QUOTE" /\ unit[nl] = "NL"
        /\ open < nl /\ nl <= i /\ i < close }

Lead(unit) == IF unit # << >> /\ unit[1] = "SP" THEN 1 ELSE 0

AddUnit(part, unit) ==
  LET at == Len(part.stream)
  IN  [stream |-> part.stream \o unit \o <<"SEMI">>,
       units  |-> IF unit = << >> THEN part.units
                  ELSE Append(part.units, [first |-> at + Lead(unit) + 1,
                                           last  |-> at + Len(unit)]),
       tears  |-> part.tears \cup { at + i : i \in Tears(unit) }]

AddMessage(s, m) ==
  LET part == FoldLeft(AddUnit, [stream |-> s.stream, units |-> << >>, tears |-> s.tears], m.units)
      stream == Front(part.stream) \o m.terminator
  IN  [stream |-> stream,
       messages |-> IF m \in MCMalformed THEN s.messages
                    ELSE Append(s.messages,
                           [first |-> Len(s.stream) + 1,
                            last  |-> Len(stream),
                            units |-> part.units,
                            plain |-> \A u \in Range(m.units) : u = << >> \/ u \in PlainUnits]),
       tears |-> part.tears]

Script(messages) ==
  FoldLeft(AddMessage, [stream |-> << >>, messages |-> << >>, tears |-> {}], messages)

(* A message of any kind, and one of one command behind it. *)
MCScripts == { Script(<<m, n>>) : m \in Singles \cup Pairs \cup MCMalformed, n \in Singles }

=============================================================================
