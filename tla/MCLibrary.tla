----------------------------- MODULE MCLibrary -----------------------------
(***************************************************************************)
(* The library under TLC, but for its status and input sides: the          *)
(* algorithms that keep no state between calls, each over all inputs up to *)
(* a bound; the text heap; and a program message, that is what its headers *)
(* name, and what the callbacks of its commands read and write; and the    *)
(* status registers of an instrument with a group of its own.  They        *)
(* share no variable, so that a behaviour is one input of one algorithm,   *)
(* or a behaviour of one of the others.                                    *)
(*                                                                         *)
(* Headers: all messages of up to four units built from eight: simple and  *)
(* deep commands, relative, rooted and common ones, one with data, one     *)
(* behind blanks, an empty unit, and headers that name no command.         *)
(* Callbacks: two answers in one message, values and a block in one        *)
(* answer, a block in two pieces, a failure before or after an answer.     *)
(***************************************************************************)
EXTENDS Integers, Sequences, SequencesExt, TextHeap, ResponseMessage

\* TextHeap and ResponseMessage declare the constants and variables of ErrorInfoHeap and of
\* ProgramMessage.
CONSTANTS Width,                                           \* of Numerals
          Messages, Commands,                              \* of CompoundCommand
          UserDetails, UserGroups, Written                 \* of RegisterGroups

VARIABLES input,
          received, buffer, data, cmd_prev, header, path, meant, orphaned,
          registers, edges, stale

Heap == INSTANCE ErrorInfoHeap
Lex == INSTANCE Lexer
Lists == INSTANCE Expressions
Match == INSTANCE CommandMatch
Param == INSTANCE Parameters
Quoted == INSTANCE Texts
Unit == INSTANCE Units
Block == INSTANCE Blocks
SmallLong == INSTANCE Numerals WITH LongWidth <- Width
LargeLong == INSTANCE Numerals WITH LongWidth <- 2 * Width
Composing == INSTANCE CompoundCommand
Callbacks == INSTANCE ProgramMessage
Groups == INSTANCE RegisterGroups
Cascade == INSTANCE StatusRegisters

ASSUME Groups!TablesAssumption

heapVars == <<heap, errors, reading>>
headerVars == <<received, buffer, data, cmd_prev, header, path, meant, orphaned>>
callbackVars == <<pc, unit, taken, input_count, output_count, arbitrary_remaining, cmd_error,
                  first_output, result, output, units, calls, pushed, answers, answer, block, mishap>>
groupVars == <<registers, edges, stale>>
allVars == <<input, heapVars, headerVars, callbackVars, groupVars>>

\* Texts in the heap end before, on and after its last cell and fill it.
MCTexts == {<<"a">>, <<"b">>, <<"a", "b">>, <<"b", "b">>, <<"a", "b", "a">>, <<"b", "a", "a">>}

TextsUpTo(chars, n) == SeqOf(chars, n)

\* Numbers with and without point, exponent and blanks; headers; both kinds of lists.
DecimalTexts == TextsUpTo({"1", ".", "+", "E", " ", "V"}, 6)
HeaderTexts == TextsUpTo({"A", "1", ":", "*", "?"}, 6)
ListTexts ==
  {[list |-> "numeric", text |-> t] : t \in TextsUpTo({"1", ".", ":", ",", "X"}, 6)}
    \cup {[list |-> "channel", text |-> <<"@">> \o t] : t \in TextsUpTo({"1", "!", ":", ",", "X"}, 6)}

\* All patterns of one to three keywords, against all headers of up to three words.
Keys == <<[name |-> <<"A">>, rest |-> <<"b">>], [name |-> <<"B">>, rest |-> << >>],
          [name |-> <<"C">>, rest |-> <<"d">>]>>
Keyword(i, flags) == [name |-> Keys[i].name, rest |-> Keys[i].rest,
                      numbered |-> flags.numbered, optional |-> flags.optional]
KeywordLists ==
  LET Flags == [numbered : BOOLEAN, optional : BOOLEAN]
  IN  UNION {{[i \in 1 .. n |-> Keyword(i, f[i])] : f \in [1 .. n -> Flags]} : n \in 1 .. 3}
Patterns == [keywords : KeywordLists, query : BOOLEAN]

Word(name, number) == [name |-> name, number |-> number]
Words == {Word(<<"A">>, << >>), Word(<<"A", "B">>, <<"1">>), Word(<<"A">>, <<"1", "2">>),
          Word(<<"B">>, << >>), Word(<<"B">>, <<"2">>), Word(<<"C", "D">>, << >>), Word(<<"C">>, <<"1">>)}
Headers == [words : SeqOf(Words, 3) \ {<< >>}, root : BOOLEAN, query : BOOLEAN]

\* Texts with and without quotes, and error texts in one to three parts.
Few(n) == TextsUpTo({"X", "\""}, n)
ErrorTexts == {<<a>> : a \in Few(5)} \cup {<<a, b>> : a, b \in Few(4)} \cup {<<a, b, c>> : a, b, c \in Few(2)}

\* Program data of every type, a special number and a unit.
Data == TextsUpTo({"1", ".", "E", " ", "V", "#", "H", "\"", "("}, 4)
Options == {<<"E">>, <<"E", "1">>}
KnownUnits == {<<"V">>}

\* Data of blocks with one digit, with two and with three, some of it digits.
BlockData == {[i \in 1 .. n |-> IF i % 3 = 0 THEN "#" ELSE "1"] : n \in (0 .. 12) \cup {99, 100, 101}}
Behind == {<< >>, <<"\n">>, <<",", "#", "1", "1", "1">>, <<"1">>}
Formats == {"NORMAL", "SWAPPED"}
Bytes == <<"a", "b", "c", "d", "e", "f", "g", "h", "i", "j", "k", "l",
           "m", "n", "o", "p", "q", "r", "s", "t", "u", "v", "w", "x">>
Items(n, size) == [i \in 1 .. n |-> [k \in 1 .. size |-> Bytes[size * (i - 1) + k]]]

\* A group of the instrument with both filters, whose summary is a condition of OPERation;
\* OPERC has a bit of the instrument beside it.
MCUserDetails ==
  [DEV |-> [type |-> "EVEN", group |-> 5], DEVE |-> [type |-> "ENAB", group |-> 5],
   DEVC |-> [type |-> "COND", group |-> 5],
   DEVP |-> [type |-> "PTR", group |-> 5], DEVN |-> [type |-> "NTR", group |-> 5]]
MCUserGroups ==
  << [event |-> "DEV", enable |-> "DEVE", condition |-> "DEVC", ptfilt |-> "DEVP", ntfilt |-> "DEVN",
      parent_reg |-> "OPERC", parent_bit |-> {9}] >>
MCWritten ==
  ({"DEVC"} \X SUBSET {0, 1}) \union ({"DEVE", "DEVP", "DEVN"} \X {{0}, {0, 1}})
    \union ({"OPERC"} \X {{}, {0}}) \union ({"OPERE"} \X {{}, {0, 9}})

AllOf(stb, sre, oper, opere, operc) ==
  [Cascade!AllZero EXCEPT !["STB"] = stb, !["SRE"] = sre,
                          !["OPER"] = oper, !["OPERE"] = opere, !["OPERC"] = operc]

\* Values of the built-in registers, and what is written to one of them.
SomeRegisters ==
  { [AllOf(stb, sre, oper, opere, operc) EXCEPT !["ESR"] = esr, !["ESE"] = ese] :
      stb \in {{}, {5}, {6, 7}, {5, 6, 7}}, sre \in SUBSET {5, 7},
      esr \in {{}, {0}}, ese \in {{}, {0}},
      oper \in SUBSET {0, 1}, opere \in {{}, {0}}, operc \in SUBSET {0, 1} }
SomeValues ==
  {<<r, v>> : r \in {"ESR", "ESE", "OPERE"}, v \in {{}, {0}}}
    \cup {<<r, v>> : r \in {"OPER", "OPERC"}, v \in SUBSET {0, 1}}
    \cup {<<"STB", v>> : v \in {{}, {5}, {7}}} \cup {<<"SRE", v>> : v \in SUBSET {5, 7}}

Names == {Unit!units_def[i].name : i \in DOMAIN Unit!units_def} \cup {"", "XX"}

Inputs ==
  \/ input = [part |-> "heap"]
  \/ \E t \in DecimalTexts : input = [part |-> "decimal", text |-> t]
  \/ \E t \in HeaderTexts : input = [part |-> "header", text |-> t]
  \/ \E l \in ListTexts : input = [part |-> "list", of |-> l]
  \/ \E p \in Patterns, h \in Headers : input = [part |-> "match", pattern |-> p, header |-> h]
  \/ \E v \in 0 .. 2 ^ Width - 1, b \in {2, 8, 10, 16}, s \in BOOLEAN :
       input = [part |-> "numeral", val |-> v, base |-> b, sign |-> s]
  \/ \E d \in Few(5), n \in 1 .. 12 : input = [part |-> "text", data |-> d, room |-> n]
  \/ \E p \in ErrorTexts, n \in 2 .. 8 : input = [part |-> "error", parts |-> p, limit |-> n]
  \/ \E t \in Data, m \in BOOLEAN : input = [part |-> "data", text |-> t, mandatory |-> m]
  \/ \E n \in Names, d \in 1 .. 8, l \in 1 .. 16 :
       input = [part |-> "unit", name |-> n, digits |-> d, len |-> l]
  \/ \E d \in BlockData, b \in Behind : input = [part |-> "block", data |-> d, behind |-> b]
  \/ \E n \in 0 .. 3, size \in {1, 2, 4, 8}, f \in Formats \cup {"ASCII"}, m \in Formats, b \in 0 .. 1 :
       input = [part |-> "array", items |-> Items(n, size), size |-> size,
                format |-> f, native |-> m, before |-> b]
  \/ \E r \in SomeRegisters, w \in SomeValues :
       input = [part |-> "cascade", regs |-> r, name |-> w[1], val |-> w[2]]

\* Units of a message, and the commands they meet.
MessageUnits == { <<"A", ":", "B">>, <<"A", ":", "B", ":", "C">>, <<":", "A", ":", "B">>,
                  <<"B", " ", "1">>, <<" ", " ", "C">>, <<"*", "C">>, <<"X">>, << >> }

Joined(list) == FoldLeft(LAMBDA text, u : text \o <<";">> \o u, Head(list), Tail(list))

MCMessages == { m \in { Joined(list) : list \in SeqOf(MessageUnits, 4) \ {<< >>} } : m # << >> }

\* A:B[:B], A[:B]:C, *C and C
MCCommands == { <<"A", ":", "B", "[", ":", "B", "]">>, <<"A", "[", ":", "B", "]", ":", "C">>,
                <<"*", "C">>, <<"C">> }

Is(part) == input.part = part

Init ==
  /\ Heap!Init /\ Composing!Init /\ Callbacks!Init /\ Groups!Init
  /\ \/ input = [part |-> "headers"]
     \/ received = <<"X">> /\ (Inputs \/ input \in [part : {"callbacks", "groups"}])

Next ==
  \/ Is("heap") /\ Heap!Next /\ UNCHANGED <<input, headerVars, callbackVars, groupVars>>
  \/ Is("headers") /\ Composing!Next /\ UNCHANGED <<input, heapVars, callbackVars, groupVars>>
  \/ Is("callbacks") /\ Callbacks!Next /\ UNCHANGED <<input, heapVars, headerVars, groupVars>>
  \/ Is("groups") /\ Groups!Next /\ UNCHANGED <<input, heapVars, headerVars, callbackVars>>

Spec == Init /\ [][Next]_allVars

TypeOK ==
  /\ Is("heap") => Heap!TypeOK
  /\ Is("headers") => Composing!TypeOK
  /\ Is("callbacks") => Callbacks!TypeOK

(* Lexer: a decimal number is the longest the text starts with, and what   *)
(* looks like an exponent and is none is left to the suffix.               *)
DecimalIsLongest ==
  Is("decimal") => Lex!DecimalEnd(input.text, 1) - 1 = Lex!Longest(input.text, Lex!IsDecimal)

(* Lexer: a header is the longest the text starts with; one that ends in a *)
(* star or a colon with no mnemonic behind it is incomplete.               *)
HeaderIsLongest ==
  Is("header") =>
    LET t == input.text
        h == Lex!ProgramHeader(t, 1)
        found == SubSeq(t, 1, h.end - 1)
        longest == Lex!Longest(t, Lex!IsHeader)
    IN  CASE h.type = "unknown" -> longest = 0
          [] h.type = "incomplete" ->
               /\ Last(found) \in {"*", ":"}
               /\ Lex!MnemonicEnd(t, h.end) = h.end
               /\ Len(found) = 1 \/ Lex!IsHeader(Front(found))
          [] OTHER -> /\ Len(found) = longest
                      /\ h.type = "query" <=> Last(found) = "?"
                      /\ Head(found) # "*" /\ h.type = "command" /\ h.end <= Len(t) => t[h.end] # ":"

(* Expressions: whoever asks for entry after entry gets the entries of the *)
(* list in order; a channel list that is malformed never seems to end.     *)
ListsReadInOrder ==
  Is("list") =>
    LET list == input.of.list
        t == input.of.text
        good == Lists!GoodFields(list, t)
    IN  \A got \in {Lists!Scan(list, t)} :
        /\ IsPrefix(good, got.entries) /\ Len(got.entries) <= Len(good) + 1
        /\ Lists!WellFormed(list, t) => got.entries = good /\ got.res = Lists!NO_MORE
        /\ list = "channel" /\ got.res = Lists!NO_MORE => Lists!WellFormed(list, t)

(* CommandMatch: a header matches when some reading spells it.             *)
MatchesPattern == Is("match") => Match!MatchesAsWritten(input.pattern, input.header)
(* CommandMatch: the numbers a callback reads are those behind the words.  *)
NumbersRead ==
  Is("match") => \A length \in {1, 3} : Match!NumbersAsWritten(input.pattern, input.header, length)

(* Numerals: a result read as a parameter has the bits that were written.  *)
IntegersReadBack ==
  Is("numeral") => /\ SmallLong!ReadsBack(input.val, input.base, input.sign)
                   /\ LargeLong!ReadsBack(input.val, input.base, input.sign)

(* Texts: what is written as a text reads back.                            *)
TextsReadBack == Is("text") => Quoted!TextReadsBack(input.data, input.room)
(* Texts: error texts stay whole strings in their limit.                   *)
ErrorTextsWhole == Is("error") => Quoted!ErrorTextWhole(input.parts, input.limit)

(* Parameters: no typed read fails without telling.                        *)
FailuresTold == Is("data") => Param!FailuresTold(input.text, input.mandatory, Options, KnownUnits)
(* Parameters: numbers are converted whole, suffixes found again.          *)
NumbersWhole == Is("decimal") => Param!NumbersWhole(input.text)

(* Blocks: a block that was written is found again, a part of it is not.   *)
BlocksReadBack == Is("block") => Block!BlockReadsBack(input.data, input.behind)
(* Blocks: arrays are blocks in the byte order asked for.                  *)
ArraysAsAsked ==
  Is("array") =>
    Block!ArrayAsAsked(input.items, input.size, input.format, input.native, input.before)

(* Units: what is printed in a unit reads back in it.                      *)
UnitsReadBack == Is("unit") => Unit!UnitReadsBack(input.name, input.digits, input.len)

(* CompoundCommand: composing a header writes over nothing unread.         *)
UnreadIntact == Is("headers") => Composing!UnreadIntact
(* CompoundCommand: a header is looked up as what it means.                *)
HeadersResolve == Composing!HeadersResolve
(* The same for every header of a message: expected not to hold.           *)
CompoundHeadersResolve == Composing!CompoundHeadersResolve

(* ProgramMessage: parameters a command leaves over are reported.          *)
LeftoverReported == Callbacks!LeftoverReported
(* The same with data that ends in half a parameter: expected not to hold. *)
UnreadReported == Callbacks!UnreadReported

(* RegisterGroups: events are the filtered transitions; summaries are      *)
(* current; *CLS leaves no event.                                          *)
EventsAreTransitions == Is("groups") => Groups!EventsAreTransitions
SummariesCurrent == Is("groups") => Groups!SummariesCurrent
ClsClearsEvents == Is("groups") => Groups!ClsClearsEvents
(* RegisterGroups: for the built-in groups the loop over the tables does   *)
(* what the cascade does that the status model is built from.              *)
LoopIsCascade ==
  Is("cascade") =>
    LET looped   == Groups!RegSet([regs |-> input.regs @@ registers, control |-> << >>],
                                  input.name, input.val)
        unrolled == Cascade!RegSet(input.regs, input.name, input.val)
    IN  looped = [regs |-> unrolled.regs @@ registers, control |-> unrolled.control]

(* The parts above as the properties of the run, by what they protect;     *)
(* HeapSound, of TextHeap, and ResponseIsAnswers and ResultTellsErrors, of *)
(* ResponseMessage, hold of their part while others run, too.              *)

(* What the recognisers take is what the grammar allows, to its end.       *)
TokensWhole == DecimalIsLongest /\ HeaderIsLongest /\ ListsReadInOrder /\ NumbersWhole

(* A header finds the command whose pattern it spells, and its numbers.    *)
HeadersMatch == MatchesPattern /\ NumbersRead

(* What the library writes, whole or cut to its room, reads back as it was.*)
WrittenReadsBack ==
  /\ IntegersReadBack /\ TextsReadBack /\ ErrorTextsWhole
  /\ UnitsReadBack /\ BlocksReadBack /\ ArraysAsAsked

(* Composing a header overwrites nothing unread and finds what is meant.   *)
HeadersComposed == []UnreadIntact /\ HeadersResolve

(* Parameters that cannot be read, or are not read, are reported.          *)
ParametersTold == []FailuresTold /\ LeftoverReported

(* The registers of an instrument's own groups are as those of the others. *)
OwnGroupsCurrent == EventsAreTransitions /\ SummariesCurrent /\ ClsClearsEvents /\ LoopIsCascade

(* Expected not to hold, see the findings. *)
NumberTextFits == Is("unit") => Unit!NumberFits(input.name, input.digits, input.len)

=============================================================================
