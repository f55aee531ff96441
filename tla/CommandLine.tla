----------------------------- MODULE CommandLine -----------------------------
(***************************************************************************)
(* How the firmware takes a line apart (esp32s3_scpi_async/src/main.cpp):  *)
(* handleScpiLine into commands, handleOneCommand a command into header    *)
(* and parameters, parseParams the parameters into words, and              *)
(* parseMcpPinRef a word into a pin.  A text is a sequence of characters,  *)
(* one for each class that the code tells apart.                           *)
(***************************************************************************)
EXTENDS Integers, SequencesExt, FiniteSetsExt

CONSTANTS MaxParams,     \* MAX_SCPI_PARAMS
          LongMax,       \* the largest long
          Pins           \* MCP_TOTAL_PINS

LineAssumption == MaxParams \in Nat \ {0} /\ LongMax \in Nat /\ Pins \in 1..LongMax

IsSpace(c) == c = " "
IsDelimiter(c) == c = "," \/ IsSpace(c)
IsQuote(c) == c \in {"\"", "'"}

\* The first index of s, at or behind from, where Is; else the one behind its end.
FirstFrom(s, from, Is(_)) == Min({i \in from..Len(s) : Is(s[i])} \union {Len(s) + 1})

Behind(s, i) == SubSeq(s, i + 1, Len(s))

Trim(s) ==
    LET text == {i \in DOMAIN s : ~IsSpace(s[i])}
    IN  IF text = {} THEN << >> ELSE SubSeq(s, Min(text), Max(text))

\* A \n or \r that a terminal sent as two characters.
EndsInEscape(s) == Len(s) >= 2 /\ s[Len(s) - 1] = "\\" /\ s[Len(s)] = "n"

\* stripLiteralEscapesAtEnd: a pass of its loop takes an escape, then a bracket.
Unescaped(s) == IF EndsInEscape(s) THEN Trim(SubSeq(s, 1, Len(s) - 2)) ELSE s
Unbracketed(s) == IF s # << >> /\ Last(s) = ")" THEN Trim(Front(s)) ELSE s

RECURSIVE StripLiteralEscapesAtEnd(_)
StripLiteralEscapesAtEnd(s) ==
    LET stripped == Unbracketed(Unescaped(Trim(s)))
    IN  IF stripped = Trim(s) THEN stripped ELSE StripLiteralEscapesAtEnd(stripped)

\* Mutant: a quoted word ends at a delimiter, as others do.
WordAtAnyDelimiter(p, start) ==
    LET end == FirstFrom(p, start, IsDelimiter)
    IN  [word |-> SubSeq(p, start, end - 1), next |-> end]

\* The word that starts at start, which is no delimiter, and the delimiter behind it;
\* what follows a closing quote at once is skipped.
Word(p, start) ==
    LET close == FirstFrom(p, start + 1, LAMBDA c : c = p[start])
        end   == FirstFrom(p, IF IsQuote(p[start]) THEN close + 1 ELSE start, IsDelimiter)
    IN  [word |-> IF IsQuote(p[start]) THEN SubSeq(p, start + 1, close - 1)
                                       ELSE SubSeq(p, start, end - 1),
         next |-> end]

\* Mutant: a word of which nothing is left counts.
CountsAlways(word) == TRUE

Counts(word) == word # << >>

\* parseParams: at most room words; those that are empty count for none.
RECURSIVE ParseParams(_, _)
ParseParams(p, room) ==
    LET start == FirstFrom(p, 1, LAMBDA c : ~IsDelimiter(c))
        found == Word(p, start)
        word  == StripLiteralEscapesAtEnd(found.word)
        rest  == Behind(p, found.next)
    IN  IF room = 0 \/ start > Len(p) THEN << >>
        ELSE IF ~Counts(word) THEN ParseParams(rest, room)
        ELSE <<word>> \o ParseParams(rest, room - 1)

\* handleOneCommand, as far as the handler of the header: a header ends at a blank or at
\* a bracket, whose partner was stripped with the end of the line.
HandleOneCommand(cmdLine) ==
    LET line   == StripLiteralEscapesAtEnd(cmdLine)
        ender  == FirstFrom(line, 1, LAMBDA c : IsSpace(c) \/ c = "(")
        rest   == Trim(Behind(line, ender))
        params == IF ender <= Len(line) /\ line[ender] = "("
                  THEN StripLiteralEscapesAtEnd(rest) ELSE rest
    IN  IF line = << >> THEN << >>
        ELSE <<[header |-> SubSeq(line, 1, ender - 1),
                params |-> ParseParams(params, MaxParams)]>>

\* handleScpiLine: the commands handled.
RECURSIVE HandleScpiLine(_)
HandleScpiLine(line) ==
    LET sep == FirstFrom(line, 1, LAMBDA c : c = ";")
    IN  IF line = << >> THEN << >>
        ELSE HandleOneCommand(SubSeq(line, 1, sep - 1)) \o HandleScpiLine(Behind(line, sep))

Digit == [c \in {"0", "1", "2", "5", "6"} |-> CHOOSE d \in 0..9 : ToString(d) = c]

\* The number that digits write.
Value(digits) == FoldLeft(LAMBDA v, c : 10 * v + Digit[c], 0, digits)

\* Mutant: strtol wraps around.
Wrapped(number) == number % (2 * (LongMax + 1))

\* strtol stops at the largest long.
Saturated(number) == Min({number, LongMax})

\* parseIntStrict: a sign and digits, blanks around them and nothing else; where there is
\* nothing at all strtol stays at the end of the text, which is taken for a 0.
ParseIntStrict(s) ==
    LET text   == Trim(s)
        signed == text # << >> /\ text[1] \in {"+", "-"}
        digits == IF signed THEN Tail(text) ELSE text
        v      == Saturated(Value(digits))
    IN  IF text = << >> THEN [ok |-> TRUE, out |-> 0]
        ELSE IF digits = << >> \/ ~(ToSet(digits) \subseteq DOMAIN Digit) THEN [ok |-> FALSE]
        ELSE [ok |-> TRUE, out |-> IF signed /\ text[1] = "-" THEN -v ELSE v]

\* parseMcpPinRef, of a chip that answers.
ParseMcpPinRef(s) ==
    LET p == ParseIntStrict(s)
    IN  IF p.ok /\ p.out \in 0..(Pins - 1)
        THEN [ok |-> TRUE, chip |-> p.out \div 16, localPin |-> p.out % 16]
        ELSE [ok |-> FALSE]

-----------------------------------------------------------------------------
\* A word that can be handed to a handler: it has no blanks around it, no literal escape
\* and no bracket at its end, and no semicolon, which ends a command even in quotes.
Plain(w) == w # << >> /\ w = StripLiteralEscapesAtEnd(w) /\ ~Contains(w, ";")

\* A word in quotes, or without them.
Written(w, quote) == IF quote = "" THEN w ELSE <<quote>> \o w \o <<quote>>

Writable(w, quote) ==
    /\ Plain(w)
    /\ IF quote = "" THEN ~IsQuote(w[1]) /\ \A i \in DOMAIN w : ~IsDelimiter(w[i])
                     ELSE ~Contains(w, quote)

\* The forms of a command: with blanks or in brackets, with or without escapes.
Forms == { [open |-> <<" ">>, close |-> << >>], [open |-> <<"(">>, close |-> <<")">>],
           [open |-> <<" ", ",">>, close |-> <<"\\", "n">>],
           [open |-> <<"(", " ">>, close |-> <<" ", ")", "\\", "n">>] }

CommandText(header, words, form) ==
    header \o form.open \o FlattenSeq([i \in DOMAIN words |->
        (IF i = 1 THEN << >> ELSE <<",">>) \o Written(words[i].text, words[i].quote)]) \o form.close

\* What is written as words is what the handlers of the commands of a line get, each its
\* own, and no more than there is room for.
WordsRead(header, words, form) ==
    LET command == CommandText(header, words, form)
        texts   == [i \in DOMAIN words |-> words[i].text]
        read    == [header |-> header, params |-> SubSeq(texts, 1, Min({Len(texts), MaxParams}))]
    IN  (\A i \in DOMAIN words : Writable(words[i].text, words[i].quote)) =>
          /\ HandleScpiLine(command) = <<read>>
          /\ HandleScpiLine(command \o <<";", " ">> \o command) = <<read, read>>

\* Whatever the line, a handler gets words only, none of them empty.
OnlyWordsRead(line) ==
    \A command \in ToSet(HandleScpiLine(line)) : \A w \in ToSet(command.params) : Plain(w)

\* The pin of a word that a handler can get is addressed if and only if the number of that
\* pin was written, however long.  The empty text, which parseIntStrict takes for a 0, is no
\* such word.
PinAsWritten(s) ==
    LET digits == IF s[1] \in {"+", "-"} THEN Tail(s) ELSE s
        number == digits # << >> /\ ToSet(digits) \subseteq DOMAIN Digit
        value  == Value(digits)
        pin    == ParseMcpPinRef(s)
    IN  Plain(s) =>
          /\ pin.ok <=> number /\ value < Pins /\ (s[1] = "-" => value = 0)
          /\ pin.ok => 16 * pin.chip + pin.localPin = value

=============================================================================
