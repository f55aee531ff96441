------------------------------- MODULE Texts -------------------------------
(***************************************************************************)
(* Quoted texts: SCPI_ResultText and SCPI_ResultError write them, doubling *)
(* each quote, and SCPI_ParamCopyText reads them (libscpi/src/parser.c).   *)
(***************************************************************************)
EXTENDS Lexer

Quote == "\""

\* strnpbrk: the index of the first quote, 0 if there is none.
FirstQuote(t) == LET at == {i \in DOMAIN t : t[i] = Quote} IN IF at = {} THEN 0 ELSE Min(at)

\* The loop of SCPI_ResultText.
RECURSIVE Doubled(_)
Doubled(t) ==
    LET step == FirstQuote(t)
    IN  IF step = 0 THEN t
        ELSE Part(t, 1, step) \o <<Quote>> \o Doubled(Part(t, step + 1, Len(t)))

ResultText(data) == <<Quote>> \o Doubled(data) \o <<Quote>>

\* Mutant: a quote at the end of the room is written, and its double with it.
CutBehindQuote(step, room) == FALSE

\* A quote whose double would not fit ends the text before it.
CutAtQuote(step, room) == step >= room

\* One part of SCPI_ResultError's text in what room is left of it: what is
\* written, and the room behind it.
RECURSIVE ErrorPart(_, _)
ErrorPart(t, room) ==
    LET data == SubSeq(t, 1, Min({Len(t), room}))
        step == FirstQuote(data)
    IN  IF step = 0 THEN [text |-> data, room |-> room - Len(data)]
        ELSE IF CutAtQuote(step, room)
          THEN [text |-> Front(data), room |-> room - 1 - (Len(data) - 1)]
        ELSE LET rest == ErrorPart(Part(data, step + 1, Len(data)), room - step - 1)
             IN  [text |-> Part(data, 1, step) \o <<Quote>> \o rest.text, room |-> rest.room]

\* The loop over the parts: the standard description, then the device dependent
\* information behind a semicolon, in one or two parts.
RECURSIVE ErrorParts(_, _, _)
ErrorParts(parts, i, room) ==
    IF i > Len(parts) \/ room = 0 THEN << >>
    ELSE LET semicolon == IF i = 2 THEN <<";">> ELSE << >>
             part == ErrorPart(parts[i], room - Len(semicolon))
         IN  semicolon \o part.text \o ErrorParts(parts, i + 1, part.room)

\* The quoted text of SCPI_ResultError; limit is 255 in the code.
ResultError(parts, limit) == <<Quote>> \o ErrorParts(parts, 1, limit) \o <<Quote>>

\* Mutant: both quotes of a pair are copied.
NextInPair(token, from, quote) == from + 1

\* Behind a quote its double is skipped.
NextAfter(token, from, quote) == IF token[from] = quote THEN from + 2 ELSE from + 1

\* The loop of SCPI_ParamCopyText; the index in the token, here from 2, is what it
\* compares with the size of the buffer.
RECURSIVE CopyFrom(_, _, _)
CopyFrom(token, from, buffer_len) ==
    IF from >= Len(token) \/ from - 1 >= buffer_len THEN << >>
    ELSE <<token[from]>> \o CopyFrom(token, NextAfter(token, from, token[1]), buffer_len)

ParamCopyText(token, buffer_len) == CopyFrom(token, 2, buffer_len)

-----------------------------------------------------------------------------
\* What is written as a text is one string of program data, and reads back whole into a
\* buffer as long as it; into a shorter one what comes fits with its terminator and is a
\* beginning of it.
TextReadsBack(data, buffer_len) ==
    LET token == ResultText(data)
        copy  == ParamCopyText(token, buffer_len)
    IN  /\ StringEnd(token, 1) = Len(token) + 1
        /\ Len(copy) < buffer_len /\ IsPrefix(copy, data)
        /\ buffer_len >= Len(token) => copy = data

\* However the parts are cut, what SYSTem:ERRor? answers is one string that keeps the
\* limit and reads as a beginning of the whole text; nothing is cut that would fit.
ErrorTextWhole(parts, limit) ==
    LET token == ResultError(parts, limit)
        whole == FlattenSeq([i \in DOMAIN parts |-> (IF i = 2 THEN <<";">> ELSE << >>) \o parts[i]])
    IN  /\ StringEnd(token, 1) = Len(token) + 1
        /\ Len(token) <= limit + 2
        /\ IsPrefix(ParamCopyText(token, Len(token)), whole)
        /\ Len(Doubled(whole)) <= limit => ParamCopyText(token, Len(token)) = whole

=============================================================================
