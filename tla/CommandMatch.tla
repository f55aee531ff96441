---------------------------- MODULE CommandMatch ----------------------------
(***************************************************************************)
(* matchCommand of libscpi/src/utils.c: does a program header match a      *)
(* pattern of the command list, such as [:MEASure]:VOLTage#[:DC]?, and     *)
(* which numbers follow its keywords?  The function walks through pattern  *)
(* and header side by side and never goes back, and counts brackets.       *)
(*                                                                         *)
(* Texts are sequences of characters.  A header is in upper case, which    *)
(* stands for any case: the comparison ignores it.  A number is the        *)
(* sequence of its digits; its value is left to the C library.             *)
(***************************************************************************)
EXTENDS Integers, Sequences, FiniteSets, FiniteSetsExt, SequencesExt

UpperOf == [a |-> "A", b |-> "B", c |-> "C", d |-> "D"]
IsLower(char) == char \in DOMAIN UpperOf
Fold(text) == [i \in DOMAIN text |-> IF IsLower(text[i]) THEN UpperOf[text[i]] ELSE text[i]]
Digits == {"1", "2"}

\* The number of an omitted keyword, and a place of numbers nothing was stored in.
Default == <<"default">>
Unset == <<"unset">>

Drop(text, n) == SubSeq(text, n + 1, Len(text))
Starts(text, with) == Len(with) <= Len(text) /\ SubSeq(text, 1, Len(with)) = with

\* strnpbrk: the characters before the first of chars.
Before(text, chars) ==
    SubSeq(text, 1, Min({i \in DOMAIN text : text[i] \in chars} \cup {Len(text) + 1}) - 1)

PatternKeyword(pattern) == Before(pattern, {"?", ":", "[", "]"})
CommandKeyword(command) == Before(command, {"?", ":"})
ShortForm(keyword) == Before(keyword, DOMAIN UpperOf)

CompareStr(keyword, text) == Fold(keyword) = text

\* The rest of the text must be digits, or nothing.
CompareStrAndNum(keyword, text) ==
    Starts(text, Fold(keyword)) /\ Range(Drop(text, Len(keyword))) \subseteq Digits

IsNumbered(keyword) == keyword # << >> /\ Last(keyword) = "#"

MatchPattern(keyword, text) ==
    IF IsNumbered(keyword)
      THEN \E form \in {Front(keyword), ShortForm(Front(keyword))} : CompareStrAndNum(form, text)
      ELSE \E form \in {keyword, ShortForm(keyword)} : CompareStr(form, text)

\* The number that follows a keyword that matches: none leaves the default.
NumberIn(text) == LET digits == SelectSeq(text, LAMBDA c : c \in Digits)
                  IN  IF digits = << >> THEN Default ELSE digits

\* Both ends are cut by one when both are queries; a command is no query.
BothQueries(pattern, header) == Last(pattern) = "?" /\ Last(header) = "?"

\* What the walk starts with: the first "[" and ":" of the pattern and the
\* first ":" of the header are stepped over.
StartOfPattern(pattern) ==
    LET from == IF Head(pattern) = "[" THEN Tail(pattern) ELSE pattern
    IN  IF from # << >> /\ Head(from) = ":" THEN Tail(from) ELSE from

StartOfCommand(header) ==
    IF Len(header) >= 2 /\ Head(header) = ":" THEN Tail(header) ELSE header

\* What ends an optional keyword and begins the keyword after it.
Joints == {<<"]", "[", ":">>, <<"]", ":">>}

\* Mutant: brackets are not counted where a keyword is left out.
NestingUncounted(joint, brackets) == brackets

Nesting(joint, brackets) ==
    brackets + Cardinality({i \in DOMAIN joint : joint[i] = "["})
             - Cardinality({i \in DOMAIN joint : joint[i] = "]"})

\* The header is over: is all that is left of the pattern optional?
RECURSIVE RestIsOptional(_, _)
RestIsOptional(pattern, brackets) ==
    IF pattern = << >> THEN TRUE
    ELSE LET keyword == PatternKeyword(pattern)
             rest == Drop(pattern, Len(keyword) + 1)
             inside == IF Len(keyword) = Len(pattern) THEN brackets
                       ELSE Nesting(<<pattern[Len(keyword) + 1]>>, brackets)
         IN  IF inside # 0 \/ (rest # << >> /\ Head(rest) = "[")
               THEN RestIsOptional(rest, inside) ELSE rest = << >>

\* Mutant: a numbered keyword that is left out takes no place in numbers.
StoredIfPresent(numbers, keyword, text) ==
    IF IsNumbered(keyword) /\ MatchPattern(keyword, text)
      THEN Append(numbers, NumberIn(text)) ELSE numbers

\* The next place of numbers, for a numbered keyword.
Stored(numbers, keyword, text) ==
    IF IsNumbered(keyword)
      THEN Append(numbers, IF MatchPattern(keyword, text) THEN NumberIn(text) ELSE Default)
      ELSE numbers

Failed == [matches |-> FALSE, numbers |-> << >>]

\* The loop of matchCommand.
RECURSIVE Walk(_, _, _, _)
Walk(pattern, command, brackets, numbers) ==
    LET keyword == PatternKeyword(pattern)
        text == CommandKeyword(command)
        left == Drop(pattern, Len(keyword))
        stored == Stored(numbers, keyword, text)
        joint == {j \in Joints \cup {<<":">>, <<"[", ":">>} : Starts(left, j)}
        skip == {j \in Joints : Starts(left, j)}
    IN  IF MatchPattern(keyword, text)
          THEN LET rest == Drop(command, Len(text))
               IN  IF rest = << >>
                     THEN [matches |-> RestIsOptional(left, brackets), numbers |-> stored]
                   ELSE IF joint = {} \/ Head(rest) # ":" THEN Failed
                   ELSE LET j == CHOOSE j \in joint : TRUE
                        IN  Walk(Drop(left, Len(j)), Tail(rest), Nesting(j, brackets), stored)
          ELSE IF skip = {} THEN Failed
          ELSE LET j == CHOOSE j \in skip : TRUE
               IN  Walk(Drop(left, Len(j)), command, Nesting(j, brackets), stored)

MatchCommand(pattern, header) ==
    IF Last(pattern) = "?" /\ Last(header) # "?" THEN Failed
    ELSE LET cut == IF BothQueries(pattern, header) THEN 1 ELSE 0
             p == SubSeq(pattern, 1, Len(pattern) - cut)
             h == SubSeq(header, 1, Len(header) - cut)
         IN  IF Starts(h, <<":", "*">>) THEN Failed
             ELSE Walk(StartOfPattern(p), StartOfCommand(h), IF Head(p) = "[" THEN 1 ELSE 0, << >>)

\* SCPI_CommandNumbers: the places of numbers after the call.
CommandNumbers(pattern, header, length) ==
    LET numbers == MatchCommand(pattern, header).numbers
    IN  [i \in 1 .. length |-> IF i \in DOMAIN numbers THEN numbers[i] ELSE Unset]

-----------------------------------------------------------------------------
(* What a pattern stands for, said without walking.  A pattern is a list   *)
(* of keywords [name, rest, numbered, optional], maybe of a query, and a   *)
(* header a list of words [name, number], maybe from the root.             *)

Spelled(k) == k.name \o k.rest \o (IF k.numbered THEN <<"#">> ELSE << >>)

\* The pattern and the header as they are written.
PatternText(p) ==
    LET written(i) == IF p.keywords[i].optional
                        THEN <<"[", ":">> \o Spelled(p.keywords[i]) \o <<"]">>
                      ELSE (IF i = 1 THEN << >> ELSE <<":">>) \o Spelled(p.keywords[i])
    IN  FlattenSeq([i \in DOMAIN p.keywords |-> written(i)])
          \o (IF p.query THEN <<"?">> ELSE << >>)

HeaderText(h) ==
    LET written(i) == (IF i = 1 /\ ~ h.root THEN << >> ELSE <<":">>)
                        \o h.words[i].name \o h.words[i].number
    IN  FlattenSeq([i \in DOMAIN h.words |-> written(i)])
          \o (IF h.query THEN <<"?">> ELSE << >>)

\* Does the word spell the keyword: its short or its long form, and a number if it may?
Spells(word, k) ==
    /\ word.name \in {Fold(k.name), Fold(k.name \o k.rest)}
    /\ word.number # << >> => k.numbered

InOrder(present) ==
    [k \in 1 .. Cardinality(present) |->
       CHOOSE i \in present : Cardinality({j \in present : j < i}) = k - 1]

\* The sets of keywords of p that the words of h may stand for.
Readings(p, h) ==
    {present \in SUBSET DOMAIN p.keywords :
        /\ p.query = h.query
        /\ h.root => Head(h.words[1].name) # "*"
        /\ \A i \in DOMAIN p.keywords : p.keywords[i].optional \/ i \in present
        /\ Cardinality(present) = Len(h.words)
        /\ \A i \in DOMAIN h.words : Spells(h.words[i], p.keywords[InOrder(present)[i]])}

\* The number a reading gives to each numbered keyword of p, in their order.
Meant(p, h, present) ==
    LET numbered == InOrder({i \in DOMAIN p.keywords : p.keywords[i].numbered})
        word(i) == h.words[Cardinality({k \in present : k <= i})]
    IN  [j \in DOMAIN numbered |->
           IF numbered[j] \in present /\ word(numbered[j]).number # << >>
             THEN word(numbered[j]).number ELSE Default]

-----------------------------------------------------------------------------
\* The walk never goes back, and yet it finds every reading: a header runs a
\* callback exactly when some choice of the optional keywords spells it.  The
\* keywords of a pattern have different names.
MatchesAsWritten(p, h) ==
    MatchCommand(PatternText(p), HeaderText(h)).matches <=> Readings(p, h) # {}

\* Which keyword of the pattern has place j of numbers.
NumberedKeyword(p, j) == InOrder({i \in DOMAIN p.keywords : p.keywords[i].numbered})[j]

\* Up to the last keyword of the header each number is the one written behind its
\* keyword, or the default, also where optional keywords were left out on the way.
NumbersAsWritten(p, h, length) ==
    LET numbers == CommandNumbers(PatternText(p), HeaderText(h), length)
    IN  \A present \in Readings(p, h) : \A j \in DOMAIN Meant(p, h, present) \cap DOMAIN numbers :
          NumberedKeyword(p, j) <= Max(present) => numbers[j] = Meant(p, h, present)[j]

=============================================================================
