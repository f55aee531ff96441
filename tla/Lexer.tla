------------------------------- MODULE Lexer -------------------------------
(***************************************************************************)
(* The recognisers of libscpi/src/lexer.c for program headers and for the  *)
(* elements of program data, and below what IEEE 488.2 says they take.     *)
(* Each recogniser takes a text t and the index p it starts at and tells   *)
(* the index behind what it takes: p itself when it takes nothing.  The    *)
(* letters stand for either case.  The recogniser of blocks is in Blocks.   *)
(***************************************************************************)
EXTENDS Integers, Sequences, FiniteSets, SequencesExt, FiniteSetsExt

Block == INSTANCE Blocks

BinDigits == {"0", "1"}
OctDigits == BinDigits \cup {"7"}
Digits    == OctDigits \cup {"9"}
HexDigits == Digits \cup {"A", "B", "E"}
Letters   == {"A", "B", "E", "H", "Q", "V", "X"}
Blanks    == {" "}
Signs     == {"+", "-"}
MnemonicChars == Letters \cup Digits \cup {"_"}
Quotes    == {"'", "\""}
\* isProgramExpression
ExpressionChars == MnemonicChars \cup Blanks \cup Signs \cup {".", ",", ":", "!", "@", "/", "*", "?"}

\* skipWs, skipNumbers, skipAlpha and the like.
Skip(t, p, chars) == Min({q \in p .. Len(t) : t[q] \notin chars} \cup {Len(t) + 1})

\* skipChr, skipPlusmn, skipDigit and the like.
SkipOne(t, p, chars) == IF p <= Len(t) /\ t[p] \in chars THEN p + 1 ELSE p

\* A point and the digits behind it.
FractionEnd(t, p) ==
    LET point == SkipOne(t, p, {"."}) IN IF point > p THEN Skip(t, point, Digits) ELSE p

\* skipMantisa: nothing is taken unless there is a digit.
MantissaEnd(t, p) ==
    LET end == FractionEnd(t, Skip(t, SkipOne(t, p, Signs), Digits))
    IN  IF \E q \in p .. end - 1 : t[q] \in Digits THEN end ELSE p

\* skipExponent: the same for what follows the letter.
ExponentEnd(t, p) ==
    LET letter == SkipOne(t, p, {"E"})
        first  == SkipOne(t, Skip(t, letter, Blanks), Signs)
        end    == Skip(t, first, Digits)
    IN  IF letter > p /\ end > first THEN end ELSE p

\* Mutant: blanks before an exponent that is none stay taken.
DecimalWithBlanks(t, p) ==
    LET mantissa == MantissaEnd(t, p)
    IN  IF mantissa = p THEN p ELSE ExponentEnd(t, Skip(t, mantissa, Blanks))

\* An exponent behind a mantissa, or the mantissa alone.
WithExponent(t, mantissa) ==
    LET blank    == Skip(t, mantissa, Blanks)
        exponent == ExponentEnd(t, blank)
    IN  IF exponent > blank THEN exponent ELSE mantissa

\* scpiLex_DecimalNumericProgramData
DecimalEnd(t, p) ==
    LET mantissa == MantissaEnd(t, p) IN IF mantissa > p THEN WithExponent(t, mantissa) ELSE p

\* The loop of scpiLex_SuffixProgramData: one element of the suffix, then the next.
RECURSIVE SuffixRest(_, _)
SuffixRest(t, p) ==
    LET end  == SkipOne(t, SkipOne(t, Skip(t, p, Letters), {"-"}), Digits)
        more == SkipOne(t, end, {"/", "."})
    IN  IF more > end THEN SuffixRest(t, more) ELSE end

\* scpiLex_SuffixProgramData: a slash alone is a suffix too.
SuffixEnd(t, p) ==
    LET slash == SkipOne(t, p, {"/"})
    IN  IF Skip(t, slash, Letters) > slash THEN SuffixRest(t, slash) ELSE slash

\* scpiLex_NondecimalNumericData
NondecimalEnd(t, p) ==
    LET digits == CASE p + 1 > Len(t) -> {} [] t[p + 1] = "H" -> HexDigits
                    [] t[p + 1] = "Q" -> OctDigits [] t[p + 1] = "B" -> BinDigits [] OTHER -> {}
        end == Skip(t, p + 2, digits)
    IN  IF SkipOne(t, p, {"#"}) > p /\ digits # {} /\ end > p + 2 THEN end ELSE p

\* skipProgramMnemonic, scpiLex_CharacterProgramData
MnemonicEnd(t, p) == IF SkipOne(t, p, Letters) > p THEN Skip(t, p, MnemonicChars) ELSE p

\* skipQuoteProgramData: the index of the quote that ends the text, behind two of them go on.
RECURSIVE QuoteEnd(_, _, _)
QuoteEnd(t, p, quote) ==
    LET q == Min({i \in p .. Len(t) : t[i] = quote} \cup {Len(t) + 1})
    IN  IF SkipOne(t, q + 1, {quote}) > q + 1 THEN QuoteEnd(t, q + 2, quote) ELSE q

\* scpiLex_StringProgramData
StringEnd(t, p) ==
    LET q == QuoteEnd(t, p + 1, t[p])
    IN  IF SkipOne(t, p, Quotes) > p /\ q <= Len(t) THEN q + 1 ELSE p

\* scpiLex_ProgramExpression
ExpressionEnd(t, p) ==
    LET close == Skip(t, p + 1, ExpressionChars)
    IN  IF SkipOne(t, p, {"("}) > p /\ SkipOne(t, close, {")"}) > close THEN close + 1 ELSE p

\* The loop of skipCompoundProgramHeader, behind a mnemonic.
RECURSIVE CompoundEnd(_, _)
CompoundEnd(t, p) ==
    LET colon == SkipOne(t, p, {":"})
        next  == MnemonicEnd(t, colon)
    IN  IF colon = p THEN [complete |-> TRUE, end |-> p]
        ELSE IF next = colon THEN [complete |-> FALSE, end |-> colon] ELSE CompoundEnd(t, next)

\* Mutant: a colon that no mnemonic follows does not show in the header.
NameUnfinished(t, p) ==
    LET mark == SkipOne(t, p, {"*", ":"})
        name == MnemonicEnd(t, mark)
    IN  IF name = mark THEN [complete |-> FALSE, end |-> mark]
        ELSE IF SkipOne(t, p, {"*"}) > p THEN [complete |-> TRUE, end |-> name]
        ELSE [CompoundEnd(t, name) EXCEPT !.complete = TRUE]

\* skipCommonProgramHeader, skipCompoundProgramHeader
HeaderName(t, p) ==
    LET mark == SkipOne(t, p, {"*", ":"})
        name == MnemonicEnd(t, mark)
    IN  IF name = mark THEN [complete |-> FALSE, end |-> mark]
        ELSE IF SkipOne(t, p, {"*"}) > p THEN [complete |-> TRUE, end |-> name]
        ELSE CompoundEnd(t, name)

\* scpiLex_ProgramHeader
ProgramHeader(t, p) ==
    LET name  == HeaderName(t, p)
        query == SkipOne(t, name.end, {"?"})
    IN  IF name.end = p THEN [type |-> "unknown", end |-> p]
        ELSE IF ~ name.complete THEN [type |-> "incomplete", end |-> name.end]
        ELSE [type |-> IF query > name.end THEN "query" ELSE "command", end |-> query]

\* A suffix behind a decimal number.
WithSuffix(t, decimal) ==
    LET blank  == Skip(t, decimal, Blanks)
        suffix == SuffixEnd(t, blank)
    IN  IF suffix > blank THEN [type |-> "suffixed", end |-> suffix]
                          ELSE [type |-> "decimal", end |-> decimal]

\* scpiLex_ArbitraryBlockProgramData: a block that is cut takes the rest and is unknown.
ArbitraryBlock(t, p) ==
    LET token == Block!BlockToken(SubSeq(t, p, Len(t)))
    IN  [type |-> token.type, end |-> p + token.end]

\* scpiParser_parseProgramData without the blanks around it: the first recogniser
\* that takes something.
ProgramData(t, p) ==
    CASE NondecimalEnd(t, p) > p -> [type |-> "nondecimal", end |-> NondecimalEnd(t, p)]
      [] MnemonicEnd(t, p) > p -> [type |-> "mnemonic", end |-> MnemonicEnd(t, p)]
      [] DecimalEnd(t, p) > p -> WithSuffix(t, DecimalEnd(t, p))
      [] p <= Len(t) /\ StringEnd(t, p) > p -> [type |-> "string", end |-> StringEnd(t, p)]
      [] ArbitraryBlock(t, p).end > p -> ArbitraryBlock(t, p)
      [] ExpressionEnd(t, p) > p -> [type |-> "expression", end |-> ExpressionEnd(t, p)]
      [] OTHER -> [type |-> "unknown", end |-> p]

-----------------------------------------------------------------------------
(* The texts an element may have, said without scanning.                   *)

Part(t, from, to) == SubSeq(t, from, to)
AllIn(t, chars) == Range(t) \subseteq chars
Unsigned(t) == IF t # << >> /\ Head(t) \in Signs THEN Tail(t) ELSE t

\* [+-] digits [. digits] with a digit somewhere.
IsMantissa(t) ==
    /\ AllIn(Unsigned(t), Digits \cup {"."})
    /\ Cardinality({i \in DOMAIN t : t[i] = "."}) <= 1
    /\ \E i \in DOMAIN t : t[i] \in Digits

\* blanks E blanks [+-] digits
IsExponent(t) ==
    \E e \in DOMAIN t : \E d \in e .. Len(t) :
        /\ t[e] = "E"
        /\ AllIn(Part(t, 1, e - 1) \o Part(t, e + 1, d), Blanks)
        /\ LET number == Unsigned(Part(t, d + 1, Len(t)))
           IN  number # << >> /\ AllIn(number, Digits)

IsDecimal(t) ==
    \E n \in DOMAIN t :
        IsMantissa(Part(t, 1, n)) /\ (n = Len(t) \/ IsExponent(Part(t, n + 1, Len(t))))

IsMnemonic(t) == t # << >> /\ Head(t) \in Letters /\ AllIn(t, MnemonicChars)

\* Mnemonics between colons, or one behind a star; the question mark of a query last.
IsHeader(t) ==
    LET body  == IF t # << >> /\ Last(t) = "?" THEN Front(t) ELSE t
        stops == {i \in DOMAIN body : body[i] = ":"} \cup {Len(body) + 1}
        start(i) == Max({j + 1 : j \in {k \in stops : k < i}} \cup {1})
    IN  \/ body # << >> /\ Head(body) = "*" /\ IsMnemonic(Tail(body))
        \/ body # << >> /\ \A i \in stops \ {1} : IsMnemonic(Part(body, start(i), i - 1))

\* How many characters the longest element at the start of t has.
Longest(t, Is(_)) == Max({n \in DOMAIN t : Is(Part(t, 1, n))} \cup {0})

=============================================================================
