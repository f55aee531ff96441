----------------------------- MODULE Parameters -----------------------------
(***************************************************************************)
(* The typed parameters of libscpi/src/parser.c and units.c, on the data   *)
(* of a message unit: which element of program data each takes, what of    *)
(* its text the C library converts, and what it tells when it fails.       *)
(*                                                                         *)
(* A read of a parameter is [result, error, value]: what the function      *)
(* returns, the error it pushed and the text that was converted.           *)
(***************************************************************************)
EXTENDS Lexer

None == "none"
Good(value) == [result |-> TRUE, error |-> None, value |-> value]
Bad(error)  == [result |-> FALSE, error |-> error, value |-> << >>]

\* SCPI_Parameter, of the first parameter in the data t, without blanks around it: the
\* type and the text of the token, of a block its data, or how it fails.
TokenOf(t, data) ==
    [type |-> data.type,
     text |-> IF data.type = "block" THEN Block!BlockToken(t).data ELSE Part(t, 1, data.end - 1)]
Token(t) == TokenOf(t, ProgramData(t, 1))

Failure(t, mandatory) ==
    IF t = << >> THEN (IF mandatory THEN "SCPI_ERROR_MISSING_PARAMETER" ELSE None)
    ELSE "SCPI_ERROR_INVALID_STRING_DATA"

\* A read of a parameter that is there and lexed.
Parameter(t, mandatory, Convert(_)) ==
    IF t = << >> \/ Token(t).type = "unknown" THEN Bad(Failure(t, mandatory)) ELSE Convert(Token(t))

\* SCPI_ParamIsNumber
IsNumber(token, suffixAllowed) ==
    token.type \in {"decimal", "nondecimal"} \cup (IF suffixAllowed THEN {"suffixed"} ELSE {})

\* What strtol and strtoul convert: a sign and digits, nothing without a digit.
IntegerText(text) ==
    LET first == SkipOne(text, 1, Signs)
        end   == Skip(text, first, Digits)
    IN  IF end > first THEN Part(text, 1, end - 1) ELSE << >>

\* What strtod converts: no blanks before or in the exponent.
DoubleText(text) ==
    LET mantissa == MantissaEnd(text, 1)
        exponent == ExponentEnd(text, mantissa)
        written  == Part(text, mantissa, exponent - 1)
    IN  IF Range(written) \cap Blanks = {} THEN Part(text, 1, exponent - 1)
        ELSE Part(text, 1, mantissa - 1)

\* Mutant: what is no number is refused without an error.
RefusedSilently(token) == Bad(None)

\* The errors of the number functions about an element that is no plain number.
NotANumber(token) ==
    Bad(IF IsNumber(token, TRUE) THEN "SCPI_ERROR_SUFFIX_NOT_ALLOWED" ELSE "SCPI_ERROR_DATA_TYPE_ERROR")

\* SCPI_ParamInt32, SCPI_ParamUInt32, SCPI_ParamInt64, SCPI_ParamUInt64
ParamInt(t, mandatory) ==
    Parameter(t, mandatory, LAMBDA token :
        IF ~ IsNumber(token, FALSE) THEN NotANumber(token)
        ELSE IF token.type = "nondecimal" THEN Good(Part(token.text, 3, Len(token.text)))
        ELSE IF IntegerText(token.text) = << >> THEN Bad(None)
        ELSE Good(IntegerText(token.text)))

\* SCPI_ParamFloat, SCPI_ParamDouble
ParamDouble(t, mandatory) ==
    Parameter(t, mandatory, LAMBDA token :
        IF ~ IsNumber(token, FALSE) THEN NotANumber(token)
        ELSE IF token.type = "nondecimal" THEN Good(Part(token.text, 3, Len(token.text)))
        ELSE Good(DoubleText(token.text)))

\* SCPI_ParamToChoice
Choice(token, options) ==
    IF token.type # "mnemonic" THEN Bad("SCPI_ERROR_DATA_TYPE_ERROR")
    ELSE IF token.text \in options THEN Good(token.text)
    ELSE Bad("SCPI_ERROR_ILLEGAL_PARAMETER_VALUE")

ParamChoice(t, mandatory, options) ==
    Parameter(t, mandatory, LAMBDA token : Choice(token, options))

\* SCPI_ParamBool: a decimal number, or a choice
ParamBool(t, mandatory, options) ==
    Parameter(t, mandatory, LAMBDA token :
        IF token.type = "decimal" THEN Good(IntegerText(token.text)) ELSE Choice(token, options))

\* SCPI_ParamCopyText
ParamText(t, mandatory) ==
    Parameter(t, mandatory, LAMBDA token :
        IF token.type = "string" THEN Good(token.text) ELSE Bad("SCPI_ERROR_DATA_TYPE_ERROR"))

\* SCPI_ParamArbitraryBlock
ParamArbitraryBlock(t, mandatory) ==
    Parameter(t, mandatory, LAMBDA token :
        IF token.type = "block" THEN Good(token.text) ELSE Bad("SCPI_ERROR_DATA_TYPE_ERROR"))

\* Mutant: the blanks between number and suffix are not skipped.
SuffixFromNumber(token) ==
    LET number == DecimalEnd(token.text, 1)
    IN  [number |-> DoubleText(token.text),
         suffix |-> Part(token.text, number, SuffixEnd(token.text, number) - 1)]

\* SCPI_ParamNumber takes the token of a number with a suffix apart again.
NumberAndSuffix(token) ==
    LET number == DecimalEnd(token.text, 1)
        suffix == Skip(token.text, number, Blanks)
    IN  [number |-> DoubleText(token.text),
         suffix |-> Part(token.text, suffix, SuffixEnd(token.text, suffix) - 1)]

\* SCPI_ParamNumber, when suffixes and special numbers are those of units and options.
ParamNumber(t, mandatory, options, units) ==
    Parameter(t, mandatory, LAMBDA token :
        CASE IsNumber(token, FALSE) -> ParamDouble(t, mandatory)
          [] token.type = "suffixed" ->
               IF NumberAndSuffix(token).suffix \in units THEN Good(NumberAndSuffix(token).number)
               ELSE Bad("SCPI_ERROR_INVALID_SUFFIX")
          [] token.type = "mnemonic" -> Choice(token, options)
          [] OTHER -> Bad(None))

-----------------------------------------------------------------------------
\* The reads an instrument makes of one parameter.
Reads(t, mandatory, options, units) ==
    [int |-> ParamInt(t, mandatory), double |-> ParamDouble(t, mandatory),
     choice |-> ParamChoice(t, mandatory, options), bool |-> ParamBool(t, mandatory, options),
     text |-> ParamText(t, mandatory), block |-> ParamArbitraryBlock(t, mandatory),
     number |-> ParamNumber(t, mandatory, options, units)]

\* A read that fails without an error tells that an optional parameter is absent.
Told(t, mandatory, read) == read.result \/ read.error # None \/ (t = << >> /\ ~ mandatory)

\* The two failures that are silent: an integer that starts with its point, of which strtol
\* converts nothing, and a number with a unit that is a text, a list or a block.
Silent(t, kind) ==
    \/ kind = "int" /\ IntegerText(Token(t).text) = << >> /\ Token(t).type = "decimal"
    \/ kind = "number" /\ Token(t).type \in {"string", "expression", "block"}

\* Every other read that fails, and none of these two, leaves an error or tells that an
\* optional parameter is absent.
FailuresTold(t, mandatory, options, units) ==
    \A reads \in {Reads(t, mandatory, options, units)} : \A kind \in DOMAIN reads :
        Told(t, mandatory, reads[kind]) <=> ~ Silent(t, kind)

\* What the lexer takes for a number the C library converts to its last digit, when no blank
\* is inside, and a token with a suffix is taken apart where it was put together.
NumbersWhole(t) ==
    LET token  == Token(t)
        number == Part(t, 1, DecimalEnd(t, 1) - 1)
        apart  == NumberAndSuffix(token)
    IN  /\ token.type \in {"decimal", "suffixed"} /\ Range(number) \cap Blanks = {} =>
             DoubleText(token.text) = number
        /\ token.type = "suffixed" =>
             \E blanks \in SeqOf(Blanks, Len(t)) :
               token.text = number \o blanks \o apart.suffix /\ apart.suffix # << >>

=============================================================================
