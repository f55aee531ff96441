------------------------------- MODULE Units -------------------------------
(***************************************************************************)
(* Numbers with units, libscpi/src/units.c: which unit and multiplier a    *)
(* suffix names, and how SCPI_NumberToStr writes a number in its unit.  A  *)
(* number is what it reads as; of its text only the length matters.        *)
(***************************************************************************)
EXTENDS Integers, Sequences, FiniteSetsExt

U(name, unit, mult) == [name |-> name, unit |-> unit, mult |-> mult]

NoName == ""
NoUnit == U(NoName, "NONE", "1")

\* scpi_units_def, with every group of units configured
units_def == <<
    U("GY", "GRAY", "1"), U("BQ", "BECQUEREL", "1"), U("MOL", "MOLE", "1"),
    U("NSV", "SIEVERT", "1e-9"), U("USV", "SIEVERT", "1e-6"), U("MSV", "SIEVERT", "1e-3"),
    U("SV", "SIEVERT", "1"), U("KSV", "SIEVERT", "1e3"), U("MASV", "SIEVERT", "1e6"),
    U("EV", "ELECTRONVOLT", "1"), U("KEV", "ELECTRONVOLT", "1e3"),
    U("MAEV", "ELECTRONVOLT", "1e6"), U("GEV", "ELECTRONVOLT", "1e9"),
    U("TEV", "ELECTRONVOLT", "1e12"), U("U", "ATOMIC_MASS", "1"), U("DEG", "DEGREE", "1"),
    U("GON", "GRADE", "1"), U("MNT", "DEGREE", "1/60"), U("RAD", "RADIAN", "1"),
    U("SEC", "DEGREE", "1/3600"), U("REV", "REVOLUTION", "1"), U("RS", "STERADIAN", "1"),
    U("PF", "FARAD", "1e-12"), U("NF", "FARAD", "1e-9"), U("UF", "FARAD", "1e-6"),
    U("MF", "FARAD", "1e-3"), U("F", "FARAD", "1"), U("UA", "AMPER", "1e-6"),
    U("MA", "AMPER", "1e-3"), U("A", "AMPER", "1"), U("KA", "AMPER", "1e3"),
    U("UV", "VOLT", "1e-6"), U("MV", "VOLT", "1e-3"), U("V", "VOLT", "1"),
    U("KV", "VOLT", "1e3"), U("OHM", "OHM", "1"), U("KOHM", "OHM", "1e3"),
    U("MOHM", "OHM", "1e6"), U("UH", "HENRY", "1e-6"), U("MH", "HENRY", "1e-3"),
    U("H", "HENRY", "1"), U("C", "COULOMB", "1"), U("USIE", "SIEMENS", "1e-6"),
    U("MSIE", "SIEMENS", "1e-3"), U("SIE", "SIEMENS", "1"), U("J", "JOULE", "1"),
    U("KJ", "JOULE", "1e3"), U("MAJ", "JOULE", "1e6"), U("N", "NEWTON", "1"),
    U("KN", "NEWTON", "1e3"), U("ATM", "ATMOSPHERE", "1"), U("INHG", "INCH_OF_MERCURY", "1"),
    U("MMHG", "MM_OF_MERCURY", "1"), U("TORR", "TORT", "1"), U("BAR", "BAR", "1"),
    U("PAL", "PASCAL", "1"), U("KPAL", "PASCAL", "1e3"), U("MAPAL", "PASCAL", "1e6"),
    U("ST", "STROKES", "1"), U("P", "POISE", "1"), U("L", "LITER", "1"),
    U("MG", "KILOGRAM", "1e-6"), U("G", "KILOGRAM", "1e-3"), U("KG", "KILOGRAM", "1"),
    U("TNE", "KILOGRAM", "1000"), U("HZ", "HERTZ", "1"), U("KHZ", "HERTZ", "1e3"),
    U("MHZ", "HERTZ", "1e6"), U("GHZ", "HERTZ", "1e9"), U("ASU", "ASTRONOMIC_UNIT", "1"),
    U("PRS", "PARSEC", "1"), U("IN", "INCH", "1"), U("FT", "FOOT", "1"), U("MI", "MILE", "1"),
    U("NAMI", "NAUTICAL_MILE", "1"), U("NM", "METER", "1e-9"), U("UM", "METER", "1e-6"),
    U("MM", "METER", "1e-3"), U("M", "METER", "1"), U("KM", "METER", "1e3"),
    U("LX", "LUX", "1"), U("LM", "LUMEN", "1"), U("CD", "CANDELA", "1"), U("WB", "WEBER", "1"),
    U("NT", "TESLA", "1e-9"), U("UT", "TESLA", "1e-6"), U("MT", "TESLA", "1e-3"),
    U("T", "TESLA", "1"), U("W", "WATT", "1"), U("DBM", "DBM", "1"), U("DBMW", "DBM", "1"),
    U("DB", "DECIBEL", "1"), U("PCT", "UNITLESS", "1e-2"), U("PPM", "UNITLESS", "1e-6"),
    U("CEL", "CELSIUS", "1"), U("FAR", "FAHRENHEIT", "1"), U("K", "KELVIN", "1"),
    U("PS", "SECOND", "1e-12"), U("NS", "SECOND", "1e-9"), U("US", "SECOND", "1e-6"),
    U("MS", "SECOND", "1e-3"), U("S", "SECOND", "1"), U("MIN", "SECOND", "60"),
    U("HR", "SECOND", "3600"), U("D", "DAY", "1"), U("ANN", "YEAR", "1") >>

Found(Is(_)) ==
    LET found == SelectSeq(units_def, Is) IN IF found = << >> THEN NoUnit ELSE Head(found)

\* translateUnit, of a suffix in upper case
TranslateUnit(suffix) == Found(LAMBDA def : def.name = suffix)

\* Mutant: any name of the unit will do.
InverseOfAny(unit) == Found(LAMBDA def : def.unit = unit).name

\* translateUnitInverse: the name of the unit itself.
TranslateUnitInverse(unit) == Found(LAMBDA def : def.unit = unit /\ def.mult = "1").name

\* transformNumber: how much the number is multiplied by, and its unit.
TransformNumber(suffix) ==
    LET def == TranslateUnit(suffix)
    IN  IF suffix = NoName THEN [res |-> TRUE, mult |-> "1", unit |-> "NONE"]
        ELSE IF def = NoUnit THEN [res |-> FALSE]
        ELSE [res |-> TRUE, mult |-> def.mult, unit |-> def.unit]

\* strncat, of source characters to text of used ones, at most n of them
Strncat(used, source, n) == used + Min({source, n})

\* SCPI_NumberToStr into len bytes, of a number that takes digits characters: the
\* length of the text (its terminator is behind it), and the name written.
NumberToStr(digits, unit, len) ==
    LET result == Min({digits, len - 1})
        name   == TranslateUnitInverse(unit)
        spaced == Strncat(result, 1, len - result)
    IN  IF result + 1 >= len \/ name = NoName THEN [length |-> result, name |-> NoName]
        ELSE IF result + 2 >= len THEN [length |-> spaced, name |-> NoName]
        ELSE [length |-> Strncat(spaced, Len(name), len - result - 1),
              name |-> SubSeq(name, 1, Min({Len(name), len - result - 1}))]

-----------------------------------------------------------------------------
\* A number with a suffix is printed in the unit the suffix names and reads back as the
\* same number, if there is room; the ratios PCT and PPM are printed without a unit.
UnitReadsBack(suffix, digits, len) ==
    LET read    == TransformNumber(suffix)
        printed == NumberToStr(digits, read.unit, len)
        room    == digits + 1 + Len(TranslateUnitInverse(read.unit)) < len
    IN  read.res /\ room =>
          /\ printed.length < len
          /\ printed.name = NoName <=> read.unit \in {"NONE", "UNITLESS"}
          /\ printed.name # NoName =>
               TransformNumber(printed.name) = [res |-> TRUE, mult |-> "1", unit |-> read.unit]

\* len is the "max length of string including null-character termination": text and
\* terminator lie in len bytes.
NumberFits(suffix, digits, len) ==
    LET read == TransformNumber(suffix)
    IN  read.res => NumberToStr(digits, read.unit, len).length + 1 <= len

=============================================================================
