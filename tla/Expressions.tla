----------------------------- MODULE Expressions -----------------------------
(***************************************************************************)
(* Numeric and channel lists in expressions, such as (1:2,5) and           *)
(* (@1!2:3!4,5), libscpi/src/expression.c.  A callback asks for the entry  *)
(* at index 0, 1, ... of the text between the parentheses, and each call   *)
(* walks through the list from its start.                                  *)
(*                                                                         *)
(* An entry is <<from>> or <<from, to>>; a number is its text, a channel   *)
(* the sequence of the texts of its dimensions.                            *)
(***************************************************************************)
EXTENDS Lexer

OK      == "SCPI_EXPR_OK"
ERROR   == "SCPI_EXPR_ERROR"
NO_MORE == "SCPI_EXPR_NO_MORE"

At(t, p, char) == SkipOne(t, p, {char}) > p

\* numericRange, from p
NumericRange(t, p) ==
    LET from == DecimalEnd(t, p)
        to   == DecimalEnd(t, from + 1)
    IN  IF from = p THEN [res |-> NO_MORE]
        ELSE IF ~ At(t, from, ":") THEN [res |-> OK, entry |-> <<Part(t, p, from - 1)>>, end |-> from]
        ELSE IF to = from + 1 THEN [res |-> ERROR]
        ELSE [res |-> OK, end |-> to,
              entry |-> <<Part(t, p, from - 1), Part(t, from + 1, to - 1)>>]

\* channelSpec, from p, behind the numbers of the dimensions before it
RECURSIVE ChannelSpec(_, _, _)
ChannelSpec(t, p, before) ==
    LET end    == DecimalEnd(t, p)
        values == Append(before, Part(t, p, end - 1))
    IN  IF end = p THEN [res |-> IF before = << >> THEN NO_MORE ELSE ERROR]
        ELSE IF At(t, end, "!") THEN ChannelSpec(t, end + 1, values)
        ELSE [res |-> OK, values |-> values, end |-> end]

\* Mutant: the end of a range may have other dimensions than its start.
RangeOfAny(t, from) ==
    LET to == ChannelSpec(t, from.end + 1, << >>)
    IN  IF ~ At(t, from.end, ":") THEN [res |-> OK, entry |-> <<from.values>>, end |-> from.end]
        ELSE IF to.res # OK THEN [res |-> ERROR]
        ELSE [res |-> OK, entry |-> <<from.values, to.values>>, end |-> to.end]

\* channelRange, behind the channel that may be the start of a range
RangeOf(t, from) ==
    LET to == ChannelSpec(t, from.end + 1, << >>)
    IN  IF ~ At(t, from.end, ":") THEN [res |-> OK, entry |-> <<from.values>>, end |-> from.end]
        ELSE IF to.res # OK \/ Len(from.values) # Len(to.values) THEN [res |-> ERROR]
        ELSE [res |-> OK, entry |-> <<from.values, to.values>>, end |-> to.end]

ChannelRange(t, p) ==
    LET from == ChannelSpec(t, p, << >>)
    IN  IF from.res # OK THEN [res |-> ERROR] ELSE RangeOf(t, from)

\* The two kinds of lists differ in their entries.
RangeAt(list, t, p) == IF list = "channel" THEN ChannelRange(t, p) ELSE NumericRange(t, p)

\* No comma behind an entry that is not the last one asked for.
AfterLast(t, p) == [res |-> IF p > Len(t) THEN NO_MORE ELSE ERROR]

\* The loop of both functions, an entry being read: index more of them behind commas.
RECURSIVE EntryFrom(_, _, _, _)
EntryFrom(list, t, range, index) ==
    IF range.res # OK \/ index = 0 THEN range
    ELSE IF At(t, range.end, ",")
      THEN EntryFrom(list, t, RangeAt(list, t, range.end + 1), index - 1)
      ELSE AfterLast(t, range.end)

\* SCPI_ExprNumericListEntry, SCPI_ExprChannelListEntry
ListEntry(list, t, index) ==
    IF list = "channel" /\ ~ At(t, 1, "@") THEN [res |-> ERROR]
    ELSE EntryFrom(list, t, RangeAt(list, t, IF list = "channel" THEN 2 ELSE 1), index)

\* What a callback gets that asks for entry after entry, and how it ends.
RECURSIVE ScanOn(_, _, _, _)
ScanOn(list, t, entries, entry) ==
    IF entry.res # OK THEN [entries |-> entries, res |-> entry.res]
    ELSE ScanOn(list, t, Append(entries, entry.entry), ListEntry(list, t, Len(entries) + 1))

Scan(list, t) == ScanOn(list, t, << >>, ListEntry(list, t, 0))

-----------------------------------------------------------------------------
(* The lists said without walking: texts between separators.               *)

\* The pieces of t between the characters sep, at least one.
Split(t, sep) ==
    LET stops == {i \in DOMAIN t : t[i] = sep} \cup {Len(t) + 1}
        stop(k) == CHOOSE i \in stops : Cardinality({j \in stops : j < i}) = k - 1
    IN  [k \in 1 .. Cardinality(stops) |-> Part(t, IF k = 1 THEN 1 ELSE stop(k - 1) + 1, stop(k) - 1)]

IsNumericEntry(e) == Len(Split(e, ":")) <= 2 /\ \A number \in Range(Split(e, ":")) : IsDecimal(number)

IsChannelEntry(e) ==
    LET ends == Range(Split(e, ":"))
    IN  /\ Len(Split(e, ":")) <= 2
        /\ \A c \in ends : \A number \in Range(Split(c, "!")) : IsDecimal(number)
        /\ Cardinality({Len(Split(c, "!")) : c \in ends}) = 1

IsEntry(list, e) == IF list = "channel" THEN IsChannelEntry(e) ELSE IsNumericEntry(e)

\* The list in the text, and an entry of it as the functions return it.
ListText(list, t) == IF list = "channel" THEN Tail(t) ELSE t
EntryOf(list, e) ==
    IF list = "channel" THEN [i \in DOMAIN Split(e, ":") |-> Split(Split(e, ":")[i], "!")]
    ELSE Split(e, ":")

\* The entries up to the first that is none, and whether that is all of them.
GoodFields(list, t) ==
    LET fields == Split(ListText(list, t), ",")
        good   == Max({n \in DOMAIN fields : \A i \in 1 .. n : IsEntry(list, fields[i])} \cup {0})
    IN  [i \in 1 .. good |-> EntryOf(list, fields[i])]

WellFormed(list, t) ==
    /\ list = "channel" => t # << >> /\ Head(t) = "@"
    /\ \A e \in Range(Split(ListText(list, t), ",")) : IsEntry(list, e)

=============================================================================
