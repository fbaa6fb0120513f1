----------------------------- MODULE TimeSettings -----------------------------
(***************************************************************************)
(* The times of a dashboard and of a detector: seconds in the block,       *)
(* milliseconds at the API, either a range before now or a start and an    *)
(* end.  And the two parsers of ranges written as text, one of which       *)
(* migrates the entries that detectors had when their range was a text.    *)
(***************************************************************************)
EXTENDS Integers, FiniteSetsExt, SequencesExt

CONSTANTS
    PerSecond,          \* milliseconds in a second
    NanosPerSecond,     \* what a second counts in a time.Duration
    MaxInt,             \* the largest int: 32 bits wide on some released builds
    MaxDuration,        \* the largest time.Duration
    Nothing,            \* a time that is not set
    Now,                \* the end of a range before now
    Ranges,             \* the ranges of a dashboard, such as "-1h"
    GivenSeconds,       \* seconds a block may name
    OtherMilliseconds,  \* milliseconds others may leave at the API
    DefaultRange        \* seconds a detector shows if its block does not say

ASSUME PerSecondAssumption ==
    PerSecond \in Nat \ {0, 1} /\ NanosPerSecond \in Nat \ {0}

ASSUME WidthAssumption == MaxInt \in Nat /\ MaxDuration \in Nat

ASSUME TimesAssumption ==
    /\ GivenSeconds \subseteq Nat /\ OtherMilliseconds \subseteq Nat
    /\ DefaultRange \in Nat \ {0}
    /\ Nothing # Now
    /\ \A t \in Ranges \union {Nothing, Now} : t \notin Int
    /\ \A t \in Ranges : t # Nothing /\ t # Now

----------------------------------------------------------------------------
(* The integers of the program.                                            *)

\* Arithmetic wraps at the width whose largest number is max.
Wrapped(n, max) == ((n + max + 1) % (2 * max + 2)) - max - 1

\* Division drops the remainder, of negative numbers too.
Quotient(n, d) == IF n >= 0 THEN n \div d ELSE -((-n) \div d)

----------------------------------------------------------------------------
(* A dashboard's time.  The API holds two texts: nothing, "Now", a range,  *)
(* or milliseconds.                                                        *)

IsMilliseconds(t) == t \in Int

NoFilter == [start |-> Nothing, end |-> Nothing]

InMilliseconds(seconds) == Wrapped(seconds * PerSecond, MaxInt)

\* An end without a start is left out; zero is not set.
getDashboardTime(view) ==
    CASE view.range # Nothing -> [start |-> view.range, end |-> Now]
      [] view.range = Nothing /\ view.start # 0 ->
             [start |-> InMilliseconds(view.start),
              end |-> IF view.end = 0 THEN Nothing ELSE InMilliseconds(view.end)]
      [] OTHER -> NoFilter

\* Unless it ends now, start and end must be milliseconds that are an int.
ReadableView(filter) ==
    filter.end = Now \/ \A t \in {filter.start, filter.end} :
                            t = Nothing \/ (IsMilliseconds(t) /\ t <= MaxInt)

\* What the reply does not give stays as it was in the entry.
ReadRangeOnly(view, filter) ==  \* mutant: start and end are not read
    IF filter.end = Now THEN [view EXCEPT !.range = filter.start] ELSE view
ReadView(view, filter) ==
    IF filter.end = Now THEN [view EXCEPT !.range = filter.start]
    ELSE [view EXCEPT
             !.start = IF filter.start = Nothing THEN @
                       ELSE Quotient(filter.start, PerSecond),
             !.end = IF filter.end = Nothing THEN @
                     ELSE Quotient(filter.end, PerSecond)]

Views == [range : Ranges, start : {0}, end : {0}]
         \union [range : {Nothing}, start : GivenSeconds \union {0},
                 end : GivenSeconds \union {0}]
OtherFilters == [start : Ranges, end : Ranges \union {Now}]
                \union [start : OtherMilliseconds \union {Nothing},
                        end : OtherMilliseconds \union {Nothing}]

\* The seconds of a block that are too many milliseconds for an int.
Overflows(view) ==
    view.start # 0 /\ \E t \in {view.start, view.end} : t * PerSecond > MaxInt

----------------------------------------------------------------------------
(* A detector's time.  The block's range has a default, and is zero only   *)
(* if the block says so.                                                   *)

NoTime == [range |-> Nothing, start |-> Nothing, end |-> Nothing]

\* val.(int64) of an int.
Panics(period) == period.start # 0

\* An end without a start is not sent.
getVisualizationTime(period) ==
    IF period.range = 0 THEN NoTime
    ELSE [NoTime EXCEPT !.range = period.range * PerSecond]

\* A start or end is stored as the milliseconds it is at the API.
OrZero(t) == IF t = Nothing THEN 0 ELSE t
ReadRangeAsSent(period, time) ==  \* mutant: milliseconds are read as seconds
    IF time = NoTime THEN period ELSE [period EXCEPT !.range = OrZero(time.range)]
ReadPeriod(period, time) ==
    CASE time = NoTime -> period
      [] time # NoTime /\ time.range # Nothing ->
             [period EXCEPT !.range = Quotient(time.range, PerSecond)]
      [] OTHER -> [period EXCEPT !.start = OrZero(time.start),
                                 !.end = OrZero(time.end)]

\* With a start or an end, the range is the default.
Periods == [range : GivenSeconds \union {0, DefaultRange}, start : {0}, end : {0}]
           \union [range : {DefaultRange}, start : GivenSeconds \union {0},
                   end : GivenSeconds \union {0}]
OtherTimes == [range : OtherMilliseconds, start : {Nothing}, end : {Nothing}]
              \union [range : {Nothing}, start : OtherMilliseconds \union {Nothing},
                      end : OtherMilliseconds \union {Nothing}]

----------------------------------------------------------------------------
(* Reference definitions.                                                  *)

\* A time with the milliseconds in a second left out, as no block says them.
Whole(t) == IF IsMilliseconds(t) THEN Quotient(t, PerSecond) * PerSecond ELSE t
WholeSeconds(time) == [part \in DOMAIN time |-> Whole(time[part])]

\* It reads as zero, which is not set.
InFirstSecond(t) == Whole(t) = 0

----------------------------------------------------------------------------
(* Ranges as text: digits and units, after a minus sign.                   *)

InSeconds == [s |-> 1, m |-> 60, h |-> 60 * 60, d |-> 24 * 60 * 60,
              w |-> 7 * 24 * 60 * 60]
Millistamps == [u \in DOMAIN InSeconds \ {"s"} |-> InSeconds[u] * PerSecond]
FrameworkUnits == [u \in DOMAIN InSeconds |-> InSeconds[u] * NanosPerSecond]

\* A text is whether it has its sign, and its signs: digits and units apart.
Digit(n) == [digit |-> TRUE, value |-> n, unit |-> "m"]
Unit(u)  == [digit |-> FALSE, value |-> 0, unit |-> u]

ScanLastUnit(units, max, at, char) ==  \* mutant: the last unit counts alone
    CASE at.failed -> at
      [] ~at.failed /\ char.digit ->
             [at EXCEPT !.partial = Wrapped(10 * @ + char.value, max)]
      [] ~at.failed /\ ~char.digit /\ char.unit \in DOMAIN units
                    /\ at.partial # 0 ->
             [at EXCEPT !.total = Wrapped(at.partial * units[char.unit], max),
                        !.partial = 0]
      [] OTHER -> [at EXCEPT !.failed = TRUE]
Scan(units, max, at, char) ==
    CASE at.failed -> at
      [] ~at.failed /\ char.digit ->
             [at EXCEPT !.partial = Wrapped(10 * @ + char.value, max)]
      [] ~at.failed /\ ~char.digit /\ char.unit \in DOMAIN units
                    /\ at.partial # 0 ->
             [at EXCEPT !.total = Wrapped(@ + at.partial * units[char.unit], max),
                        !.partial = 0]
      [] OTHER -> [at EXCEPT !.failed = TRUE]
Scanned(units, max, chars) ==
    FoldLeft(LAMBDA at, char : Scan(units, max, at, char),
             [total |-> 0, partial |-> 0, failed |-> FALSE], chars)

Failure  == [failed |-> TRUE, value |-> 0]
Gives(n) == [failed |-> FALSE, value |-> n]

\* The older parser: the sign is needed and not counted, no unit means
\* milliseconds.
FromTimeRangeToMilliseconds(text) ==
    LET end == Scanned(Millistamps, MaxInt, text.chars) IN
    IF \/ ~text.minus
       \/ end.failed
       \/ end.partial # 0 /\ end.total # 0
    THEN Failure ELSE Gives(end.total + end.partial)

\* The framework's parser: seconds too, every number has its unit, and the
\* sign, if there is one, is counted.
ParseDuration(text) ==
    LET end == Scanned(FrameworkUnits, MaxDuration, text.chars) IN
    IF (text.chars = <<>> /\ ~text.minus) \/ end.failed \/ end.partial # 0
    THEN Failure
    ELSE Gives(IF text.minus THEN Wrapped(-end.total, MaxDuration) ELSE end.total)

\* Reference definition, from the last sign to the first: a digit counts ten
\* times what the digit after it counts, before a unit it counts that unit, and
\* at the end one.  A second counts as many as it is given.
Meaning(text, second) ==
    LET last == Len(text.chars)
        sign(k) == text.chars[last + 1 - k]
        \* What a digit before the last k signs counts, and what these mean.
        counts[k \in 0..last] ==
            IF k = 0 THEN 1
            ELSE IF sign(k).digit THEN 10 * counts[k - 1]
            ELSE InSeconds[sign(k).unit] * second
        means[k \in 0..last] ==
            IF k = 0 THEN 0
            ELSE IF sign(k).digit THEN means[k - 1] + sign(k).value * counts[k - 1]
            ELSE means[k - 1]
    IN  means[last]

Chars == {Digit(0), Digit(2), Unit("s"), Unit("m"), Unit("h")}
RangeTexts == [minus : BOOLEAN, chars : BoundedSeq(Chars, 4)]
=============================================================================
