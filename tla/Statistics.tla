----------------------------- MODULE Statistics -----------------------------
(***************************************************************************)
(* The judgement of one set of readings (policy/evaluation: Calculate and  *)
(* Compare), whose outcome the workflow takes as a set of finding kinds.   *)
(* Calculate is a loop over the readings and is modelled step by step.     *)
(*                                                                         *)
(* A floating-point number is an integer, counted in units of the smallest *)
(* one.  Floats are the finite ones; they lie farther apart the larger     *)
(* they are.  Every operation gives the number nearest to its exact        *)
(* result, as IEEE 754 asks: sums, the mean, the errors and the spread are *)
(* rounded one after another.                                              *)
(***************************************************************************)
EXTENDS Integers, SequencesExt

CONSTANTS
  Floats,             \* the finite numbers
  Infinite,           \* where the next one would be; stands for infinity
  One,                \* the number 1, in units
  SensorRange,        \* the numbers within the range of the sensor
  Repetitions,        \* the number of readings the profile asks for
  AbsoluteTolerance,
  RelativeTolerance,
  RepeatabilityLimit

ASSUME FloatAssumption ==
  /\ Floats \in SUBSET Int
  /\ 0 \in Floats
  /\ Infinite \in Int
  /\ \A f \in Floats : -f \in Floats /\ f < Infinite
  /\ One \in Nat \ {0}
ASSUME ReadingAssumption ==
  /\ SensorRange \in SUBSET Floats
  /\ Repetitions \in Nat \ {0, 1}
ASSUME ToleranceAssumption ==
  \A limit \in {AbsoluteTolerance, RelativeTolerance, RepeatabilityLimit} :
    limit \in Floats /\ limit >= 0

VARIABLES
  reference,  \* the standard point
  readings,   \* the readings taken there
  next,       \* the reading the loop looks at
  sum, min, max,
  statistics, \* the result of Calculate
  returned    \* whether it is there

vars == <<reference, readings, next, sum, min, max, statistics, returned>>

Numbers == Floats \cup {Infinite, -Infinite}

Distance(a, b) == IF a < b THEN b - a ELSE a - b

\* The number nearest to the quotient of a and n.  Of two as near it is some fixed
\* one, here as in floating point, where it is the even one.
Nearest(a, n) ==
  CHOOSE f \in Numbers : \A g \in Numbers : Distance(n * f, a) <= Distance(n * g, a)

Plus(a, b) == IF a \in Floats THEN Nearest(a + b, 1) ELSE a

-----------------------------------------------------------------------------
(* Calculate. *)

Start ==
  /\ sum = 0
  /\ min = readings[1]
  /\ max = readings[1]

Init ==
  /\ reference \in SensorRange
  /\ readings \in [1 .. Repetitions -> SensorRange]
  /\ next = 1
  /\ Start
  /\ statistics = [mean |-> 0, absoluteError |-> 0, relativeError |-> 0, spread |-> 0]
  /\ returned = FALSE

Look ==
  LET value == readings[next] IN
  /\ next <= Repetitions
  /\ sum' = Plus(sum, value)
  /\ min' = IF value < min THEN value ELSE min
  /\ max' = IF value > max THEN value ELSE max
  /\ next' = next + 1
  /\ UNCHANGED <<reference, readings, statistics, returned>>

Mean == IF sum \in Floats THEN Nearest(sum, Repetitions) ELSE sum

AbsoluteError(mean) ==
  IF mean \in Floats THEN Nearest(Distance(mean, reference), 1) ELSE Infinite

\* Fault: the sign of the reference point is not removed.
RelativeErrorSigned(error) ==
  CASE reference = 0 -> 0
    [] reference # 0 /\ error \in Floats -> Nearest(error * One, reference)
    [] OTHER -> Infinite

RelativeError(error) ==
  CASE reference = 0 -> 0
    [] reference # 0 /\ error \in Floats -> Nearest(error * One, Distance(reference, 0))
    [] OTHER -> Infinite

\* Fault: the spread of the first and the last reading.
SpreadOfEnds == Nearest(Distance(readings[1], readings[Repetitions]), 1)

Spread == Nearest(max - min, 1)

Finish ==
  LET mean == Mean
      error == AbsoluteError(mean)
  IN
  /\ next = Repetitions + 1 /\ ~returned
  /\ statistics' = [mean |-> mean, absoluteError |-> error,
                    relativeError |-> RelativeError(error), spread |-> Spread]
  /\ returned' = TRUE
  /\ UNCHANGED <<reference, readings, next, sum, min, max>>

Next == Look \/ Finish

Spec == Init /\ [][Next]_vars

-----------------------------------------------------------------------------
(* Compare, and what becomes of the result. *)

Compare ==
  {kind \in {"absolute_error"} : statistics.absoluteError > AbsoluteTolerance}
  \cup {kind \in {"relative_error"} : statistics.relativeError > RelativeTolerance}
  \cup {kind \in {"repeatability"} : statistics.spread > RepeatabilityLimit}

\* The response with the statistics is encoded before the event is written, and
\* an infinite number cannot be encoded.
Stored == returned /\ \A name \in DOMAIN statistics : statistics[name] \in Floats

-----------------------------------------------------------------------------
(* What survives the rounding. *)

\* The exact total of the readings, and Repetitions times the exact absolute error.
Total == FoldFunction(LAMBDA v, total : v + total, 0, readings)
TrueError == Distance(Total, Repetitions * reference)

\* A size whose first multiples are numbers: a power of two is one.
Sizes == {q \in Floats : q > 0 /\ \A k \in 1 .. Repetitions : k * q \in Floats}

Successor(f) == Min({h \in Floats : f < h})

\* How far apart neighbouring numbers are, at most, up to the last of these multiples.
Gap(q) ==
  LET below == {f \in Floats : -(Repetitions * q) <= f /\ f < Repetitions * q}
  IN  Max({Successor(f) - f : f \in below})

Scales == {[size |-> q, gap |-> Gap(q)] : q \in Sizes}

Covers(scale) ==
  /\ Distance(reference, 0) <= scale.size
  /\ \A i \in 1 .. Repetitions : Distance(readings[i], 0) <= scale.size

\* Half a gap for the mean, the error, and each addition: twice Repetitions times what
\* the absolute error can be off by.
Slack(scale) == 3 * Repetitions * scale.gap

\* A stored judgement is the right one but for the rounding, whatever the order of the
\* readings.  A finding about repeatability is never wrong: two readings do lie farther
\* apart than the limit, and readings that lie the next number apart are found.  A
\* finding about the mean can be wrong, either way, no farther from its limit than one
\* and a half gaps.
JudgementWithinRounding ==
  Stored =>
    /\ IF "repeatability" \in Compare
       THEN \E i, j \in 1 .. Repetitions : readings[i] - readings[j] > RepeatabilityLimit
       ELSE \A i, j \in 1 .. Repetitions : \A more \in Floats :
              more > RepeatabilityLimit => readings[i] - readings[j] < more
    /\ \A scale \in Scales :
         Covers(scale) =>
           /\ IF "absolute_error" \in Compare
              THEN 2 * TrueError + Slack(scale) > 2 * Repetitions * AbsoluteTolerance
              ELSE 2 * TrueError - Slack(scale) <= 2 * Repetitions * AbsoluteTolerance
           /\ IF "relative_error" \in Compare
              THEN (2 * TrueError + Slack(scale)) * One
                     > 2 * Repetitions * RelativeTolerance * Distance(reference, 0)
              ELSE \A more \in Floats :
                     more > RelativeTolerance /\ reference # 0 =>
                       (2 * TrueError - Slack(scale)) * One
                         < 2 * Repetitions * more * Distance(reference, 0)

\* A set without findings vouches for every one of its readings, not only for
\* their mean: none is farther from the standard point than the two limits
\* together and two gaps of rounding allow.
PassingReadingsNear ==
  Stored /\ Compare = {} =>
    \A scale \in Scales :
      Covers(scale) =>
        \A i \in 1 .. Repetitions :
          Distance(readings[i], reference)
            <= AbsoluteTolerance + RepeatabilityLimit + 2 * scale.gap

=============================================================================
