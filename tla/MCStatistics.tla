---------------------------- MODULE MCStatistics ----------------------------
(***************************************************************************)
(* A small instance of the statistics: numbers of four significant bits,   *)
(* one apart up to 16 and two apart above, the largest being 30.           *)
(***************************************************************************)
EXTENDS Statistics

CONSTANTS Lowest, Highest  \* of the sensor's range, the first below zero

Positive == (0 .. 16) \cup {2 * f : f \in 9 .. 15}

FourBits == Positive \cup {-f : f \in Positive}

SomeRange == {f \in FourBits : -Lowest <= f /\ f <= Highest}

=============================================================================
