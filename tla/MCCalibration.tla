--------------------------- MODULE MCCalibration ---------------------------
(***************************************************************************)
(* Small instances of the calibration workflow.  The sets are sets of      *)
(* model values named in each cfg.                                         *)
(***************************************************************************)
EXTENDS Views, TLC

\* Every sensor covers every point.
WideRanges == {Points}

\* A sensor covers every point or a single one: some profiles do not fit.
MixedRanges == {Points} \cup {{p} : p \in Points}

\* Nothing in the specification tells the members of these sets apart.
Symmetry ==
  Permutations(Batches) \cup Permutations(Codes) \cup Permutations(Points)
    \cup Permutations(Actors)

=============================================================================
