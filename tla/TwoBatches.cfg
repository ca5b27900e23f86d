CONSTANTS
  Batches = {b1, b2}
  Codes = {c1}
  Points = {p1, p2}
  Actors = {a1, a2}
  Kinds = {k1}
  Problems = {}
  Ranges <- WideRanges
  Nobody = nobody
  MaxRevision = 2
SPECIFICATION Spec
SYMMETRY Symmetry
CHECK_DEADLOCK FALSE
INVARIANTS
  SeparationOfDuties
  VerificationSound
PROPERTIES
  BatchIsolation
  ImplementsRelease
