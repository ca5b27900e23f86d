CONSTANTS
  Batches = {b1}
  Codes = {c1, c2}
  Points = {p1, p2}
  Actors = {a1, a2}
  Kinds = {k1}
  Problems = {q1}
  Ranges <- WideRanges
  Nobody = nobody
  MaxRevision = 2
SPECIFICATION Spec
SYMMETRY Symmetry
CHECK_DEADLOCK FALSE
INVARIANTS
  EvidenceSound
  NeverWedged
  ReviewableIsCovered
  CredentialVerifies
