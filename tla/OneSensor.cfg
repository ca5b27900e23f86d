CONSTANTS
  Batches = {b1}
  Codes = {c1}
  Points = {p1, p2}
  Actors = {a1, a2}
  Kinds = {k1}
  Problems = {q1}
  Ranges <- MixedRanges
  Nobody = nobody
  MaxRevision = 3
SPECIFICATION Spec
SYMMETRY Symmetry
CHECK_DEADLOCK FALSE
INVARIANTS
  TypeOK
  AcceptedProjectionsValidate
  InheritedEvidencePasses
  FindingsFollowEvidence
  TasksFollowEvidence
  ReviewProtocol
  AdviceCanBeFollowed
  ReadinessAgreesWithCommands
  NoBlockersMeansReviewable
  RetestCountsAgree
PROPERTIES
  HistoryKept
