CONSTANTS
  k1 = k1
  Batches = {b1}
  Keys = {k1, k2, k3}
  Commands = {create, act}
  CreateBatch = create
  Bodies = {x}
  CreationKey <- OneCreationKey
  AppendFailures = {"line"}
  ScanLimit = 4
  MaxEvents = 3
SPECIFICATION Spec
SYMMETRY Symmetry
CHECK_DEADLOCK FALSE
INVARIANT SequenceIncreases
