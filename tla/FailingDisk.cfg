CONSTANTS
  k1 = k1
  Batches = {b1, b2}
  Keys = {k1, k2, k3}
  Commands = {create, act}
  CreateBatch = create
  Bodies = {x, y}
  CreationKey <- OneCreationKey
  AppendFailures = {"line", "torn"}
  ScanLimit = 3
  MaxEvents = 4
SPECIFICATION Spec
SYMMETRY Symmetry
CHECK_DEADLOCK FALSE
INVARIANTS
  AnsweredOnce
  NoLostUpdate
  MemoryFollowsEvents
  AnsweredIsOnDisk
  RestartPossible
  DiskAgreesWithMemory
  ReadsAgree
PROPERTIES
  ImplementsCommandLog
