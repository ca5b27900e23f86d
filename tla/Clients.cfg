CONSTANTS
  Creator = c0
  People = {c0, c1, c2}
  Bodies = {c0, c1, c2}
  Batches = {b1}
  Shared = b1
  Keys <- ClientKeys
  CreationKey <- DerivedKey
  Commands = {create, change}
  CreateBatch = create
  Change = change
  AppendFailures = {"line", "torn"}
  ScanLimit = 5
  MaxEvents = 5
SPECIFICATION ClientsSpec
CHECK_DEADLOCK FALSE
INVARIANTS
  EffectiveOnce
  RefusedHasNoEffect
  RefusalsBounded
PROPERTIES
  EveryoneServed
