CONSTANTS
  MaxId = 3
  MaxTime = 2
  Unset = unset
  Ids <- SomeIds
  Stations = {s1}
  Times <- SomeTimes
  Filters <- SomeFilters
  Limits = {1, 2}
SPECIFICATION FairSpec
CHECK_DEADLOCK FALSE
INVARIANTS
  NothingSkipped
PROPERTIES
  PagesInOrder
  TraversalEnds
