CONSTANTS
  Floats <- FourBits
  Infinite = 32
  One = 4
  Lowest = 3
  Highest = 11
  SensorRange <- SomeRange
  Repetitions = 3
  AbsoluteTolerance = 1
  RelativeTolerance = 2
  RepeatabilityLimit = 2
SPECIFICATION Spec
CHECK_DEADLOCK FALSE
INVARIANTS
  JudgementWithinRounding
  PassingReadingsNear
