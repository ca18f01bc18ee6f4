SPECIFICATION FairSpec
CONSTANTS
  LedTime = 2
  HalfRange = 4
  MaxLag = 1
  RxSize = 3
  MaxTelegrams = 3
  MaxFaults = 2
INVARIANTS TypeOK LedGoesOut
PROPERTIES FifoSpec WholeIsForwarded BufferDrains
CHECK_DEADLOCK FALSE
