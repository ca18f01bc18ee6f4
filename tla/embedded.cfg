SPECIFICATION FairSpec
CONSTANTS
  MaxQueueSize = 2
  MaxEventAge = 1
  RequestSize = 2
  Pcbs = {1, 2}
  FirstReport = 1
  MaxReport = 2
  MaxPosts = 4
  MaxClock = 2
INVARIANTS TypeOK OneConnection PcbIsLive RecursionBounded
PROPERTIES FifoSpec EventuallyHandled
