SPECIFICATION FairSpec
CONSTANTS
  MaxQueueSize = 4
  MaxEventAge = 1
  RequestSize = 2
  Fds = {3, 4}
  MaxPosts = 6
  MaxClock = 3
INVARIANTS TypeOK BufferIsRequest NoSocketLeak
PROPERTIES LossIsJustified FifoSpec LifeSpec EventuallyHandled
CHECK_DEADLOCK FALSE
