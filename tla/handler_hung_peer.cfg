SPECIFICATION HungPeerSpec
CONSTANTS
  MaxQueueSize = 2
  MaxEventAge = 1
  RequestSize = 1
  Fds = {3}
  MaxPosts = 2
  MaxClock = 3
PROPERTIES QueueReleased
CHECK_DEADLOCK FALSE
