SPECIFICATION FairSpec
CONSTANTS
  MaxQueueSize = 2
  MaxEventAge = 1
  RequestSize = 1
  Pcbs = {1}
  FirstReport = 1
  MaxReport = 2
  MaxPosts = 1
  MaxClock = 1
PROPERTIES ConnectRestarted
