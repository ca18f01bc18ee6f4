SPECIFICATION FairSpec
CONSTANTS
  NBridges = 2
  MaxQueueSize = 2
  MaxEventAge = 500
  PollTimeout = 600
  Answering = {1}
  MaxEvents = 3
INVARIANTS TypeOK
PROPERTIES RestartLosesOnlyOverdue EveryHandlerLives FirstBridgeServed
