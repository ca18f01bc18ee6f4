SPECIFICATION FairSpec
CONSTANTS
  NBridges = 2
  MaxQueueSize = 1
  MaxEventAge = 500
  PollTimeout = 600
  Answering = {1, 2}
  MaxEvents = 1
PROPERTIES EveryBridgeServed
