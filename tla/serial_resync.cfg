SPECIFICATION LineSpec
CONSTANTS
  BufSize = 16
  Checksum <- Checksum8
  Packets <- WeakPackets
  Noise <- ChangedBits
  MaxPackets = 4
  MaxFaults = 1
INVARIANTS Resyncs
CHECK_DEADLOCK FALSE
