SPECIFICATION LineSpec
CONSTANTS
  BufSize = 16
  Checksum <- Checksum8
  Packets <- AllPackets
  Noise <- ChangedBits
  MaxPackets = 3
  MaxFaults = 1
INVARIANTS LineTypeOK HandledIsWhole OverrunOnlyAtZero DeliveredAsSent LossIsBounded ChecksumIsRemainder
PROPERTIES HeadersAreTrue
CHECK_DEADLOCK FALSE
