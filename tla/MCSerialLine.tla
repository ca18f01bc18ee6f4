---------------------------- MODULE MCSerialLine ----------------------------
(* SerialLine for TLC, with packets of an EnOcean module and its checksum. *)
EXTENDS SerialLine, Crc8

\* The top left button of a switch is pressed.
Press ==
  <<85, 0, 7, 7, 1, 122, 246, 48, 254, 240, 18, 52, 48, 1, 255, 255, 255, 255, 64, 0, 141>>

\* A switch with 0x55 in its address is released.
Release ==
  <<85, 0, 7, 7, 1, 122, 246, 0, 254, 85, 18, 52, 32, 1, 255, 255, 255, 255, 66, 0, 54>>

\* The press, received with -85 dBm.
WeakPress ==
  <<85, 0, 7, 7, 1, 122, 246, 48, 254, 240, 18, 52, 48, 1, 255, 255, 255, 255, 85, 0, 155>>

\* A response, the shortest packet.
Response == <<85, 0, 1, 0, 2, 101, 0, 0>>

\* Headers that announce more than the buffer holds: 31 and 65536 bytes.
TooBig == <<85, 0, 30, 0, 1, 137, 0>>
FarTooBig == <<85, 255, 255, 0, 1, 253, 0>>

AllPackets == {Press, Release, WeakPress, Response, TooBig, FarTooBig}
WeakPackets == {WeakPress}

\* Every entry of the table is a remainder, and so is crc8::checksum() of a
\* header that is complete.
TableIsRemainders == \A b \in Byte : Checksum8(<<b>>) = Remainder8(<<b>>)
ChecksumIsRemainder ==
  TableIsRemainders /\ (Len(hdr) = HeaderSize => Remainder8(hdr) = 0)

ChangedBits == {0, 85}
=============================================================================
