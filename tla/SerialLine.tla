----------------------------- MODULE SerialLine -----------------------------
(***************************************************************************)
(* enocean_serial at the end of a serial line: the EnOcean module sends    *)
(* packets one after the other, and on the way some bytes are lost or      *)
(* changed, or noise in a pause is taken for a byte.  The receiver has no  *)
(* timeout, so the length of the pauses does not matter.                   *)
(***************************************************************************)
EXTENDS EnoceanSerial, SequencesExt

CONSTANTS
  Packets,      \* packets the EnOcean module sends, each a sequence of bytes
  Noise,        \* bytes that faults put on the line
  MaxPackets,   \* bound: packets sent
  MaxFaults     \* bound: faults of the line

ASSUME LineAssumption ==
  /\ \A p \in Packets : p \in Seq(Byte) /\ Len(p) > 1 + HeaderSize /\ Head(p) = Sync
  /\ Noise \subseteq Byte
  /\ MaxPackets \in Nat /\ MaxFaults \in Nat

VARIABLES
  sent,         \* history: the packets sent, with the number of faults in each
  left,         \* the bytes of the last of them that are still to come
  delivered     \* history: each event handled, with the packet on the line
                \* and whether what is made of the event is that packet

vars == <<receiver, sent, left, delivered>>

LineInit == Init /\ sent = <<>> /\ left = <<>> /\ delivered = <<>>

Faults == FoldLeft(LAMBDA sum, s : sum + s.faults, 0, sent)

SendPacket(p) ==
  /\ left = <<>>
  /\ Len(sent) < MaxPackets
  /\ sent' = Append(sent, [packet |-> p, faults |-> 0])
  /\ left' = p
  /\ UNCHANGED <<receiver, delivered>>

RadioErp1 == 1  \* the type of packets that map() looks into

\* The event has the bytes of packet p, and map(), which reads event_ at fixed places
\* however long the packet is, sees nothing else.
IsPacket(p) ==
  /\ <<Sync>> \o handled' = p
  /\ p[1 + 4] = RadioErp1 =>
       \A i \in 1 .. MapReads : i \in 1 .. Len(front') /\ front'[i] = p[1 + HeaderSize + i]

\* The receiver gets byte b while the last packet is on the line.
Receive(b) ==
  /\ Push(b)
  /\ delivered' =
       IF handled' = <<>> THEN delivered
       ELSE Append(delivered, [packet |-> Len(sent), same |-> IsPacket(Last(sent).packet)])

Transmit ==
  /\ left # <<>>
  /\ Receive(Head(left))
  /\ left' = Tail(left)
  /\ UNCHANGED sent

Fault ==
  /\ left # <<>>
  /\ Faults < MaxFaults
  /\ sent' = [sent EXCEPT ![Len(sent)].faults = @ + 1]

LoseByte == Fault /\ left' = Tail(left) /\ UNCHANGED <<receiver, delivered>>

ChangeByte(b) == Fault /\ b # Head(left) /\ left' = Tail(left) /\ Receive(b)

\* In the pause before the last packet.
AddByte(b) == Fault /\ left = Last(sent).packet /\ UNCHANGED left /\ Receive(b)

LineNext ==
  \/ \E p \in Packets : SendPacket(p)
  \/ Transmit
  \/ LoseByte
  \/ \E b \in Noise : ChangeByte(b) \/ AddByte(b)

LineSpec == LineInit /\ [][LineNext]_vars
-----------------------------------------------------------------------------
(* Properties.                                                             *)

LineTypeOK ==
  /\ TypeOK
  /\ left # <<>> => IsSuffix(left, Last(sent).packet)
  /\ \A k \in 1 .. Len(delivered) : delivered[k].packet \in 1 .. Len(sent)

\* The checksums catch every fault of the bound: what is handled is a packet
\* as it was sent, in the order sent and none twice.  event_ is never cleared, yet
\* what map() reads of it comes from that packet and no earlier one.
DeliveredAsSent ==
  \A k \in 1 .. Len(delivered) :
    /\ delivered[k].same
    /\ \A j \in 1 .. k - 1 : delivered[j].packet < delivered[k].packet

Complete(n) == n < Len(sent) \/ (n = Len(sent) /\ left = <<>>)
IsDelivered(n) == \E k \in 1 .. Len(delivered) : delivered[k].packet = n
Header(p) == SubSeq(p, 2, 1 + HeaderSize)
Body(p) == SubSeq(p, 2 + HeaderSize, Len(p))

\* Packets whose header announces what follows it, and that fit.  A radio telegram
\* has all that map() reads.
GoodPackets ==
  {p \in Packets :
     /\ TotalSize(Header(p)) = Len(Body(p)) /\ Len(Body(p)) <= BufSize
     /\ Checksum(Header(p)) = 0 /\ Checksum(Body(p)) = 0
     /\ p[1 + 4] = RadioErp1 => Len(Body(p)) > MapReads}
Good(n) == Complete(n) /\ sent[n].faults = 0 /\ sent[n].packet \in GoodPackets

\* A sync byte so close to the end that a header begun there ends in the next
\* packet.
HidesSync(p) == \E k \in Len(p) - HeaderSize + 1 .. Len(p) : p[k] = Sync

\* Packets that do not announce more than they have, if what they announce is
\* accepted at all.
Honest(p) ==
  TotalSize(Header(p)) \in 1 .. Len(Body(p)) \/ TotalSize(Header(p)) > BufSize

\* The checksum of the header, enocean_serial.cpp:58-72, is all that tells one
\* from other bytes after a 0x55: a header is accepted only where the packet on
\* the line has it, whatever the faults and the data look like.
HeaderIsTrue ==
  state = "wait_header" /\ state' = "wait_data"
  => LET p == Last(sent).packet
     IN  hdr' = Header(p) /\ Len(left') = Len(Body(p))
HeadersAreTrue == [][HeaderIsTrue]_vars

\* A fault costs at most the packet it hits and the one after it, unless the
\* end of that one looks like the beginning of another: push() does not look
\* again at bytes it has taken for a header that turns out to be none.  And
\* unless bytes were announced that do not come, 65536 of them or more than
\* the packet has, or so many of one packet are lost that they swallow the next.
LossIsBounded ==
  \A n \in 2 .. Len(sent) :
    /\ sent[n - 1].faults = 0 /\ ~HidesSync(sent[n - 1].packet)
    /\ Good(n)
    /\ \A k \in 1 .. n : Honest(sent[k].packet)
    /\ \A k \in 2 .. n : sent[k - 1].faults <= Len(sent[k].packet)
    => IsDelivered(n)

\* enocean_serial.cpp:80, "trying to resync": however the receiver got out of
\* step, it is in step again after two packets that arrive intact.
Resyncs ==
  \A n \in 3 .. Len(sent) : Good(n - 2) /\ Good(n - 1) /\ Good(n) => IsDelivered(n)
=============================================================================
