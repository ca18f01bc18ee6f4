-------------------------- MODULE SerialLineProofs --------------------------
(***************************************************************************)
(* What push() guarantees for every stream of bytes, every size of the     *)
(* buffer below 65536 and every checksum function; that the receiver at    *)
(* the end of a line is that receiver; and what it makes of a line without *)
(* faults.                                                                 *)
(***************************************************************************)
EXTENDS SerialLine, SequenceTheorems, TLAPS

USE DEF HeaderSize

IInv == TypeOK /\ OverrunOnlyAtZero /\ HandledIsWhole

\* All that is used of bytes.
LEMMA ByteType == \A b \in Byte : b \in Nat
  BY DEF Byte

\* All that most steps need to know of 65536.
LEMMA Uint16Type == Uint16 \in Nat /\ Uint16 > 512
  BY SMT DEF Uint16

\* total_size() of a whole header is a uint16_t.
LEMMA TotalSizeType ==
  ASSUME NEW h \in Seq(Byte), Len(h) = HeaderSize
  PROVE  TotalSize(h) \in 0 .. Uint16 - 1
<1>1. h[1] \in Byte /\ h[2] \in Byte /\ h[3] \in Byte
  OBVIOUS
<1>2. h[1] \in Nat /\ h[2] \in Nat /\ h[3] \in Nat
  BY <1>1, ByteType
<1>3. h[1] * 256 + h[2] + h[3] + 1 \in Nat
  BY <1>2
<1> QED
  BY <1>3, Uint16Type DEF TotalSize

\* The counter of a uint16_t.
LEMMA DecrementedValue ==
  ASSUME receiveSize \in 0 .. Uint16 - 1
  PROVE  /\ Decremented \in 0 .. Uint16 - 1
         /\ receiveSize > 0 => Decremented = receiveSize - 1
         /\ receiveSize = 0 => Decremented = Uint16 - 1
  BY Uint16Type DEF Decremented

\* An event can be taken apart again into its header and its data.
LEMMA TakenApart ==
  ASSUME NEW h \in Seq(Byte), NEW d \in Seq(Byte), Len(h) = HeaderSize, d # <<>>
  PROVE  /\ h \o d \in Seq(Byte)
         /\ Len(h \o d) = HeaderSize + Len(d)
         /\ SubSeq(h \o d, 1, HeaderSize) = h
         /\ SubSeq(h \o d, HeaderSize + 1, Len(h \o d)) = d
<1>1. h \o d \in Seq(Byte) /\ Len(h \o d) = HeaderSize + Len(d)
  <2>1. h \o d \in Seq(Byte) /\ Len(h \o d) = Len(h) + Len(d)
    BY ConcatProperties
  <2> QED
    BY <2>1
<1>2. Len(d) \in Nat /\ Len(d) > 0
  BY LenProperties, EmptySeq
<1>3. SubSeq(h \o d, 1, HeaderSize) = SubSeq(h, 1, HeaderSize)
  BY SubSeqOfConcat1, 1 \in 1 .. Len(h), HeaderSize \in 1 .. Len(h)
<1>4. SubSeq(h \o d, HeaderSize + 1, Len(h \o d)) = SubSeq(d, 1, Len(d))
  <2>1. HeaderSize + 1 \in Len(h) + 1 .. Len(h) + Len(d)
    BY <1>2
  <2>2. Len(h \o d) \in Len(h) + 1 .. Len(h) + Len(d)
    BY <1>1, <1>2
  <2>3. \A m, n \in Len(h) + 1 .. Len(h) + Len(d) :
          SubSeq(h \o d, m, n) = SubSeq(d, m - Len(h), n - Len(h))
    BY SubSeqOfConcat2
  <2>4. HeaderSize + 1 - Len(h) = 1 /\ Len(h \o d) - Len(h) = Len(d)
    BY <1>1, <1>2
  <2> QED
    BY <2>1, <2>2, <2>3, <2>4
<1>5. SubSeq(h, 1, HeaderSize) = h /\ SubSeq(d, 1, Len(d)) = d
  BY SubSeqFull
<1> QED
  BY <1>1, <1>3, <1>4, <1>5

\* A packet of which nothing has been received yet does not contradict any buffer.
LEMMA BeginsLikeNothing ==
  ASSUME NEW f, NEW d, BeginsLike(f, d)
  PROVE  BeginsLike(f, <<>>)
  BY EmptySeq DEF BeginsLike

\* A byte stored behind the data received so far continues it.
LEMMA StoredIsData ==
  ASSUME BeginsLike(front, data), data \in Seq(Byte), NEW b \in Byte, StoredInFront(b)
  PROVE  BeginsLike(front', data) /\ BeginsLike(front', Append(data, b))
<1>1. /\ front \in Seq(Byte) /\ Len(front) \in Nat /\ Len(front) <= MapReads
      /\ Len(data) \in Nat /\ MapReads \in Nat
      /\ \A i \in 1 .. MapReads : i <= Len(data) => i <= Len(front) /\ front[i] = data[i]
  BY DEF BeginsLike, MapReads
<1>2. /\ Len(Append(data, b)) = Len(data) + 1 /\ Append(data, b)[Len(data) + 1] = b
      /\ \A i \in 1 .. Len(data) : Append(data, b)[i] = data[i]
  BY AppendProperties
<1>3. CASE Len(data) >= MapReads
  <2>1. front' = front
    BY <1>3 DEF StoredInFront
  <2> QED
    BY <1>1, <1>2, <1>3, <2>1 DEF BeginsLike
<1>4. CASE Len(data) < MapReads /\ Len(data) < Len(front)
  <2>1. front' = [front EXCEPT ![Len(data) + 1] = b]
    BY <1>1, <1>4 DEF StoredInFront
  <2>2. /\ front' \in Seq(Byte) /\ Len(front') = Len(front) /\ front'[Len(data) + 1] = b
        /\ \A i \in 1 .. Len(data) : front'[i] = front[i]
    BY <1>1, <1>4, <2>1, Len(data) + 1 \in 1 .. Len(front), ExceptSeq
  <2> QED
    BY <1>1, <1>2, <1>4, <2>2 DEF BeginsLike
<1>5. CASE Len(data) < MapReads /\ Len(data) = Len(front)
  <2>1. front' = Append(front, b)
    BY <1>1, <1>5 DEF StoredInFront
  <2>2. /\ front' \in Seq(Byte) /\ Len(front') = Len(front) + 1
        /\ front'[Len(front) + 1] = b
        /\ \A i \in 1 .. Len(front) : front'[i] = front[i]
    BY <1>1, <2>1, AppendProperties
  <2> QED
    BY <1>1, <1>2, <1>5, <2>2 DEF BeginsLike
<1>6. Len(data) < MapReads => Len(data) <= Len(front)
  BY <1>1
<1> QED
  BY <1>1, <1>3, <1>4, <1>5, <1>6

\* Initially nothing has been received.
LEMMA InitEstablishesIInv == Init => IInv
<1> SUFFICES ASSUME Init PROVE IInv
  OBVIOUS
<1>1. BeginsLike(front, data)
  BY EmptySeq DEF Init, BeginsLike, MapReads
<1> QED
  BY <1>1, SerialAssumption, Uint16Type, EmptySeq
     DEF Init, IInv, TypeOK, SizesAgree, OverrunOnlyAtZero, HandledIsWhole

\* A byte while waiting for the sync byte.
LEMMA WaitSyncKeepsIInv ==
  ASSUME IInv, NEW b \in Byte, WaitSync(b)
  PROVE  IInv'
<1>1. /\ state = "wait_sync" /\ handled' = <<>> /\ hdr' = hdr /\ data' = data
      /\ hdr \in Seq(Byte) /\ hdr = <<>>
      /\ data \in Seq(Byte) /\ Len(data) <= BufSize
      /\ BeginsLike(front', data')
      /\ receiveSize \in 0 .. Uint16 - 1
  BY DEF IInv, TypeOK, SizesAgree, WaitSync
<1>2. \/ state' = "wait_header" /\ receiveSize' = HeaderSize
      \/ state' = "wait_sync" /\ receiveSize' = receiveSize
  BY <1>1 DEF WaitSync
<1>3. SizesAgree' /\ receiveSize' \in 0 .. Uint16 - 1
  BY <1>1, <1>2, EmptySeq, Uint16Type DEF SizesAgree
<1>4. TypeOK'
  BY <1>1, <1>2, <1>3, EmptySeq DEF TypeOK
<1> QED
  BY <1>1, <1>2, <1>4 DEF IInv, OverrunOnlyAtZero, HandledIsWhole

\* A byte of the header.
LEMMA WaitHeaderKeepsIInv ==
  ASSUME IInv, NEW b \in Byte, WaitHeader(b)
  PROVE  IInv'
<1> DEFINE header == Append(hdr, b)
<1>1. /\ state = "wait_header" /\ handled' = <<>>
      /\ hdr \in Seq(Byte) /\ receiveSize \in 1 .. Uint16 - 1
      /\ Len(hdr) + receiveSize = HeaderSize
      /\ data \in Seq(Byte) /\ Len(data) <= BufSize
      /\ BeginsLike(front', data) /\ BeginsLike(front', <<>>)
  BY BeginsLikeNothing DEF IInv, TypeOK, SizesAgree, WaitHeader
<1>2. header \in Seq(Byte) /\ Len(header) = Len(hdr) + 1 /\ Len(hdr) \in Nat
  BY <1>1, AppendProperties, LenProperties
<1>3. Decremented = receiveSize - 1
  BY <1>1, DecrementedValue
<1>4. HandledIsWhole'
  BY <1>1 DEF HandledIsWhole
<1>5. CASE Decremented # 0
  <2>1. /\ hdr' = header /\ receiveSize' = receiveSize - 1
        /\ state' = "wait_header" /\ data' = data
    BY <1>1, <1>3, <1>5 DEF WaitHeader
  <2> HIDE DEF header
  <2>2. SizesAgree' /\ receiveSize' \in 0 .. Uint16 - 1
    <3>1. Len(header) + (receiveSize - 1) = HeaderSize /\ receiveSize - 1 > 0
      BY <1>1, <1>2, <1>3, <1>5
    <3>2. receiveSize - 1 \in 0 .. Uint16 - 1
      BY <1>1, <3>1, Uint16Type
    <3>3. SizesAgree'
      BY <2>1, <3>1 DEF SizesAgree
    <3> QED
      BY <2>1, <3>2, <3>3
  <2>3. TypeOK'
    BY <1>1, <1>2, <2>1, <2>2, EmptySeq DEF TypeOK
  <2> QED
    BY <1>4, <2>1, <2>3 DEF IInv, OverrunOnlyAtZero
<1>6. CASE Decremented = 0
  <2> HIDE DEF header
  <2>1. EndOfHeader(header) /\ Len(header) = HeaderSize
    BY <1>1, <1>2, <1>3, <1>6 DEF WaitHeader, header
  <2>2. TotalSize(header) \in 0 .. Uint16 - 1
    BY <1>2, <2>1, TotalSizeType
  <2>3. \/ Forget /\ receiveSize' \in 0 .. Uint16 - 1
        \/ /\ Checksum(header) = 0 /\ TotalSize(header) <= BufSize
           /\ receiveSize' = TotalSize(header)
           /\ state' = "wait_data" /\ hdr' = header /\ data' = <<>>
    BY <2>1, <2>2, SerialAssumption, Uint16Type DEF EndOfHeader
  <2>4. CASE Forget /\ receiveSize' \in 0 .. Uint16 - 1
    <3>1. TypeOK'
      BY <1>1, <2>4, EmptySeq, SerialAssumption, Uint16Type DEF Forget, TypeOK, SizesAgree
    <3> QED
      BY <1>4, <2>4, <3>1 DEF Forget, IInv, OverrunOnlyAtZero
  <2>5. CASE /\ Checksum(header) = 0 /\ TotalSize(header) <= BufSize
             /\ receiveSize' = TotalSize(header)
             /\ state' = "wait_data" /\ hdr' = header /\ data' = <<>>
    <3>1. SizesAgree'
      BY <2>1, <2>2, <2>5, EmptySeq DEF SizesAgree
    <3>2. TypeOK'
      BY <1>1, <1>2, <2>2, <2>5, <3>1, EmptySeq, SerialAssumption, Uint16Type DEF TypeOK
    <3> QED
      BY <1>4, <2>5, <3>2 DEF IInv, OverrunOnlyAtZero
  <2> QED
    BY <2>3, <2>4, <2>5
<1> QED
  BY <1>5, <1>6

\* A byte of the data.  The sum of the bytes received and to go is what keeps
\* the buffer from running over before the last byte: it does only when
\* nothing was announced.
LEMMA WaitDataKeepsIInv ==
  ASSUME IInv, NEW b \in Byte, WaitData(b)
  PROVE  IInv'
<1> DEFINE bytes == Append(data, b)
<1>1. /\ state = "wait_data"
      /\ hdr \in Seq(Byte) /\ Len(hdr) = HeaderSize /\ Checksum(hdr) = 0
      /\ receiveSize \in 0 .. Uint16 - 1
      /\ data \in Seq(Byte) /\ Len(data) <= BufSize /\ TotalSize(hdr) <= BufSize
      /\ \/ Len(data) + receiveSize = TotalSize(hdr) /\ receiveSize > 0
         \/ Len(data) + receiveSize \in {0, Uint16} /\ TotalSize(hdr) = 0
  BY DEF IInv, TypeOK, SizesAgree, WaitData
<1>2. /\ bytes \in Seq(Byte) /\ Len(bytes) = Len(data) + 1 /\ bytes # <<>>
      /\ Len(data) \in Nat
  BY <1>1, AppendProperties, LenProperties
<1>3. BeginsLike(front', data) /\ BeginsLike(front', bytes) /\ BeginsLike(front', <<>>)
  BY StoredIsData, BeginsLikeNothing DEF IInv, TypeOK, WaitData
<1>4. TotalSize(hdr) \in 0 .. Uint16 - 1
  BY <1>1, TotalSizeType
<1>5. CASE Len(data) = BufSize
  <2>1. /\ state' = "overrun" /\ handled' = <<>>
        /\ hdr' = hdr /\ data' = data /\ receiveSize' = receiveSize
    BY <1>5 DEF WaitData
  <2>2. TotalSize(hdr) = 0
    BY <1>1, <1>4, <1>5, SerialAssumption, Uint16Type
  <2>3. TypeOK'
    BY <1>1, <1>3, <2>1, EmptySeq DEF TypeOK, SizesAgree
  <2> QED
    BY <2>1, <2>2, <2>3 DEF IInv, OverrunOnlyAtZero, HandledIsWhole
<1>6. CASE Len(data) # BufSize /\ Decremented = 0
  <2>1. Forget /\ receiveSize' = 0
        /\ handled' = IF Checksum(bytes) = 0 THEN hdr \o bytes ELSE <<>>
    BY <1>1, <1>6 DEF WaitData, EndOfData
  <2>2. Len(bytes) = TotalSize(hdr)
    <3>1. receiveSize = 1
      BY <1>1, <1>6, DecrementedValue, Uint16Type
    <3>2. Len(data) + 1 # 0 /\ Len(data) + 1 # Uint16
      BY <1>1, <1>2, <1>6, SerialAssumption, Uint16Type
    <3> QED
      BY <1>1, <1>2, <3>1, <3>2
  <2> HIDE DEF bytes
  <2>3. /\ hdr \o bytes \in Seq(Byte)
        /\ Len(hdr \o bytes) = HeaderSize + Len(bytes)
        /\ SubSeq(hdr \o bytes, 1, HeaderSize) = hdr
        /\ SubSeq(hdr \o bytes, HeaderSize + 1, Len(hdr \o bytes)) = bytes
    BY <1>1, <1>2, TakenApart
  <2>4. HandledIsWhole'
    BY <1>1, <2>1, <2>2, <2>3 DEF HandledIsWhole
  <2>5. TypeOK'
    BY <1>1, <1>3, <2>1, <2>3, EmptySeq, SerialAssumption, Uint16Type
       DEF Forget, TypeOK, SizesAgree
  <2> QED
    BY <2>1, <2>4, <2>5 DEF Forget, IInv, OverrunOnlyAtZero
<1>7. CASE Len(data) # BufSize /\ Decremented # 0
  <2>1. /\ data' = bytes /\ receiveSize' = Decremented /\ handled' = <<>>
        /\ state' = state /\ hdr' = hdr
    BY <1>7 DEF WaitData
  <2>2. \/ Len(data') + receiveSize' = TotalSize(hdr) /\ receiveSize' > 0
        \/ Len(data') + receiveSize' \in {0, Uint16} /\ TotalSize(hdr) = 0
    <3>1. CASE receiveSize > 0
      BY <1>1, <1>2, <1>7, <2>1, <3>1, DecrementedValue
    <3>2. CASE receiveSize = 0
      BY <1>1, <1>2, <1>7, <2>1, <3>2, DecrementedValue, SerialAssumption, Uint16Type
    <3> QED
      BY <1>1, <3>1, <3>2
  <2>3. TypeOK'
    BY <1>1, <1>2, <1>3, <1>7, <2>1, <2>2, DecrementedValue, EmptySeq, SerialAssumption, Uint16Type
       DEF TypeOK, SizesAgree
  <2> QED
    BY <1>1, <2>1, <2>3 DEF IInv, OverrunOnlyAtZero, HandledIsWhole
<1> QED
  BY <1>5, <1>6, <1>7

\* push() of any byte, and doing nothing, keep the invariant.
LEMMA StepKeepsIInv == IInv /\ [Next]_receiver => IInv'
<1> SUFFICES ASSUME IInv, [Next]_receiver PROVE IInv'
  OBVIOUS
<1>1. CASE UNCHANGED receiver
  BY <1>1 DEF receiver, IInv, TypeOK, SizesAgree, OverrunOnlyAtZero, HandledIsWhole
<1>2. ASSUME NEW b \in Byte, WaitSync(b) PROVE IInv'
  BY <1>2, WaitSyncKeepsIInv
<1>3. ASSUME NEW b \in Byte, WaitHeader(b) PROVE IInv'
  BY <1>3, WaitHeaderKeepsIInv
<1>4. ASSUME NEW b \in Byte, WaitData(b) PROVE IInv'
  BY <1>4, WaitDataKeepsIInv
<1> QED
  BY <1>1, <1>2, <1>3, <1>4 DEF Next, Push

\* The inductive invariant holds for every stream.
LEMMA Invariance == Spec => []IInv
  BY InitEstablishesIInv, StepKeepsIInv, PTL DEF Spec

\* The bytes received and the bytes to go always make up the announced size.
THEOREM ReceiverTypeOK == Spec => []TypeOK
<1>1. IInv => TypeOK
  BY DEF IInv
<1> QED
  BY Invariance, <1>1, PTL

\* No stream makes push() write behind its buffer but one with a header that
\* announces 65536 bytes.
THEOREM OnlyZeroOverruns == Spec => []OverrunOnlyAtZero
<1>1. IInv => OverrunOnlyAtZero
  BY DEF IInv
<1> QED
  BY Invariance, <1>1, PTL

\* Whatever the stream, handle_event() only gets whole events with both
\* checksums right.
THEOREM WholeEvents == Spec => []HandledIsWhole
<1>1. IInv => HandledIsWhole
  BY DEF IInv
<1> QED
  BY Invariance, <1>1, PTL
-----------------------------------------------------------------------------
(* The receiver at the end of a line.                                      *)

\* s is the end of p, byte by byte.
IsRest(s, p) ==
  /\ Len(s) <= Len(p)
  /\ \A i \in 1 .. Len(s) : s[i] = p[Len(p) - Len(s) + i]

Sent == [packet : Packets, faults : Nat]
Delivery == [packet : Nat, same : BOOLEAN]

\* What the histories are made of, and what is still to come.
LineInv ==
  /\ left \in Seq(Byte)
  /\ sent \in Seq(Sent)
  /\ delivered \in Seq(Delivery)
  /\ left # <<>> => sent # <<>> /\ IsRest(left, sent[Len(sent)].packet)
  /\ \A k \in 1 .. Len(delivered) : delivered[k].packet \in 1 .. Len(sent)

\* All that is used of a packet.
LEMMA PacketType ==
  \A p \in Packets : /\ p \in Seq(Byte) /\ Len(p) \in Nat /\ Len(p) > 6
                     /\ p # <<>> /\ p[1] = Sync
<1> SUFFICES ASSUME NEW p \in Packets
             PROVE  /\ p \in Seq(Byte) /\ Len(p) \in Nat /\ Len(p) > 6
                    /\ p # <<>> /\ p[1] = Sync
  OBVIOUS
<1>1. p \in Seq(Byte) /\ Len(p) \in Nat /\ Len(p) > 6 /\ Head(p) = Sync
  BY LineAssumption
<1> QED
  BY <1>1, EmptySeq

\* The last packet, while some of it is to come.
LEMMA LastPacket ==
  ASSUME LineInv, left # <<>>
  PROVE  /\ Len(sent) \in Nat \ {0}
         /\ sent[Len(sent)] \in Sent /\ sent[Len(sent)].packet \in Packets
         /\ sent[Len(sent)].faults \in Nat
         /\ Len(left) \in Nat \ {0}
<1>1. sent \in Seq(Sent) /\ sent # <<>> /\ left \in Seq(Byte)
  BY DEF LineInv
<1>2. Len(sent) \in Nat \ {0} /\ Len(left) \in Nat \ {0}
  BY <1>1, EmptySeq
<1>3. sent[Len(sent)] \in Sent
  BY <1>1, <1>2
<1> QED
  BY <1>2, <1>3 DEF Sent

\* Taking the next byte leaves a shorter end of the same packet.
LEMMA TailIsRest ==
  ASSUME NEW p \in Seq(Byte), left \in Seq(Byte), left # <<>>, IsRest(left, p),
         left' = Tail(left)
  PROVE  /\ IsRest(left', p)
         /\ left' \in Seq(Byte) /\ Len(left') = Len(left) - 1
         /\ Len(left) \in 1 .. Len(p)
         /\ Head(left) = p[Len(p) - Len(left) + 1] /\ Head(left) \in Byte
<1>1. /\ Len(left) \in Nat \ {0} /\ Len(p) \in Nat
      /\ left' \in Seq(Byte) /\ Len(left') = Len(left) - 1
      /\ \A i \in 1 .. Len(left) - 1 : left'[i] = left[i + 1]
      /\ Head(left) = left[1] /\ Head(left) \in Byte
  BY HeadTailProperties, EmptySeq
<1>2. ASSUME NEW i \in 1 .. Len(left')
      PROVE  left'[i] = p[Len(p) - Len(left') + i]
  <2>1. i + 1 \in 1 .. Len(left) /\ i \in 1 .. Len(left) - 1
    BY <1>1
  <2>2. left'[i] = p[Len(p) - Len(left) + (i + 1)]
    BY <1>1, <2>1 DEF IsRest
  <2>3. Len(p) - Len(left) + (i + 1) = Len(p) - Len(left') + i
    BY <1>1
  <2> QED
    BY <2>2, <2>3
<1>3. left[1] = p[Len(p) - Len(left) + 1]
  BY <1>1, 1 \in 1 .. Len(left) DEF IsRest
<1> QED
  BY <1>1, <1>2, <1>3 DEF IsRest

\* A byte received may end an event, which is then recorded.
LEMMA ReceiveStep ==
  ASSUME LineInv, left # <<>>, NEW b \in Byte, Receive(b)
  PROVE  /\ delivered' \in Seq(Delivery)
         /\ \A k \in 1 .. Len(delivered') : delivered'[k].packet \in 1 .. Len(sent)
<1>1. Len(sent) \in Nat \ {0} /\ delivered \in Seq(Delivery) /\ Len(delivered) \in Nat
  BY LastPacket DEF LineInv
<1>2. PICK same \in BOOLEAN :
        \/ delivered' = delivered
        \/ delivered' = Append(delivered, [packet |-> Len(sent), same |-> same])
  BY DEF Receive, IsPacket
<1>3. CASE delivered' = delivered
  BY <1>1, <1>3 DEF LineInv
<1>4. CASE delivered' = Append(delivered, [packet |-> Len(sent), same |-> same])
  <2> DEFINE d == [packet |-> Len(sent), same |-> same]
  <2>1. d \in Delivery /\ d.packet \in 1 .. Len(sent)
    BY <1>1 DEF Delivery
  <2> HIDE DEF d
  <2>2. /\ delivered' \in Seq(Delivery) /\ Len(delivered') = Len(delivered) + 1
        /\ \A k \in 1 .. Len(delivered) : delivered'[k] = delivered[k]
        /\ delivered'[Len(delivered) + 1] = d
    BY <1>1, <1>4, <2>1, AppendProperties DEF d
  <2> QED
    BY <1>1, <2>1, <2>2 DEF LineInv
<1> QED
  BY <1>2, <1>3, <1>4

\* A fault changes nothing of the packets but the count of faults of the last.
LEMMA FaultStep ==
  ASSUME LineInv, Fault
  PROVE  /\ left # <<>>
         /\ sent' \in Seq(Sent) /\ Len(sent') = Len(sent)
         /\ sent'[Len(sent)].packet = sent[Len(sent)].packet
         /\ sent[Len(sent)].faults \in Nat
         /\ sent'[Len(sent)].faults = sent[Len(sent)].faults + 1
         /\ \A k \in 1 .. Len(sent) - 1 : sent'[k] = sent[k]
<1>1. left # <<>> /\ sent' = [sent EXCEPT ![Len(sent)].faults = @ + 1]
  BY DEF Fault
<1>2. /\ Len(sent) \in Nat \ {0} /\ Len(sent) \in 1 .. Len(sent)
      /\ sent[Len(sent)] \in Sent /\ sent[Len(sent)].faults \in Nat
      /\ sent \in Seq(Sent)
  BY <1>1, LastPacket DEF LineInv
<1> DEFINE e == [sent[Len(sent)] EXCEPT !.faults = @ + 1]
<1>3. /\ e \in Sent /\ e.packet = sent[Len(sent)].packet
      /\ e.faults = sent[Len(sent)].faults + 1
  BY <1>2 DEF Sent
<1>4. sent' = [sent EXCEPT ![Len(sent)] = e]
  BY <1>1
<1> HIDE DEF e
<1>5. /\ sent' \in Seq(Sent) /\ Len(sent') = Len(sent) /\ sent'[Len(sent)] = e
      /\ \A k \in 1 .. Len(sent) - 1 : sent'[k] = sent[k]
  BY <1>2, <1>3, <1>4, ExceptSeq
<1> QED
  BY <1>1, <1>2, <1>3, <1>5

LEMMA SendPacketKeepsLineInv ==
  ASSUME LineInv, NEW p \in Packets, SendPacket(p)
  PROVE  LineInv'
<1> DEFINE e == [packet |-> p, faults |-> 0]
<1>1. e \in Sent /\ e.packet = p
  BY DEF Sent
<1>2. sent \in Seq(Sent) /\ sent' = Append(sent, e)
  BY DEF LineInv, SendPacket
<1> HIDE DEF e
<1>3. /\ sent' \in Seq(Sent) /\ Len(sent') = Len(sent) + 1 /\ Len(sent) \in Nat
      /\ sent'[Len(sent')] = e /\ sent' # <<>>
  BY <1>1, <1>2, AppendProperties
<1>4. /\ left' = p /\ p \in Seq(Byte) /\ Len(p) \in Nat
      /\ delivered' = delivered
  BY PacketType DEF SendPacket
<1>5. IsRest(left', p)
  BY <1>4 DEF IsRest
<1>6. \A k \in 1 .. Len(delivered) : delivered[k].packet \in 1 .. Len(sent')
  BY <1>3 DEF LineInv
<1> QED
  BY <1>1, <1>3, <1>4, <1>5, <1>6 DEF LineInv

\* Losing, changing or transmitting a byte takes it from what is to come; an
\* added byte does not.
LEMMA ByteKeepsLineInv ==
  ASSUME LineInv,
         \/ Transmit
         \/ LoseByte
         \/ \E b \in Noise : ChangeByte(b) \/ AddByte(b)
  PROVE  LineInv'
<1> DEFINE p == sent[Len(sent)].packet
<1>1. left # <<>> /\ left \in Seq(Byte) /\ sent \in Seq(Sent) /\ IsRest(left, p)
  BY DEF LineInv, Transmit, LoseByte, ChangeByte, AddByte, Fault
<1>2. p \in Packets /\ p \in Seq(Byte) /\ Len(sent) \in Nat \ {0}
  BY <1>1, LastPacket, PacketType
<1>3. sent' \in Seq(Sent) /\ Len(sent') = Len(sent) /\ sent'[Len(sent)].packet = p
  <2>1. CASE Transmit
    BY <1>1, <2>1 DEF Transmit
  <2>2. CASE Fault
    BY <2>2, FaultStep
  <2> QED
    BY <2>1, <2>2 DEF LoseByte, ChangeByte, AddByte
<1>4. left' = Tail(left) \/ left' = left
  BY DEF Transmit, LoseByte, ChangeByte, AddByte
<1>5. left' \in Seq(Byte) /\ IsRest(left', p)
  <2> HIDE DEF p
  <2>1. CASE left' = Tail(left)
    BY <1>1, <1>2, <2>1, TailIsRest
  <2>2. CASE left' = left
    BY <1>1, <2>2 DEF IsRest
  <2> QED
    BY <1>4, <2>1, <2>2
<1>6. sent' # <<>>
  BY <1>2, <1>3, EmptySeq
<1>7. /\ delivered' \in Seq(Delivery)
      /\ \A k \in 1 .. Len(delivered') : delivered'[k].packet \in 1 .. Len(sent)
  <2>1. CASE \E b \in Byte : Receive(b)
    BY <1>1, <2>1, ReceiveStep
  <2>2. CASE delivered' = delivered
    BY <2>2 DEF LineInv
  <2>3. Head(left) \in Byte
    BY <1>1, HeadTailProperties
  <2>4. \/ Receive(Head(left)) \/ delivered' = delivered
        \/ \E b \in Noise : Receive(b)
    BY DEF Transmit, LoseByte, ChangeByte, AddByte
  <2>5. Noise \subseteq Byte
    BY LineAssumption
  <2> QED
    BY <2>1, <2>2, <2>3, <2>4, <2>5
<1>8. IsRest(left', sent'[Len(sent')].packet)
  BY <1>3, <1>5 DEF IsRest
<1> QED
  BY <1>3, <1>5, <1>6, <1>7, <1>8 DEF LineInv

LEMMA LineInvariance == LineSpec => []LineInv
<1>1. LineInit => LineInv
  BY EmptySeq DEF LineInit, LineInv
<1>2. LineInv /\ [LineNext]_vars => LineInv'
  <2> SUFFICES ASSUME LineInv, [LineNext]_vars PROVE LineInv'
    OBVIOUS
  <2>1. CASE UNCHANGED vars
    BY <2>1 DEF vars, LineInv, IsRest
  <2>2. CASE LineNext
    BY <2>2, SendPacketKeepsLineInv, ByteKeepsLineInv DEF LineNext
  <2> QED
    BY <2>1, <2>2
<1> QED
  BY <1>1, <1>2, PTL DEF LineSpec

\* Whatever happens on the line, push() gets a byte or is not called.
THEOREM LineImplementsReceiver == LineSpec => Spec
<1>1. LineInit => Init
  BY DEF LineInit
<1>2. LineInv /\ [LineNext]_vars => [Next]_receiver
  <2> SUFFICES ASSUME LineInv, [LineNext]_vars PROVE [Next]_receiver
    OBVIOUS
  <2>1. CASE UNCHANGED vars
    BY <2>1 DEF vars
  <2>2. ASSUME NEW p \in Packets, SendPacket(p) PROVE UNCHANGED receiver
    BY <2>2 DEF SendPacket
  <2>3. CASE Transmit
    <3>1. Head(left) \in Byte
      BY <2>3 DEF LineInv, Transmit
    <3> QED
      BY <2>3, <3>1 DEF Transmit, Receive, Next
  <2>4. CASE LoseByte
    BY <2>4 DEF LoseByte
  <2>5. ASSUME NEW b \in Noise, ChangeByte(b) \/ AddByte(b) PROVE Next
    BY <2>5, LineAssumption DEF ChangeByte, AddByte, Receive, Next
  <2> QED
    BY <2>1, <2>2, <2>3, <2>4, <2>5 DEF LineNext
<1> QED
  BY <1>1, <1>2, LineInvariance, PTL DEF LineSpec, Spec

\* A sequence that is the end of another byte by byte is its suffix.
LEMMA EndIsSuffix ==
  ASSUME NEW p \in Seq(Byte), left \in Seq(Byte), IsRest(left, p)
  PROVE  IsSuffix(left, p)
<1> DEFINE s == Reverse(left)  t == Reverse(p)
<1>1. Len(left) \in Nat /\ Len(p) \in Nat /\ Len(left) <= Len(p)
  BY DEF IsRest
<1>2. /\ s \in Seq(Byte) /\ Len(s) = Len(left)
      /\ \A i \in 1 .. Len(left) : s[i] = left[Len(left) - i + 1]
  BY <1>1 DEF Reverse
<1>3. /\ t \in Seq(Byte) /\ Len(t) = Len(p)
      /\ \A i \in 1 .. Len(p) : t[i] = p[Len(p) - i + 1]
  BY <1>1 DEF Reverse
<1> HIDE DEF s, t
<1>4. ASSUME NEW i \in 1 .. Len(left) PROVE s[i] = t[i]
  <2>1. Len(left) - i + 1 \in 1 .. Len(left) /\ i \in 1 .. Len(p)
    BY <1>1
  <2>2. left[Len(left) - i + 1] = p[Len(p) - Len(left) + (Len(left) - i + 1)]
    BY <2>1 DEF IsRest
  <2>3. Len(p) - Len(left) + (Len(left) - i + 1) = Len(p) - i + 1
    BY <1>1
  <2> QED
    BY <1>2, <1>3, <2>1, <2>2, <2>3
<1>5. SubSeq(s, 1, Len(s)) = SubSeq(t, 1, Len(s))
  <2>1. \A i \in 1 .. Len(s) : s[i] = t[i]
    BY <1>2, <1>4
  <2> QED
    BY <1>1, <1>2, <1>3, <2>1
<1> QED
  BY <1>1, <1>2, <1>3, <1>5 DEF IsSuffix, IsPrefix, s, t

\* The bytes received and the bytes to go always make up the announced size,
\* on a line too, what is still to come is the end of the last packet, and
\* every event is handled while a packet is on the line.
THEOREM LineTypes == LineSpec => []LineTypeOK
<1>1. TypeOK /\ LineInv => LineTypeOK
  <2> SUFFICES ASSUME TypeOK, LineInv PROVE LineTypeOK
    OBVIOUS
  <2>1. ASSUME left # <<>> PROVE IsSuffix(left, Last(sent).packet)
    <3>1. sent[Len(sent)].packet \in Seq(Byte)
      BY <2>1, LastPacket, PacketType
    <3> QED
      BY <2>1, <3>1, EndIsSuffix DEF LineInv, Last
  <2> QED
    BY <2>1 DEF LineTypeOK, LineInv
<1> QED
  BY <1>1, LineInvariance, LineImplementsReceiver, ReceiverTypeOK, PTL
-----------------------------------------------------------------------------
(* Without faults the receiver keeps in step.                              *)

\* Every packet so far is one that fits, and arrived as it was sent.
FaultFree ==
  \A n \in 1 .. Len(sent) : sent[n].faults = 0 /\ sent[n].packet \in GoodPackets

\* The first n packets have been handled, each once and as it was sent.
AllDelivered(n) ==
  /\ Len(delivered) = n
  /\ \A k \in 1 .. n : delivered[k] = [packet |-> k, same |-> TRUE]

\* Of packet p all but the last rest bytes have been received.
Reading(p, rest) ==
  LET n == Len(p) - rest
  IN  /\ n = 0 => state = "wait_sync"
      /\ n \in 1 .. 5 => state = "wait_header" /\ hdr = SubSeq(p, 2, n)
      /\ n >= 6 => /\ state = "wait_data" /\ hdr = SubSeq(p, 2, 6)
                   /\ data = SubSeq(p, 7, n) /\ receiveSize = rest

InStep ==
  FaultFree =>
    /\ left = <<>> => state = "wait_sync" /\ AllDelivered(Len(sent))
    /\ left # <<>> => /\ AllDelivered(Len(sent) - 1)
                      /\ Reading(sent[Len(sent)].packet, Len(left))

\* The next byte makes a longer part of the packet.
LEMMA NextByte ==
  ASSUME NEW p \in Seq(Byte), NEW m \in 1 .. Len(p), NEW n \in m - 1 .. Len(p) - 1
  PROVE  /\ SubSeq(p, m, n) \in Seq(Byte) /\ Len(SubSeq(p, m, n)) = n - m + 1
         /\ Append(SubSeq(p, m, n), p[n + 1]) = SubSeq(p, m, n + 1)
<1>1. /\ Len(p) \in Nat /\ m \in Int /\ n \in Int /\ n + 1 \in m .. Len(p)
      /\ p[n + 1] \in Byte
  OBVIOUS
<1>2. SubSeq(p, m, n) \in Seq(Byte) /\ Len(SubSeq(p, m, n)) = n - m + 1
  <2>1. \A i \in m .. n : p[i] \in Byte
    BY <1>1
  <2> QED
    BY <1>1, <2>1, SubSeqProperties
<1>3. SubSeq(p, m, n + 1) = SubSeq(p, m, (n + 1) - 1) \o <<p[n + 1]>>
  BY <1>1, SubSeqRecursiveSecond
<1>4. Append(SubSeq(p, m, n), p[n + 1]) = SubSeq(p, m, n) \o <<p[n + 1]>>
  BY <1>1, <1>2, AppendIsConcat
<1> QED
  BY <1>1, <1>2, <1>3, <1>4

\* A good packet is a sync byte, a header and as much data as it announces.
LEMMA GoodPacketFacts ==
  ASSUME NEW p \in GoodPackets
  PROVE  /\ p \in Packets /\ p \in Seq(Byte) /\ Len(p) \in Nat /\ Len(p) > 6
         /\ Header(p) = SubSeq(p, 2, 6) /\ Body(p) = SubSeq(p, 7, Len(p))
         /\ Header(p) \in Seq(Byte) /\ Body(p) \in Seq(Byte)
         /\ Len(Body(p)) = Len(p) - 6
         /\ TotalSize(Header(p)) = Len(p) - 6 /\ Len(p) - 6 <= BufSize
         /\ Checksum(Header(p)) = 0 /\ Checksum(Body(p)) = 0
         /\ <<Sync>> \o (Header(p) \o Body(p)) = p
         /\ p[1 + 4] = RadioErp1 => Len(p) - 6 > MapReads
<1>1. p \in Packets /\ p \in Seq(Byte) /\ Len(p) \in Nat /\ Len(p) > 6 /\ p[1] = Sync
  BY PacketType DEF GoodPackets
<1>2. Header(p) = SubSeq(p, 2, 6) /\ Body(p) = SubSeq(p, 7, Len(p))
  BY DEF Header, Body
<1>3. \A i \in 1 .. Len(p) : p[i] \in Byte
  BY <1>1
<1>4. /\ SubSeq(p, 2, 6) \in Seq(Byte) /\ SubSeq(p, 7, Len(p)) \in Seq(Byte)
      /\ Len(SubSeq(p, 7, Len(p))) = Len(p) - 6
  <2>1. (\A i \in 2 .. 6 : p[i] \in Byte) /\ (\A i \in 7 .. Len(p) : p[i] \in Byte)
    BY <1>1, <1>3
  <2>2. SubSeq(p, 2, 6) \in Seq(Byte)
    BY <2>1, SubSeqProperties
  <2>3. /\ SubSeq(p, 7, Len(p)) \in Seq(Byte)
        /\ Len(SubSeq(p, 7, Len(p))) = Len(p) - 6
    BY <1>1, <2>1, SubSeqProperties
  <2> QED
    BY <2>2, <2>3
<1>5. SubSeq(p, 2, 6) \o SubSeq(p, 7, Len(p)) = SubSeq(p, 2, Len(p))
  <2>1. 2 \in 1 .. Len(p) + 1 /\ 6 \in 2 - 1 .. Len(p) /\ Len(p) \in 6 .. Len(p)
    BY <1>1
  <2>2. SubSeq(p, 2, 6) \o SubSeq(p, 6 + 1, Len(p)) = SubSeq(p, 2, Len(p))
    BY <1>1, <2>1, ConcatAdjacentSubSeq
  <2> QED
    BY <2>2
<1>6. <<p[1]>> \o SubSeq(p, 2, Len(p)) = p
  <2>1. 1 \in 1 .. Len(p) /\ Len(p) \in 1 .. Len(p)
    BY <1>1
  <2>2. SubSeq(p, 1, Len(p)) = <<p[1]>> \o SubSeq(p, 1 + 1, Len(p))
    BY <1>1, <2>1, SubSeqRecursiveFirst
  <2>3. SubSeq(p, 1, Len(p)) = p
    BY <1>1, SubSeqFull
  <2> QED
    BY <2>2, <2>3
<1>7. /\ TotalSize(Header(p)) = Len(Body(p)) /\ Len(Body(p)) <= BufSize
      /\ Checksum(Header(p)) = 0 /\ Checksum(Body(p)) = 0
  BY DEF GoodPackets
<1>8. p[1 + 4] = RadioErp1 => Len(Body(p)) > MapReads
  BY DEF GoodPackets
<1> QED
  BY <1>1, <1>2, <1>4, <1>5, <1>6, <1>7, <1>8

\* The next byte of a good packet but its last.
LEMMA ReadingOn ==
  ASSUME TypeOK, NEW p \in GoodPackets, NEW rest \in 2 .. Len(p), Reading(p, rest),
         Push(p[Len(p) - rest + 1])
  PROVE  Reading(p, rest - 1)' /\ handled' = <<>>
<1> DEFINE n == Len(p) - rest
           b == p[n + 1]
<1>1. /\ p \in Seq(Byte) /\ Len(p) \in Nat /\ Len(p) > 6 /\ p[1] = Sync
      /\ n \in 0 .. Len(p) - 2 /\ rest = Len(p) - n
      /\ Len(p) - (rest - 1) = n + 1
      /\ Len(p) - 6 <= BufSize
  BY GoodPacketFacts, PacketType
<1>2. /\ SizesAgree /\ receiveSize \in 0 .. Uint16 - 1 /\ Push(b)
  BY DEF TypeOK
<1> HIDE DEF n, b
<1>3. CASE n = 0
  <2>1. state = "wait_sync" /\ b = Sync /\ hdr = <<>>
    BY <1>1, <1>2, <1>3 DEF Reading, n, b, SizesAgree
  <2>2. state' = "wait_header" /\ hdr' = <<>> /\ handled' = <<>>
    BY <1>2, <2>1 DEF Push, WaitSync, WaitHeader, WaitData
  <2>3. SubSeq(p, 2, 1) = <<>>
    BY SubSeqEmpty
  <2> QED
    BY <1>1, <1>3, <2>2, <2>3 DEF Reading
<1>4. CASE n \in 1 .. 5
  <2>1. state = "wait_header" /\ hdr = SubSeq(p, 2, n)
    BY <1>1, <1>4 DEF Reading, n
  <2>2. /\ Len(hdr) = n - 1 /\ Append(hdr, b) = SubSeq(p, 2, n + 1)
    <3>1. 2 \in 1 .. Len(p) /\ n \in 2 - 1 .. Len(p) - 1
      BY <1>1, <1>4
    <3>2. Len(SubSeq(p, 2, n)) = n - 2 + 1
          /\ Append(SubSeq(p, 2, n), p[n + 1]) = SubSeq(p, 2, n + 1)
      BY <1>1, <3>1, NextByte
    <3> QED
      BY <1>4, <2>1, <3>2 DEF b
  <2>3. receiveSize = 6 - n /\ Decremented = 5 - n
    <3>1. receiveSize > 0 /\ Len(hdr) + receiveSize = 5
      BY <1>2, <2>1 DEF SizesAgree
    <3> QED
      BY <1>2, <1>4, <2>2, <3>1, DecrementedValue
  <2>4. WaitHeader(b)
    BY <1>2, <2>1 DEF Push, WaitSync, WaitData
  <2>5. CASE n # 5
    <3>1. state' = "wait_header" /\ hdr' = SubSeq(p, 2, n + 1) /\ handled' = <<>>
      <4>1. Decremented # 0
        BY <1>4, <2>3, <2>5
      <4> QED
        BY <2>1, <2>2, <2>4, <4>1, Zenon DEF WaitHeader
    <3> QED
      BY <1>1, <1>4, <2>5, <3>1 DEF Reading
  <2>6. CASE n = 5
    <3>1. EndOfHeader(Header(p)) /\ handled' = <<>>
      <4>1. Decremented = 0 /\ Append(hdr, b) = Header(p)
        BY <2>2, <2>3, <2>6, GoodPacketFacts
      <4> QED
        BY <2>4, <4>1, Zenon DEF WaitHeader
    <3>2. /\ state' = "wait_data" /\ hdr' = Header(p) /\ data' = <<>>
          /\ receiveSize' = Len(p) - 6
      BY <1>1, <3>1, GoodPacketFacts, SerialAssumption DEF EndOfHeader
    <3>3. SubSeq(p, 7, 6) = <<>> /\ Header(p) = SubSeq(p, 2, 6)
      BY SubSeqEmpty, GoodPacketFacts
    <3> QED
      BY <1>1, <2>6, <3>1, <3>2, <3>3 DEF Reading
  <2> QED
    BY <2>5, <2>6
<1>5. CASE n >= 6
  <2>1. /\ state = "wait_data" /\ hdr = SubSeq(p, 2, 6) /\ data = SubSeq(p, 7, n)
        /\ receiveSize = rest
    BY <1>1, <1>5 DEF Reading, n
  <2>2. Len(data) = n - 6 /\ Append(data, b) = SubSeq(p, 7, n + 1)
    <3>1. 7 \in 1 .. Len(p) /\ n \in 7 - 1 .. Len(p) - 1
      BY <1>1, <1>5
    <3>2. Len(SubSeq(p, 7, n)) = n - 7 + 1
          /\ Append(SubSeq(p, 7, n), p[n + 1]) = SubSeq(p, 7, n + 1)
      BY <1>1, <3>1, NextByte
    <3> QED
      BY <1>1, <1>5, <2>1, <3>2 DEF b
  <2>3. Decremented = rest - 1 /\ rest - 1 # 0 /\ Len(data) # BufSize
    <3>1. n - 6 < Len(p) - 6
      BY <1>1
    <3> QED
      BY <1>1, <1>2, <2>1, <2>2, <3>1, DecrementedValue, SerialAssumption
  <2>4. /\ data' = SubSeq(p, 7, n + 1) /\ receiveSize' = rest - 1
        /\ handled' = <<>> /\ state' = state /\ hdr' = hdr
    BY <1>2, <2>1, <2>2, <2>3 DEF Push, WaitSync, WaitHeader, WaitData
  <2> QED
    BY <1>1, <1>5, <2>1, <2>4 DEF Reading
<1> QED
  BY <1>1, <1>3, <1>4, <1>5

\* The last byte of a good packet.
LEMMA ReadingEnds ==
  ASSUME TypeOK, NEW p \in GoodPackets, Reading(p, 1), Push(p[Len(p)])
  PROVE  /\ state' = "wait_sync"
         /\ handled' = Header(p) \o Body(p) /\ handled' # <<>>
         /\ IsPacket(p)
<1>1. /\ p \in Seq(Byte) /\ Len(p) \in Nat /\ Len(p) > 6
      /\ Len(p) - 1 >= 6 /\ Len(p) - 6 <= BufSize
  BY GoodPacketFacts
<1>2. /\ state = "wait_data" /\ hdr = SubSeq(p, 2, 6)
      /\ data = SubSeq(p, 7, Len(p) - 1) /\ receiveSize = 1
  BY <1>1 DEF Reading
<1>3. Len(data) = Len(p) - 7 /\ Append(data, p[Len(p)]) = SubSeq(p, 7, Len(p))
  <2>1. 7 \in 1 .. Len(p) /\ Len(p) - 1 \in 7 - 1 .. Len(p) - 1
    BY <1>1
  <2>2. /\ Len(SubSeq(p, 7, Len(p) - 1)) = (Len(p) - 1) - 7 + 1
        /\ Append(SubSeq(p, 7, Len(p) - 1), p[(Len(p) - 1) + 1])
             = SubSeq(p, 7, (Len(p) - 1) + 1)
    BY <1>1, <2>1, NextByte
  <2> QED
    BY <1>1, <1>2, <2>2
<1>4. Decremented = 0 /\ Len(data) # BufSize
  BY <1>1, <1>2, <1>3, DecrementedValue, Uint16Type, SerialAssumption
<1>5. EndOfData(Body(p))
  BY <1>2, <1>3, <1>4, GoodPacketFacts DEF Push, WaitSync, WaitHeader, WaitData
<1>6. state' = "wait_sync" /\ handled' = Header(p) \o Body(p)
  BY <1>2, <1>5, GoodPacketFacts DEF EndOfData, Forget
<1>7. Header(p) \o Body(p) # <<>>
  <2>1. /\ Header(p) \in Seq(Byte) /\ Body(p) \in Seq(Byte)
        /\ Len(Body(p)) = Len(p) - 6
    BY GoodPacketFacts
  <2>2. Body(p) # <<>>
    BY <1>1, <2>1, EmptySeq
  <2> QED
    BY <2>1, <2>2, ConcatEqualIffEmpty
<1>8. ASSUME p[1 + 4] = RadioErp1, NEW i \in 1 .. MapReads
      PROVE  i \in 1 .. Len(front') /\ front'[i] = p[1 + HeaderSize + i]
  <2>1. BeginsLike(front', Append(data, p[Len(p)]))
    <3>1. StoredInFront(p[Len(p)])
      BY <1>2 DEF Push, WaitSync, WaitHeader, WaitData
    <3>2. p[Len(p)] \in Byte
      BY <1>1
    <3> QED
      BY <3>1, <3>2, StoredIsData DEF TypeOK
  <2>2. /\ Len(SubSeq(p, 7, Len(p))) = Len(p) - 6
        /\ i \in 1 .. Len(p) - 6 => SubSeq(p, 7, Len(p))[i] = p[7 + i - 1]
    <3>1. \A k \in 7 .. Len(p) : p[k] \in Byte
      BY <1>1
    <3> QED
      BY <1>1, <3>1, SubSeqProperties
  <2>3. Len(p) - 6 > MapReads /\ MapReads \in Nat
    BY <1>8, GoodPacketFacts DEF MapReads
  <2>4. i \in Nat /\ i \in 1 .. Len(p) - 6 /\ 7 + i - 1 = 1 + HeaderSize + i
    BY <1>1, <2>3
  <2> QED
    BY <1>3, <2>1, <2>2, <2>4 DEF BeginsLike
<1>9. IsPacket(p)
  BY <1>6, <1>8, GoodPacketFacts DEF IsPacket
<1> QED
  BY <1>6, <1>7, <1>9

\* One more event, that of packet n.
LEMMA DeliveredOneMore ==
  ASSUME NEW n \in Nat \ {0}, delivered \in Seq(Delivery), AllDelivered(n - 1),
         delivered' = Append(delivered, [packet |-> n, same |-> TRUE])
  PROVE  AllDelivered(n)'
<1> DEFINE d == [packet |-> n, same |-> TRUE]
<1>1. d \in Delivery /\ Len(delivered) = n - 1
  BY DEF Delivery, AllDelivered
<1> HIDE DEF d
<1>2. /\ Len(delivered') = Len(delivered) + 1
      /\ \A k \in 1 .. Len(delivered) : delivered'[k] = delivered[k]
      /\ delivered'[Len(delivered) + 1] = d
  BY <1>1, AppendProperties DEF d
<1>3. ASSUME NEW k \in 1 .. n PROVE delivered'[k] = [packet |-> k, same |-> TRUE]
  <2>1. CASE k = n
    BY <1>1, <1>2, <2>1 DEF d
  <2>2. CASE k \in 1 .. n - 1
    BY <1>1, <1>2, <2>2 DEF AllDelivered
  <2>3. k = n \/ k \in 1 .. n - 1
    OBVIOUS
  <2> QED
    BY <2>1, <2>2, <2>3
<1> QED
  BY <1>1, <1>2, <1>3 DEF AllDelivered

\* A byte transmitted.
LEMMA TransmitKeepsInStep ==
  ASSUME TypeOK, LineInv, InStep, Transmit, FaultFree
  PROVE  InStep'
<1> SUFFICES ASSUME NEW p, p = sent[Len(sent)].packet,
                    NEW n, n = Len(sent),
                    NEW rest, rest = Len(left)
             PROVE  InStep'
  OBVIOUS
<1>1. /\ left # <<>> /\ sent' = sent /\ left' = Tail(left) /\ left \in Seq(Byte)
      /\ n \in Nat \ {0} /\ rest \in Nat \ {0} /\ delivered \in Seq(Delivery)
  BY LastPacket DEF Transmit, LineInv
<1>2. p \in GoodPackets
  BY <1>1 DEF FaultFree
<1>3. AllDelivered(n - 1) /\ Reading(p, rest)
  BY <1>1 DEF InStep
<1>4. p \in Seq(Byte) /\ IsRest(left, p) /\ Len(p) \in Nat
  BY <1>1, <1>2, GoodPacketFacts DEF LineInv
<1>5. /\ left' \in Seq(Byte) /\ Len(left') = rest - 1 /\ rest \in 1 .. Len(p)
      /\ Head(left) = p[Len(p) - rest + 1]
  BY <1>1, <1>4, TailIsRest
<1>6. /\ Push(p[Len(p) - rest + 1])
      /\ delivered' =
           IF handled' = <<>> THEN delivered
           ELSE Append(delivered, [packet |-> n, same |-> IsPacket(p)])
  BY <1>5 DEF Transmit, Receive, Last
<1>7. CASE rest # 1
  <2>1. Reading(p, rest - 1)' /\ handled' = <<>>
    <3>1. rest \in 2 .. Len(p)
      BY <1>4, <1>5, <1>7
    <3>2. Reading(p, rest) /\ Push(p[Len(p) - rest + 1])
      BY <1>3, <1>6
    <3> QED
      BY <1>2, <3>1, <3>2, ReadingOn
  <2>2. left' # <<>> /\ AllDelivered(n - 1)'
    BY <1>1, <1>3, <1>5, <1>6, <1>7, <2>1, EmptySeq DEF AllDelivered
  <2> QED
    BY <1>1, <1>5, <2>1, <2>2 DEF InStep, Reading
<1>8. CASE rest = 1
  <2>1. Push(p[Len(p)])
    BY <1>4, <1>6, <1>8
  <2>2. state' = "wait_sync" /\ handled' # <<>> /\ IsPacket(p)
    BY <1>2, <1>3, <1>8, <2>1, ReadingEnds
  <2>3. delivered' = Append(delivered, [packet |-> n, same |-> TRUE])
    BY <1>2, <1>6, <2>2, GoodPacketFacts
  <2>4. AllDelivered(n)'
    BY <1>1, <1>3, <2>3, DeliveredOneMore
  <2>5. left' = <<>>
    BY <1>5, <1>8, EmptySeq
  <2> QED
    BY <1>1, <2>2, <2>4, <2>5 DEF InStep, AllDelivered
<1> QED
  BY <1>7, <1>8

LEMMA InStepInvariance == LineSpec => []InStep
<1>1. LineInit => InStep
  BY DEF LineInit, Init, InStep, AllDelivered
<1>2. TypeOK /\ LineInv /\ InStep /\ [LineNext]_vars => InStep'
  <2> SUFFICES ASSUME TypeOK, LineInv, InStep, [LineNext]_vars, FaultFree'
               PROVE  InStep'
    BY DEF InStep
  <2>1. CASE UNCHANGED vars
    BY <2>1 DEF vars, receiver, InStep, FaultFree, AllDelivered, Reading
  <2>2. ASSUME NEW p \in Packets, SendPacket(p) PROVE InStep'
    <3> DEFINE e == [packet |-> p, faults |-> 0]
    <3>1. /\ left = <<>> /\ left' = p /\ UNCHANGED <<receiver, delivered>>
          /\ sent \in Seq(Sent) /\ e \in Sent /\ e.packet = p
          /\ sent' = Append(sent, e) /\ p # <<>> /\ p \in Seq(Byte)
      BY <2>2, PacketType DEF SendPacket, LineInv, Sent
    <3> HIDE DEF e
    <3>2. PICK n \in Nat :
            /\ n = Len(sent) /\ Len(sent') = n + 1
            /\ \A k \in 1 .. n : sent'[k] = sent[k]
            /\ sent'[n + 1] = e
      BY <3>1, AppendProperties
    <3>3. FaultFree
      BY <3>2 DEF FaultFree
    <3>4. state = "wait_sync" /\ AllDelivered(n)
      BY <3>1, <3>2, <3>3 DEF InStep
    <3>5. AllDelivered(n)'
      BY <3>1, <3>4 DEF AllDelivered
    <3>6. Reading(p, Len(p))'
      <4>1. state' = "wait_sync" /\ Len(p) \in Nat
        BY <3>1, <3>4 DEF receiver
      <4> QED
        BY <4>1 DEF Reading
    <3>7. Len(sent') - 1 = n
      BY <3>2
    <3> QED
      BY <3>1, <3>2, <3>5, <3>6, <3>7 DEF InStep, AllDelivered, Reading
  <2>3. CASE Transmit
    <3>1. FaultFree
      BY <2>3 DEF Transmit, FaultFree
    <3> QED
      BY <2>3, <3>1, TransmitKeepsInStep
  <2>4. CASE Fault
    <3>1. /\ Len(sent') = Len(sent) /\ sent'[Len(sent)].faults # 0
          /\ Len(sent) \in Nat \ {0}
      BY <2>4, FaultStep, LastPacket DEF Fault
    <3> QED
      BY <3>1 DEF FaultFree
  <2> QED
    BY <2>1, <2>2, <2>3, <2>4 DEF LineNext, LoseByte, ChangeByte, AddByte
<1> QED
  BY <1>1, <1>2, LineInvariance, LineImplementsReceiver, ReceiverTypeOK, PTL
     DEF LineSpec

\* As long as the line makes no fault and sends packets that fit, every packet
\* that has arrived has been handled, just as it was sent, in the order sent
\* and once: push() is in the state for the next byte at every byte.  Of a radio
\* telegram map() sees its own bytes, whatever a longer packet left behind them.
THEOREM FaultFreeDelivery ==
  LineSpec =>
    [](FaultFree =>
         /\ DeliveredAsSent
         /\ \A n \in 1 .. Len(sent) : Complete(n) => IsDelivered(n))
<1>1. LineInv /\ InStep =>
        (FaultFree =>
           /\ DeliveredAsSent
           /\ \A n \in 1 .. Len(sent) : Complete(n) => IsDelivered(n))
  <2> SUFFICES ASSUME LineInv, InStep, FaultFree
               PROVE  /\ DeliveredAsSent
                      /\ \A n \in 1 .. Len(sent) : Complete(n) => IsDelivered(n)
    OBVIOUS
  <2>1. Len(sent) \in Nat /\ (left # <<>> => Len(sent) > 0)
    BY LastPacket DEF LineInv
  <2>2. PICK n \in Nat : /\ AllDelivered(n)
                         /\ \A k \in 1 .. Len(sent) : Complete(k) => k <= n
    BY <2>1 DEF InStep, Complete
  <2>3. DeliveredAsSent
    BY <2>2 DEF DeliveredAsSent, AllDelivered
  <2>4. ASSUME NEW k \in 1 .. Len(sent), Complete(k) PROVE IsDelivered(k)
    <3>1. k \in 1 .. n
      BY <2>1, <2>2, <2>4
    <3>2. k \in 1 .. Len(delivered) /\ delivered[k].packet = k
      BY <2>2, <3>1 DEF AllDelivered
    <3> QED
      BY <3>2 DEF IsDelivered
  <2> QED
    BY <2>3, <2>4
<1> QED
  BY <1>1, LineInvariance, InStepInvariance, PTL
-----------------------------------------------------------------------------
(* What faults cost.                                                       *)

\* No packet announces more than it has, or loses more than the next one has.
HonestUpTo(n) ==
  /\ \A k \in 1 .. n : Honest(sent[k].packet)
  /\ \A k \in 2 .. n : sent[k - 1].faults <= Len(sent[k].packet)

\* What the receiver waits for is on the line, but for bytes that were lost.
WaitsForRest ==
  HonestUpTo(Len(sent)) /\ state \in {"wait_data", "overrun"} =>
    /\ sent # <<>> /\ state = "wait_data" /\ TotalSize(hdr) # 0
    /\ receiveSize <= Len(left) + sent[Len(sent)].faults

Faultless(n) == sent[n].faults = 0

\* A header that was begun in a packet without faults began at a 0x55 in it.
HeaderBegunAtSync ==
  sent # <<>> /\ Faultless(Len(sent)) /\ state = "wait_header" =>
    LET p == sent[Len(sent)].packet
        n == Len(p) - Len(left)
    IN  Len(hdr) < n => p[n - Len(hdr)] = Sync

\* The premise of LossIsBounded.
Intact(n) ==
  /\ Faultless(n - 1) /\ ~HidesSync(sent[n - 1].packet)
  /\ Faultless(n) /\ sent[n].packet \in GoodPackets
  /\ HonestUpTo(n)

\* The packet on the line is being read from its first byte, those before it
\* have been handled.
IntactIsRead ==
  \A n \in 2 .. Len(sent) : Intact(n) =>
    IF n < Len(sent) \/ left = <<>> THEN IsDelivered(n)
    ELSE Reading(sent[n].packet, Len(left))

\* What any byte can do to a header or the data.
LEMMA PushEffect ==
  ASSUME TypeOK, OverrunOnlyAtZero', NEW b \in Byte, Push(b)
  PROVE  /\ state' \in {"wait_data", "overrun"} =>
              \/ /\ state = "wait_header" /\ state' = "wait_data"
                 /\ receiveSize' = TotalSize(hdr') /\ TotalSize(hdr') \in 0 .. BufSize
              \/ /\ state = "wait_data" /\ hdr' = hdr
                 /\ state' = "overrun" => TotalSize(hdr) = 0
                 /\ receiveSize > 0 /\ state' = "wait_data" => receiveSize' = receiveSize - 1
              \/ state = "overrun" /\ UNCHANGED receiver
         /\ state' = "wait_header" =>
              \/ state = "wait_sync" /\ b = Sync /\ hdr' = <<>>
              \/ state = "wait_header" /\ hdr' = Append(hdr, b)
<1>1. /\ receiveSize \in 0 .. Uint16 - 1 /\ hdr \in Seq(Byte) /\ SizesAgree
      /\ state \in {"wait_sync", "wait_header", "wait_data", "overrun"}
  BY DEF TypeOK
<1>2. CASE WaitSync(b)
  BY <1>1, <1>2 DEF WaitSync, SizesAgree
<1>3. CASE WaitHeader(b)
  <2> DEFINE header == Append(hdr, b)
  <2>1. state = "wait_header" /\ Len(hdr) + receiveSize = HeaderSize /\ receiveSize > 0
    BY <1>1, <1>3 DEF WaitHeader, SizesAgree
  <2> HIDE DEF header
  <2>2. CASE Decremented # 0
    BY <1>3, <2>1, <2>2, Zenon DEF WaitHeader
  <2>3. CASE Decremented = 0
    <3>1. EndOfHeader(header)
      BY <1>3, <2>3, Zenon DEF WaitHeader, header
    <3>2. header \in Seq(Byte) /\ Len(header) = HeaderSize
      BY <1>1, <2>1, <2>3, DecrementedValue, AppendProperties DEF header
    <3>3. TotalSize(header) \in Nat /\ BufSize \in Nat
      BY <3>2, TotalSizeType, SerialAssumption, Uint16Type
    <3>4. \/ state' = "wait_sync"
          \/ /\ state' = "wait_data" /\ hdr' = header
             /\ receiveSize' = TotalSize(header) /\ TotalSize(header) \in 0 .. BufSize
      BY <3>1, <3>3 DEF EndOfHeader, Forget
    <3> QED
      BY <2>1, <3>4
  <2> QED
    BY <2>2, <2>3
<1>4. CASE WaitData(b)
  <2>1. state = "wait_data"
    BY <1>4 DEF WaitData
  <2>2. CASE Len(data) = BufSize
    <3>1. state' = "overrun" /\ hdr' = hdr
      BY <1>4, <2>2 DEF WaitData
    <3> QED
      BY <2>1, <3>1 DEF OverrunOnlyAtZero
  <2>3. CASE Len(data) # BufSize /\ Decremented = 0
    <3>1. state' = "wait_sync"
      BY <1>4, <2>3 DEF WaitData, EndOfData, Forget
    <3> QED
      BY <3>1
  <2>4. CASE Len(data) # BufSize /\ Decremented # 0
    <3>1. state' = state /\ hdr' = hdr /\ receiveSize' = Decremented
      BY <1>4, <2>4 DEF WaitData
    <3> QED
      BY <1>1, <2>1, <3>1, DecrementedValue
  <2> QED
    BY <2>2, <2>3, <2>4
<1>5. CASE state = "overrun" /\ UNCHANGED receiver
  BY <1>5 DEF receiver
<1> QED
  BY <1>2, <1>3, <1>4, <1>5 DEF Push

\* So many bytes at most until push() looks for a sync byte again.
BytesToSync == IF state = "wait_header" THEN receiveSize + BufSize ELSE receiveSize
Receiving ==
  state = "wait_header" \/ (state = "wait_data" /\ TotalSize(hdr) # 0)

\* enocean_serial.cpp:80, "trying to resync", as far as it holds: push() has no
\* timeout, but whatever it receives after a 0x55, it waits for the next one
\* again after BufSize + HeaderSize bytes at most, if a header did not announce
\* 65536 bytes.
THEOREM BackInSync ==
  Spec => /\ [](Receiving => BytesToSync \in 1 .. BufSize + HeaderSize)
          /\ [][Receiving /\ Receiving' => BytesToSync' < BytesToSync]_receiver
<1>1. TypeOK /\ Receiving => BytesToSync \in 1 .. BufSize + HeaderSize
  <2> SUFFICES ASSUME TypeOK, Receiving
               PROVE  BytesToSync \in 1 .. BufSize + HeaderSize
    OBVIOUS
  <2>1. /\ receiveSize \in Nat /\ BufSize \in Nat
        /\ Len(hdr) \in Nat /\ Len(data) \in Nat /\ SizesAgree /\ HeaderSize = 5
    BY SerialAssumption, Uint16Type DEF TypeOK, HeaderSize
  <2>2. CASE state = "wait_header"
    <3>1. receiveSize \in 1 .. HeaderSize
      BY <2>1, <2>2 DEF SizesAgree
    <3> QED
      BY <2>1, <2>2, <3>1 DEF BytesToSync
  <2>3. CASE state = "wait_data" /\ TotalSize(hdr) # 0
    <3>1. TotalSize(hdr) \in Nat
      <4>1. hdr \in Seq(Byte) /\ Len(hdr) = HeaderSize
        BY <2>3 DEF TypeOK, SizesAgree
      <4> QED
        BY <4>1, TotalSizeType
    <3>2. receiveSize \in 1 .. BufSize
      BY <2>1, <2>3, <3>1 DEF SizesAgree
    <3> QED
      BY <2>1, <2>3, <3>2 DEF BytesToSync
  <2> QED
    BY <2>2, <2>3 DEF Receiving
<1>2. TypeOK /\ TypeOK' /\ OverrunOnlyAtZero' /\ [Next]_receiver
        => [Receiving /\ Receiving' => BytesToSync' < BytesToSync]_receiver
  <2> SUFFICES ASSUME TypeOK, TypeOK', OverrunOnlyAtZero', Next, Receiving, Receiving'
               PROVE  BytesToSync' < BytesToSync
    BY DEF receiver
  <2>1. PICK b \in Byte : Push(b)
    BY DEF Next
  <2>2. /\ receiveSize \in Nat /\ receiveSize' \in Nat /\ BufSize \in Nat /\ HeaderSize = 5
        /\ hdr \in Seq(Byte) /\ Len(hdr) \in Nat /\ SizesAgree /\ SizesAgree'
    BY SerialAssumption, Uint16Type DEF TypeOK, HeaderSize
  <2>3. CASE state' = "wait_header"
    <3>1. state = "wait_header" /\ hdr' = Append(hdr, b)
      BY <2>1, <2>3, PushEffect DEF Receiving
    <3>2. Len(hdr') = Len(hdr) + 1
      BY <2>2, <3>1, AppendProperties
    <3>3. receiveSize' = receiveSize - 1
      BY <2>2, <2>3, <3>1, <3>2 DEF SizesAgree
    <3> QED
      BY <2>2, <2>3, <3>1, <3>3 DEF BytesToSync
  <2>4. CASE state' = "wait_data" /\ TotalSize(hdr') # 0
    <3>1. \/ state = "wait_header" /\ receiveSize' \in 0 .. BufSize
          \/ state = "wait_data" /\ (receiveSize > 0 => receiveSize' = receiveSize - 1)
      BY <2>1, <2>4, PushEffect DEF Receiving
    <3>2. receiveSize > 0
      BY <2>2, <3>1 DEF Receiving, SizesAgree
    <3> QED
      BY <2>2, <2>4, <3>1, <3>2 DEF BytesToSync
  <2> QED
    BY <2>3, <2>4 DEF Receiving
<1> QED
  BY <1>1, <1>2, ReceiverTypeOK, OnlyZeroOverruns, PTL DEF Spec

\* A step of the line, but for a new packet: the next byte arrives or is lost,
\* another arrives for it, or one more.
LEMMA ByteStep ==
  ASSUME LineInv,
         \/ Transmit
         \/ LoseByte
         \/ \E b \in Noise : ChangeByte(b) \/ AddByte(b)
  PROVE  /\ left # <<>> /\ Len(sent) \in Nat \ {0} /\ Len(left) \in Nat \ {0}
         /\ Len(sent') = Len(sent)
         /\ sent'[Len(sent)].packet = sent[Len(sent)].packet
         /\ \A k \in 1 .. Len(sent) - 1 : sent'[k] = sent[k]
         /\ sent[Len(sent)].faults \in Nat
         /\ \/ UNCHANGED <<receiver, delivered>>
            \/ \E b \in Byte : Receive(b)
         /\ \/ /\ sent' = sent /\ Len(left') = Len(left) - 1
               /\ left' = Tail(left) /\ Receive(Head(left)) /\ Head(left) \in Byte
            \/ /\ sent'[Len(sent)].faults = sent[Len(sent)].faults + 1
               /\ Len(left') = Len(left) - 1
            \/ /\ sent'[Len(sent)].faults = sent[Len(sent)].faults + 1
               /\ Len(left') = Len(left) /\ \E b \in Byte : Receive(b)
<1>1. left # <<>> /\ left \in Seq(Byte)
  BY DEF LineInv, Transmit, LoseByte, ChangeByte, AddByte, Fault
<1>2. /\ Len(sent) \in Nat \ {0} /\ Len(left) \in Nat \ {0}
      /\ sent[Len(sent)].faults \in Nat
      /\ Len(Tail(left)) = Len(left) - 1 /\ Head(left) \in Byte
  BY <1>1, LastPacket, HeadTailProperties
<1>3. Noise \subseteq Byte
  BY LineAssumption
<1>4. CASE Transmit
  BY <1>1, <1>2, <1>4 DEF Transmit
<1>5. CASE Fault
  <2>1. /\ Len(sent') = Len(sent)
        /\ sent'[Len(sent)].packet = sent[Len(sent)].packet
        /\ \A k \in 1 .. Len(sent) - 1 : sent'[k] = sent[k]
        /\ sent'[Len(sent)].faults = sent[Len(sent)].faults + 1
    BY <1>5, FaultStep
  <2>2. CASE LoseByte
    BY <1>1, <1>2, <2>1, <2>2 DEF LoseByte
  <2>3. ASSUME NEW b \in Noise, ChangeByte(b)
        PROVE  Len(left') = Len(left) - 1 /\ \E c \in Byte : Receive(c)
    BY <1>2, <1>3, <2>3 DEF ChangeByte
  <2>4. ASSUME NEW b \in Noise, AddByte(b)
        PROVE  Len(left') = Len(left) /\ \E c \in Byte : Receive(c)
    BY <1>3, <2>4 DEF AddByte
  <2>5. CASE Transmit
    BY <1>4, <2>5
  <2> QED
    BY <1>1, <1>2, <2>1, <2>2, <2>3, <2>4, <2>5
<1> QED
  BY <1>4, <1>5 DEF LoseByte, ChangeByte, AddByte

\* A new packet changes nothing of those before it.
LEMMA PacketStep ==
  ASSUME LineInv, NEW p \in Packets, SendPacket(p)
  PROVE  /\ Len(sent) \in Nat /\ Len(sent') = Len(sent) + 1
         /\ \A k \in 1 .. Len(sent) : sent'[k] = sent[k]
         /\ sent'[Len(sent) + 1].packet = p /\ sent'[Len(sent) + 1].faults = 0
         /\ left = <<>> /\ left' = p
         /\ UNCHANGED <<state, hdr, data, receiveSize, handled, delivered>>
         /\ sent # <<>> => Len(sent) \in 1 .. Len(sent) /\ sent[Len(sent)].faults \in Nat
<1> DEFINE e == [packet |-> p, faults |-> 0]
<1>1. /\ sent \in Seq(Sent) /\ e \in Sent /\ sent' = Append(sent, e)
      /\ left = <<>> /\ left' = p
      /\ UNCHANGED <<state, hdr, data, receiveSize, handled, delivered>>
  BY DEF LineInv, Sent, SendPacket, receiver
<1> HIDE DEF e
<1>2. /\ Len(sent) \in Nat /\ Len(sent') = Len(sent) + 1
      /\ \A k \in 1 .. Len(sent) : sent'[k] = sent[k]
      /\ sent'[Len(sent) + 1] = e
  BY <1>1, AppendProperties
<1>3. ASSUME sent # <<>> PROVE Len(sent) \in 1 .. Len(sent) /\ sent[Len(sent)].faults \in Nat
  <2>1. Len(sent) \in 1 .. Len(sent)
    BY <1>1, <1>2, <1>3, EmptySeq
  <2>2. sent[Len(sent)] \in Sent
    BY <1>1, <2>1
  <2> QED
    BY <2>1, <2>2 DEF Sent
<1> QED
  BY <1>1, <1>2, <1>3 DEF e

\* What was said of the packets before the last does not change.
LEMMA HonestStays ==
  ASSUME NEW n \in Nat, Len(sent) \in Nat, n <= Len(sent),
         \A k \in 1 .. Len(sent) - 1 : sent'[k] = sent[k],
         n = Len(sent) /\ n > 0 => sent'[n].packet = sent[n].packet
  PROVE  HonestUpTo(n)' <=> HonestUpTo(n)
<1>1. \A k \in 1 .. n : sent'[k].packet = sent[k].packet
  BY Z3
<1>2. \A k \in 2 .. n : k - 1 \in 1 .. Len(sent) - 1 /\ k \in 1 .. n
  OBVIOUS
<1>3. \A k \in 1 .. n : Honest(sent'[k].packet) <=> Honest(sent[k].packet)
  BY <1>1
<1> QED
  BY <1>1, <1>2, <1>3 DEF HonestUpTo

\* A header is accepted where it is true, so what it announces is to come; and
\* what comes or gets lost counts.
LEMMA WaitsForRestStep ==
  ASSUME TypeOK, OverrunOnlyAtZero', LineInv, WaitsForRest,
         [LineNext]_vars, HeaderIsTrue \/ UNCHANGED vars
  PROVE  WaitsForRest'
<1>1. ASSUME \/ Transmit
             \/ LoseByte
             \/ \E b \in Noise : ChangeByte(b) \/ AddByte(b),
             HeaderIsTrue
      PROVE  WaitsForRest'
  <2>0. Len(sent') = Len(sent)
    BY <1>1, ByteStep
  <2> SUFFICES ASSUME HonestUpTo(Len(sent))', state' \in {"wait_data", "overrun"},
                      NEW n, n = Len(sent), NEW p, p = sent[n].packet,
                      NEW f, f = sent[n].faults
               PROVE  /\ sent' # <<>> /\ state' = "wait_data" /\ TotalSize(hdr') # 0
                      /\ receiveSize' <= Len(left') + sent'[n].faults
    BY <2>0 DEF WaitsForRest
  <2>1. /\ n \in Nat \ {0} /\ Len(sent') = n /\ f \in Nat /\ Len(left) \in Nat \ {0}
        /\ sent'[n].packet = p /\ \A k \in 1 .. n - 1 : sent'[k] = sent[k]
        /\ \/ sent'[n].faults = f /\ Len(left') = Len(left) - 1
           \/ sent'[n].faults = f + 1 /\ Len(left') = Len(left) - 1
           \/ sent'[n].faults = f + 1 /\ Len(left') = Len(left) /\ \E b \in Byte : Receive(b)
        /\ (\E b \in Byte : Receive(b)) \/ (UNCHANGED receiver /\ sent'[n].faults = f + 1)
    <3>1. LoseByte => Fault /\ UNCHANGED receiver
      BY DEF LoseByte
    <3> QED
      BY <1>1, <3>1, ByteStep
  <2>2. sent' # <<>> /\ sent # <<>>
    BY <2>1
  <2>3. HonestUpTo(n)
    <3>1. HonestUpTo(n)'
      BY <2>0 DEF HonestUpTo
    <3> QED
      BY <2>1, <3>1, HonestStays
  <2>4. CASE UNCHANGED receiver /\ sent'[n].faults = f + 1
    <3>1. UNCHANGED <<state, hdr, receiveSize>>
      BY <2>4 DEF receiver
    <3>2. state' = "wait_data" /\ TotalSize(hdr) # 0 /\ receiveSize <= Len(left) + f
      BY <2>3, <3>1 DEF WaitsForRest
    <3>3. receiveSize \in Nat
      BY DEF TypeOK
    <3>4. receiveSize' <= Len(left') + sent'[n].faults
      BY <2>1, <2>4, <3>1, <3>2, <3>3
    <3> QED
      BY <2>2, <3>1, <3>2, <3>4
  <2>5. ASSUME NEW b \in Byte, Receive(b)
        PROVE  state' = "wait_data" /\ TotalSize(hdr') # 0
               /\ receiveSize' <= Len(left') + sent'[n].faults
    <3>1. Push(b)
      BY <2>5 DEF Receive
    <3>2. CASE /\ state = "wait_header" /\ state' = "wait_data"
               /\ receiveSize' = TotalSize(hdr') /\ TotalSize(hdr') \in 0 .. BufSize
      <4>1. hdr' = Header(p) /\ Len(left') = Len(Body(p))
        BY <1>1, <3>2 DEF HeaderIsTrue, Last
      <4>2. Honest(p)
        BY <2>1, <2>3 DEF HonestUpTo
      <4>3. TotalSize(hdr') \in 1 .. Len(left') /\ Len(left') \in Nat
        BY <2>1, <3>2, <4>1, <4>2, SerialAssumption DEF Honest
      <4> QED
        BY <2>1, <3>2, <4>3
    <3>3. CASE /\ state = "wait_data" /\ hdr' = hdr
               /\ state' = "overrun" => TotalSize(hdr) = 0
               /\ receiveSize > 0 /\ state' = "wait_data" => receiveSize' = receiveSize - 1
      <4>1. TotalSize(hdr) # 0 /\ receiveSize <= Len(left) + f
        BY <2>3, <3>3 DEF WaitsForRest
      <4>2. receiveSize \in Nat /\ receiveSize > 0
        BY <3>3, <4>1 DEF TypeOK, SizesAgree
      <4>3. state' = "wait_data" /\ receiveSize' = receiveSize - 1
        BY <3>3, <4>1, <4>2
      <4>4. receiveSize' <= Len(left') + sent'[n].faults
        <5>1. /\ receiveSize \in Nat /\ Len(left) \in Nat /\ f \in Nat
              /\ Len(left') \in Nat /\ sent'[n].faults \in Nat
          BY <2>1, <4>2
        <5>2. \/ sent'[n].faults = f /\ Len(left') = Len(left) - 1
              \/ sent'[n].faults = f + 1 /\ Len(left') = Len(left) - 1
              \/ sent'[n].faults = f + 1 /\ Len(left') = Len(left)
          BY <2>1
        <5>3. receiveSize' = receiveSize - 1 /\ receiveSize <= Len(left) + f
          BY <4>1, <4>3
        <5>4. CASE sent'[n].faults = f /\ Len(left') = Len(left) - 1
          BY <5>1, <5>3, <5>4, SMTT(30)
        <5>5. CASE sent'[n].faults = f + 1 /\ Len(left') = Len(left) - 1
          BY <5>1, <5>3, <5>5, SMTT(30)
        <5>6. CASE sent'[n].faults = f + 1 /\ Len(left') = Len(left)
          BY <5>1, <5>3, <5>6, SMTT(30)
        <5> QED
          BY <5>2, <5>4, <5>5, <5>6
      <4> QED
        BY <3>3, <4>1, <4>3, <4>4
    <3>4. CASE state = "overrun"
      BY <2>3, <3>4 DEF WaitsForRest
    <3> QED
      BY <3>1, <3>2, <3>3, <3>4, PushEffect
  <2> QED
    BY <2>1, <2>2, <2>4, <2>5
<1>2. ASSUME NEW p \in Packets, SendPacket(p) PROVE WaitsForRest'
  <2>0. Len(sent') = Len(sent) + 1
    BY <1>2, PacketStep
  <2> SUFFICES ASSUME NEW n, n = Len(sent),
                      HonestUpTo(Len(sent))', state' \in {"wait_data", "overrun"}
               PROVE  /\ sent' # <<>> /\ state' = "wait_data" /\ TotalSize(hdr') # 0
                      /\ receiveSize' <= Len(left') + sent'[n + 1].faults
    BY <2>0 DEF WaitsForRest
  <2>1. /\ n \in Nat /\ Len(sent') = n + 1
        /\ \A k \in 1 .. n : sent'[k] = sent[k]
        /\ sent'[n + 1].packet = p /\ sent'[n + 1].faults = 0
        /\ left = <<>> /\ left' = p /\ UNCHANGED <<state, hdr, receiveSize>>
        /\ sent # <<>> => n \in 1 .. n /\ sent[n].faults \in Nat
    BY <1>2, PacketStep
  <2>2. HonestUpTo(n)
    <3>1. HonestUpTo(n + 1)'
      BY <2>0 DEF HonestUpTo
    <3>2. (\A k \in 1 .. n : k \in 1 .. n + 1) /\ (\A k \in 2 .. n : k \in 2 .. n + 1)
      BY <2>1
    <3>3. HonestUpTo(n)'
      BY <3>1, <3>2 DEF HonestUpTo
    <3>4. \A k \in 1 .. n - 1 : sent'[k] = sent[k]
      BY <2>1
    <3> QED
      BY <2>1, <3>3, <3>4, HonestStays
  <2>3. /\ sent # <<>> /\ state = "wait_data" /\ TotalSize(hdr) # 0
        /\ receiveSize <= Len(left) + sent[n].faults
    BY <2>1, <2>2 DEF WaitsForRest
  <2>4. sent'[n].faults <= Len(sent'[n + 1].packet)
    BY <2>0, <2>1, <2>3 DEF HonestUpTo
  <2>5. Len(p) \in Nat /\ Len(left) = 0 /\ receiveSize \in Nat
    BY <2>1, PacketType DEF TypeOK
  <2> QED
    BY <2>1, <2>3, <2>4, <2>5
<1>3. CASE UNCHANGED vars
  BY <1>3 DEF vars, receiver, WaitsForRest, HonestUpTo
<1> QED
  BY <1>1, <1>2, <1>3 DEF LineNext

\* Where a header begins, counted from the end of what was received.
LEMMA OneFurther ==
  \A p : \A n, h \in Nat : \A k :
    k = h + 1 /\ p[n - h] = Sync => p[n + 1 - k] = Sync
OBVIOUS

LEMMA HeaderOffsets ==
  /\ \A h, r \in Nat : h + r = HeaderSize /\ r > 0 => h \in 0 .. 4
  /\ \A n \in Nat, h \in 0 .. 4 :
       n > 6 => n - 0 = n /\ h < n /\ n - h \in n - HeaderSize + 1 .. n
OBVIOUS

\* What is known of a header begun moves on with the bytes of the packet.
LEMMA HeaderBegunStep ==
  ASSUME TypeOK, OverrunOnlyAtZero', LineInv, HeaderBegunAtSync, [LineNext]_vars
  PROVE  HeaderBegunAtSync'
<1>1. ASSUME \/ Transmit
             \/ LoseByte
             \/ \E b \in Noise : ChangeByte(b) \/ AddByte(b)
      PROVE  HeaderBegunAtSync'
  <2> SUFFICES ASSUME NEW s, s = Len(sent), NEW p, p = sent[s].packet,
                      NEW n, n = Len(p) - Len(left),
                      Faultless(s)', state' = "wait_header", Len(hdr') < n + 1
               PROVE  Len(left') = Len(left) - 1 /\ p[n + 1 - Len(hdr')] = Sync
    <3>1. Len(sent') = Len(sent) /\ sent'[Len(sent)].packet = sent[Len(sent)].packet
      BY <1>1, ByteStep
    <3>2. Faultless(Len(sent))' => Len(left') = Len(left) - 1
      BY <1>1, ByteStep DEF Faultless
    <3>3. /\ Len(left) \in Nat
          /\ sent # <<>> => Len(sent[Len(sent)].packet) \in Nat
      BY <1>1, ByteStep, LastPacket, PacketType
    <3>4. sent # <<>>
      BY <1>1, ByteStep
    <3> QED
      BY <3>1, <3>2, <3>3, <3>4 DEF HeaderBegunAtSync
  <2>1. /\ left # <<>> /\ s \in Nat \ {0} /\ Len(left) \in Nat \ {0} /\ Len(left') = Len(left) - 1
        /\ sent' = sent /\ left' = Tail(left) /\ Receive(Head(left)) /\ Head(left) \in Byte
    BY <1>1, ByteStep DEF Faultless
  <2>2. p \in Seq(Byte) /\ IsRest(left, p) /\ left \in Seq(Byte)
    BY <2>1, LastPacket, PacketType DEF LineInv
  <2>3. n \in Nat /\ n < Len(p) /\ Head(left) = p[n + 1]
    <3>1. Len(left) \in 1 .. Len(p) /\ Head(left) = p[Len(p) - Len(left) + 1]
      BY <2>1, <2>2, TailIsRest
    <3> QED
      BY <2>2, <3>1
  <2>4. \/ state = "wait_sync" /\ Head(left) = Sync /\ hdr' = <<>>
        \/ state = "wait_header" /\ hdr' = Append(hdr, Head(left))
    BY <2>1, PushEffect DEF Receive
  <2>5. CASE state = "wait_sync" /\ Head(left) = Sync /\ hdr' = <<>>
    BY <2>1, <2>3, <2>5
  <2>6. CASE state = "wait_header" /\ hdr' = Append(hdr, Head(left))
    <3>1. Len(hdr) \in Nat /\ Len(hdr') = Len(hdr) + 1
      BY <2>1, <2>6, AppendProperties DEF TypeOK
    <3>2. p[n - Len(hdr)] = Sync
      <4>1. sent # <<>> /\ Faultless(Len(sent)) /\ Len(hdr) < n
        BY <2>1, <2>3, <3>1 DEF Faultless
      <4> QED
        BY <2>6, <4>1 DEF HeaderBegunAtSync
    <3>3. p[n + 1 - Len(hdr')] = Sync
      <4>1. n \in Nat
        BY <2>3
      <4> QED
        <5>1. ASSUME NEW k, k = Len(hdr'), NEW h \in Nat, h = Len(hdr)
              PROVE  p[n + 1 - k] = Sync
          <6>1. k = h + 1 /\ p[n - h] = Sync
            BY <3>1, <3>2, <5>1
          <6> QED
            BY <4>1, <5>1, <6>1, OneFurther
        <5> QED
          BY <3>1, <5>1, Zenon
    <3> QED
      BY <2>1, <3>2, <3>3
  <2> QED
    BY <2>4, <2>5, <2>6
<1>2. ASSUME NEW p \in Packets, SendPacket(p) PROVE HeaderBegunAtSync'
  <2>1. /\ Len(sent') = Len(sent) + 1 /\ sent'[Len(sent) + 1].packet = p
        /\ left' = p /\ hdr' = hdr
    BY <1>2, PacketStep
  <2>2. Len(p) - Len(left') = 0 /\ ~(Len(hdr') < 0)
    BY <2>1, PacketType DEF TypeOK
  <2> QED
    BY <2>1, <2>2 DEF HeaderBegunAtSync
<1>3. CASE UNCHANGED vars
  BY <1>3 DEF vars, receiver, HeaderBegunAtSync, Faultless
<1> QED
  BY <1>1, <1>2, <1>3 DEF LineNext

\* At the end of a packet without faults the receiver waits for a sync byte,
\* unless that packet hides one close to its end.
LEMMA WaitsAtEnd ==
  ASSUME TypeOK, LineInv, WaitsForRest, HeaderBegunAtSync, left = <<>>, sent # <<>>,
         HonestUpTo(Len(sent)), Faultless(Len(sent)),
         ~HidesSync(sent[Len(sent)].packet)
  PROVE  state = "wait_sync"
<1> DEFINE p == sent[Len(sent)].packet
<1>1. p \in Packets /\ Len(p) \in Nat /\ Len(p) > 6 /\ Len(left) = 0
  <2>1. sent \in Seq(Sent) /\ Len(sent) \in 1 .. Len(sent)
    BY EmptySeq DEF LineInv
  <2>2. sent[Len(sent)] \in Sent
    BY <2>1
  <2> QED
    BY <2>2, PacketType DEF Sent
<1>2. /\ state \in {"wait_sync", "wait_header", "wait_data", "overrun"} /\ SizesAgree
      /\ hdr \in Seq(Byte) /\ receiveSize \in Nat
  BY DEF TypeOK
<1> HIDE DEF p
<1>3. ASSUME state \in {"wait_data", "overrun"} PROVE FALSE
  <2>1. TotalSize(hdr) # 0 /\ receiveSize <= 0
    <3>1. TotalSize(hdr) # 0 /\ receiveSize <= Len(left) + sent[Len(sent)].faults
      BY <1>3 DEF WaitsForRest
    <3>2. Len(left) + sent[Len(sent)].faults = 0
      BY <1>1 DEF Faultless
    <3> QED
      BY <3>1, <3>2
  <2> QED
    BY <1>2, <1>3, <2>1 DEF SizesAgree
<1>4. ASSUME state = "wait_header" PROVE FALSE
  <2>1. Len(hdr) \in 0 .. 4
    <3>1. Len(hdr) \in Nat /\ Len(hdr) + receiveSize = HeaderSize /\ receiveSize > 0
      BY <1>2, <1>4, LenProperties DEF SizesAgree
    <3> QED
      BY <1>2, <3>1, HeaderOffsets
  <2>2. p[Len(p) - Len(hdr)] = Sync
    <3>1. Len(p) - Len(left) = Len(p) /\ Len(hdr) < Len(p)
      BY <1>1, <2>1, HeaderOffsets
    <3> QED
      BY <1>4, <3>1 DEF HeaderBegunAtSync, p
  <2>3. Len(p) - Len(hdr) \in Len(p) - HeaderSize + 1 .. Len(p)
    BY <1>1, <2>1, HeaderOffsets
  <2> QED
    BY <2>2, <2>3 DEF HidesSync, p
<1> QED
  BY <1>2, <1>3, <1>4

\* An event that was handled stays handled.
LEMMA DeliveredStays ==
  ASSUME LineInv, LineInv', NEW n, IsDelivered(n),
         delivered' = delivered \/ \E d : delivered' = Append(delivered, d)
  PROVE  IsDelivered(n)'
<1>1. delivered \in Seq(Delivery)
  BY DEF LineInv
<1>2. PICK k \in 1 .. Len(delivered) : delivered[k].packet = n
  BY DEF IsDelivered
<1>3. k \in 1 .. Len(delivered') /\ delivered'[k] = delivered[k]
  BY <1>1, <1>2
<1> QED
  BY <1>2, <1>3 DEF IsDelivered

\* A byte that arrives as it was sent takes the receiver one byte further in a
\* good packet, and the last one has it handled.
LEMMA TransmitReads ==
  ASSUME TypeOK, LineInv, Transmit,
         NEW p \in GoodPackets, p = sent[Len(sent)].packet, Reading(p, Len(left))
  PROVE  IF left' = <<>> THEN state' = "wait_sync" /\ IsDelivered(Len(sent))'
         ELSE Reading(p, Len(left))'
<1> SUFFICES ASSUME NEW n, n = Len(sent), NEW rest, rest = Len(left)
             PROVE  IF left' = <<>> THEN state' = "wait_sync" /\ IsDelivered(Len(sent))'
                    ELSE Reading(p, Len(left))'
  OBVIOUS
<1>1. /\ left # <<>> /\ sent' = sent /\ left' = Tail(left) /\ left \in Seq(Byte)
      /\ n \in Nat \ {0} /\ rest \in Nat \ {0} /\ delivered \in Seq(Delivery)
  BY LastPacket DEF Transmit, LineInv
<1>2. p \in Seq(Byte) /\ IsRest(left, p) /\ Len(p) \in Nat
  BY <1>1, GoodPacketFacts DEF LineInv
<1>3. /\ left' \in Seq(Byte) /\ Len(left') = rest - 1 /\ rest \in 1 .. Len(p)
      /\ Head(left) = p[Len(p) - rest + 1]
  BY <1>1, <1>2, TailIsRest
<1>4. /\ Push(p[Len(p) - rest + 1])
      /\ delivered' =
           IF handled' = <<>> THEN delivered
           ELSE Append(delivered, [packet |-> n, same |-> IsPacket(p)])
  BY <1>3 DEF Transmit, Receive, Last
<1>5. CASE rest # 1
  <2>1. rest \in 2 .. Len(p) /\ Reading(p, rest)
    BY <1>3, <1>5
  <2>2. Reading(p, rest - 1)'
    BY <1>4, <2>1, ReadingOn
  <2>3. left' # <<>>
    BY <1>3, <1>5, EmptySeq
  <2> QED
    BY <1>3, <2>2, <2>3 DEF Reading
<1>6. CASE rest = 1
  <2>1. Push(p[Len(p)]) /\ Reading(p, 1)
    BY <1>2, <1>4, <1>6
  <2>2. state' = "wait_sync" /\ handled' # <<>>
    BY <2>1, ReadingEnds
  <2> DEFINE d == [packet |-> n, same |-> IsPacket(p)]
  <2>3. delivered' = Append(delivered, d) /\ d.packet = n
    BY <1>4, <2>2
  <2> HIDE DEF d
  <2>4. Len(delivered') = Len(delivered) + 1 /\ delivered'[Len(delivered) + 1] = d
    BY <1>1, <2>3
  <2>5. \E k \in 1 .. Len(delivered') : delivered'[k].packet = n
    BY <1>1, <2>3, <2>4
  <2>6. left' = <<>> /\ Len(sent') = n
    BY <1>1, <1>3, <1>6, EmptySeq
  <2> QED
    BY <2>2, <2>5, <2>6 DEF IsDelivered
<1> QED
  BY <1>5, <1>6

\* Between the packets nothing is handled, and in them one event or none.
LEMMA HandledStays ==
  ASSUME LineInv, LineInv', NEW n, IsDelivered(n),
         \/ UNCHANGED delivered
         \/ \E b \in Byte : Receive(b)
  PROVE  IsDelivered(n)'
<1>1. delivered' = delivered \/ \E d : delivered' = Append(delivered, d)
  BY Zenon DEF Receive
<1> QED
  BY <1>1, DeliveredStays

\* Packets that arrive intact are read from their first byte to their last.
LEMMA IntactIsReadStep ==
  ASSUME TypeOK, LineInv, LineInv', WaitsForRest, HeaderBegunAtSync, IntactIsRead,
         [LineNext]_vars
  PROVE  IntactIsRead'
<1>1. ASSUME \/ Transmit
             \/ LoseByte
             \/ \E b \in Noise : ChangeByte(b) \/ AddByte(b)
      PROVE  IntactIsRead'
  <2>1. /\ left # <<>> /\ Len(sent) \in Nat \ {0} /\ Len(sent') = Len(sent)
        /\ \A k \in 1 .. Len(sent) - 1 : sent'[k] = sent[k]
        /\ sent'[Len(sent)].packet = sent[Len(sent)].packet
        /\ UNCHANGED <<receiver, delivered>> \/ \E b \in Byte : Receive(b)
    BY <1>1, ByteStep
  <2> SUFFICES ASSUME NEW n \in 2 .. Len(sent), Intact(n)'
               PROVE  IF n < Len(sent) \/ left' = <<>> THEN IsDelivered(n)'
                      ELSE Reading(sent[n].packet, Len(left))'
    BY <2>1 DEF IntactIsRead
  <2>2. CASE n < Len(sent)
    <3>1. sent'[n] = sent[n] /\ sent'[n - 1] = sent[n - 1]
      BY <2>1, <2>2
    <3>2. HonestUpTo(n)
      <4>1. HonestUpTo(n)'
        BY DEF Intact
      <4>2. n \in Nat /\ n <= Len(sent) /\ n # Len(sent)
        BY <2>1, <2>2
      <4> QED
        BY <2>1, <4>1, <4>2, HonestStays
    <3>3. Intact(n)
      BY <3>1, <3>2 DEF Intact, Faultless
    <3>4. IsDelivered(n)
      BY <2>2, <3>3 DEF IntactIsRead
    <3>5. IsDelivered(n)'
      BY <2>1, <3>4, HandledStays
    <3> QED
      BY <2>2, <3>5
  <2>3. CASE n = Len(sent)
    <3>1. sent'[n].faults = 0
      BY DEF Intact, Faultless
    <3>2. sent' = sent /\ Transmit
      <4>1. sent[Len(sent)].faults \in Nat
        BY <1>1, ByteStep
      <4>2. CASE Transmit
        BY <4>2 DEF Transmit
      <4>3. CASE Fault
        <5>1. sent'[n].faults = sent[n].faults + 1
          BY <2>3, <4>3, FaultStep
        <5> QED
          BY <2>3, <3>1, <4>1, <5>1
      <4> QED
        BY <1>1, <4>2, <4>3 DEF LoseByte, ChangeByte, AddByte
    <3>3. Intact(n)
      BY <3>2 DEF Intact, Faultless, HonestUpTo
    <3>4. PICK p : p = sent[Len(sent)].packet
      OBVIOUS
    <3>5. p \in GoodPackets /\ Reading(p, Len(left))
      BY <2>1, <2>3, <3>3, <3>4 DEF IntactIsRead, Intact
    <3>6. IF left' = <<>> THEN state' = "wait_sync" /\ IsDelivered(Len(sent))'
          ELSE Reading(p, Len(left))'
      BY <3>2, <3>4, <3>5, TransmitReads
    <3>7. sent'[n].packet = p
      BY <2>3, <3>2, <3>4
    <3>8. CASE left' = <<>>
      BY <2>3, <3>2, <3>6, <3>8
    <3>9. CASE left' # <<>>
      <4>1. Reading(sent[n].packet, Len(left))'
        BY <3>6, <3>7, <3>9
      <4> QED
        BY <2>3, <3>9, <4>1
    <3> QED
      BY <3>8, <3>9
  <2> QED
    BY <2>2, <2>3
<1>2. ASSUME NEW p \in Packets, SendPacket(p) PROVE IntactIsRead'
  <2>1. /\ Len(sent) \in Nat /\ Len(sent') = Len(sent) + 1
        /\ \A k \in 1 .. Len(sent) : sent'[k] = sent[k]
        /\ sent'[Len(sent) + 1].packet = p
        /\ left = <<>> /\ left' = p /\ UNCHANGED <<state, delivered>>
    BY <1>2, PacketStep
  <2>2. /\ Len(p) \in Nat /\ p # <<>>
    BY PacketType
  <2> SUFFICES ASSUME NEW n \in 2 .. Len(sent) + 1, Intact(n)'
               PROVE  IF n < Len(sent) + 1 THEN IsDelivered(n)'
                      ELSE Reading(p, Len(p))'
    BY <2>1, <2>2 DEF IntactIsRead, Reading
  <2>3. \A m \in Nat : m <= Len(sent) => (HonestUpTo(m)' <=> HonestUpTo(m))
    <3>1. \A k \in 1 .. Len(sent) - 1 : sent'[k] = sent[k]
      BY <2>1
    <3>2. Len(sent) > 0 => sent'[Len(sent)].packet = sent[Len(sent)].packet
      BY <2>1
    <3> QED
      BY <2>1, <3>1, <3>2, HonestStays
  <2>4. CASE n < Len(sent) + 1
    <3>1. /\ n \in Nat /\ n <= Len(sent) /\ n \in 2 .. Len(sent)
          /\ sent'[n] = sent[n] /\ sent'[n - 1] = sent[n - 1]
      BY <2>1, <2>4
    <3>2. Intact(n)
      <4>1. HonestUpTo(n)
        BY <2>3, <3>1 DEF Intact
      <4> QED
        BY <3>1, <4>1 DEF Intact, Faultless
    <3>3. IsDelivered(n)
      BY <2>1, <3>1, <3>2 DEF IntactIsRead
    <3>4. IsDelivered(n)'
      BY <2>1, <3>3 DEF IsDelivered
    <3> QED
      BY <2>4, <3>4
  <2>5. CASE n = Len(sent) + 1
    <3>1. /\ n - 1 = Len(sent) /\ Len(sent) \in 1 .. Len(sent) /\ sent # <<>>
          /\ sent'[Len(sent)] = sent[Len(sent)]
      BY <2>1, <2>5
    <3>2. Faultless(Len(sent)) /\ ~HidesSync(sent[Len(sent)].packet)
      BY <3>1 DEF Intact, Faultless
    <3>3. HonestUpTo(Len(sent))
      <4>1. HonestUpTo(n)'
        BY DEF Intact
      <4>2. /\ n - 1 \in Nat /\ n - 1 <= Len(sent)
            /\ \A k \in 1 .. n - 1 : k \in 1 .. n
            /\ \A k \in 2 .. n - 1 : k \in 2 .. n
        BY <2>1, <2>5
      <4>3. HonestUpTo(n - 1)'
        BY <4>1, <4>2 DEF HonestUpTo
      <4> QED
        BY <2>3, <3>1, <4>2, <4>3
    <3>4. state = "wait_sync"
      BY <2>1, <3>1, <3>2, <3>3, WaitsAtEnd
    <3>5. Len(p) - Len(p) = 0 /\ state' = "wait_sync"
      BY <2>1, <2>2, <3>4
    <3> QED
      BY <2>5, <3>5 DEF Reading
  <2> QED
    BY <2>1, <2>4, <2>5
<1>3. CASE UNCHANGED vars
  BY <1>3 DEF vars, receiver, IntactIsRead, Intact, Faultless, HonestUpTo, Reading,
              IsDelivered
<1> QED
  BY <1>1, <1>2, <1>3 DEF LineNext

\* A fault costs at most the packet it hits and the one after it, under the
\* conditions LossIsBounded names, wherever headers are accepted only when they
\* are true: what a checksum of 8 bits rejects depends on the bytes, the run
\* shows it for its packets and faults.
THEOREM LossIsBoundedTheorem == LineSpec /\ HeadersAreTrue => []LossIsBounded
<1> DEFINE CostInv == WaitsForRest /\ HeaderBegunAtSync /\ IntactIsRead
<1>1. LineInit => CostInv
  BY DEF LineInit, Init, WaitsForRest, HeaderBegunAtSync, IntactIsRead
<1>2. TypeOK /\ OverrunOnlyAtZero' /\ LineInv /\ LineInv' /\ CostInv
        /\ [LineNext]_vars /\ [HeaderIsTrue]_vars => CostInv'
  BY WaitsForRestStep, HeaderBegunStep, IntactIsReadStep
<1>3. LineInv /\ CostInv => LossIsBounded
  <2> SUFFICES ASSUME LineInv, IntactIsRead, NEW n \in 2 .. Len(sent),
                      sent[n - 1].faults = 0, ~HidesSync(sent[n - 1].packet), Good(n),
                      \A k \in 1 .. n : Honest(sent[k].packet),
                      \A k \in 2 .. n : sent[k - 1].faults <= Len(sent[k].packet)
               PROVE  IsDelivered(n)
    BY DEF LossIsBounded
  <2>1. Intact(n)
    BY DEF Intact, Faultless, Good, HonestUpTo
  <2> QED
    BY <2>1 DEF IntactIsRead, Good, Complete
<1> QED
  BY <1>1, <1>2, <1>3, LineInvariance, LineImplementsReceiver, ReceiverTypeOK,
     OnlyZeroOverruns, PTL DEF LineSpec, HeadersAreTrue
=============================================================================
