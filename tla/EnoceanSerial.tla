--------------------------- MODULE EnoceanSerial ----------------------------
(***************************************************************************)
(* enocean_serial: push() of each byte that comes from the EnOcean USB     *)
(* stick or UART finds the packets in the stream: a sync byte, a header    *)
(* with the sizes and a checksum, the data with another.                   *)
(***************************************************************************)
EXTENDS Naturals, Sequences

CONSTANTS
  BufSize,       \* BUF_SIZE of enocean_event
  Checksum(_)    \* crc8::checksum() of a sequence of bytes

Byte == 0 .. 255
Sync == 85         \* 0x55
HeaderSize == 5    \* sizeof(enocean_header)
Uint16 == 65536
MapReads == 6      \* command_mapping::map() reads the type, the button and the sender

ASSUME SerialAssumption == BufSize \in Nat /\ 0 < BufSize /\ BufSize < Uint16

VARIABLES
  state,        \* state_, or "overrun" once a byte was stored behind event_
  hdr,          \* the bytes of event_.hdr received so far
  data,         \* the bytes of event_.buffer received so far
  front,        \* event_.buffer up to what map() reads, whichever packets left it there
  receiveSize,  \* receive_size_
  handled       \* the event push() has just given to handle_event(), or <<>>

receiver == <<state, hdr, data, front, receiveSize, handled>>

\* total_size(): an int, returned as uint16_t.
TotalSize(h) == (h[1] * 256 + h[2] + h[3] + 1) % Uint16

Init ==
  /\ state = "wait_sync"
  /\ hdr = <<>>
  /\ data = <<>>
  /\ front = <<>>
  /\ receiveSize = 0
  /\ handled = <<>>

\* receive_size_ runs below zero as a uint16_t does.
Decremented == IF receiveSize = 0 THEN Uint16 - 1 ELSE receiveSize - 1

\* The bytes stay in event_, but push() does not look at them again: the next packet
\* overwrites them from the beginning, as far as it goes.
Forget == state' = "wait_sync" /\ hdr' = <<>> /\ data' = <<>>

\* Mutant: the size of the header is not set.
WaitSyncKeepsSize(b) ==
  /\ state = "wait_sync"
  /\ IF b = Sync THEN state' = "wait_header" ELSE UNCHANGED state
  /\ handled' = <<>>
  /\ UNCHANGED <<hdr, data, front, receiveSize>>

WaitSync(b) ==
  /\ state = "wait_sync"
  /\ IF b = Sync
     THEN state' = "wait_header" /\ receiveSize' = HeaderSize
     ELSE UNCHANGED <<state, receiveSize>>
  /\ handled' = <<>>
  /\ UNCHANGED <<hdr, data, front>>

\* Mutant: the size of the buffer is not looked at.
EndOfHeaderUnchecked(header) ==
  LET size == TotalSize(header)
  IN  IF Checksum(header) # 0
      THEN Forget /\ receiveSize' = 0
      ELSE /\ receiveSize' = size
           /\ state' = "wait_data" /\ hdr' = header /\ data' = <<>>

\* Mutant: the checksum of the header is not tested.
EndOfHeaderTrusts(header) ==
  LET size == TotalSize(header)
  IN  /\ receiveSize' = size
      /\ IF size > BufSize
         THEN Forget
         ELSE state' = "wait_data" /\ hdr' = header /\ data' = <<>>

\* The header is complete: its checksum and the size it announces decide.
EndOfHeader(header) ==
  LET size == TotalSize(header)
  IN  IF Checksum(header) # 0
      THEN Forget /\ receiveSize' = 0
      ELSE /\ receiveSize' = size
           /\ IF size > BufSize
              THEN Forget
              ELSE state' = "wait_data" /\ hdr' = header /\ data' = <<>>

WaitHeader(b) ==
  /\ state = "wait_header"
  /\ handled' = <<>>
  /\ UNCHANGED front
  /\ IF Decremented = 0
     THEN EndOfHeader(Append(hdr, b))
     ELSE /\ hdr' = Append(hdr, b)
          /\ receiveSize' = Decremented
          /\ UNCHANGED <<state, data>>

\* Mutant: data is handed on whatever its checksum.
EndOfDataUnchecked(bytes) ==
  /\ Forget
  /\ receiveSize' = 0
  /\ handled' = hdr \o bytes

\* Mutant: after a wrong checksum the state is not reset.
EndOfDataStays(bytes) ==
  /\ receiveSize' = 0
  /\ IF Checksum(bytes) = 0
     THEN Forget /\ handled' = hdr \o bytes
     ELSE handled' = <<>> /\ data' = bytes /\ UNCHANGED <<state, hdr>>

\* The data is complete: handle_event() gets it if its checksum is right.
EndOfData(bytes) ==
  /\ Forget
  /\ receiveSize' = 0
  /\ handled' = IF Checksum(bytes) = 0 THEN hdr \o bytes ELSE <<>>

\* Byte b is stored behind the data received so far, over what is there.
StoredInFront(b) ==
  front' = IF Len(data) >= MapReads THEN front
           ELSE IF Len(data) < Len(front) THEN [front EXCEPT ![Len(data) + 1] = b]
           ELSE Append(front, b)

WaitData(b) ==
  /\ state = "wait_data"
  /\ StoredInFront(b)
  /\ IF Len(data) = BufSize
     THEN state' = "overrun" /\ handled' = <<>> /\ UNCHANGED <<hdr, data, receiveSize>>
     ELSE IF Decremented = 0
     THEN EndOfData(Append(data, b))
     ELSE /\ data' = Append(data, b)
          /\ receiveSize' = Decremented
          /\ handled' = <<>>
          /\ UNCHANGED <<state, hdr>>

\* push().  What it does after an overrun is not defined and not modelled.
Push(b) ==
  \/ WaitSync(b)
  \/ WaitHeader(b)
  \/ WaitData(b)
  \/ state = "overrun" /\ UNCHANGED receiver

\* Any stream of bytes.
Next == \E b \in Byte : Push(b)

Spec == Init /\ [][Next]_receiver
-----------------------------------------------------------------------------
(* Properties, of every stream.                                            *)

\* Bytes received and bytes to go make up the size that was announced.
SizesAgree ==
  /\ state = "wait_sync" => hdr = <<>>
  /\ state = "wait_header" => Len(hdr) + receiveSize = HeaderSize /\ receiveSize > 0
  /\ state \in {"wait_data", "overrun"} =>
       /\ Len(hdr) = HeaderSize
       /\ Checksum(hdr) = 0
       /\ TotalSize(hdr) <= BufSize
       /\ \/ Len(data) + receiveSize = TotalSize(hdr) /\ receiveSize > 0
          \/ Len(data) + receiveSize \in {0, Uint16} /\ TotalSize(hdr) = 0

\* Buffer f begins like d, as far as map() would read it.
BeginsLike(f, d) ==
  /\ f \in Seq(Byte) /\ Len(f) <= MapReads
  /\ \A i \in 1 .. MapReads : i <= Len(d) => i <= Len(f) /\ f[i] = d[i]

TypeOK ==
  /\ state \in {"wait_sync", "wait_header", "wait_data", "overrun"}
  /\ hdr \in Seq(Byte) /\ data \in Seq(Byte) /\ handled \in Seq(Byte)
  /\ receiveSize \in 0 .. Uint16 - 1
  /\ Len(data) <= BufSize
  /\ BeginsLike(front, data)
  /\ SizesAgree

\* "Header with too big size, trying to resync" keeps push() inside the buffer
\* of event_, but for the one size that is too big for its own type: 65536
\* bytes are taken for 0, and the counter starts by running below zero.
OverrunOnlyAtZero == state = "overrun" => TotalSize(hdr) = 0

\* handle_event() gets a header and as much data as it announces, both with
\* the right checksum, whatever was received before, and never more than fits.
HandledIsWhole ==
  handled # <<>> =>
    LET h == SubSeq(handled, 1, HeaderSize)
        d == SubSeq(handled, HeaderSize + 1, Len(handled))
    IN  /\ Len(handled) = HeaderSize + TotalSize(h)
        /\ Len(d) <= BufSize
        /\ Checksum(h) = 0
        /\ Checksum(d) = 0
=============================================================================
