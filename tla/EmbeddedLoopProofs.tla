------------------------- MODULE EmbeddedLoopProofs -------------------------
(***************************************************************************)
(* Theorems about EmbeddedLoop, for every size of the UART's buffer, every *)
(* range of the clock, and any number of telegrams and faults.             *)
(***************************************************************************)
EXTENDS EmbeddedLoop, TLAPS

(* The inductive invariant.                                                *)

\* The LED blinks only while there is no connection.
BlinksWithoutWifi == ledOn # 0 => ~connected

\* The pieces in r come in the order of the radio, the last of a telegram after
\* its first.
Ascends(r) ==
  \A i, j \in 1 .. Len(r) : i < j =>
    r[i].id < r[j].id \/ (r[i].id = r[j].id /\ ~r[i].last /\ r[j].last)

\* The unfinished telegram precedes what is buffered, except for its own end.
PartialPrecedes ==
  partial # 0 => \A i \in 1 .. Len(rx) :
    partial < rx[i].id \/ (partial = rx[i].id /\ rx[i].last)

\* What was forwarded precedes all that may still be.
ForwardedPrecedes ==
  \A k \in 1 .. Len(forwarded) :
    /\ k <= forwarded[k] /\ forwarded[k] <= heard
    /\ partial # 0 => forwarded[k] < partial
    /\ \A i \in 1 .. Len(rx) : forwarded[k] < rx[i].id

HeardPieces == \A i \in 1 .. Len(rx) : rx[i].id <= heard

SerialInv == Ascends(rx) /\ PartialPrecedes /\ ForwardedPrecedes /\ HeardPieces

IInv == TypeOK /\ LedGoesOut /\ BlinksWithoutWifi /\ SerialInv
-----------------------------------------------------------------------------
(* Times and control blocks.                                               *)

LEMMA ClockRange == HalfRange \in Nat /\ HalfRange >= 2
BY LoopAssumption

LEMMA WrapInRange ==
  ASSUME NEW n \in Int
  PROVE  Wrap(n) \in Long
<1>1. (n + HalfRange) % (2 * HalfRange) \in 0 .. 2 * HalfRange - 1
  BY ClockRange
<1> QED
  BY <1>1, ClockRange DEF Wrap, Long

\* next_led() gives a time, and never the 0 that means none.
LEMMA NextLedIsTime ==
  ASSUME NEW now \in Long, NEW delta \in Int
  PROVE  NextLed(now, delta) \in Long /\ NextLed(now, delta) # 0
<1>1. now + delta \in Int
  BY ClockRange DEF Long
<1>2. Wrap(now + delta) \in Long
  BY <1>1, WrapInRange
<1> QED
  BY <1>2, ClockRange DEF NextLed, Long

LEMMA LaterIsTime ==
  ASSUME clock \in Long, NEW lag \in 0 .. MaxLag
  PROVE  Later(lag) \in Long
<1>1. clock + lag \in Int
  BY ClockRange, LoopAssumption DEF Long
<1> QED
  BY <1>1, WrapInRange DEF Later

LEMMA ReachedNeedsTime ==
  ASSUME NEW now, NEW time, NEW b \in Reached(now, time)
  PROVE  b \in BOOLEAN /\ (b => time # 0)
<1>1. CASE time = 0
  BY <1>1, Zenon DEF Reached
<1>2. CASE time # 0 /\ now - time \in Long
  <2>1. b = (now - time >= 0)
    BY <1>2, Zenon DEF Reached
  <2>2. now - time \in Int
    BY <1>2, ClockRange DEF Long
  <2>3. (now - time >= 0) \in BOOLEAN
    BY <2>2
  <2> QED
    BY <1>2, <2>1, <2>3
<1>3. CASE time # 0 /\ ~(now - time \in Long)
  BY <1>3, Zenon DEF Reached
<1> QED
  BY <1>1, <1>2, <1>3

LEMMA HalfLedTime == LedTime \in Int /\ LedTime \div 2 \in Int
BY LoopAssumption

\* A message gives back every control block it took, unless the connection
\* stays open.
LEMMA BlocksBalance ==
  ASSUME NEW open \in BOOLEAN, NEW refusal \in Refusals
  PROVE  /\ Blocks(open, refusal) \in Int
         /\ One(open) + Blocks(open, refusal) = One(StaysOpen(open, refusal))
         /\ StaysOpen(open, refusal) \in BOOLEAN
<1>1. CASE open
  BY <1>1 DEF Blocks, One, StaysOpen, SendFails, Opened, Opening, Refusals, Sending
<1>2. CASE ~open
  BY <1>2 DEF Blocks, One, StaysOpen, SendFails, Opened, Opening, Refusals, Sending
<1> QED
  BY <1>1, <1>2
-----------------------------------------------------------------------------
(* Pieces in the buffer.                                                   *)

\* What a buffer keeps of s: a contiguous part of it.
IsWindow(r, s) ==
  /\ r \in Seq(Pieces)
  /\ \E d \in Nat : /\ d + Len(r) <= Len(s)
                    /\ \A i \in 1 .. Len(r) : r[i] = s[i + d]

LEMMA WindowAscends ==
  ASSUME NEW s \in Seq(Pieces), NEW r, IsWindow(r, s), Ascends(s)
  PROVE  Ascends(r)
<1>1. PICK d \in Nat : /\ d + Len(r) <= Len(s)
                       /\ \A i \in 1 .. Len(r) : r[i] = s[i + d]
  BY DEF IsWindow
<1>2. ASSUME NEW i \in 1 .. Len(r), NEW j \in 1 .. Len(r), i < j
      PROVE  r[i].id < r[j].id \/ (r[i].id = r[j].id /\ ~r[i].last /\ r[j].last)
  <2>1. i + d \in 1 .. Len(s) /\ j + d \in 1 .. Len(s) /\ i + d < j + d
    BY <1>1, <1>2 DEF IsWindow
  <2> QED
    BY <1>1, <2>1 DEF Ascends
<1> QED
  BY <1>2 DEF Ascends

LEMMA WindowMembers ==
  ASSUME NEW s \in Seq(Pieces), NEW r, IsWindow(r, s), NEW i \in 1 .. Len(r)
  PROVE  \E j \in 1 .. Len(s) : r[i] = s[j]
<1>1. PICK d \in Nat : /\ d + Len(r) <= Len(s)
                       /\ \A k \in 1 .. Len(r) : r[k] = s[k + d]
  BY DEF IsWindow
<1>2. i + d \in 1 .. Len(s)
  BY <1>1 DEF IsWindow
<1> QED
  BY <1>1, <1>2

LEMMA TailIsWindow ==
  ASSUME NEW s \in Seq(Pieces), s # <<>>
  PROVE  /\ IsWindow(Tail(s), s) /\ Len(Tail(s)) = Len(s) - 1
         /\ \A i \in 1 .. Len(s) - 1 : Tail(s)[i] = s[i + 1]
         /\ Head(s) = s[1] /\ s[1] \in Pieces /\ 1 \in 1 .. Len(s)
<1>1. Tail(s) \in Seq(Pieces) /\ Len(Tail(s)) = Len(s) - 1 /\ 1 + Len(Tail(s)) <= Len(s)
      /\ \A i \in 1 .. Len(Tail(s)) : Tail(s)[i] = s[i + 1]
  OBVIOUS
<1> QED
  BY <1>1 DEF IsWindow

LEMMA PieceFields ==
  ASSUME NEW s \in Seq(Pieces), NEW i \in 1 .. Len(s)
  PROVE  s[i] \in Pieces /\ s[i].id \in Nat /\ s[i].id \in Telegrams /\ s[i].last \in BOOLEAN
<1>1. s[i] \in Pieces
  OBVIOUS
<1> QED
  BY <1>1, LoopAssumption DEF Pieces, Telegrams
-----------------------------------------------------------------------------
(* The invariant: it holds initially, and each step keeps it.              *)

LEMMA InitIInv == Init => IInv
<1> SUFFICES ASSUME Init PROVE IInv
  OBVIOUS
<1>1. 0 \in Long
  BY ClockRange DEF Long
<1>2. TypeOK
  <2>1. clock \in Long /\ ledOff \in Long /\ ledOn \in Long
    BY <1>1 DEF Init
  <2>2. pcbs = One(masterConn) + One(sUdp)
    BY DEF Init, One
  <2>3. rx \in Seq(Pieces) /\ Len(rx) <= RxSize
    BY LoopAssumption DEF Init
  <2>4. forwarded \in Seq(Telegrams) /\ Len(forwarded) <= heard
    BY DEF Init
  <2>5. heard \in 0 .. MaxTelegrams /\ partial \in 0 .. heard /\ faults \in 0 .. MaxFaults
    BY LoopAssumption DEF Init
  <2>6. /\ pc \in {"wifi", "led", "serial"} /\ wifi \in BOOLEAN /\ connected \in BOOLEAN
        /\ lit \in BOOLEAN /\ masterConn \in BOOLEAN /\ sUdp \in BOOLEAN
        /\ refused \in BOOLEAN /\ inStep \in BOOLEAN
    BY Zenon DEF Init
  <2> QED
    BY <2>1, <2>2, <2>3, <2>4, <2>5, <2>6 DEF TypeOK
<1>3. LedGoesOut /\ BlinksWithoutWifi
  BY DEF Init, LedGoesOut, BlinksWithoutWifi
<1>4. SerialInv
  BY DEF Init, SerialInv, Ascends, PartialPrecedes, ForwardedPrecedes, HeardPieces
<1> QED
  BY <1>2, <1>3, <1>4 DEF IInv

LEMMA SerialStutters ==
  ASSUME SerialInv, UNCHANGED serial
  PROVE  SerialInv'
BY DEF SerialInv, Ascends, PartialPrecedes, ForwardedPrecedes, HeardPieces, serial

\* The types of what only serial.poll() and the radio change.
SerialTypes ==
  /\ rx \in Seq(Pieces) /\ Len(rx) <= RxSize
  /\ heard \in 0 .. MaxTelegrams /\ partial \in 0 .. heard /\ inStep \in BOOLEAN
  /\ forwarded \in Seq(Telegrams) /\ Len(forwarded) <= heard

LEMMA SerialTypesStutter ==
  ASSUME TypeOK, UNCHANGED serial
  PROVE  SerialTypes'
BY DEF TypeOK, SerialTypes, serial

LEMMA WifiStep ==
  ASSUME IInv, NEW lag \in 0 .. MaxLag, NEW refusal \in Refusals, Wifi(lag, refusal)
  PROVE  IInv'
<1> USE DEF IInv
<1>1. SerialInv' /\ SerialTypes'
  BY SerialStutters, SerialTypesStutter DEF Wifi
<1>2. clock' \in Long /\ pc' = "led" /\ wifi' \in BOOLEAN /\ refused' \in BOOLEAN
      /\ faults' \in 0 .. MaxFaults
  BY LaterIsTime DEF Wifi, TypeOK
<1>3. CASE Disconnects
  <2>1. /\ connected' = FALSE /\ lit' = TRUE /\ ledOff' = NextLed(clock', LedTime)
        /\ UNCHANGED <<ledOn, net>>
    BY <1>3 DEF Wifi, SetLed, Disconnects, Reconnects
  <2>2. ledOff' \in Long /\ ledOff' # 0
    BY <1>2, <2>1, NextLedIsTime, HalfLedTime
  <2> QED
    BY <1>1, <1>2, <2>1, <2>2
       DEF TypeOK, SerialTypes, net, LedGoesOut, BlinksWithoutWifi
<1>4. CASE Reconnects
  <2>1. /\ connected' = TRUE /\ ledOff' = 0 /\ ledOn' = 0 /\ lit' = FALSE
        /\ masterConn' = FALSE /\ sUdp' = StaysOpen(sUdp, refusal)
        /\ pcbs' = pcbs - One(masterConn) + Blocks(sUdp, refusal)
    BY <1>4 DEF Wifi, Disconnects, Reconnects
  <2>2. /\ Blocks(sUdp, refusal) \in Int
        /\ One(sUdp) + Blocks(sUdp, refusal) = One(sUdp')
        /\ sUdp' \in BOOLEAN
    BY <2>1, BlocksBalance DEF TypeOK
  <2>3. One(masterConn) \in Int /\ One(sUdp) \in Int /\ One(masterConn') = 0
        /\ pcbs = One(masterConn) + One(sUdp)
    BY <2>1 DEF One, TypeOK
  <2>4. pcbs' = One(masterConn') + One(sUdp')
    BY <2>1, <2>2, <2>3
  <2>5. 0 \in Long
    BY ClockRange DEF Long
  <2> QED
    BY <1>1, <1>2, <2>1, <2>2, <2>4, <2>5
       DEF TypeOK, SerialTypes, LedGoesOut, BlinksWithoutWifi
<1>5. CASE ~Disconnects /\ ~Reconnects
  <2>1. UNCHANGED <<connected, leds, net>>
    BY <1>5 DEF Wifi
  <2> QED
    BY <1>1, <1>2, <2>1
       DEF TypeOK, SerialTypes, leds, net, LedGoesOut, BlinksWithoutWifi
<1> QED
  BY <1>3, <1>4, <1>5

\* Switching the LED off without a time needs BlinksWithoutWifi: it must not be
\* due to go on again.
LEMMA LedStep == IInv /\ Led => IInv'
<1> SUFFICES ASSUME IInv, Led PROVE IInv'
  OBVIOUS
<1> USE DEF IInv
<1>1. SerialInv' /\ SerialTypes'
  BY SerialStutters, SerialTypesStutter DEF Led
<1> DEFINE on1(off) ==
      IF off /\ ~connected THEN NextLed(clock, LedTime \div 2) ELSE ledOn
<1>2. PICK off \in Reached(clock, ledOff) : \E on \in Reached(clock, on1(off)) :
        /\ ledOff' = IF ~off THEN ledOff
                     ELSE IF connected THEN 0 ELSE NextLed(clock, LedTime)
        /\ ledOn' = IF on THEN 0 ELSE on1(off)
        /\ lit' = IF on THEN TRUE ELSE IF off THEN FALSE ELSE lit
  BY DEF Led
<1>3. PICK on \in Reached(clock, on1(off)) :
        /\ ledOff' = IF ~off THEN ledOff
                     ELSE IF connected THEN 0 ELSE NextLed(clock, LedTime)
        /\ ledOn' = IF on THEN 0 ELSE on1(off)
        /\ lit' = IF on THEN TRUE ELSE IF off THEN FALSE ELSE lit
  BY <1>2
<1>4. /\ NextLed(clock, LedTime \div 2) \in Long /\ NextLed(clock, LedTime \div 2) # 0
      /\ NextLed(clock, LedTime) \in Long /\ NextLed(clock, LedTime) # 0
      /\ 0 \in Long
  <2>1. 0 \in Long
    BY ClockRange DEF Long
  <2> QED
    BY <2>1, NextLedIsTime, HalfLedTime DEF TypeOK
<1>5. off \in BOOLEAN /\ on \in BOOLEAN /\ (on => on1(off) # 0)
  BY ReachedNeedsTime
<1>6. on1(off) \in Long /\ ledOff' \in Long /\ ledOn' \in Long /\ lit' \in BOOLEAN
  <2>1. ledOff \in Long /\ ledOn \in Long /\ lit \in BOOLEAN
    BY DEF TypeOK
  <2>2. on1(off) \in Long
    BY <1>4, <2>1
  <2> HIDE DEF on1
  <2>3. ledOff' \in Long
    BY <1>3, <1>4, <2>1
  <2>4. ledOn' \in Long
    BY <1>3, <1>4, <2>2
  <2>5. lit' \in BOOLEAN
    BY <1>3, <2>1, Zenon
  <2> QED
    BY <2>2, <2>3, <2>4, <2>5
<1>7. /\ UNCHANGED <<wifi, connected, clock, net, faults>>
      /\ pc' \in {"wifi", "serial"} /\ refused' = FALSE
  BY DEF Led
<1>8. TypeOK'
  BY <1>1, <1>6, <1>7 DEF TypeOK, SerialTypes, net
<1>9. connected => ledOn = 0 /\ on1(off) = 0
  BY DEF BlinksWithoutWifi
<1>10. BlinksWithoutWifi'
  <2>1. connected => ledOn' = 0
    BY <1>3, <1>5, <1>9
  <2> QED
    BY <1>7, <2>1 DEF BlinksWithoutWifi
<1>11. LedGoesOut'
  <2>1. CASE ~off
    <3>1. ledOff' = ledOff /\ on1(off) = ledOn
      BY <1>3, <2>1
    <3>2. CASE on
      BY <1>3, <1>5, <3>1, <3>2 DEF LedGoesOut
    <3>3. CASE ~on
      BY <1>3, <2>1, <3>1, <3>3 DEF LedGoesOut
    <3> QED
      BY <1>5, <3>2, <3>3
  <2>2. CASE off /\ connected
    <3>1. ~on
      BY <1>5, <1>9, <2>2
    <3>2. lit' = FALSE /\ ledOn' = 0
      BY <1>3, <1>9, <2>2, <3>1
    <3> QED
      BY <3>2 DEF LedGoesOut
  <2>3. CASE off /\ ~connected
    <3>1. ledOff' # 0
      BY <1>3, <1>4, <2>3
    <3> QED
      BY <3>1 DEF LedGoesOut
  <2> QED
    BY <1>5, <2>1, <2>2, <2>3
<1> QED
  BY <1>1, <1>8, <1>10, <1>11

\* serial.poll() of a piece that completes no telegram.
LEMMA PieceStep ==
  ASSUME IInv, rx # <<>>, rx' = Tail(rx), UNCHANGED <<heard, forwarded>>,
         partial' = 0 \/ (partial' = Head(rx).id /\ ~Head(rx).last), inStep' \in BOOLEAN
  PROVE  SerialInv' /\ SerialTypes'
<1> USE DEF IInv, SerialInv
<1>1. rx \in Seq(Pieces) /\ Len(rx) <= RxSize /\ RxSize \in Nat
      /\ heard \in 0 .. MaxTelegrams /\ forwarded \in Seq(Telegrams)
      /\ Len(forwarded) <= heard /\ MaxTelegrams \in Nat
  BY LoopAssumption DEF TypeOK
<1>2. /\ IsWindow(rx', rx) /\ Len(rx') = Len(rx) - 1
      /\ \A i \in 1 .. Len(rx') : rx'[i] = rx[i + 1] /\ i + 1 \in 1 .. Len(rx) /\ 1 < i + 1
      /\ Head(rx) = rx[1] /\ 1 \in 1 .. Len(rx)
  BY <1>1, TailIsWindow
<1>3. Head(rx).id \in Nat /\ Head(rx).id >= 1 /\ Head(rx).id <= heard
  <2>1. Head(rx).id \in Telegrams
    BY <1>1, <1>2, PieceFields
  <2> QED
    BY <1>1, <1>2, <2>1 DEF Telegrams, HeardPieces
<1>4. SerialTypes'
  <2>1. rx' \in Seq(Pieces) /\ Len(rx') <= RxSize
    BY <1>1, <1>2 DEF IsWindow
  <2>2. partial' \in 0 .. heard'
    BY <1>1, <1>3
  <2> QED
    BY <1>1, <2>1, <2>2 DEF SerialTypes
<1>5. Ascends(rx')
  BY <1>1, <1>2, WindowAscends
<1>6. PartialPrecedes'
  <2>1. CASE partial' = 0
    BY <2>1 DEF PartialPrecedes
  <2>2. CASE partial' = Head(rx).id /\ ~Head(rx).last
    <3>1. ASSUME NEW i \in 1 .. Len(rx')
          PROVE  partial' < rx'[i].id \/ (partial' = rx'[i].id /\ rx'[i].last)
      BY <1>2, <2>2 DEF Ascends
    <3> QED
      BY <3>1 DEF PartialPrecedes
  <2> QED
    BY <2>1, <2>2
<1>7. ForwardedPrecedes'
  <2>1. ASSUME NEW k \in 1 .. Len(forwarded)
        PROVE  /\ k <= forwarded[k] /\ forwarded[k] <= heard
               /\ partial' # 0 => forwarded[k] < partial'
               /\ \A i \in 1 .. Len(rx') : forwarded[k] < rx'[i].id
    BY <1>2 DEF ForwardedPrecedes
  <2> QED
    BY <2>1 DEF ForwardedPrecedes
<1>8. HeardPieces'
  <2>1. ASSUME NEW i \in 1 .. Len(rx') PROVE rx'[i].id <= heard
    BY <1>2 DEF HeardPieces
  <2> QED
    BY <2>1 DEF HeardPieces
<1> QED
  BY <1>4, <1>5, <1>6, <1>7, <1>8

\* serial.poll() of the piece that completes a telegram: forwarded, its event
\* comes after all the others, and so there are at most heard of them.
LEMMA CompletionStep ==
  ASSUME IInv, Completes, rx' = Tail(rx), heard' = heard, partial' = 0, inStep' \in BOOLEAN,
         forwarded' \in {forwarded, Append(forwarded, Head(rx).id)}
  PROVE  SerialInv' /\ SerialTypes'
<1> USE DEF IInv, SerialInv
<1>1. rx \in Seq(Pieces) /\ Len(rx) <= RxSize /\ RxSize \in Nat /\ rx # <<>>
      /\ heard \in 0 .. MaxTelegrams /\ forwarded \in Seq(Telegrams)
      /\ Len(forwarded) <= heard /\ MaxTelegrams \in Nat
  BY LoopAssumption DEF TypeOK, Completes
<1>2. /\ IsWindow(rx', rx) /\ Len(rx') = Len(rx) - 1
      /\ \A i \in 1 .. Len(rx') : rx'[i] = rx[i + 1] /\ i + 1 \in 1 .. Len(rx) /\ 1 < i + 1
      /\ Head(rx) = rx[1] /\ 1 \in 1 .. Len(rx)
  BY <1>1, TailIsWindow
<1>3. /\ Head(rx).id \in Telegrams /\ Head(rx).id \in Nat /\ Head(rx).id >= 1
      /\ Head(rx).id <= heard /\ Head(rx).id = partial
  <2>1. Head(rx).id \in Telegrams
    BY <1>1, <1>2, PieceFields
  <2> QED
    BY <1>1, <1>2, <2>1 DEF Telegrams, HeardPieces, Completes
<1>4. \A i \in 1 .. Len(rx') : Head(rx).id < rx'[i].id
  BY <1>2 DEF Ascends, Completes
<1>5. \A k \in 1 .. Len(forwarded) : forwarded[k] \in Int /\ k <= forwarded[k] /\ forwarded[k] < Head(rx).id
  <2>1. ASSUME NEW k \in 1 .. Len(forwarded) PROVE forwarded[k] \in Telegrams
    BY <1>1
  <2> QED
    BY <1>1, <1>3, <2>1 DEF ForwardedPrecedes, Telegrams
<1>6. \A k \in 1 .. Len(forwarded') :
        /\ k <= forwarded'[k] /\ forwarded'[k] <= heard
        /\ \A i \in 1 .. Len(rx') : forwarded'[k] < rx'[i].id
  <2>1. CASE forwarded' = forwarded
    BY <1>2, <2>1 DEF ForwardedPrecedes
  <2>2. CASE forwarded' = Append(forwarded, Head(rx).id)
    <3>1. Len(forwarded') = Len(forwarded) + 1 /\ forwarded'[Len(forwarded) + 1] = Head(rx).id
          /\ \A k \in 1 .. Len(forwarded) : forwarded'[k] = forwarded[k]
      BY <1>1, <1>3, <2>2
    <3>2. Len(forwarded) + 1 <= Head(rx).id
      <4>1. CASE Len(forwarded) = 0
        BY <1>3, <4>1
      <4>2. CASE Len(forwarded) # 0
        <5>1. Len(forwarded) \in 1 .. Len(forwarded)
          BY <1>1, <4>2
        <5> QED
          BY <1>1, <1>3, <1>5, <5>1
      <4> QED
        BY <4>1, <4>2
    <3>3. ASSUME NEW k \in 1 .. Len(forwarded'), k # Len(forwarded) + 1
          PROVE  k \in 1 .. Len(forwarded)
      BY <1>1, <3>1, <3>3
    <3>4. ASSUME NEW k \in 1 .. Len(forwarded)
          PROVE  /\ k <= forwarded[k] /\ forwarded[k] <= heard
                 /\ \A i \in 1 .. Len(rx') : forwarded[k] < rx'[i].id
      BY <1>2 DEF ForwardedPrecedes
    <3> QED
      BY <1>3, <1>4, <3>1, <3>2, <3>3, <3>4
  <2> QED
    BY <2>1, <2>2
<1>7. forwarded' \in Seq(Telegrams) /\ Len(forwarded') <= heard
  <2>1. CASE forwarded' = forwarded
    BY <1>1, <2>1
  <2>2. CASE forwarded' = Append(forwarded, Head(rx).id)
    <3>1. forwarded' \in Seq(Telegrams) /\ Len(forwarded') \in 1 .. Len(forwarded')
      BY <1>1, <1>3, <2>2
    <3>2. forwarded'[Len(forwarded')] \in Telegrams
      BY <3>1
    <3>3. forwarded'[Len(forwarded')] \in Nat /\ Len(forwarded') \in Nat /\ heard \in Nat
      BY <1>1, <3>1, <3>2 DEF Telegrams
    <3>4. Len(forwarded') <= forwarded'[Len(forwarded')] /\ forwarded'[Len(forwarded')] <= heard
      BY <1>6, <3>1
    <3> QED
      BY <3>1, <3>3, <3>4
  <2> QED
    BY <2>1, <2>2
<1>8. SerialTypes'
  <2>1. rx' \in Seq(Pieces) /\ Len(rx') <= RxSize
    BY <1>1, <1>2 DEF IsWindow
  <2>2. partial' \in 0 .. heard'
    BY <1>1
  <2> QED
    BY <1>1, <1>7, <2>1, <2>2 DEF SerialTypes
<1>9. Ascends(rx')
  BY <1>1, <1>2, WindowAscends
<1>10. PartialPrecedes' /\ ForwardedPrecedes'
  BY <1>6 DEF PartialPrecedes, ForwardedPrecedes
<1>11. HeardPieces'
  <2>1. ASSUME NEW i \in 1 .. Len(rx') PROVE rx'[i].id <= heard
    BY <1>2 DEF HeardPieces
  <2> QED
    BY <2>1 DEF HeardPieces
<1> QED
  BY <1>8, <1>9, <1>10, <1>11

LEMMA SerialPollStep ==
  ASSUME IInv, NEW lag \in 0 .. MaxLag, NEW toMaster \in Refusals, NEW toSyslog \in Refusals,
         SerialPoll(lag, toMaster, toSyslog)
  PROVE  IInv'
<1> USE DEF IInv
<1>1. /\ pc' = "wifi" /\ wifi' = wifi /\ connected' = connected /\ heard' = heard
      /\ faults' = faults
  BY DEF SerialPoll
<1>2. CASE Completes
  <2>1. /\ rx' = Tail(rx) /\ partial' = 0 /\ inStep' \in BOOLEAN
        /\ Event(Head(rx).id, lag, toMaster, toSyslog)
        /\ refused' \in BOOLEAN
    <3>1. rx # <<>>
      BY <1>2 DEF Completes
    <3> QED
      BY <1>2, <3>1 DEF SerialPoll
  <2>2. SerialInv' /\ SerialTypes'
    <3>1. forwarded' \in {forwarded, Append(forwarded, Head(rx).id)}
      BY <2>1 DEF Event
    <3> QED
      BY <1>1, <1>2, <2>1, <3>1, CompletionStep
  <2>3. clock' \in Long /\ lit' = TRUE /\ ledOff' = NextLed(clock', LedTime) /\ ledOn' = ledOn
    BY <2>1, LaterIsTime DEF Event, SetLed, TypeOK
  <2>4. ledOff' \in Long /\ ledOff' # 0
    BY <2>3, NextLedIsTime, HalfLedTime
  <2>5. /\ masterConn' = StaysOpen(masterConn, toMaster)
        /\ sUdp' = StaysOpen(sUdp, toSyslog)
        /\ pcbs' = pcbs + Blocks(masterConn, toMaster) + Blocks(sUdp, toSyslog)
    BY <2>1 DEF Event
  <2>6. /\ Blocks(masterConn, toMaster) \in Int /\ Blocks(sUdp, toSyslog) \in Int
        /\ One(masterConn) + Blocks(masterConn, toMaster) = One(masterConn')
        /\ One(sUdp) + Blocks(sUdp, toSyslog) = One(sUdp')
        /\ masterConn' \in BOOLEAN /\ sUdp' \in BOOLEAN
    BY <2>5, BlocksBalance DEF TypeOK
  <2>7. One(masterConn) \in Int /\ One(sUdp) \in Int /\ pcbs = One(masterConn) + One(sUdp)
    BY DEF One, TypeOK
  <2>8. pcbs' = One(masterConn') + One(sUdp')
    BY <2>5, <2>6, <2>7
  <2>9. TypeOK'
    BY <1>1, <2>1, <2>2, <2>3, <2>4, <2>6, <2>8 DEF TypeOK, SerialTypes
  <2> QED
    BY <1>1, <2>2, <2>3, <2>4, <2>9 DEF LedGoesOut, BlinksWithoutWifi
<1>3. CASE ~Completes
  <2>1. UNCHANGED <<clock, leds, net, forwarded>> /\ refused' = FALSE
    BY <1>3 DEF SerialPoll
  <2>2. SerialInv' /\ SerialTypes'
    <3>1. CASE rx = <<>>
      <4>1. UNCHANGED serial
        BY <1>1, <1>3, <2>1, <3>1 DEF SerialPoll, ReadsFirst, Swallows, serial
      <4> QED
        BY <4>1, SerialStutters, SerialTypesStutter
    <3>2. CASE rx # <<>>
      <4>1. /\ rx' = Tail(rx) /\ inStep' \in BOOLEAN
            /\ partial' = 0 \/ (partial' = Head(rx).id /\ ~Head(rx).last)
        BY <1>3, <3>2 DEF SerialPoll, ReadsFirst, Swallows
      <4> QED
        BY <1>1, <2>1, <3>2, <4>1, PieceStep
    <3> QED
      BY <3>1, <3>2
  <2>3. TypeOK'
    BY <1>1, <2>1, <2>2 DEF TypeOK, SerialTypes, leds, net
  <2> QED
    BY <1>1, <2>1, <2>2, <2>3 DEF LedGoesOut, BlinksWithoutWifi, leds
<1> QED
  BY <1>2, <1>3

\* What the UART has received, before a full buffer loses some of it.
Received == rx \o << [id |-> heard + 1, last |-> FALSE], [id |-> heard + 1, last |-> TRUE] >>

LEMMA ReceivedAscends ==
  ASSUME IInv, heard < MaxTelegrams
  PROVE  /\ Received \in Seq(Pieces) /\ Len(Received) = Len(rx) + 2
         /\ Ascends(Received)
         /\ \A i \in 1 .. Len(rx) : Received[i] = rx[i]
         /\ \A i \in Len(rx) + 1 .. Len(rx) + 2 : Received[i].id = heard + 1
<1> USE DEF IInv, SerialInv
<1> DEFINE first == [id |-> heard + 1, last |-> FALSE]
           second == [id |-> heard + 1, last |-> TRUE]
<1>1. rx \in Seq(Pieces) /\ heard \in Nat
  BY LoopAssumption DEF TypeOK
<1>2. first \in Pieces /\ second \in Pieces
  BY <1>1, LoopAssumption DEF Pieces, Telegrams
<1>3. first.id = heard + 1 /\ second.id = heard + 1 /\ ~first.last /\ second.last
  OBVIOUS
<1> HIDE DEF first, second
<1>4. /\ Received \in Seq(Pieces) /\ Len(Received) = Len(rx) + 2
      /\ \A i \in 1 .. Len(rx) : Received[i] = rx[i]
      /\ Received[Len(rx) + 1] = first /\ Received[Len(rx) + 2] = second
  <2>1. Received = rx \o <<first, second>>
    BY DEF Received, first, second
  <2>2. <<first, second>> \in Seq(Pieces) /\ Len(<<first, second>>) = 2
    BY <1>2
  <2> QED
    BY <1>1, <2>1, <2>2
<1>5. \A i \in 1 .. Len(rx) : rx[i].id < heard + 1
  <2>1. ASSUME NEW i \in 1 .. Len(rx) PROVE rx[i].id < heard + 1
    <3>1. rx[i].id \in Nat
      BY <1>1, PieceFields
    <3> QED
      BY <1>1, <3>1 DEF HeardPieces
  <2> QED
    BY <2>1
<1>6. Ascends(Received)
  <2>1. ASSUME NEW i \in 1 .. Len(Received), NEW j \in 1 .. Len(Received), i < j
        PROVE  \/ Received[i].id < Received[j].id
               \/ /\ Received[i].id = Received[j].id
                  /\ ~Received[i].last /\ Received[j].last
    <3>1. CASE j \in 1 .. Len(rx)
      <4>1. i \in 1 .. Len(rx)
        BY <1>1, <2>1, <3>1
      <4> QED
        BY <1>4, <2>1, <3>1, <4>1 DEF Ascends
    <3>2. CASE i \in 1 .. Len(rx) /\ j \notin 1 .. Len(rx)
      <4>1. j = Len(rx) + 1 \/ j = Len(rx) + 2
        BY <1>1, <1>4, <3>2
      <4> QED
        BY <1>3, <1>4, <1>5, <3>2, <4>1
    <3>3. CASE i \notin 1 .. Len(rx)
      <4>1. i = Len(rx) + 1 /\ j = Len(rx) + 2
        BY <1>1, <1>4, <2>1, <3>3
      <4> QED
        BY <1>3, <1>4, <4>1
    <3> QED
      BY <1>1, <2>1, <3>1, <3>2, <3>3
  <2> QED
    BY <2>1 DEF Ascends
<1>7. ASSUME NEW i \in Len(rx) + 1 .. Len(rx) + 2 PROVE Received[i].id = heard + 1
  <2>1. i = Len(rx) + 1 \/ i = Len(rx) + 2
    BY <1>1, <1>7
  <2> QED
    BY <1>3, <1>4, <2>1
<1> QED
  BY <1>4, <1>6, <1>7

LEMMA HearIsWindow ==
  ASSUME IInv, Hear
  PROVE  IsWindow(rx', Received) /\ Len(rx') <= RxSize
<1> USE DEF IInv
<1> DEFINE excess == IF Len(Received) > RxSize THEN Len(Received) - RxSize ELSE 0
           kept == Len(Received) - excess
<1>1. /\ Received \in Seq(Pieces) /\ Len(Received) \in Nat /\ RxSize \in Nat
  BY ReceivedAscends, LoopAssumption DEF Hear
<1>2. rx' = SubSeq(Received, 1, kept) \/ rx' = SubSeq(Received, 1 + excess, Len(Received))
  BY DEF Hear, Received
<1>3. /\ excess \in Nat /\ kept \in Nat /\ kept <= RxSize /\ kept + excess = Len(Received)
  BY <1>1
<1> HIDE DEF excess, kept
<1>4. CASE rx' = SubSeq(Received, 1, kept)
  <2>1. /\ rx' \in Seq(Pieces) /\ Len(rx') = kept
        /\ \A i \in 1 .. Len(rx') : rx'[i] = Received[i]
    BY <1>1, <1>3, <1>4
  <2>2. /\ 0 \in Nat /\ 0 + Len(rx') <= Len(Received)
        /\ \A i \in 1 .. Len(rx') : rx'[i] = Received[i + 0]
    BY <1>1, <1>3, <2>1
  <2> QED
    BY <1>3, <2>1, <2>2, Zenon DEF IsWindow
<1>5. CASE rx' = SubSeq(Received, 1 + excess, Len(Received))
  <2>1. /\ rx' \in Seq(Pieces) /\ Len(rx') = kept
        /\ \A i \in 1 .. Len(rx') : rx'[i] = Received[i + excess]
    BY <1>1, <1>3, <1>5
  <2>2. Len(rx') <= RxSize /\ excess + Len(rx') <= Len(Received)
    BY <1>1, <1>3, <2>1
  <2> QED
    BY <1>3, <2>1, <2>2, Zenon DEF IsWindow
<1> QED
  BY <1>2, <1>4, <1>5

LEMMA HearStep == IInv /\ Hear => IInv'
<1> SUFFICES ASSUME IInv, Hear PROVE IInv'
  OBVIOUS
<1> USE DEF IInv, SerialInv
<1>1. /\ heard' = heard + 1 /\ heard < MaxTelegrams /\ refused' = FALSE
      /\ UNCHANGED <<pc, wifi, connected, clock, leds, net, partial, inStep, forwarded, faults>>
  BY DEF Hear
<1>2. /\ rx \in Seq(Pieces) /\ heard \in Nat /\ MaxTelegrams \in Nat
      /\ partial \in Nat /\ partial <= heard
      /\ forwarded \in Seq(Telegrams) /\ Len(forwarded) <= heard
  BY LoopAssumption DEF TypeOK
<1>3. IsWindow(rx', Received) /\ Len(rx') <= RxSize
  BY HearIsWindow
<1>4. /\ Received \in Seq(Pieces) /\ Len(Received) = Len(rx) + 2 /\ Ascends(Received)
      /\ \A i \in 1 .. Len(rx) : Received[i] = rx[i]
      /\ \A i \in Len(rx) + 1 .. Len(rx) + 2 : Received[i].id = heard + 1
  BY <1>1, ReceivedAscends
<1>5. Ascends(rx')
  BY <1>3, <1>4, WindowAscends
<1>6. ASSUME NEW i \in 1 .. Len(rx')
      PROVE  (\E j \in 1 .. Len(rx) : rx'[i] = rx[j]) \/ rx'[i].id = heard + 1
  <2>1. PICK j \in 1 .. Len(Received) : rx'[i] = Received[j]
    BY <1>3, <1>4, WindowMembers
  <2>2. j \in 1 .. Len(rx) \/ j \in Len(rx) + 1 .. Len(rx) + 2
    BY <1>2, <1>4
  <2> QED
    BY <1>4, <2>1, <2>2
<1>7. PartialPrecedes'
  <2>1. ASSUME NEW i \in 1 .. Len(rx'), partial # 0
        PROVE  partial < rx'[i].id \/ (partial = rx'[i].id /\ rx'[i].last)
    BY <1>2, <1>6, <2>1 DEF PartialPrecedes
  <2> QED
    BY <1>1, <2>1 DEF PartialPrecedes
<1>8. ForwardedPrecedes'
  <2>1. ASSUME NEW k \in 1 .. Len(forwarded)
        PROVE  /\ k <= forwarded[k] /\ forwarded[k] <= heard /\ forwarded[k] \in Nat
               /\ partial # 0 => forwarded[k] < partial
               /\ \A j \in 1 .. Len(rx) : forwarded[k] < rx[j].id
    <3>1. forwarded[k] \in Telegrams
      BY <1>2
    <3> QED
      BY <3>1 DEF ForwardedPrecedes, Telegrams
  <2>2. ASSUME NEW k \in 1 .. Len(forwarded), NEW i \in 1 .. Len(rx')
        PROVE  forwarded[k] < rx'[i].id
    <3>1. CASE \E j \in 1 .. Len(rx) : rx'[i] = rx[j]
      BY <2>1, <3>1
    <3>2. CASE rx'[i].id = heard + 1
      <4>1. forwarded[k] \in Nat /\ forwarded[k] <= heard
        BY <2>1
      <4> QED
        BY <1>2, <3>2, <4>1
    <3> QED
      BY <1>6, <3>1, <3>2
  <2>3. forwarded' = forwarded /\ partial' = partial
    BY <1>1
  <2>4. ASSUME NEW k \in 1 .. Len(forwarded)
        PROVE  forwarded[k] <= heard'
    BY <1>1, <1>2, <2>1
  <2> QED
    BY <2>1, <2>2, <2>3, <2>4 DEF ForwardedPrecedes
<1>9. HeardPieces'
  <2>1. ASSUME NEW i \in 1 .. Len(rx') PROVE rx'[i].id <= heard + 1
    <3>1. CASE \E j \in 1 .. Len(rx) : rx'[i] = rx[j]
      <4>1. PICK j \in 1 .. Len(rx) : rx'[i] = rx[j]
        BY <3>1
      <4>2. rx[j].id \in Nat /\ rx[j].id <= heard
        BY <1>2, PieceFields DEF HeardPieces
      <4> QED
        BY <1>2, <4>1, <4>2
    <3>2. CASE rx'[i].id = heard + 1
      BY <1>2, <3>2
    <3> QED
      BY <1>6, <3>1, <3>2
  <2> QED
    BY <1>1, <2>1 DEF HeardPieces
<1>10. TypeOK'
  <2>1. rx' \in Seq(Pieces)
    BY <1>3 DEF IsWindow
  <2>2. heard' \in 0 .. MaxTelegrams /\ partial' \in 0 .. heard' /\ Len(forwarded') <= heard'
    BY <1>1, <1>2
  <2> QED
    BY <1>1, <1>3, <2>1, <2>2 DEF TypeOK, leds, net
<1>11. LedGoesOut' /\ BlinksWithoutWifi'
  BY <1>1 DEF LedGoesOut, BlinksWithoutWifi, leds
<1> QED
  BY <1>5, <1>7, <1>8, <1>9, <1>10, <1>11

LEMMA OtherSteps ==
  ASSUME IInv, WifiDown \/ WifiUp \/ Reboot \/ UNCHANGED vars
  PROVE  IInv'
<1> USE DEF IInv
<1>1. CASE WifiDown \/ WifiUp \/ UNCHANGED vars
  <2>1. UNCHANGED <<pc, connected, clock, leds, net, serial>>
    BY <1>1, Zenon DEF WifiDown, WifiUp, vars
  <2>2. SerialInv' /\ SerialTypes'
    BY <2>1, SerialStutters, SerialTypesStutter
  <2>3. wifi' \in BOOLEAN /\ refused' \in BOOLEAN
    BY <1>1, Zenon DEF WifiDown, WifiUp, vars, TypeOK
  <2>4. faults' \in 0 .. MaxFaults
    BY <1>1, LoopAssumption DEF WifiDown, WifiUp, vars, TypeOK
  <2>5. TypeOK'
    BY <2>1, <2>2, <2>3, <2>4 DEF TypeOK, SerialTypes, leds, net
  <2> QED
    BY <2>1, <2>2, <2>5 DEF LedGoesOut, BlinksWithoutWifi, leds
<1>2. CASE Reboot
  <2>1. /\ pc' = "wifi" /\ connected' = TRUE /\ lit' = FALSE /\ refused' = FALSE
        /\ clock' = 0 /\ ledOff' = 0 /\ ledOn' = 0
        /\ masterConn' = FALSE /\ sUdp' = FALSE /\ pcbs' = 0
        /\ rx' = <<>> /\ partial' = 0 /\ inStep' = TRUE
        /\ UNCHANGED <<wifi, heard, forwarded>>
    BY <1>2 DEF Reboot
  <2>2. 0 \in Long
    BY ClockRange DEF Long
  <2>3. faults' \in 0 .. MaxFaults
    BY <1>2, LoopAssumption DEF Reboot, TypeOK
  <2>4. pcbs' = One(masterConn') + One(sUdp')
    BY <2>1 DEF One
  <2>5. rx' \in Seq(Pieces) /\ Len(rx') <= RxSize /\ partial' \in 0 .. heard'
    BY <2>1, LoopAssumption DEF TypeOK
  <2>6. TypeOK'
    BY <2>1, <2>2, <2>3, <2>4, <2>5 DEF TypeOK
  <2>7. SerialInv'
    BY <2>1 DEF SerialInv, Ascends, PartialPrecedes, ForwardedPrecedes, HeardPieces
  <2> QED
    BY <2>1, <2>6, <2>7 DEF LedGoesOut, BlinksWithoutWifi
<1> QED
  BY <1>1, <1>2

\* All of it holds in every state of the device.
THEOREM Invariance == Spec => []IInv
<1>1. IInv /\ [Next]_vars => IInv'
  BY WifiStep, LedStep, SerialPollStep, HearStep, OtherSteps DEF Next, Loop
<1> QED
  BY <1>1, InitIInv, PTL DEF Spec

\* The types, and that lwIP has given out exactly the control blocks that are in
\* the two pointers, whichever calls it has refused.
THEOREM TypeCorrect == Spec => []TypeOK
BY Invariance, PTL DEF IInv

\* A LED that is lit or due has a time to go out, at every value of the clock.
THEOREM LedTheorem == Spec => []LedGoesOut
BY Invariance, PTL DEF IInv
-----------------------------------------------------------------------------
(* The proxy implements the lossy queue.                                   *)

LEMMA BufferedIds ==
  ASSUME rx \in Seq(Pieces), NEW n
  PROVE  n \in Buffered <=> \E i \in 1 .. Len(rx) : rx[i].id = n
<1>1. DOMAIN rx = 1 .. Len(rx)
  OBVIOUS
<1> QED
  BY <1>1 DEF Buffered, ToSet

LEMMA InitMaps == Init => Fifo!Init
<1> SUFFICES ASSUME Init PROVE Fifo!Init
  OBVIOUS
<1>1. rx = <<>> /\ partial = 0 /\ heard = 0 /\ forwarded = <<>>
  BY DEF Init
<1>2. rx \in Seq(Pieces) /\ Len(rx) = 0
  BY <1>1
<1>3. Buffered = {}
  BY <1>2, BufferedIds
<1> QED
  BY <1>1, <1>3 DEF Fifo!Init, Pending

\* Taking a piece out of the buffer only takes from what is pending.
LEMMA PopLoses ==
  ASSUME rx \in Seq(Pieces), rx' \in Seq(Pieces), rx # <<>>, rx' = Tail(rx)
  PROVE  /\ Head(rx).id \in Buffered
         /\ Buffered' \subseteq Buffered
         /\ \A w \in Buffered' : \E i \in 1 .. Len(rx) : 1 < i /\ w = rx[i].id
<1>1. /\ \A i \in 1 .. Len(rx') : rx'[i] = rx[i + 1] /\ i + 1 \in 1 .. Len(rx) /\ 1 < i + 1
      /\ Head(rx) = rx[1] /\ 1 \in 1 .. Len(rx)
  BY TailIsWindow
<1>2. Head(rx).id \in Buffered
  BY <1>1, BufferedIds
<1>3. DOMAIN rx' = 1 .. Len(rx')
  OBVIOUS
<1>4. ASSUME NEW w \in Buffered'
      PROVE  \E i \in 1 .. Len(rx) : 1 < i /\ w = rx[i].id
  <2>1. PICK i \in 1 .. Len(rx') : w = rx'[i].id
    BY <1>3, <1>4 DEF Buffered, ToSet
  <2> QED
    BY <1>1, <2>1
<1>5. Buffered' \subseteq Buffered
  BY <1>4, BufferedIds
<1> QED
  BY <1>2, <1>4, <1>5

LEMMA SerialPollMaps ==
  ASSUME IInv, IInv', NEW lag \in 0 .. MaxLag, NEW toMaster \in Refusals,
         NEW toSyslog \in Refusals, SerialPoll(lag, toMaster, toSyslog)
  PROVE  [Fifo!Next]_(Fifo!vars)
<1>1. rx \in Seq(Pieces) /\ rx' \in Seq(Pieces) /\ heard' = heard
  BY DEF IInv, TypeOK, SerialPoll
<1>2. CASE rx = <<>>
  <2>1. rx' = rx /\ partial' = partial /\ forwarded' = forwarded
    BY <1>2 DEF SerialPoll, Completes, ReadsFirst, Swallows
  <2> QED
    BY <1>1, <2>1 DEF Fifo!vars, Pending, Buffered
<1>3. CASE rx # <<>> /\ ~Completes
  <2>1. /\ rx' = Tail(rx) /\ forwarded' = forwarded
        /\ partial' = 0 \/ partial' = Head(rx).id
    BY <1>3 DEF SerialPoll, ReadsFirst, Swallows
  <2>2. Pending' \subseteq Pending
    <3>1. Head(rx).id \in Buffered /\ Buffered' \subseteq Buffered
      BY <1>1, <1>3, <2>1, PopLoses
    <3> QED
      BY <2>1, <3>1 DEF Pending
  <2> QED
    BY <1>1, <2>1, <2>2 DEF Fifo!Next, Fifo!Lose
<1>4. CASE Completes
  <2> DEFINE v == Head(rx).id
  <2>1. rx # <<>> /\ Head(rx).last
    BY <1>4 DEF Completes
  <2>2. /\ rx' = Tail(rx) /\ partial' = 0
        /\ forwarded' = forwarded \/ forwarded' = Append(forwarded, v)
    BY <1>4, <2>1 DEF SerialPoll, Event
  <2>3. /\ v \in Buffered /\ Buffered' \subseteq Buffered
        /\ \A w \in Buffered' : \E i \in 1 .. Len(rx) : 1 < i /\ w = rx[i].id
    BY <1>1, <2>1, <2>2, PopLoses
  <2>4. Pending' = Buffered' /\ v \in Pending /\ Pending' \subseteq Pending
    BY <2>2, <2>3 DEF Pending
  <2>5. \A w \in Pending' : v < w
    <3>1. Head(rx) = rx[1] /\ 1 \in 1 .. Len(rx)
      BY <1>1, <2>1, TailIsWindow
    <3>2. ASSUME NEW i \in 1 .. Len(rx), 1 < i PROVE v < rx[i].id
      BY <2>1, <3>1, <3>2 DEF IInv, SerialInv, Ascends
    <3> QED
      BY <2>3, <2>4, <3>2
  <2>6. CASE forwarded' = forwarded
    BY <1>1, <2>4, <2>6 DEF Fifo!Next, Fifo!Lose
  <2>7. CASE forwarded' = Append(forwarded, v)
    BY <1>1, <2>4, <2>5, <2>7 DEF Fifo!Next, Fifo!Send
  <2> QED
    BY <2>2, <2>6, <2>7
<1> QED
  BY <1>2, <1>3, <1>4

LEMMA HearMaps ==
  ASSUME IInv, IInv', Hear
  PROVE  Fifo!Next
<1>1. rx' \in Seq(Pieces) /\ rx \in Seq(Pieces) /\ heard \in Nat
      /\ heard' = heard + 1 /\ partial' = partial /\ forwarded' = forwarded
      /\ heard < MaxTelegrams
  BY LoopAssumption DEF IInv, TypeOK, Hear
<1>2. DOMAIN rx' = 1 .. Len(rx')
  BY <1>1
<1>3. ASSUME NEW w \in Buffered' PROVE w \in Buffered \union {heard + 1}
  <2>1. PICK i \in 1 .. Len(rx') : w = rx'[i].id
    BY <1>2, <1>3 DEF Buffered, ToSet
  <2>2. PICK j \in 1 .. Len(Received) : rx'[i] = Received[j]
    BY <1>1, ReceivedAscends, HearIsWindow, WindowMembers
  <2>3. /\ Len(Received) = Len(rx) + 2
        /\ \A k \in 1 .. Len(rx) : Received[k] = rx[k]
        /\ \A k \in Len(rx) + 1 .. Len(rx) + 2 : Received[k].id = heard + 1
    BY <1>1, ReceivedAscends
  <2>4. CASE j \in 1 .. Len(rx)
    BY <1>1, <2>1, <2>2, <2>3, <2>4, BufferedIds
  <2>5. CASE j \in Len(rx) + 1 .. Len(rx) + 2
    BY <2>1, <2>2, <2>3, <2>5
  <2>6. Len(rx) \in Nat
    BY <1>1
  <2> QED
    BY <2>3, <2>4, <2>5, <2>6
<1>4. Pending' \subseteq Pending \union {heard + 1}
  BY <1>1, <1>3 DEF Pending
<1> QED
  BY <1>1, <1>4 DEF Fifo!Next, Fifo!Post

LEMMA StepMaps == IInv /\ IInv' /\ [Next]_vars => [Fifo!Next]_(Fifo!vars)
<1> SUFFICES ASSUME IInv, IInv', [Next]_vars PROVE [Fifo!Next]_(Fifo!vars)
  OBVIOUS
<1>1. ASSUME UNCHANGED serial PROVE UNCHANGED Fifo!vars
  BY <1>1 DEF serial, Fifo!vars, Pending, Buffered
<1>2. ASSUME NEW lag \in 0 .. MaxLag, NEW refusal \in Refusals, Wifi(lag, refusal)
      PROVE  UNCHANGED serial
  BY <1>2 DEF Wifi
<1>3. Led \/ WifiDown \/ WifiUp \/ UNCHANGED vars => UNCHANGED serial
  BY DEF Led, WifiDown, WifiUp, vars
<1>4. CASE Reboot
  <2>1. rx' = <<>> /\ partial' = 0 /\ UNCHANGED <<heard, forwarded>>
    BY <1>4 DEF Reboot
  <2>2. Buffered' = {}
    BY <2>1 DEF Buffered, ToSet
  <2>3. Pending' = {}
    BY <2>1, <2>2 DEF Pending
  <2> QED
    BY <2>1, <2>3 DEF Fifo!Next, Fifo!Lose
<1> QED
  BY <1>1, <1>2, <1>3, <1>4, SerialPollMaps, HearMaps DEF Next, Loop

\* Each event reaches the bridge at most once and in the order of the radio,
\* through lost bytes, refused calls, lost connections and restarts.
THEOREM Refinement == Spec => FifoSpec
<1>1. Spec => []IInv
  BY Invariance
<1> QED
  BY <1>1, InitMaps, StepMaps, PTL DEF Spec, FifoSpec, Fifo!Spec
-----------------------------------------------------------------------------
\* The event that finds its connection gone is sent over the new one.
THEOREM WholeTheorem == Spec => WholeIsForwarded
<1> DEFINE Kept ==
      pc = "serial" /\ pc' = "wifi" /\ faults' = faults /\ Completes =>
        refused' \/ forwarded' = Append(forwarded, Head(rx).id)
<1>1. IInv /\ [Next]_vars => [Kept]_vars
  <2> SUFFICES ASSUME IInv, [Next]_vars, pc = "serial", pc' = "wifi", faults' = faults,
                      Completes, ~refused'
               PROVE  forwarded' = Append(forwarded, Head(rx).id)
    OBVIOUS
  <2>1. PICK lag \in 0 .. MaxLag, toMaster \in Refusals, toSyslog \in Refusals :
          SerialPoll(lag, toMaster, toSyslog)
    <3>1. ~Reboot
      BY DEF Reboot, IInv, TypeOK
    <3>2. ~Led /\ ~Hear /\ ~WifiDown /\ ~WifiUp /\ ~UNCHANGED vars
          /\ \A lag \in 0 .. MaxLag, refusal \in Refusals : ~Wifi(lag, refusal)
      BY DEF Led, Hear, WifiDown, WifiUp, vars, Wifi
    <3> QED
      BY <3>1, <3>2 DEF Next, Loop
  <2>2. /\ Event(Head(rx).id, lag, toMaster, toSyslog)
        /\ refused' = (toMaster \in Needed(masterConn))
    BY <2>1 DEF SerialPoll
  <2>3. toMaster \notin Needed(masterConn)
    BY <2>2
  <2>4. IsSent(masterConn, toMaster)
    BY <2>3 DEF IsSent, Opened, Needed
  <2> QED
    BY <2>2, <2>4 DEF Event
<1> QED
  BY <1>1, Invariance, PTL DEF Spec, WholeIsForwarded
=============================================================================
