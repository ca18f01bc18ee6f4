---------------------------- MODULE EmbeddedLoop ----------------------------
(***************************************************************************)
(* The program on the ESP8266, a proxy of the bridge: loop() looks after   *)
(* WiFi, then the LED, then takes one byte from the UART.  The byte that   *)
(* completes a telegram calls the event handler, which forwards the event  *)
(* to the bridge and a message to the syslog host, each over UDP.          *)
(*                                                                         *)
(* A telegram is two pieces, the last one with the byte that completes it. *)
(* lwIP may refuse any call.  millis() is a long: it wraps.                *)
(***************************************************************************)
EXTENDS Integers, SequencesExt

CONSTANTS
  LedTime,        \* 100 ms, in ticks of 50 ms
  HalfRange,      \* 2^31: the clock goes from -HalfRange to HalfRange - 1
  MaxLag,         \* the watchdog ends a pass of loop() that is longer
  RxSize,         \* buffer of the UART, in pieces
  MaxTelegrams,   \* bound: telegrams heard
  MaxFaults       \* bound: times WiFi is lost or the device restarts

ASSUME LoopAssumption ==
  /\ LedTime \in Nat \ {0} /\ MaxLag \in Nat /\ HalfRange \in Nat
  /\ LedTime + MaxLag < HalfRange
  /\ RxSize \in Nat /\ MaxTelegrams \in Nat /\ MaxFaults \in Nat

VARIABLES
  pc,           \* what loop() does next: "wifi", "led" or "serial"
  wifi,         \* WiFi.status() == WL_CONNECTED
  connected,    \* loop() believes so
  clock,        \* millis()
  ledOff,       \* led_off_time, 0 for none
  ledOn,        \* led_on_time
  lit,          \* loop() has switched the LED on
  masterConn,   \* master_conn is not null
  sUdp,         \* s_udp is not null
  pcbs,         \* UDP control blocks of lwIP that the program has
  rx,           \* pieces the UART has received
  partial,      \* the telegram of which push() has the first piece, 0 for none
  inStep,       \* push() does not wait for bytes that are lost
  heard,        \* history: telegrams received by radio
  forwarded,    \* history: those sent to the bridge
  refused,      \* history: in the last step lwIP refused a call of the handler
  faults        \* history: times WiFi was lost or the device restarted

leds == <<ledOff, ledOn, lit>>
net == <<masterConn, sUdp, pcbs>>
serial == <<rx, partial, inStep, heard, forwarded>>
vars == <<pc, wifi, connected, clock, leds, net, serial, refused, faults>>

Long == -HalfRange .. HalfRange - 1
Telegrams == 1 .. MaxTelegrams
Pieces == [id : Telegrams, last : BOOLEAN]
One(b) == IF b THEN 1 ELSE 0

\* Every control block that lwIP has given out is in one of the two pointers.
TypeOK ==
  /\ pc \in {"wifi", "led", "serial"}
  /\ wifi \in BOOLEAN /\ connected \in BOOLEAN
  /\ clock \in Long /\ ledOff \in Long /\ ledOn \in Long /\ lit \in BOOLEAN
  /\ masterConn \in BOOLEAN /\ sUdp \in BOOLEAN
  /\ pcbs = One(masterConn) + One(sUdp)
  /\ rx \in Seq(Pieces) /\ Len(rx) <= RxSize
  /\ heard \in 0 .. MaxTelegrams /\ partial \in 0 .. heard
  /\ inStep \in BOOLEAN
  /\ forwarded \in Seq(Telegrams) /\ Len(forwarded) <= heard
  /\ refused \in BOOLEAN
  /\ faults \in 0 .. MaxFaults

\* setup() and the static variables of loop().
Init ==
  /\ pc = "wifi"
  /\ wifi \in BOOLEAN /\ connected = TRUE
  /\ clock = 0 /\ ledOff = 0 /\ ledOn = 0 /\ lit = FALSE
  /\ masterConn = FALSE /\ sUdp = FALSE /\ pcbs = 0
  /\ rx = <<>> /\ partial = 0 /\ inStep = TRUE
  /\ heard = 0 /\ forwarded = <<>> /\ refused = FALSE /\ faults = 0
-----------------------------------------------------------------------------
(* A UDP message, to the bridge or to the syslog host: both open their     *)
(* connection first, when they have none.  refusal is the call that lwIP   *)
(* refuses, the last one that is made then, or "none".                     *)

Opening == {"new", "bind", "connect"}
Sending == {"alloc", "send"}
Refusals == Opening \union Sending \union {"none"}

\* The calls that a message needs.
Needed(open) == Sending \union (IF open THEN {} ELSE Opening)

Opened(open, refusal) == open \/ refusal \notin Opening

\* Mutant: a connection that was just opened is left for the next message.
IsSentLater(open, refusal) == open /\ refusal \notin Sending

IsSent(open, refusal) == Opened(open, refusal) /\ refusal \notin Sending

SendFails(open, refusal) == Opened(open, refusal) /\ refusal = "send"

StaysOpen(open, refusal) == Opened(open, refusal) /\ ~SendFails(open, refusal)

\* Mutant: the pointer is cleared without udp_remove() when sending fails.
BlocksLeaked(open, refusal) ==
  One(~open /\ refusal # "new") - One(~open /\ refusal \in {"bind", "connect"})

\* udp_new_ip_type() less udp_remove().
Blocks(open, refusal) ==
  One(~open /\ refusal # "new")
  - One(~open /\ refusal \in {"bind", "connect"})
  - One(SendFails(open, refusal))
-----------------------------------------------------------------------------
(* Times.                                                                  *)

Wrap(n) == ((n + HalfRange) % (2 * HalfRange)) - HalfRange

\* Mutant: the sum may be 0, which means no time.
NextLedPlain(now, delta) == Wrap(now + delta)

\* next_led().
NextLed(now, delta) == LET t == Wrap(now + delta) IN IF t = 0 THEN 1 ELSE t

\* The possible outcomes of "time && now - time >= 0".  When the difference
\* does not fit a long, which is undefined, the compiler may have compared the
\* times instead.
Reached(now, time) ==
  IF time = 0 THEN {FALSE}
  ELSE IF now - time \in Long THEN {now - time >= 0} ELSE BOOLEAN

Later(lag) == Wrap(clock + lag)

\* set_led() with the result stored.
SetLed(now) == lit' = TRUE /\ ledOff' = NextLed(now, LedTime)
-----------------------------------------------------------------------------
(* loop(), up to the LED.                                                  *)

Disconnects == ~wifi /\ connected

\* Mutant: only a connection that has to be closed makes loop() look.
ReconnectsToMaster == wifi /\ ~connected /\ masterConn

Reconnects == wifi /\ ~connected

Wifi(lag, refusal) ==
  /\ pc = "wifi"
  /\ pc' = "led"
  /\ clock' = Later(lag)
  /\ refused' = FALSE
  /\ \/ /\ Disconnects
        /\ connected' = FALSE
        /\ SetLed(clock')
        /\ UNCHANGED <<ledOn, net>>
     \/ /\ Reconnects
        /\ connected' = TRUE
        /\ ledOff' = 0 /\ ledOn' = 0 /\ lit' = FALSE
        /\ masterConn' = FALSE
        /\ sUdp' = StaysOpen(sUdp, refusal)
        /\ pcbs' = pcbs - One(masterConn) + Blocks(sUdp, refusal)
     \/ /\ ~Disconnects /\ ~Reconnects
        /\ UNCHANGED <<connected, leds, net>>
  /\ UNCHANGED <<wifi, serial, faults>>

\* The LED; while WiFi is away it blinks, and the loop ends here.
Led ==
  /\ pc = "led"
  /\ pc' = IF connected THEN "serial" ELSE "wifi"
  /\ \E off \in Reached(clock, ledOff) :
       LET on1 == IF off /\ ~connected THEN NextLed(clock, LedTime \div 2) ELSE ledOn
       IN  \E on \in Reached(clock, on1) :
             /\ ledOff' = IF ~off THEN ledOff
                          ELSE IF connected THEN 0 ELSE NextLed(clock, LedTime)
             /\ ledOn' = IF on THEN 0 ELSE on1
             /\ lit' = IF on THEN TRUE ELSE IF off THEN FALSE ELSE lit
  /\ refused' = FALSE
  /\ UNCHANGED <<wifi, connected, clock, net, serial, faults>>
-----------------------------------------------------------------------------
(* serial.poll(): one piece.                                               *)

\* The lambda in loop(): event n is forwarded to the bridge and logged, with
\* one call refused of each.
Event(n, lag, toMaster, toSyslog) ==
  /\ clock' = Later(lag)
  /\ SetLed(clock') /\ ledOn' = ledOn
  /\ masterConn' = StaysOpen(masterConn, toMaster)
  /\ forwarded' = IF IsSent(masterConn, toMaster) THEN Append(forwarded, n) ELSE forwarded
  /\ sUdp' = StaysOpen(sUdp, toSyslog)
  /\ pcbs' = pcbs + Blocks(masterConn, toMaster) + Blocks(sUdp, toSyslog)

\* Mutant: the handler is called for the header, too.
CompletesEarly == rx # <<>> /\ (partial = Head(rx).id \/ ~Head(rx).last)

Completes == rx # <<>> /\ Head(rx).last /\ partial = Head(rx).id

\* push() reads the first piece of a telegram ...
ReadsFirst ==
  rx # <<>> /\ ~Head(rx).last /\ partial' = Head(rx).id /\ inStep' = TRUE

\* ... or loses a piece: one whose first piece it does not have, or that it takes for
\* the rest of an unfinished telegram or of what followed a false 0x55.  Then it may
\* be waiting for more.
Swallows ==
  /\ rx # <<>>
  /\ Head(rx).last \/ partial # 0 \/ ~inStep
  /\ partial' = 0 /\ inStep' \in BOOLEAN

SerialPoll(lag, toMaster, toSyslog) ==
  /\ pc = "serial"
  /\ pc' = "wifi"
  /\ rx' = IF rx = <<>> THEN rx ELSE Tail(rx)
  /\ \/ /\ Completes
        /\ Event(Head(rx).id, lag, toMaster, toSyslog)
        /\ partial' = 0 /\ inStep' = TRUE
        /\ refused' = (toMaster \in Needed(masterConn))
     \/ /\ ~Completes
        /\ ReadsFirst \/ Swallows \/ (rx = <<>> /\ UNCHANGED <<partial, inStep>>)
        /\ refused' = FALSE
        /\ UNCHANGED <<clock, leds, net, forwarded>>
  /\ UNCHANGED <<wifi, connected, heard, faults>>
-----------------------------------------------------------------------------
(* The world around the loop.                                              *)

\* A telegram comes in.  A full buffer of the UART loses the new bytes or the
\* oldest ones.
Hear ==
  /\ heard < MaxTelegrams
  /\ heard' = heard + 1
  /\ LET all == rx \o << [id |-> heard', last |-> FALSE], [id |-> heard', last |-> TRUE] >>
         excess == IF Len(all) > RxSize THEN Len(all) - RxSize ELSE 0
     IN  rx' \in {SubSeq(all, 1, Len(all) - excess), SubSeq(all, 1 + excess, Len(all))}
  /\ refused' = FALSE
  /\ UNCHANGED <<pc, wifi, connected, clock, leds, net, partial, inStep, forwarded, faults>>

WifiDown ==
  /\ wifi
  /\ faults < MaxFaults
  /\ wifi' = FALSE
  /\ faults' = faults + 1
  /\ refused' = FALSE
  /\ UNCHANGED <<pc, connected, clock, leds, net, serial>>

WifiUp ==
  /\ ~wifi
  /\ wifi' = TRUE
  /\ refused' = FALSE
  /\ UNCHANGED <<pc, connected, clock, leds, net, serial, faults>>

\* Power failure, or the watchdog: setup() again.
Reboot ==
  /\ faults < MaxFaults
  /\ faults' = faults + 1
  /\ pc' = "wifi" /\ connected' = TRUE
  /\ clock' = 0 /\ ledOff' = 0 /\ ledOn' = 0 /\ lit' = FALSE
  /\ masterConn' = FALSE /\ sUdp' = FALSE /\ pcbs' = 0
  /\ rx' = <<>> /\ partial' = 0 /\ inStep' = TRUE
  /\ refused' = FALSE
  /\ UNCHANGED <<wifi, heard, forwarded>>

Loop ==
  \/ Led
  \/ \E lag \in 0 .. MaxLag, refusal \in Refusals : Wifi(lag, refusal)
  \/ \E lag \in 0 .. MaxLag, toMaster, toSyslog \in Refusals :
       SerialPoll(lag, toMaster, toSyslog)

Next == Loop \/ Hear \/ WifiDown \/ WifiUp \/ Reboot

Spec == Init /\ [][Next]_vars

(* The processor runs loop(), and the SDK connects again to the network.   *)
FairSpec == Spec /\ WF_vars(Loop) /\ WF_vars(WifiUp)
-----------------------------------------------------------------------------
(* Properties.                                                             *)

\* A LED that is lit, or due to be lit, has a time at which it goes out: 0 is
\* never that time, although millis() passes through it when it wraps.
LedGoesOut == lit \/ ledOn # 0 => ledOff # 0

\* Telegrams of which a piece is in the buffer of the UART, and all that may
\* still be forwarded.
Buffered == {piece.id : piece \in ToSet(rx)}
Pending == Buffered \union ({partial} \ {0})

\* Across lost bytes, lost connections and reboots the bridge gets each event
\* at most once and in the order of the radio.
Fifo == INSTANCE LossyFifo
          WITH posted <- heard, pending <- Pending, sent <- forwarded
FifoSpec == Fifo!Spec

\* A telegram read whole is forwarded in the same pass, unless lwIP refuses a
\* call: the event that finds the connection gone, after a failure or a
\* reconnection of WiFi, is itself sent over the new one.
WholeIsForwarded ==
  [][ pc = "serial" /\ pc' = "wifi" /\ faults' = faults /\ Completes =>
        refused' \/ forwarded' = Append(forwarded, Head(rx).id) ]_vars

\* No telegram stays in the buffer of the UART: the loop comes back to the
\* serial line after every loss of WiFi.
BufferDrains == \A n \in Telegrams : n \in Buffered ~> n \notin Buffered
=============================================================================
