---------------------- MODULE HueSensorEmbeddedProofs -----------------------
(***************************************************************************)
(* Theorems about HueSensorEmbedded, for every size of the queue and of    *)
(* the request, any control blocks and any maximal age.                    *)
(***************************************************************************)
EXTENDS HueSensorEmbedded, HueQueueProofs

(* The inductive invariant.                                                *)

\* The value of the request that is not written yet, or 0.
Unwritten == IF outstanding > 0 THEN buffer.value ELSE 0

HeldAscends ==
  /\ outstanding > 0 => buffer.value > 0
  /\ Unwritten <= posted
  /\ Ascends(queue, Unwritten, posted)

\* Until lwIP refuses a call, calls do not nest, and there is no connection
\* while one is under way.
NoNesting ==
  ~lwipFailed =>
    /\ {p \in Pcbs : conns[p] # "free"} = {pcb} \ {NoPcb}
    /\ calls \in {<<>>, <<"request_finished">>, <<"start_connect">>}
    /\ calls # <<>> => pcb = NoPcb
    /\ calls = <<"start_connect">> => state = "idle"
    /\ calls = <<>> => (state = "idle" <=> pcb = NoPcb)
    /\ calls = <<>> /\ state = "idle" => queue = <<>>

\* A call of start_connect() has taken an element of the queue, which pays for
\* the call of request_finished() that it may nest.
Paid == IF Calls("start_connect") \/ Calls("tcp_new") THEN 1 ELSE 0

StackBounded == calls # <<>> => Len(calls) + Len(queue) + Paid <= MaxQueueSize + 2

IInv == TypeOK /\ HeldAscends /\ PcbIsLive /\ NoNesting /\ StackBounded
-----------------------------------------------------------------------------
(* Types.                                                                  *)

LEMMA Numbers ==
  /\ MaxQueueSize \in Nat /\ MaxQueueSize >= 1
  /\ RequestSize \in Nat /\ RequestSize >= 1
  /\ FirstReport \in 0 .. MaxReport /\ MaxReport \in Nat /\ MaxReport >= 1
  /\ MaxPosts \in Nat /\ MaxClock \in Nat
  /\ NoPcb \notin Pcbs
BY QueueAssumption, EmbeddedAssumption DEF NoPcb

LEMMA NoRequestIsElement == NoRequest \in Element /\ NoRequest.value = 0
BY DEF NoRequest, Element

LEMMA ConnectionEndsTypes ==
  ASSUME TypeOK, NEW p \in Pcbs, NEW todo \in Seq(Frames), ConnectionEnds(p, todo)
  PROVE  /\ pcb' \in Pcbs \union {NoPcb}
         /\ conns' \in [Pcbs -> {"free", "connecting", "established"}]
         /\ reportTime' \in 0 .. MaxReport
         /\ calls' \in Seq(Frames)
<1>1. <<"request_finished">> \in Seq(Frames)
  BY DEF Frames
<1>2. <<"request_finished">> \o todo \in Seq(Frames)
  BY <1>1
<1>3. 0 \in 0 .. MaxReport
  BY Numbers
<1>4. [conns EXCEPT ![p] = "free"] \in [Pcbs -> {"free", "connecting", "established"}]
  BY DEF TypeOK
<1> QED
  BY <1>2, <1>3, <1>4 DEF ConnectionEnds

\* What is left to do after a call returns.
LEMMA RestOfCalls ==
  ASSUME TypeOK, NEW frame, Calls(frame)
  PROVE  /\ Tail(calls) \in Seq(Frames) /\ Len(Tail(calls)) = Len(calls) - 1
         /\ calls # <<>> /\ Head(calls) = frame
         /\ \A new \in Frames : <<new>> \o Tail(calls) \in Seq(Frames)
         /\ \A new : /\ Len(<<new>> \o Tail(calls)) = Len(calls)
                     /\ Head(<<new>> \o Tail(calls)) = new
<1>1. calls \in Seq(Frames) /\ calls # <<>> /\ Head(calls) = frame
  BY DEF TypeOK, Calls
<1>2. Tail(calls) \in Seq(Frames) /\ Len(Tail(calls)) = Len(calls) - 1
  BY <1>1
<1>3. ASSUME NEW new \in Frames PROVE <<new>> \o Tail(calls) \in Seq(Frames)
  <2>1. <<new>> \in Seq(Frames)
    OBVIOUS
  <2> QED
    BY <1>2, <2>1
<1>4. ASSUME NEW new
      PROVE  /\ Len(<<new>> \o Tail(calls)) = Len(calls)
             /\ Head(<<new>> \o Tail(calls)) = new
  <2>1. <<new>> \in Seq({new}) /\ Len(<<new>>) = 1 /\ <<new>>[1] = new
    OBVIOUS
  <2>2. Tail(calls) \in Seq(Frames \union {new}) /\ <<new>> \in Seq(Frames \union {new})
    BY <1>2
  <2>3. <<new>> \o Tail(calls) \in Seq(Frames \union {new})
        /\ Len(<<new>> \o Tail(calls)) = 1 + Len(Tail(calls))
        /\ (<<new>> \o Tail(calls))[1] = new
    BY <2>1, <2>2
  <2> QED
    BY <1>2, <2>3
<1> QED
  BY <1>1, <1>2, <1>3, <1>4

LEMMA RequestFinishedTypes ==
  ASSUME TypeOK, RequestFinished
  PROVE  TypeOK'
<1>1. UNCHANGED <<pcb, reportTime, waited, conns, lwipFailed, clock, posted, sent>>
      /\ state' = "idle"
  BY DEF RequestFinished
<1>2. CASE queue' = <<>> /\ calls' = Tail(calls) /\ UNCHANGED <<buffer, outstanding>>
  <2>1. queue' \in Seq(Element) /\ Len(queue') <= MaxQueueSize
    BY <1>2, Numbers
  <2>2. calls' \in Seq(Frames)
    BY <1>2, RestOfCalls DEF RequestFinished
  <2> QED
    BY <1>1, <1>2, <2>1, <2>2 DEF TypeOK, States
<1>3. ASSUME NEW i \in UsableAt(queue, clock), buffer' = queue[i],
             queue' = Remainder(queue, i), outstanding' = RequestSize,
             calls' = <<"start_connect">> \o Tail(calls)
      PROVE  TypeOK'
  <2>1. i \in 1 .. Len(queue) /\ queue \in Seq(Element) /\ Len(queue) <= MaxQueueSize
    BY DEF UsableAt, TypeOK
  <2>2. queue' \in Seq(Element) /\ Len(queue') <= MaxQueueSize /\ buffer' \in Element
    BY <1>3, <2>1, RemainderFacts, Numbers
  <2>3. calls' \in Seq(Frames)
    BY <1>3, RestOfCalls DEF RequestFinished, Frames
  <2>4. outstanding' \in 0 .. RequestSize
    BY <1>3, Numbers
  <2> QED
    BY <1>1, <2>2, <2>3, <2>4 DEF TypeOK, States
<1> QED
  BY <1>2, <1>3 DEF RequestFinished

LEMMA StartReturnsTypes ==
  ASSUME TypeOK, NEW frame, Calls(frame), StartConnectReturns
  PROVE  state' \in States /\ calls' \in Seq(Frames)
BY RestOfCalls DEF StartConnectReturns, TypeOK, States

LEMMA OtherCallsTypes ==
  ASSUME TypeOK,
         StartConnectAborts \/ OutOfMemory \/ StartConnect \/ ConnectFailed \/ EstablishedFailed
  PROVE  TypeOK'
<1>1. CASE StartConnectAborts
  <2>1. pcb \in Pcbs
    BY <1>1 DEF StartConnectAborts, TypeOK
  <2>2. <<"tcp_new">> \o Tail(calls) \in Seq(Frames)
    BY <1>1, RestOfCalls DEF StartConnectAborts, Frames
  <2>3. ConnectionEnds(pcb, <<"tcp_new">> \o Tail(calls))
        /\ UNCHANGED <<queue, state, buffer, outstanding, waited, lwipFailed, clock, posted, sent>>
    BY <1>1 DEF StartConnectAborts
  <2> QED
    BY <2>1, <2>2, <2>3, ConnectionEndsTypes DEF TypeOK
<1>2. ASSUME AtTcpNew, StartConnectReturns
      PROVE  state' \in States /\ calls' \in Seq(Frames)
  BY <1>2, StartReturnsTypes DEF AtTcpNew
<1>3. CASE OutOfMemory
  <2>1. state' \in States /\ calls' \in Seq(Frames)
    BY <1>2, <1>3 DEF OutOfMemory
  <2>2. /\ pcb' = NoPcb /\ reportTime' = 0 /\ lwipFailed' = TRUE
        /\ UNCHANGED <<queue, buffer, outstanding, waited, conns, clock, posted, sent>>
    BY <1>3 DEF OutOfMemory
  <2>3. reportTime' \in 0 .. MaxReport
    BY <2>2, Numbers
  <2> QED
    BY <2>1, <2>2, <2>3 DEF TypeOK
<1>4. CASE StartConnect
  <2>1. PICK p \in Pcbs :
          /\ conns[p] = "free"
          /\ \/ /\ conns' = [conns EXCEPT ![p] = "connecting"]
                /\ pcb' = p
                /\ reportTime' = FirstReport
                /\ StartConnectReturns
                /\ UNCHANGED lwipFailed
             \/ /\ lwipFailed' = TRUE
                /\ ConnectionEnds(p, <<"connect_failed">> \o Tail(calls))
                /\ UNCHANGED state
    BY <1>4 DEF StartConnect
  <2>2. waited' = 0 /\ UNCHANGED <<queue, buffer, outstanding, clock, posted, sent>> /\ AtTcpNew
    BY <1>4 DEF StartConnect
  <2>3. waited' \in 0 .. MaxReport
    BY <2>2, Numbers
  <2>4. CASE /\ conns' = [conns EXCEPT ![p] = "connecting"]
             /\ pcb' = p /\ reportTime' = FirstReport /\ StartConnectReturns /\ UNCHANGED lwipFailed
    <3>1. state' \in States /\ calls' \in Seq(Frames)
      BY <1>2, <2>2, <2>4
    <3>2. conns' \in [Pcbs -> {"free", "connecting", "established"}]
      BY <2>4 DEF TypeOK
    <3>3. reportTime' \in 0 .. MaxReport
      BY <2>4, Numbers
    <3> QED
      BY <2>2, <2>3, <2>4, <3>1, <3>2, <3>3 DEF TypeOK
  <2>5. CASE /\ lwipFailed' = TRUE
             /\ ConnectionEnds(p, <<"connect_failed">> \o Tail(calls)) /\ UNCHANGED state
    <3>1. <<"connect_failed">> \o Tail(calls) \in Seq(Frames)
      BY <2>2, RestOfCalls DEF AtTcpNew, Frames
    <3> QED
      BY <2>2, <2>3, <2>5, <3>1, ConnectionEndsTypes DEF TypeOK
  <2> QED
    BY <2>1, <2>4, <2>5
<1>5. CASE ConnectFailed
  <2>1. state' \in States /\ calls' \in Seq(Frames)
    BY <1>5, StartReturnsTypes DEF ConnectFailed
  <2> QED
    BY <1>5, <2>1 DEF ConnectFailed, TypeOK
<1>6. CASE EstablishedFailed
  <2>1. calls' \in Seq(Frames)
    BY <1>6, RestOfCalls DEF EstablishedFailed, Frames
  <2>2. reportTime' \in 0 .. MaxReport
    BY <1>6, Numbers DEF EstablishedFailed
  <2> QED
    BY <1>6, <2>1, <2>2 DEF EstablishedFailed, TypeOK
<1> QED
  BY <1>1, <1>3, <1>4, <1>5, <1>6

LEMMA PostTypes ==
  ASSUME TypeOK, Post
  PROVE  TypeOK'
<1>1. posted + 1 \in Nat /\ clock \in Nat /\ posted' \in 0 .. MaxPosts
  BY Numbers DEF TypeOK, Post
<1>2. queue' \in Seq(Element) /\ Len(queue') <= MaxQueueSize
  BY <1>1, EnqueueFacts DEF TypeOK, Post
<1>3. calls' \in Seq(Frames)
  <2>1. <<"request_finished">> \in Seq(Frames) /\ <<>> \in Seq(Frames)
    BY DEF Frames
  <2> QED
    BY <2>1 DEF Post
<1> QED
  BY <1>1, <1>2, <1>3 DEF TypeOK, Post

LEMMA RebootTypes ==
  ASSUME TypeOK, Reboot
  PROVE  TypeOK'
<1>1. /\ 0 \in 0 .. RequestSize /\ 0 \in 0 .. MaxReport /\ 0 \in 0 .. MaxClock
      /\ 0 <= MaxQueueSize
  BY Numbers
<1>2. conns' \in [Pcbs -> {"free", "connecting", "established"}]
  BY DEF Reboot
<1>3. queue' \in Seq(Element) /\ Len(queue') <= MaxQueueSize /\ calls' \in Seq(Frames)
  BY <1>1 DEF Reboot
<1> QED
  BY <1>1, <1>2, <1>3, NoRequestIsElement DEF Reboot, TypeOK, States

LEMMA PollTypes ==
  ASSUME TypeOK, HeldAscends, Poll
  PROVE  TypeOK'
<1>1. CASE PollAborts \/ PollCrashes
  BY <1>1, RebootTypes DEF PollAborts, PollCrashes
<1>2. ASSUME Reports PROVE reportTime' \in 0 .. MaxReport
  <2>1. reportTime \in 0 .. MaxReport /\ MaxReport \in Nat
    BY Numbers DEF TypeOK
  <2>2. CASE IsSlow
    BY <1>2, <2>1, <2>2 DEF Reports
  <2>3. CASE ~IsSlow
    BY <1>2, <2>1, <2>3 DEF Reports
  <2> QED
    BY <2>2, <2>3
<1>3. CASE PollWaits
  BY <1>2, <1>3 DEF PollWaits, TypeOK
<1>4. ASSUME NEW n \in 1 .. RequestSize, PollWrites(n)
      PROVE  TypeOK'
  <2>1. /\ Reports /\ outstanding' = outstanding - n /\ n <= outstanding
        /\ UNCHANGED <<queue, pcb, buffer, waited, calls, conns, lwipFailed, clock, posted>>
    BY <1>4 DEF PollWrites
  <2>2. outstanding \in 0 .. RequestSize /\ outstanding' \in 0 .. RequestSize
    BY <2>1, Numbers DEF TypeOK
  <2>3. state' \in States /\ sent' \in Seq(1 .. MaxPosts)
    <3>1. CASE n = outstanding
      <4>1. state' = "receiving" /\ sent' = Append(sent, buffer.value)
        BY <1>4, <3>1 DEF PollWrites
      <4>2. buffer.value \in Nat /\ posted \in 0 .. MaxPosts
        BY DEF TypeOK, Element
      <4>3. buffer.value \in 1 .. MaxPosts
        BY <2>2, <3>1, <4>2, Numbers DEF HeldAscends, Unwritten
      <4> QED
        BY <4>1, <4>3 DEF TypeOK, States
    <3>2. CASE n # outstanding
      BY <1>4, <3>2 DEF PollWrites, TypeOK
    <3> QED
      BY <3>1, <3>2
  <2> QED
    BY <1>2, <2>1, <2>2, <2>3 DEF TypeOK
<1>5. CASE PollWriteFails
  <2>1. calls' \in Seq(Frames)
    BY <1>5 DEF PollWriteFails, Frames
  <2>2. reportTime' \in 0 .. MaxReport
    BY <1>5, Numbers DEF PollWriteFails
  <2> QED
    BY <1>5, <2>1, <2>2 DEF PollWriteFails, TypeOK
<1> QED
  BY <1>1, <1>3, <1>4, <1>5 DEF Poll

LEMMA CallbackTypes ==
  ASSUME TypeOK, NEW p \in Pcbs,
         ConnectionEstablished(p) \/ EstablishedWithError(p) \/ ConnectionError(p) \/ EndReceived(p)
  PROVE  TypeOK'
<1>1. CASE ConnectionEstablished(p)
  <2>1. conns' \in [Pcbs -> {"free", "connecting", "established"}]
    BY <1>1 DEF ConnectionEstablished, TypeOK
  <2> QED
    BY <1>1, <2>1 DEF ConnectionEstablished, TypeOK, States
<1>2. CASE EstablishedWithError(p)
  <2>1. <<"established_failed">> \in Seq(Frames)
    BY DEF Frames
  <2> QED
    BY <1>2, <2>1, ConnectionEndsTypes DEF EstablishedWithError, TypeOK
<1>3. CASE ConnectionError(p) \/ EndReceived(p)
  <2>1. <<>> \in Seq(Frames)
    OBVIOUS
  <2>2. ConnectionEnds(p, <<>>)
        /\ UNCHANGED <<queue, state, buffer, outstanding, waited, lwipFailed, clock, posted, sent>>
    BY <1>3 DEF ConnectionError, EndReceived
  <2> QED
    BY <2>1, <2>2, ConnectionEndsTypes DEF TypeOK
<1> QED
  BY <1>1, <1>2, <1>3

LEMMA TickTypes ==
  ASSUME TypeOK, Tick
  PROVE  TypeOK'
<1>1. clock' \in 0 .. MaxClock /\ waited' \in 0 .. MaxReport
  BY Numbers DEF Tick, TypeOK
<1> QED
  BY <1>1 DEF Tick, TypeOK

LEMMA TypeStep == IInv /\ [Next]_vars => TypeOK'
<1>1. UNCHANGED vars /\ TypeOK => TypeOK'
  BY DEF vars, TypeOK
<1> QED
  BY <1>1, RequestFinishedTypes, OtherCallsTypes, PostTypes, PollTypes, CallbackTypes, TickTypes
     DEF IInv, Next, CallsGoOn
-----------------------------------------------------------------------------
(* The other parts of the invariant.                                       *)

LEMMA HeldTypes ==
  ASSUME TypeOK
  PROVE  /\ queue \in Seq(Element) /\ Len(queue) <= MaxQueueSize /\ Len(queue) \in Nat
         /\ posted \in Nat /\ clock \in Nat /\ outstanding \in Nat
         /\ buffer.value \in Nat /\ Unwritten \in Nat
         /\ \A i \in 1 .. Len(queue) : queue[i] \in Element /\ queue[i].value \in Nat
<1>1. queue \in Seq(Element) /\ buffer.value \in Nat
  BY DEF TypeOK, Element
<1>2. \A i \in 1 .. Len(queue) : queue[i] \in Element /\ queue[i].value \in Nat
  BY <1>1, ValuesAreNumbers
<1> QED
  BY <1>1, <1>2, Numbers DEF TypeOK, Unwritten

LEMMA HeldStep == IInv /\ [Next]_vars => HeldAscends'
<1> SUFFICES ASSUME IInv, [Next]_vars PROVE HeldAscends'
  OBVIOUS
<1> USE DEF IInv
<1>1. ASSUME UNCHANGED <<queue, buffer, outstanding, posted>> PROVE HeldAscends'
  BY <1>1 DEF HeldAscends, Unwritten, Ascends
<1>2. CASE RequestFinished
  <2>1. posted' = posted
    BY <1>2 DEF RequestFinished
  <2>2. CASE queue' = <<>> /\ UNCHANGED <<buffer, outstanding>>
    BY <2>1, <2>2 DEF HeldAscends, Unwritten, Ascends
  <2>3. ASSUME NEW i \in UsableAt(queue, clock), buffer' = queue[i],
               queue' = Remainder(queue, i), outstanding' = RequestSize
        PROVE  HeldAscends'
    <3>1. i \in 1 .. Len(queue)
      BY DEF UsableAt
    <3>2. Unwritten < queue[i].value /\ queue[i].value <= posted
      BY <3>1 DEF HeldAscends, Ascends
    <3>3. Ascends(queue', queue[i].value, posted)
      BY <2>3, <3>1, HeldTypes, RemainderAscends DEF HeldAscends
    <3>4. Unwritten' = queue[i].value
      BY <2>3, Numbers DEF Unwritten
    <3>5. buffer'.value > 0
      BY <2>3, <3>1, <3>2, HeldTypes
    <3> QED
      BY <2>1, <3>2, <3>3, <3>4, <3>5 DEF HeldAscends
  <2> QED
    BY <1>2, <2>2, <2>3 DEF RequestFinished
<1>3. CASE Post
  <2>1. /\ posted' = posted + 1 /\ queue' = Enqueue(queue, posted + 1, clock)
        /\ Unwritten' = Unwritten /\ outstanding' = outstanding /\ buffer' = buffer
    BY <1>3 DEF Post, Unwritten
  <2>2. Ascends(queue', Unwritten, posted + 1)
    BY <2>1, HeldTypes, EnqueueAscends DEF HeldAscends
  <2> QED
    BY <2>1, <2>2, HeldTypes DEF HeldAscends
<1>4. CASE Reboot
  BY <1>4, HeldTypes DEF Reboot, HeldAscends, Unwritten, Ascends
<1>5. ASSUME NEW n \in 1 .. RequestSize, PollWrites(n) PROVE HeldAscends'
  <2>1. /\ outstanding' = outstanding - n /\ n <= outstanding
        /\ UNCHANGED <<queue, buffer, posted>>
    BY <1>5 DEF PollWrites
  <2>2. Unwritten' \in {0, Unwritten}
    BY <2>1, HeldTypes DEF Unwritten
  <2>3. outstanding' > 0 => buffer'.value > 0 /\ Unwritten' = Unwritten
    BY <2>1, HeldTypes DEF Unwritten, HeldAscends
  <2>4. 0 <= Unwritten /\ 0 <= posted
    BY HeldTypes
  <2>5. Ascends(queue, 0, posted)
    <3>1. \A i \in 1 .. Len(queue) : 0 < queue[i].value
      BY <2>4, HeldTypes DEF HeldAscends, Ascends
    <3> QED
      BY <3>1 DEF HeldAscends, Ascends
  <2>6. Ascends(queue', Unwritten', posted') /\ Unwritten' <= posted'
    BY <2>1, <2>2, <2>4, <2>5 DEF HeldAscends
  <2> QED
    BY <2>3, <2>6 DEF HeldAscends
<1>6. CASE StartConnectAborts \/ OutOfMemory \/ StartConnect \/ ConnectFailed \/ EstablishedFailed
  BY <1>1, <1>6 DEF StartConnectAborts, OutOfMemory, StartConnect, ConnectFailed, EstablishedFailed
<1>7. CASE Poll
  BY <1>1, <1>4, <1>5, <1>7 DEF Poll, PollAborts, PollCrashes, PollWaits, PollWriteFails
<1>8. CASE Tick \/ UNCHANGED vars
        \/ \E p \in Pcbs : ConnectionEstablished(p) \/ EstablishedWithError(p)
                           \/ ConnectionError(p) \/ EndReceived(p)
  BY <1>1, <1>8 DEF Tick, vars, ConnectionEstablished, EstablishedWithError, ConnectionError,
                    EndReceived
<1> QED
  BY <1>2, <1>3, <1>6, <1>7, <1>8 DEF Next, CallsGoOn

\* pcb_ is cleared before lwIP frees what it points to, by whichever callback.
LEMMA PcbStep == IInv /\ [Next]_vars => PcbIsLive'
<1> SUFFICES ASSUME IInv, [Next]_vars PROVE PcbIsLive'
  OBVIOUS
<1> USE DEF IInv
<1>1. ASSUME pcb' = NoPcb \/ UNCHANGED <<pcb, conns>> PROVE PcbIsLive'
  BY <1>1 DEF PcbIsLive
<1>2. CASE StartConnect
  <2>1. PICK p \in Pcbs : \/ conns' = [conns EXCEPT ![p] = "connecting"] /\ pcb' = p
                          \/ pcb' = NoPcb
    BY <1>2 DEF StartConnect, ConnectionEnds
  <2> QED
    BY <1>1, <2>1 DEF PcbIsLive, TypeOK
<1>3. ASSUME NEW p \in Pcbs, ConnectionEstablished(p) PROVE PcbIsLive'
  BY <1>3 DEF ConnectionEstablished, PcbIsLive, TypeOK
<1>4. CASE \E p \in Pcbs : EstablishedWithError(p) \/ ConnectionError(p) \/ EndReceived(p)
  BY <1>1, <1>4 DEF EstablishedWithError, ConnectionError, EndReceived, ConnectionEnds
<1>5. CASE RequestFinished \/ StartConnectAborts \/ OutOfMemory \/ ConnectFailed
           \/ EstablishedFailed
  BY <1>1, <1>5 DEF RequestFinished, StartConnectAborts, OutOfMemory, ConnectFailed,
                    EstablishedFailed, ConnectionEnds
<1>6. CASE Poll
  BY <1>1, <1>6 DEF Poll, PollAborts, PollCrashes, PollWaits, PollWrites, PollWriteFails, Reboot
<1>7. CASE Post \/ Tick \/ UNCHANGED vars
  BY <1>1, <1>7 DEF Post, Tick, vars
<1> QED
  BY <1>2, <1>3, <1>4, <1>5, <1>6, <1>7 DEF Next, CallsGoOn

\* Each nested call of request_finished() has taken an element of the queue.
LEMMA StackStep == IInv /\ [Next]_vars => StackBounded'
<1> SUFFICES ASSUME IInv, [Next]_vars PROVE StackBounded'
  OBVIOUS
<1> USE DEF IInv
<1>0. /\ calls \in Seq(Frames) /\ Len(calls) \in Nat /\ queue \in Seq(Element)
      /\ Len(queue) \in Nat /\ Len(queue) <= MaxQueueSize /\ MaxQueueSize \in Nat
      /\ MaxQueueSize >= 1 /\ Paid \in {0, 1} /\ Paid' \in {0, 1}
      /\ (calls # <<>> => Len(calls) >= 1)
  BY Numbers DEF TypeOK, Paid
<1>1. ASSUME NEW frame, Calls(frame), calls' = Tail(calls),
             Len(queue') \in Nat, Len(queue') <= Len(queue),
             frame \in {"start_connect", "tcp_new"} \/ Len(queue') = 0
             \/ frame = "connect_failed"
      PROVE  StackBounded'
  <2>1. Len(calls') = Len(calls) - 1 /\ calls # <<>>
    BY <1>1, RestOfCalls
  <2>2. Len(calls) + Len(queue) + Paid <= MaxQueueSize + 2
    BY <2>1 DEF StackBounded
  <2> QED
    BY <1>0, <1>1, <2>1, <2>2 DEF StackBounded
<1>2. ASSUME UNCHANGED <<calls, queue>> PROVE StackBounded'
  BY <1>2 DEF StackBounded, Paid, Calls
<1>3. ASSUME calls' = <<>> PROVE StackBounded'
  BY <1>3 DEF StackBounded
<1>n. ASSUME calls' = <<"request_finished">>, Len(queue') \in Nat, Len(queue') <= MaxQueueSize
       PROVE  StackBounded'
  <2>1. Len(calls') = 1
    BY <1>n
  <2> QED
    BY <1>0, <1>n, <2>1 DEF StackBounded
<1>4. CASE RequestFinished
  <2>1. Calls("request_finished")
    BY <1>4 DEF RequestFinished
  <2>2. CASE queue' = <<>> /\ calls' = Tail(calls)
    <3>1. Len(queue') = 0
      BY <2>2
    <3> QED
      BY <1>0, <1>1, <2>1, <2>2, <3>1
  <2>3. CASE \E i \in UsableAt(queue, clock) :
               queue' = Remainder(queue, i) /\ calls' = <<"start_connect">> \o Tail(calls)
    <3>1. PICK i \in UsableAt(queue, clock) :
            queue' = Remainder(queue, i) /\ calls' = <<"start_connect">> \o Tail(calls)
      BY <2>3
    <3>2. i \in 1 .. Len(queue)
      BY DEF UsableAt
    <3>3. Len(queue') = Len(queue) - i
      BY <1>0, <3>1, <3>2, RemainderFacts
    <3>4. Len(calls') = Len(calls) /\ calls # <<>>
      BY <2>1, <3>1, RestOfCalls
    <3>5. Len(calls) + Len(queue) + Paid <= MaxQueueSize + 2
      BY <3>4 DEF StackBounded
    <3> QED
      BY <1>0, <3>2, <3>3, <3>4, <3>5 DEF StackBounded
  <2> QED
    BY <1>4, <2>2, <2>3 DEF RequestFinished
<1>5. ASSUME NEW old \in {"start_connect", "tcp_new"}, Calls(old), queue' = queue,
             NEW new \in Frames \ {"start_connect", "tcp_new"},
             NEW rest \in Frames, calls' = <<new>> \o (<<rest>> \o Tail(calls))
      PROVE  StackBounded'
  <2>1. /\ <<rest>> \o Tail(calls) \in Seq(Frames) /\ Len(<<rest>> \o Tail(calls)) = Len(calls)
        /\ calls # <<>>
    BY <1>5, RestOfCalls
  <2>2. <<new>> \in Seq(Frames) /\ Len(<<new>>) = 1 /\ <<new>>[1] = new
    OBVIOUS
  <2>3. Len(calls') = Len(calls) + 1 /\ Head(calls') = new
    BY <1>5, <2>1, <2>2
  <2>4. Paid' = 0 /\ Paid = 1
    BY <1>5, <2>3 DEF Paid, Calls
  <2>5. Len(calls) + Len(queue) + Paid <= MaxQueueSize + 2
    BY <2>1 DEF StackBounded
  <2> QED
    BY <1>0, <1>5, <2>3, <2>4, <2>5 DEF StackBounded
<1>6. CASE StartConnectAborts
  BY <1>5, <1>6 DEF StartConnectAborts, ConnectionEnds, Frames
<1>7. CASE OutOfMemory
  <2>1. PICK frame \in {"start_connect", "tcp_new"} : Calls(frame)
    BY <1>7 DEF OutOfMemory, AtTcpNew
  <2> QED
    BY <1>0, <1>1, <1>7, <2>1 DEF OutOfMemory, StartConnectReturns
<1>8. CASE StartConnect
  <2>1. PICK frame \in {"start_connect", "tcp_new"} : Calls(frame)
    BY <1>8 DEF StartConnect, AtTcpNew
  <2>2. queue' = queue /\ (\/ calls' = Tail(calls)
                           \/ calls' = <<"request_finished">> \o (<<"connect_failed">> \o Tail(calls)))
    BY <1>8 DEF StartConnect, StartConnectReturns, ConnectionEnds
  <2>3. CASE calls' = Tail(calls)
    BY <1>0, <1>1, <2>1, <2>2, <2>3
  <2>4. CASE calls' = <<"request_finished">> \o (<<"connect_failed">> \o Tail(calls))
    BY <1>5, <2>1, <2>2, <2>4 DEF Frames
  <2> QED
    BY <2>2, <2>3, <2>4
<1>9. CASE ConnectFailed
  BY <1>0, <1>1, <1>9 DEF ConnectFailed, StartConnectReturns
<1>10. CASE EstablishedFailed
  <2>1. Calls("established_failed") /\ queue' = queue /\ calls' = <<"request_finished">> \o Tail(calls)
    BY <1>10 DEF EstablishedFailed
  <2>2. Len(calls') = Len(calls) /\ Head(calls') = "request_finished" /\ calls # <<>>
    BY <2>1, RestOfCalls
  <2>3. Paid' = 0
    BY <2>2 DEF Paid, Calls
  <2> QED
    BY <1>0, <2>1, <2>2, <2>3 DEF StackBounded
<1>11. CASE Post
  <2>1. calls' \in {<<>>, <<"request_finished">>}
    BY <1>11 DEF Post
  <2>2. Len(queue') <= MaxQueueSize /\ Len(queue') \in Nat
    BY <1>11, PostTypes DEF TypeOK
  <2> QED
    BY <1>3, <1>n, <2>1, <2>2
<1>12. CASE Poll
  <2>1. UNCHANGED <<calls, queue>> \/ calls' = <<>>
        \/ (queue' = queue /\ calls' = <<"request_finished">>)
    BY <1>12 DEF Poll, PollAborts, PollCrashes, PollWaits, PollWrites, PollWriteFails, Reboot
  <2> QED
    BY <1>0, <1>2, <1>3, <1>n, <2>1
<1>13. ASSUME NEW p \in Pcbs,
              ConnectionEstablished(p) \/ EstablishedWithError(p) \/ ConnectionError(p)
              \/ EndReceived(p)
       PROVE  StackBounded'
  <2>1. /\ queue' = queue
        /\ \/ calls' = calls
           \/ calls' = <<"request_finished">> \o <<>>
           \/ calls' = <<"request_finished">> \o <<"established_failed">>
    BY <1>13 DEF ConnectionEstablished, EstablishedWithError, ConnectionError, EndReceived,
                 ConnectionEnds
  <2>2. /\ Len(<<"request_finished">> \o <<>>) = 1
        /\ Len(<<"request_finished">> \o <<"established_failed">>) = 2
        /\ Head(<<"request_finished">> \o <<"established_failed">>) = "request_finished"
    OBVIOUS
  <2>3. CASE calls' = <<"request_finished">> \o <<"established_failed">>
    <3>1. Paid' = 0
      BY <2>2, <2>3 DEF Paid, Calls
    <3> QED
      BY <1>0, <2>1, <2>2, <2>3, <3>1 DEF StackBounded
  <2>4. CASE calls' = calls
    BY <1>2, <2>1, <2>4
  <2>5. CASE calls' = <<"request_finished">> \o <<>>
    <3>1. calls' = <<"request_finished">>
      BY <2>5
    <3> QED
      BY <1>0, <1>n, <2>1, <3>1
  <2> QED
    BY <2>1, <2>3, <2>4, <2>5
<1>14. CASE Tick \/ UNCHANGED vars
  BY <1>2, <1>14 DEF Tick, vars
<1> QED
  BY <1>4, <1>6, <1>7, <1>8, <1>9, <1>10, <1>11, <1>12, <1>13, <1>14 DEF Next, CallsGoOn

LEMMA OneCall ==
  ASSUME NEW frame, NEW other, frame # other
  PROVE  /\ Head(<<frame>>) = frame /\ Tail(<<frame>>) = <<>> /\ <<frame>> # <<>>
         /\ <<frame>> # <<other>> /\ <<frame>> \o <<>> = <<frame>> /\ <<frame>> \o Tail(<<other>>) = <<frame>>
<1>1. Head(<<frame>>) = frame /\ Tail(<<frame>>) = <<>> /\ Tail(<<other>>) = <<>>
  OBVIOUS
<1>2. <<frame>> \in Seq({frame, other}) /\ <<other>> \in Seq({frame, other})
  OBVIOUS
<1>3. <<frame>> \o <<>> = <<frame>>
  BY <1>2
<1>4. <<frame>> # <<>> /\ <<frame>> # <<other>>
  OBVIOUS
<1> QED
  BY <1>1, <1>3, <1>4

LEMMA NestingStep == IInv /\ [Next]_vars => NoNesting'
<1> SUFFICES ASSUME IInv, [Next]_vars PROVE NoNesting'
  OBVIOUS
<1> USE DEF IInv
<1> DEFINE live == {p \in Pcbs : conns[p] # "free"}
<1>1. CASE Reboot
  <2>1. /\ calls' = <<>> /\ state' = "idle" /\ pcb' = NoPcb /\ queue' = <<>>
        /\ \A p \in Pcbs : conns'[p] = "free"
    BY <1>1 DEF Reboot
  <2>2. <<>> # <<"start_connect">>
    OBVIOUS
  <2> QED
    BY <2>1, <2>2 DEF NoNesting
<1>2. CASE lwipFailed'
  BY <1>2 DEF NoNesting
<1>3. CASE ~Reboot /\ ~lwipFailed' /\ ~lwipFailed
  <2>1. /\ live = {pcb} \ {NoPcb}
        /\ calls \in {<<>>, <<"request_finished">>, <<"start_connect">>}
        /\ calls # <<>> => pcb = NoPcb
        /\ calls = <<"start_connect">> => state = "idle"
        /\ calls = <<>> => (state = "idle" <=> pcb = NoPcb)
        /\ calls = <<>> /\ state = "idle" => queue = <<>>
    BY <1>3 DEF NoNesting
  <2>2. /\ \A frame : Calls(frame) => calls # <<>> /\ calls = <<frame>>
        /\ <<"start_connect">> # <<>> /\ <<"request_finished">> # <<>>
        /\ <<"start_connect">> # <<"request_finished">>
        /\ Tail(<<"start_connect">>) = <<>> /\ Tail(<<"request_finished">>) = <<>>
        /\ <<"start_connect">> \o <<>> = <<"start_connect">>
        /\ <<"request_finished">> \o <<>> = <<"request_finished">>
    <3>1. Head(<<"request_finished">>) = "request_finished" /\ Head(<<"start_connect">>) = "start_connect"
      BY OneCall
    <3>2. ASSUME NEW frame, Calls(frame) PROVE calls # <<>> /\ calls = <<frame>>
      <4>1. calls # <<>> /\ Head(calls) = frame
        BY <3>2 DEF Calls
      <4> QED
        BY <2>1, <3>1, <4>1
    <3>3. "start_connect" # "request_finished"
      OBVIOUS
    <3> QED
      BY <3>2, <3>3, OneCall
  <2>3. ~Calls("tcp_new") /\ ~Calls("connect_failed") /\ ~Calls("established_failed")
    BY <2>1, OneCall DEF Calls
  <2>4. CASE RequestFinished
    <3>1. /\ calls = <<"request_finished">> /\ pcb = NoPcb /\ state' = "idle" /\ pcb' = pcb
          /\ conns' = conns
          /\ \/ queue' = <<>> /\ calls' = Tail(calls)
             \/ calls' = <<"start_connect">> \o Tail(calls)
      BY <2>1, <2>2, <2>4 DEF RequestFinished
    <3>2. (calls' = <<>> /\ queue' = <<>>) \/ calls' = <<"start_connect">>
      BY <2>2, <3>1
    <3> QED
      BY <2>1, <2>2, <3>1, <3>2 DEF NoNesting
  <2>5. CASE StartConnectAborts
    BY <2>1, <2>2, <2>5 DEF StartConnectAborts
  <2>6. CASE OutOfMemory \/ PollWriteFails \/ \E p \in Pcbs : EstablishedWithError(p)
    BY <1>3, <2>6 DEF OutOfMemory, PollWriteFails, EstablishedWithError
  <2>7. CASE StartConnect
    <3>1. calls = <<"start_connect">> /\ pcb = NoPcb /\ state = "idle"
      BY <2>1, <2>2, <2>3, <2>7 DEF StartConnect, AtTcpNew
    <3>2. PICK p \in Pcbs : /\ conns' = [conns EXCEPT ![p] = "connecting"] /\ pcb' = p
                            /\ StartConnectReturns
      BY <1>3, <2>7 DEF StartConnect
    <3>3. state' = "connecting" /\ calls' = <<>>
      BY <2>2, <3>1, <3>2 DEF StartConnectReturns
    <3>4. {q \in Pcbs : conns'[q] # "free"} = {p}
      <4>1. live = {}
        BY <2>1, <3>1
      <4> QED
        BY <3>2, <4>1 DEF TypeOK
    <3>5. p # NoPcb
      BY Numbers
    <3> QED
      BY <2>2, <3>2, <3>3, <3>4, <3>5 DEF NoNesting
  <2>8. CASE ConnectFailed \/ EstablishedFailed
    BY <2>3, <2>8 DEF ConnectFailed, EstablishedFailed
  <2>9. CASE Post
    <3>1. /\ calls = <<>> /\ UNCHANGED <<state, pcb, conns>>
          /\ calls' = IF state = "idle" THEN <<"request_finished">> ELSE <<>>
      BY <2>9 DEF Post
    <3> QED
      BY <2>1, <2>2, <3>1 DEF NoNesting
  <2>10. CASE PollWaits \/ Tick \/ UNCHANGED vars
    <3>1. UNCHANGED <<calls, state, pcb, conns, queue>>
      BY <2>10 DEF PollWaits, Tick, vars
    <3> QED
      BY <2>1, <3>1 DEF NoNesting
  <2>11. ASSUME NEW n \in 1 .. RequestSize, PollWrites(n) PROVE NoNesting'
    <3>1. /\ calls = <<>> /\ pcb # NoPcb /\ state' # "idle" /\ UNCHANGED <<calls, pcb, conns>>
      BY <2>11 DEF PollWrites
    <3> QED
      BY <2>1, <2>2, <3>1 DEF NoNesting
  <2>12. ASSUME NEW p \in Pcbs, ConnectionEstablished(p) PROVE NoNesting'
    <3>1. /\ calls = <<>> /\ conns[p] = "connecting" /\ state' = "sending"
          /\ conns' = [conns EXCEPT ![p] = "established"] /\ UNCHANGED <<calls, pcb>>
      BY <2>12 DEF ConnectionEstablished
    <3>2. {q \in Pcbs : conns'[q] # "free"} = live
      BY <3>1 DEF TypeOK
    <3>3. pcb # NoPcb
      BY <2>1, <3>1
    <3> QED
      BY <2>1, <2>2, <3>1, <3>2, <3>3 DEF NoNesting
  <2>13. ASSUME NEW p \in Pcbs, ConnectionError(p) \/ EndReceived(p) PROVE NoNesting'
    <3>1. ConnectionEnds(p, <<>>) /\ conns[p] # "free"
      BY <2>13 DEF ConnectionError, EndReceived
    <3>2. pcb' = NoPcb /\ calls' = <<"request_finished">>
      BY <2>2, <3>1 DEF ConnectionEnds
    <3>3. {q \in Pcbs : conns'[q] # "free"} = {}
      BY <2>1, <3>1 DEF ConnectionEnds, TypeOK
    <3> QED
      BY <2>2, <3>2, <3>3 DEF NoNesting
  <2> QED
    BY <1>3, <2>4, <2>5, <2>6, <2>7, <2>8, <2>9, <2>10, <2>11, <2>12, <2>13
       DEF Next, CallsGoOn, Poll, PollAborts, PollCrashes
<1>4. Reboot \/ lwipFailed' \/ ~lwipFailed
  BY DEF Next, CallsGoOn, Poll, PollAborts, PollCrashes, RequestFinished, StartConnectAborts,
         OutOfMemory, StartConnect, ConnectFailed, EstablishedFailed, Post, PollWaits, PollWrites,
         PollWriteFails, ConnectionEstablished, EstablishedWithError, ConnectionError, EndReceived,
         Tick, vars
<1> QED
  BY <1>1, <1>2, <1>3, <1>4

LEMMA InitIInv == Init => IInv
<1> SUFFICES ASSUME Init PROVE IInv
  OBVIOUS
<1>1. /\ 0 \in 0 .. RequestSize /\ 0 \in 0 .. MaxReport /\ 0 \in 0 .. MaxClock
      /\ 0 \in 0 .. MaxPosts /\ 0 <= MaxQueueSize
  BY Numbers
<1>2. TypeOK
  <2>1. queue \in Seq(Element) /\ Len(queue) <= MaxQueueSize /\ calls \in Seq(Frames)
        /\ sent \in Seq(1 .. MaxPosts)
    BY <1>1 DEF Init
  <2>2. conns \in [Pcbs -> {"free", "connecting", "established"}]
    BY DEF Init
  <2> QED
    BY <1>1, <2>1, <2>2, NoRequestIsElement DEF Init, TypeOK, States
<1>3. HeldAscends
  BY DEF Init, HeldAscends, Unwritten, Ascends
<1>4. PcbIsLive
  BY DEF Init, PcbIsLive
<1>5. StackBounded
  BY DEF Init, StackBounded
<1>6. NoNesting
  <2>1. /\ calls = <<>> /\ state = "idle" /\ pcb = NoPcb /\ queue = <<>>
        /\ \A p \in Pcbs : conns[p] = "free"
    BY DEF Init
  <2>2. <<>> # <<"start_connect">>
    OBVIOUS
  <2> QED
    BY <2>1, <2>2 DEF NoNesting
<1> QED
  BY <1>2, <1>3, <1>4, <1>5, <1>6 DEF IInv

\* All of it holds in every state of the handler.
THEOREM EmbeddedInvariance == Spec => []IInv
<1>1. IInv /\ [Next]_vars => IInv'
  BY TypeStep, HeldStep, PcbStep, NestingStep, StackStep DEF IInv
<1> QED
  BY <1>1, InitIInv, PTL DEF Spec

THEOREM EmbeddedTypes == Spec => []TypeOK
BY EmbeddedInvariance, PTL DEF IInv

\* As long as lwIP takes every call: one connection, that of the request under
\* way, and no value left with a handler that is idle.
THEOREM OneConnectionTheorem == Spec => []OneConnection
<1>1. IInv => OneConnection
  BY DEF IInv, NoNesting, OneConnection
<1> QED
  BY <1>1, EmbeddedInvariance, PTL

\* Whatever fails, pcb_ is not a connection that lwIP has freed.
THEOREM PcbTheorem == Spec => []PcbIsLive
BY EmbeddedInvariance, PTL DEF IInv

\* The depth of the recursion is bounded by the size of the queue.
THEOREM StackTheorem == Spec => []RecursionBounded
<1>1. IInv => RecursionBounded
  <2> SUFFICES ASSUME IInv PROVE RecursionBounded
    OBVIOUS
  <2>1. Len(calls) \in Nat /\ Len(queue) \in Nat /\ MaxQueueSize \in Nat /\ Paid \in {0, 1}
        /\ (calls = <<>> => Len(calls) = 0)
    BY Numbers DEF IInv, TypeOK, Paid
  <2>2. CASE calls = <<>>
    BY <2>1, <2>2 DEF RecursionBounded
  <2>3. CASE calls # <<>>
    BY <2>1, <2>3 DEF IInv, StackBounded, RecursionBounded
  <2> QED
    BY <2>2, <2>3
<1> QED
  BY <1>1, EmbeddedInvariance, PTL
-----------------------------------------------------------------------------
(* The handler implements the lossy queue.                                 *)

LEMMA PollWritesMaps ==
  ASSUME IInv, NEW n \in 1 .. RequestSize, PollWrites(n)
  PROVE  Fifo!Next
<1>1. /\ queue' = queue /\ buffer' = buffer /\ posted' = posted
      /\ outstanding' = outstanding - n /\ n <= outstanding /\ outstanding > 0
  BY HeldTypes, Numbers DEF PollWrites, IInv
<1>2. /\ buffer.value \in Nat /\ outstanding \in Nat /\ Unwritten = buffer.value
      /\ \A i \in 1 .. Len(queue) : buffer.value < queue[i].value
  BY <1>1, HeldTypes DEF IInv, HeldAscends, Ascends, Unwritten
<1>3. Queued' = Queued
  BY <1>1 DEF Queued
<1>4. buffer.value \in MaySend /\ MaySend = Queued \union {buffer.value}
  BY <1>1 DEF MaySend
<1>5. CASE n = outstanding
  <2>1. sent' = Append(sent, buffer.value)
    BY <1>5 DEF PollWrites
  <2>2. MaySend' = Queued
    BY <1>1, <1>2, <1>3, <1>5 DEF MaySend
  <2>3. \A w \in Queued : buffer.value < w
    BY <1>2 DEF Queued
  <2> QED
    BY <1>1, <1>4, <2>1, <2>2, <2>3 DEF Fifo!Next, Fifo!Send
<1>6. CASE n # outstanding
  <2>1. sent' = sent
    BY <1>6 DEF PollWrites
  <2>2. MaySend' \subseteq MaySend
    BY <1>1, <1>3, <1>4 DEF MaySend
  <2> QED
    BY <1>1, <2>1, <2>2 DEF Fifo!Next, Fifo!Lose
<1> QED
  BY <1>5, <1>6

LEMMA StepMaps == IInv /\ [Next]_vars => [Fifo!Next]_(Fifo!vars)
<1> SUFFICES ASSUME IInv, [Next]_vars PROVE [Fifo!Next]_(Fifo!vars)
  OBVIOUS
<1>1. ASSUME UNCHANGED <<queue, buffer, outstanding, posted, sent>> PROVE UNCHANGED Fifo!vars
  BY <1>1 DEF Fifo!vars, MaySend, Queued
<1>2. CASE RequestFinished
  <2>1. posted' = posted /\ sent' = sent
    BY <1>2 DEF RequestFinished
  <2>2. CASE queue' = <<>> /\ UNCHANGED <<buffer, outstanding>>
    <3>1. Queued' = {}
      BY <2>2 DEF Queued
    <3> QED
      BY <2>1, <2>2, <3>1 DEF Fifo!Next, Fifo!Lose, MaySend
  <2>3. ASSUME NEW i \in UsableAt(queue, clock), buffer' = queue[i], queue' = Remainder(queue, i)
        PROVE  Fifo!Lose
    <3>1. i \in 1 .. Len(queue)
      BY DEF UsableAt
    <3>2. Queued' \subseteq Queued /\ queue[i].value \in Queued
      BY <2>3, <3>1, HeldTypes, RemainderHolds DEF IInv, Queued, Values
    <3>3. MaySend' \subseteq MaySend
      BY <2>3, <3>2 DEF MaySend
    <3> QED
      BY <2>1, <3>3 DEF Fifo!Lose
  <2> QED
    BY <1>2, <2>2, <2>3 DEF RequestFinished, Fifo!Next
<1>3. CASE Post
  <2>1. /\ posted' = posted + 1 /\ queue' = Enqueue(queue, posted + 1, clock)
        /\ UNCHANGED <<buffer, outstanding, sent>>
    BY <1>3 DEF Post
  <2>2. Queued' \subseteq Queued \union {posted + 1}
    <3>1. Values(Enqueue(queue, posted + 1, clock)) \subseteq Values(queue) \union {posted + 1}
      <4>1. /\ queue \in Seq(Element) /\ Len(queue) <= MaxQueueSize
            /\ posted + 1 \in Nat /\ clock \in Nat
        BY HeldTypes DEF IInv
      <4> QED
        BY <4>1, EnqueueHolds
    <3> QED
      BY <2>1, <3>1 DEF Queued, Values
  <2>3. MaySend' \subseteq MaySend \union {posted + 1}
    BY <2>1, <2>2 DEF MaySend
  <2> QED
    BY <2>1, <2>3 DEF Fifo!Next, Fifo!Post
<1>4. CASE Reboot
  <2>1. /\ queue' = <<>> /\ outstanding' = 0 /\ UNCHANGED <<posted, sent>>
    BY <1>4 DEF Reboot
  <2>2. MaySend' = {}
    BY <2>1 DEF MaySend, Queued
  <2> QED
    BY <2>1, <2>2 DEF Fifo!Next, Fifo!Lose
<1>5. CASE Poll
  BY <1>1, <1>4, <1>5, PollWritesMaps
     DEF Poll, PollAborts, PollCrashes, PollWaits, PollWriteFails
<1>6. CASE StartConnectAborts \/ OutOfMemory \/ StartConnect \/ ConnectFailed \/ EstablishedFailed
  BY <1>1, <1>6 DEF StartConnectAborts, OutOfMemory, StartConnect, ConnectFailed, EstablishedFailed
<1>7. CASE Tick \/ UNCHANGED vars
        \/ \E p \in Pcbs : ConnectionEstablished(p) \/ EstablishedWithError(p)
                           \/ ConnectionError(p) \/ EndReceived(p)
  BY <1>1, <1>7 DEF Tick, vars, ConnectionEstablished, EstablishedWithError, ConnectionError,
                    EndReceived
<1> QED
  BY <1>2, <1>3, <1>5, <1>6, <1>7 DEF Next, CallsGoOn

\* What is sent is sent once and in the order of post(), however requests nest
\* and whichever connection a callback is for.
THEOREM EmbeddedRefinement == Spec => FifoSpec
<1>1. Init => Fifo!Init
  <2> SUFFICES ASSUME Init PROVE Fifo!Init
    OBVIOUS
  <2>1. queue = <<>> /\ outstanding = 0 /\ posted = 0 /\ sent = <<>>
    BY DEF Init
  <2>2. MaySend = {}
    BY <2>1 DEF MaySend, Queued
  <2> QED
    BY <2>1, <2>2 DEF Fifo!Init
<1> QED
  BY <1>1, StepMaps, EmbeddedInvariance, PTL DEF Spec, FifoSpec, Fifo!Spec
-----------------------------------------------------------------------------
(* What is lost, and why.                                                  *)

LEMMA RequestFinishedJustified == ASSUME IInv, RequestFinished PROVE LossJustified
<1>1. posted' = posted /\ Calls("request_finished")
  BY DEF RequestFinished
<1>2. pcb = NoPcb \/ lwipFailed
  BY <1>1 DEF IInv, NoNesting, Calls
<1>3. CASE UsableAt(queue, clock) = {} /\ UNCHANGED <<buffer, outstanding>>
  <2>1. \A k \in 1 .. Len(queue) : ~Usable(queue[k], clock)
    BY <1>3 DEF UsableAt
  <2>2. \A v \in MaySend \ MaySend' : v \in Queued
    BY <1>3 DEF MaySend
  <2> QED
    BY <1>1, <2>1, <2>2 DEF LossJustified, Queued
<1>4. ASSUME NEW i \in UsableAt(queue, clock), IsFirstUsable(queue, i, clock),
             buffer' = queue[i], queue' = Remainder(queue, i), outstanding' = RequestSize
      PROVE  LossJustified
  <2>1. /\ i \in 1 .. Len(queue) /\ Len(queue) \in Nat /\ queue \in Seq(Element)
        /\ buffer'.value \in MaySend' /\ Queued' = Values(queue')
    BY <1>4, HeldTypes, Numbers DEF UsableAt, IInv, MaySend, Queued, Values
  <2>2. ASSUME NEW k \in 1 .. Len(queue)
        PROVE  queue[k].value \in MaySend' \/ ~Usable(queue[k], clock)
    <3>1. CASE k < i
      BY <1>4, <2>1, <3>1 DEF IsFirstUsable, UsableAt
    <3>2. CASE k = i
      BY <1>4, <2>1, <3>2
    <3>3. CASE k > i
      <4>1. k \in i + 1 .. Len(queue)
        BY <2>1, <3>3
      <4> QED
        BY <1>4, <2>1, <4>1, RemainderKeeps DEF MaySend
    <3> QED
      BY <2>1, <3>1, <3>2, <3>3
  <2>3. ASSUME NEW v \in MaySend \ MaySend'
        PROVE  \/ \E k \in 1 .. Len(queue) : queue[k].value = v /\ ~Usable(queue[k], clock)
               \/ v = buffer.value
    <3>1. CASE v \in Queued
      BY <2>2, <3>1 DEF Queued
    <3>2. CASE v \notin Queued
      BY <3>2 DEF MaySend
    <3> QED
      BY <3>1, <3>2
  <2> QED
    BY <1>1, <1>2, <2>3 DEF LossJustified
<1> QED
  BY <1>3, <1>4 DEF RequestFinished

LEMMA EmbeddedPostJustified == ASSUME IInv, Post PROVE LossJustified
<1>1. /\ queue \in Seq(Element) /\ Len(queue) <= MaxQueueSize
      /\ posted \in Nat /\ posted + 1 \in Nat /\ clock \in Nat
  BY HeldTypes DEF IInv
<1>2. /\ posted' = posted + 1 /\ queue' = Enqueue(queue, posted + 1, clock)
      /\ UNCHANGED <<buffer, outstanding>>
  BY DEF Post
<1>3. Queued' = Values(queue')
  BY DEF Queued, Values
<1>4. /\ posted' \in Queued'
      /\ \A k \in 1 .. Len(queue) : \/ queue[k].value \in Queued'
                                    \/ k = 1 /\ Len(queue) = MaxQueueSize
  BY <1>1, <1>2, <1>3, EnqueueKeeps
<1>5. \A v \in MaySend \ MaySend' : v \in Queued /\ v \notin Queued'
  BY <1>2 DEF MaySend
<1>6. posted' # posted
  BY <1>1, <1>2
<1> QED
  BY <1>4, <1>5, <1>6, ZenonT(40) DEF LossJustified, Queued, MaySend

LEMMA EmbeddedPollJustified == ASSUME IInv, Poll PROVE LossJustified
<1>1. posted' = posted
  BY DEF Poll, PollAborts, PollCrashes, PollWaits, PollWrites, PollWriteFails, Reboot
<1>2. CASE PollAborts
  BY <1>1, <1>2 DEF PollAborts, LossJustified
<1>3. CASE PollCrashes
  BY <1>1, <1>3 DEF PollCrashes, LossJustified, IInv, NoNesting
<1>4. ASSUME NEW n \in 1 .. RequestSize, PollWrites(n) PROVE LossJustified
  <2>1. /\ queue' = queue /\ buffer' = buffer /\ outstanding' = outstanding - n
        /\ n <= outstanding /\ outstanding \in Nat
    BY <1>4, HeldTypes DEF PollWrites, IInv
  <2>2. Queued' = Queued
    BY <2>1 DEF Queued
  <2>3. CASE n = outstanding
    <3>1. sent' = Append(sent, buffer.value)
      BY <1>4, <2>3 DEF PollWrites
    <3>2. \A v \in MaySend \ MaySend' : v = buffer.value
      BY <2>2 DEF MaySend
    <3> QED
      BY <1>1, <3>1, <3>2 DEF LossJustified
  <2>4. CASE n # outstanding
    <3>1. outstanding' > 0
      BY <2>1, <2>4
    <3>2. MaySend \ MaySend' = {}
      BY <2>1, <2>2, <3>1 DEF MaySend
    <3> QED
      BY <1>1, <3>2 DEF LossJustified
  <2> QED
    BY <2>3, <2>4
<1>5. CASE UNCHANGED <<queue, buffer, outstanding>>
  BY <1>1, <1>5 DEF LossJustified, MaySend, Queued
<1> QED
  BY <1>2, <1>3, <1>4, <1>5 DEF Poll, PollWaits, PollWriteFails

\* Of the values that may still be sent one goes away only sent, too old, as the
\* oldest of a full queue, with a connection that ended before its request was
\* written, or with the device; the newest is always taken.
THEOREM EmbeddedLoss == Spec => LossIsJustified
<1>1. IInv /\ [Next]_vars => [LossJustified]_vars
  <2> SUFFICES ASSUME IInv, Next PROVE LossJustified
    OBVIOUS
  <2>1. ASSUME UNCHANGED <<queue, buffer, outstanding, posted>> PROVE LossJustified
    BY <2>1 DEF LossJustified, MaySend, Queued
  <2>2. CASE CallsGoOn
    BY <2>1, <2>2, RequestFinishedJustified
       DEF CallsGoOn, StartConnectAborts, OutOfMemory, StartConnect, ConnectFailed,
           EstablishedFailed
  <2>3. CASE Tick
          \/ \E p \in Pcbs : ConnectionEstablished(p) \/ EstablishedWithError(p)
                             \/ ConnectionError(p) \/ EndReceived(p)
    BY <2>1, <2>3 DEF Tick, ConnectionEstablished, EstablishedWithError,
                      ConnectionError, EndReceived
  <2> QED
    BY <2>2, <2>3, EmbeddedPostJustified, EmbeddedPollJustified DEF Next
<1> QED
  BY <1>1, EmbeddedInvariance, PTL DEF Spec, LossIsJustified
=============================================================================
