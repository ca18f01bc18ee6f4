-------------------------- MODULE HueSensorProofs ---------------------------
(***************************************************************************)
(* Proofs about HueSensorPosix, for every size of the queue, of the        *)
(* request and of the set of descriptors, and every maximal age.           *)
(***************************************************************************)
EXTENDS HueSensorPosix, HueQueueProofs

(* The inductive invariant.  The values the handler still holds were posted *)
(* after everything it sent, and follow each other in the order of post().  *)

HeldAscends ==
  /\ buffer.value <= posted
  /\ Ascends(queue, buffer.value, posted)

SentPrecedesHeld ==
  \A n \in 1 .. Len(sent) :
    /\ sent[n] <= posted
    /\ buffer.value # 0 => sent[n] < buffer.value
    /\ \A i \in 1 .. Len(queue) : sent[n] < queue[i].value

IInv ==
  /\ TypeOK
  /\ IdleIsDrained
  /\ BufferIsRequest
  /\ NoSocketLeak
  /\ HeldAscends
  /\ SentPrecedesHeld
  /\ InOrder
-----------------------------------------------------------------------------
(* The steps.                                                              *)

THEOREM InitEstablishesIInv == Init => IInv
<1> SUFFICES ASSUME Init PROVE IInv
  OBVIOUS
<1> USE DEF Init, NoFd, NoRequest
<1>1. TypeOK
  BY QueueAssumption, HandlerAssumption
     DEF TypeOK, States, SocketStates, Element
<1>2. IdleIsDrained /\ BufferIsRequest /\ NoSocketLeak
  BY DEF IdleIsDrained, BufferIsRequest, NoSocketLeak, Writing
<1>3. HeldAscends /\ SentPrecedesHeld /\ InOrder
  BY DEF HeldAscends, Ascends, SentPrecedesHeld, InOrder
<1> QED BY <1>1, <1>2, <1>3 DEF IInv

\* A dead process satisfies the invariant, whatever it had sent.
LEMMA DeathStep ==
  ASSUME TypeOK, ProcessDies, clock' = clock,
         posted' \in 0 .. MaxPosts, sent' \in Seq(1 .. MaxPosts), InOrder',
         \A n \in 1 .. Len(sent') : sent'[n] <= posted'
  PROVE  IInv'
<1> USE DEF ProcessDies, NoFd, NoRequest
<1>1. TypeOK'
  <2>1. up' \in BOOLEAN /\ clock' \in 0 .. MaxClock
    BY DEF TypeOK
  <2>2. queue' \in Seq(Element) /\ Len(queue') <= MaxQueueSize /\ buffer' \in Element
    BY QueueAssumption DEF Element
  <2>3. state' \in States /\ fd' \in Fds \union {NoFd} /\ outstanding' \in 0 .. RequestSize
    BY HandlerAssumption DEF States
  <2>4. sockets' \in [Fds -> SocketStates]
    BY DEF SocketStates
  <2> QED BY <2>1, <2>2, <2>3, <2>4 DEF TypeOK
<1>2. IdleIsDrained' /\ BufferIsRequest' /\ NoSocketLeak'
  BY DEF IdleIsDrained, BufferIsRequest, NoSocketLeak, Writing
<1>3. HeldAscends' /\ SentPrecedesHeld'
  BY DEF HeldAscends, Ascends, SentPrecedesHeld
<1> QED BY <1>1, <1>2, <1>3 DEF IInv

\* request_finished() with no socket left, on a queue of ascending values that
\* follow everything sent.
LEMMA RequestFinishedStep ==
  ASSUME TypeOK,
         NEW q \in Seq(Element), Len(q) <= MaxQueueSize,
         NEW socks, socks = [f \in Fds |-> "free"],
         RequestFinished(q, socks), clock' = clock,
         posted' \in 0 .. MaxPosts, sent' \in Seq(1 .. MaxPosts), InOrder',
         Ascends(q, 0, posted'),
         \A n \in 1 .. Len(sent') :
            sent'[n] <= posted' /\ \A i \in 1 .. Len(q) : sent'[n] < q[i].value
  PROVE  IInv'
<1>1. CASE UsableAt(q, clock) = {}
  <2> USE DEF NoFd, NoRequest
  <2>1. /\ queue' = <<>> /\ state' = "idle" /\ fd' = NoFd /\ sockets' = socks
        /\ buffer' = NoRequest /\ up' = up /\ outstanding' = outstanding
    BY <1>1 DEF RequestFinished
  <2>2. TypeOK'
    BY <2>1, QueueAssumption DEF TypeOK, States, SocketStates, Element
  <2>3. IdleIsDrained' /\ BufferIsRequest' /\ NoSocketLeak'
    BY <2>1 DEF IdleIsDrained, BufferIsRequest, NoSocketLeak, Writing
  <2>4. HeldAscends' /\ SentPrecedesHeld'
    BY <2>1 DEF HeldAscends, Ascends, SentPrecedesHeld
  <2> QED BY <2>2, <2>3, <2>4 DEF IInv
<1>2. ASSUME NEW i \in UsableAt(q, clock),
             buffer' = q[i], queue' = Remainder(q, i),
             outstanding' = RequestSize, StartConnect(socks), up' = up
      PROVE  IInv'
  <2>1. i \in 1 .. Len(q) /\ q[i] \in Element /\ q[i].value \in Nat
    BY <1>2, ValuesAreNumbers DEF UsableAt
  <2>2. /\ queue' \in Seq(Element) /\ Len(queue') <= MaxQueueSize
        /\ Ascends(queue', buffer'.value, posted')
        /\ \A j \in 1 .. Len(queue') : \E k \in 1 .. Len(q) : queue'[j] = q[k]
    <3>1. /\ Remainder(q, i) \in Seq(Element)
          /\ Len(Remainder(q, i)) = Len(q) - i
      BY <2>1, RemainderFacts
    <3>2. /\ Ascends(Remainder(q, i), q[i].value, posted')
          /\ \A j \in 1 .. Len(Remainder(q, i)) :
               \E k \in 1 .. Len(q) : Remainder(q, i)[j] = q[k]
      <4>1. posted' \in Nat /\ 0 \in Nat
        BY HandlerAssumption
      <4> QED BY <2>1, <4>1, RemainderAscends
    <3>3. Len(q) - i <= MaxQueueSize
      BY <2>1, QueueAssumption
    <3> QED BY <1>2, <3>1, <3>2, <3>3
  <2>3. buffer'.value > 0 /\ buffer'.value <= posted'
    BY <1>2, <2>1 DEF Ascends
  <2>4. PICK f \in Fds :
          /\ fd' = f
          /\ \/ sockets' = [socks EXCEPT ![f] = "connecting"] /\ state' = "connecting"
             \/ sockets' = [socks EXCEPT ![f] = "established"] /\ state' = "sending"
    BY <1>2 DEF StartConnect
  <2>5. TypeOK'
    BY <1>2, <2>1, <2>2, <2>4, QueueAssumption, HandlerAssumption
       DEF TypeOK, States, SocketStates
  <2>6. IdleIsDrained' /\ BufferIsRequest'
    BY <1>2, <2>3, <2>4, HandlerAssumption
       DEF IdleIsDrained, BufferIsRequest, Writing, NoFd
  <2>7. NoSocketLeak'
    BY <2>4, HandlerAssumption DEF NoSocketLeak, NoFd
  <2>8. HeldAscends' /\ SentPrecedesHeld'
    BY <1>2, <2>1, <2>2, <2>3 DEF HeldAscends, SentPrecedesHeld
  <2> QED BY <2>5, <2>6, <2>7, <2>8 DEF IInv
<1>3. CASE ProcessDies
  BY <1>3, DeathStep
<1> QED BY <1>1, <1>2, <1>3 DEF RequestFinished

\* Steps of the kernel, the clock and main() leave the handler alone.
LEMMA EnvironmentStep ==
  ASSUME IInv, UNCHANGED <<queue, state, fd, buffer, outstanding, posted, sent>>,
         up' \in BOOLEAN, clock' \in 0 .. MaxClock,
         sockets' \in [Fds -> SocketStates],
         \A f \in Fds : sockets'[f] # "free" <=> sockets[f] # "free"
  PROVE  IInv'
<1>1. TypeOK'
  BY DEF IInv, TypeOK
<1>2. IdleIsDrained' /\ BufferIsRequest'
  BY DEF IInv, IdleIsDrained, BufferIsRequest, NoRequest
<1>3. NoSocketLeak'
  BY DEF IInv, NoSocketLeak
<1>4. HeldAscends' /\ SentPrecedesHeld' /\ InOrder'
  BY DEF IInv, HeldAscends, Ascends, SentPrecedesHeld, InOrder
<1> QED BY <1>1, <1>2, <1>3, <1>4 DEF IInv

\* Without its only descriptor the process has no socket.
LEMMA ClosedSockets ==
  ASSUME TypeOK, NoSocketLeak
  PROVE  /\ fd = NoFd => sockets = [f \in Fds |-> "free"]
         /\ [sockets EXCEPT ![fd] = "free"] = [f \in Fds |-> "free"]
BY HandlerAssumption DEF TypeOK, NoSocketLeak, NoFd

LEMMA PostStep == ASSUME IInv, Post PROVE IInv'
<1> DEFINE q == Enqueue(queue, posted + 1, clock)
<1>1. /\ queue \in Seq(Element) /\ Len(queue) <= MaxQueueSize
      /\ posted \in Nat /\ posted + 1 \in Nat /\ posted + 1 \in 0 .. MaxPosts
      /\ clock \in Nat /\ buffer.value \in Nat
      /\ sent \in Seq(1 .. MaxPosts)
  BY HandlerAssumption DEF IInv, TypeOK, Post, Element
<1>2. q \in Seq(Element) /\ Len(q) <= MaxQueueSize
  BY <1>1, EnqueueFacts
<1>3. Ascends(q, buffer.value, posted + 1)
  BY <1>1, EnqueueAscends DEF IInv, HeldAscends
<1>4. /\ posted' = posted + 1 /\ sent' = sent /\ clock' = clock
      /\ posted' \in 0 .. MaxPosts /\ sent' \in Seq(1 .. MaxPosts) /\ InOrder'
  BY <1>1 DEF Post, IInv, InOrder
<1>5. \A n \in 1 .. Len(sent) :
        /\ sent[n] <= posted + 1
        /\ buffer.value # 0 => sent[n] < buffer.value
        /\ \A i \in 1 .. Len(q) : sent[n] < q[i].value
  <2> SUFFICES ASSUME NEW n \in 1 .. Len(sent)
               PROVE  /\ sent[n] <= posted + 1
                      /\ buffer.value # 0 => sent[n] < buffer.value
                      /\ \A i \in 1 .. Len(q) : sent[n] < q[i].value
    OBVIOUS
  <2>1. /\ sent[n] \in Nat /\ sent[n] <= posted
        /\ buffer.value # 0 => sent[n] < buffer.value
        /\ \A i \in 1 .. Len(queue) : sent[n] < queue[i].value
    <3>1. sent[n] \in 1 .. MaxPosts
      BY <1>1, ElementsOfSeq
    <3> QED BY <3>1, HandlerAssumption DEF IInv, SentPrecedesHeld
  <2>2. Ascends(queue, sent[n], posted)
    BY <1>1, <2>1, ValuesAreNumbers DEF IInv, HeldAscends, Ascends
  <2>3. Ascends(q, sent[n], posted + 1)
    BY <1>1, <2>1, <2>2, EnqueueAscends
  <2> QED BY <1>1, <2>1, <2>3 DEF Ascends
<1> HIDE DEF q
<1>6. CASE state = "idle" /\ RequestFinished(q, sockets)
  <2>1. sockets = [f \in Fds |-> "free"]
    BY <1>6, ClosedSockets DEF IInv, IdleIsDrained
  <2>2. Ascends(q, 0, posted')
    BY <1>1, <1>2, <1>3, <1>4, ValuesAreNumbers DEF Ascends
  <2> QED BY <1>2, <1>4, <1>5, <1>6, <2>1, <2>2, RequestFinishedStep DEF IInv
<1>7. CASE /\ state # "idle" /\ queue' = q
           /\ UNCHANGED <<up, state, fd, buffer, outstanding, sockets>>
  <2>1. TypeOK'
    BY <1>2, <1>4, <1>7 DEF IInv, TypeOK
  <2>2. IdleIsDrained' /\ BufferIsRequest' /\ NoSocketLeak'
    BY <1>7 DEF IInv, IdleIsDrained, BufferIsRequest, NoSocketLeak, NoRequest
  <2>3. HeldAscends'
    BY <1>1, <1>3, <1>4, <1>7 DEF IInv, HeldAscends
  <2>4. SentPrecedesHeld'
    BY <1>4, <1>5, <1>7 DEF SentPrecedesHeld
  <2> QED BY <1>4, <2>1, <2>2, <2>3, <2>4 DEF IInv
<1> QED BY <1>6, <1>7 DEF Post, q

LEMMA PollBlocksStep ==
  ASSUME IInv, NEW n \in 0 .. RequestSize, PollBlocks(n) PROVE IInv'
<1>1. TypeOK'
  BY HandlerAssumption DEF IInv, TypeOK, PollBlocks, States
<1>2. IdleIsDrained' /\ BufferIsRequest' /\ NoSocketLeak'
  BY HandlerAssumption
     DEF IInv, TypeOK, IdleIsDrained, BufferIsRequest, NoSocketLeak, PollBlocks,
         Writing
<1>3. HeldAscends' /\ SentPrecedesHeld' /\ InOrder'
  BY DEF IInv, HeldAscends, Ascends, SentPrecedesHeld, InOrder, PollBlocks
<1> QED BY <1>1, <1>2, <1>3 DEF IInv

LEMMA PollSendsStep == ASSUME IInv, PollSends PROVE IInv'
<1>1. /\ queue \in Seq(Element) /\ Len(queue) <= MaxQueueSize
      /\ posted \in 0 .. MaxPosts /\ buffer.value \in 1 .. MaxPosts
      /\ buffer.value <= posted /\ sent \in Seq(1 .. MaxPosts)
      /\ \A i \in 1 .. Len(queue) : queue[i].value \in Nat
  BY HandlerAssumption, ValuesAreNumbers
     DEF IInv, TypeOK, BufferIsRequest, HeldAscends, PollSends, Element
<1>2. /\ sent' = Append(sent, buffer.value)
      /\ posted' = posted /\ clock' = clock
  BY DEF PollSends
<1>3. \A i \in 1 .. Len(queue) : buffer.value < queue[i].value /\ queue[i].value <= posted
  BY DEF IInv, HeldAscends, Ascends
<1>4. /\ Len(sent') = Len(sent) + 1 /\ Len(sent) \in Nat
      /\ sent'[Len(sent) + 1] = buffer.value
      /\ \A n \in 1 .. Len(sent) : sent'[n] = sent[n] /\ sent[n] < buffer.value
  <2>1. \A n \in 1 .. Len(sent) : sent[n] < buffer.value
    BY <1>1 DEF IInv, SentPrecedesHeld
  <2> QED BY <1>1, <1>2, <2>1
<1>5. sent' \in Seq(1 .. MaxPosts) /\ \A n \in 1 .. Len(sent') : sent'[n] \in Nat
  <2>1. sent' \in Seq(1 .. MaxPosts)
    BY <1>1, <1>2
  <2>2. \A n \in 1 .. Len(sent') : sent'[n] \in 1 .. MaxPosts
    BY <2>1, ElementsOfSeq
  <2> QED BY <2>1, <2>2, HandlerAssumption
<1>6. InOrder'
  <2> SUFFICES ASSUME NEW i \in 1 .. Len(sent'), NEW j \in 1 .. Len(sent'), i < j
               PROVE  sent'[i] < sent'[j]
    BY DEF InOrder
  <2>1. CASE j \in 1 .. Len(sent)
    BY <1>1, <1>2, <2>1 DEF IInv, InOrder
  <2>2. CASE j = Len(sent) + 1
    BY <1>1, <1>2, <1>4, <2>2
  <2> QED BY <1>1, <1>2, <2>1, <2>2
<1>7. \A n \in 1 .. Len(sent') :
        sent'[n] <= posted' /\ \A i \in 1 .. Len(queue) : sent'[n] < queue[i].value
  BY <1>1, <1>2, <1>3, <1>4, <1>5
<1>8. CASE /\ sockets[fd] = "established" /\ state' = "receiving"
           /\ buffer' = NoRequest
           /\ UNCHANGED <<up, queue, fd, outstanding, sockets>>
  <2>1. TypeOK'
    BY <1>2, <1>5, <1>8 DEF IInv, TypeOK, States, NoRequest, Element, PollSends
  <2>2. IdleIsDrained' /\ BufferIsRequest' /\ NoSocketLeak'
    BY <1>8 DEF IInv, IdleIsDrained, BufferIsRequest, NoSocketLeak, Writing, PollSends
  <2>3. HeldAscends' /\ SentPrecedesHeld'
    BY <1>1, <1>2, <1>3, <1>7, <1>8
       DEF IInv, HeldAscends, Ascends, SentPrecedesHeld, NoRequest
  <2> QED BY <1>6, <2>1, <2>2, <2>3 DEF IInv
<1>9. CASE /\ sockets[fd] = "closed"
           /\ RequestFinished(queue, [sockets EXCEPT ![fd] = "free"])
  <2>1. [sockets EXCEPT ![fd] = "free"] = [f \in Fds |-> "free"]
    BY ClosedSockets DEF IInv
  <2>2. Ascends(queue, 0, posted')
    BY <1>1, <1>2 DEF IInv, HeldAscends, Ascends
  <2> QED BY <1>1, <1>2, <1>5, <1>6, <1>7, <1>9, <2>1, <2>2, RequestFinishedStep
          DEF IInv
<1> QED BY <1>8, <1>9 DEF PollSends

LEMMA PollEofStep == ASSUME IInv, PollEof PROVE IInv'
<1>1. /\ queue \in Seq(Element) /\ Len(queue) <= MaxQueueSize /\ TypeOK
      /\ posted' \in 0 .. MaxPosts /\ sent' \in Seq(1 .. MaxPosts) /\ InOrder'
      /\ clock' = clock /\ posted' = posted /\ sent' = sent
  BY DEF IInv, TypeOK, PollEof, InOrder
<1>2. [sockets EXCEPT ![fd] = "free"] = [f \in Fds |-> "free"]
  BY ClosedSockets DEF IInv
<1>3. Ascends(queue, 0, posted')
  <2>1. buffer.value \in Nat /\ \A i \in 1 .. Len(queue) : queue[i].value \in Nat
    BY <1>1, ValuesAreNumbers DEF TypeOK, Element
  <2> QED BY <1>1, <2>1 DEF IInv, HeldAscends, Ascends
<1>4. \A n \in 1 .. Len(sent') :
        sent'[n] <= posted' /\ \A i \in 1 .. Len(queue) : sent'[n] < queue[i].value
  BY <1>1 DEF IInv, SentPrecedesHeld
<1> QED BY <1>1, <1>2, <1>3, <1>4, RequestFinishedStep DEF PollEof

LEMMA DeathActions == ASSUME IInv, PollThrows \/ OtherFailure PROVE IInv'
<1>1. /\ TypeOK /\ ProcessDies /\ clock' = clock
      /\ posted' \in 0 .. MaxPosts /\ sent' \in Seq(1 .. MaxPosts) /\ InOrder'
      /\ \A n \in 1 .. Len(sent') : sent'[n] <= posted'
  BY DEF IInv, TypeOK, InOrder, SentPrecedesHeld, PollThrows, OtherFailure
<1> QED BY <1>1, DeathStep

LEMMA OutsideActions ==
  ASSUME IInv, Respawn \/ Tick \/ \E f \in Fds : Connected(f) \/ PeerCloses(f) \/ ConnectionFails(f)
  PROVE  IInv'
<1>1. CASE Respawn
  BY <1>1, EnvironmentStep DEF Respawn, IInv, TypeOK
<1>2. CASE Tick
  BY <1>2, EnvironmentStep, HandlerAssumption DEF Tick, handler, IInv, TypeOK
<1>3. ASSUME NEW f \in Fds, Connected(f) \/ PeerCloses(f) \/ ConnectionFails(f)
      PROVE  IInv'
  <2>1. PICK to \in SocketStates \ {"free"} :
          /\ sockets[f] # "free" /\ sockets' = [sockets EXCEPT ![f] = to]
          /\ UNCHANGED <<handler, clock, posted, sent>>
    BY <1>3 DEF Connected, PeerCloses, ConnectionFails, SocketBecomes, SocketStates
  <2> QED BY <2>1, EnvironmentStep DEF handler, IInv, TypeOK
<1> QED BY <1>1, <1>2, <1>3

THEOREM StepPreservesIInv == IInv /\ [Next]_vars => IInv'
<1> SUFFICES ASSUME IInv, [Next]_vars PROVE IInv'
  OBVIOUS
<1>1. CASE UNCHANGED vars
  BY <1>1, EnvironmentStep DEF vars, IInv, TypeOK
<1>2. CASE Next
  BY <1>2, PostStep, PollSendsStep, PollEofStep, DeathActions, PollBlocksStep,
     OutsideActions DEF Next
<1> QED BY <1>1, <1>2

\* Every reachable state satisfies the inductive invariant.
THEOREM Invariance == Spec => []IInv
BY InitEstablishesIInv, StepPreservesIInv, PTL DEF Spec

\* TypeOK holds for every bound and every set of descriptors.
THEOREM TypeCorrect == Spec => []TypeOK
<1>1. IInv => TypeOK
  BY DEF IInv
<1> QED BY <1>1, Invariance, PTL

\* An idle handler has no connection and an empty queue: no command waits for
\* the next post() to be noticed.
THEOREM IdleDrained == Spec => []IdleIsDrained
<1>1. IInv => IdleIsDrained
  BY DEF IInv
<1> QED BY <1>1, Invariance, PTL

\* While the handler writes, buffer_ is a request that is not complete.
THEOREM BufferHoldsRequest == Spec => []BufferIsRequest
<1>1. IInv => BufferIsRequest
  BY DEF IInv
<1> QED BY <1>1, Invariance, PTL

\* Every open descriptor of the process is fd_.
THEOREM SocketsReleased == Spec => []NoSocketLeak
<1>1. IInv => NoSocketLeak
  BY DEF IInv
<1> QED BY <1>1, Invariance, PTL

\* Commands are sent in the order of post() and none twice.
THEOREM SentInOrder == Spec => []InOrder
<1>1. IInv => InOrder
  BY DEF IInv
<1> QED BY <1>1, Invariance, PTL
-----------------------------------------------------------------------------
(* The handler implements LossyFifo.                                       *)

\* request_finished() holds on to nothing that was not in the queue.
LEMMA RequestFinishedHolds ==
  ASSUME NEW q \in Seq(Element), NEW socks, RequestFinished(q, socks)
  PROVE  Held' \subseteq Values(q)
<1> USE DEF Held, Queued, InFlight, Values
<1>1. CASE queue' = <<>> /\ buffer' = NoRequest
  BY <1>1 DEF NoRequest
<1>2. ASSUME NEW i \in UsableAt(q, clock), buffer' = q[i], queue' = Remainder(q, i)
      PROVE  Held' \subseteq Values(q)
  <2>1. i \in 1 .. Len(q)
    BY DEF UsableAt
  <2>2. /\ Len(queue') = Len(q) - i
        /\ \A j \in 1 .. Len(q) - i : queue'[j] = q[i + j]
    BY <1>2, <2>1, RemainderFacts
  <2>3. Queued' \subseteq Values(q)
    <3>1. \A j \in 1 .. Len(q) - i : i + j \in 1 .. Len(q)
      BY <2>1
    <3> QED BY <2>2, <3>1
  <2> QED BY <1>2, <2>1, <2>3
<1> QED BY <1>1, <1>2 DEF RequestFinished, ProcessDies

LEMMA FifoPost == ASSUME IInv, Post PROVE Fifo!Post
<1> DEFINE q == Enqueue(queue, posted + 1, clock)
<1>1. /\ queue \in Seq(Element) /\ Len(queue) <= MaxQueueSize
      /\ posted + 1 \in Nat /\ clock \in Nat
  BY HandlerAssumption DEF IInv, TypeOK
<1>2. q \in Seq(Element) /\ Values(q) \subseteq Queued \union {posted + 1}
  BY <1>1, EnqueueFacts, EnqueueHolds DEF Queued, Values
<1> HIDE DEF q
<1>3. Held' \subseteq Held \union {posted + 1}
  <2>1. CASE RequestFinished(q, sockets)
    BY <1>2, <2>1, RequestFinishedHolds DEF Held
  <2>2. CASE queue' = q /\ buffer' = buffer
    BY <1>2, <2>2 DEF Held, Queued, InFlight, Values
  <2> QED BY <2>1, <2>2 DEF Post, q
<1> QED BY <1>3 DEF Post, Fifo!Post

\* Completing a request is Send of the value in the buffer.
LEMMA FifoSend == ASSUME IInv, PollSends PROVE \E v \in Held : Fifo!Send(v)
<1>1. buffer.value \in Held /\ queue \in Seq(Element)
  BY DEF IInv, TypeOK, BufferIsRequest, PollSends, Held, InFlight
<1>2. Held' \subseteq Queued
  <2>1. CASE RequestFinished(queue, [sockets EXCEPT ![fd] = "free"])
    BY <1>1, <2>1, RequestFinishedHolds DEF Queued, Values
  <2>2. CASE queue' = queue /\ buffer' = NoRequest
    BY <2>2 DEF Held, Queued, InFlight, NoRequest
  <2> QED BY <2>1, <2>2 DEF PollSends
<1>3. Queued \subseteq {w \in Held : buffer.value < w}
  BY DEF IInv, HeldAscends, Ascends, Queued, Held
<1> QED BY <1>1, <1>2, <1>3 DEF PollSends, Fifo!Send

\* The other steps send and post nothing, and may lose what is held.
LEMMA FifoLose ==
  ASSUME IInv,
         \/ PollEof \/ PollThrows \/ OtherFailure \/ Respawn \/ Tick \/ UNCHANGED vars
         \/ \E n \in 0 .. RequestSize : PollBlocks(n)
         \/ \E f \in Fds : Connected(f) \/ PeerCloses(f) \/ ConnectionFails(f)
  PROVE  Fifo!Lose
<1>1. posted' = posted /\ sent' = sent
  BY DEF PollEof, PollThrows, OtherFailure, Respawn, Tick, vars, PollBlocks,
         Connected, PeerCloses, ConnectionFails, SocketBecomes
<1>2. Held' \subseteq Held
  <2>1. CASE PollEof
    BY <2>1, RequestFinishedHolds DEF IInv, TypeOK, PollEof, Held, Queued, Values
  <2>2. CASE PollThrows \/ OtherFailure
    BY <2>2 DEF PollThrows, OtherFailure, ProcessDies, NoRequest, Held, Queued, InFlight
  <2>3. CASE queue' = queue /\ buffer' = buffer
    BY <2>3 DEF Held, Queued, InFlight
  <2> QED
    BY <2>1, <2>2, <2>3
    DEF Respawn, Tick, vars, PollBlocks, Connected, PeerCloses, ConnectionFails,
        SocketBecomes, handler
<1> QED BY <1>1, <1>2 DEF Fifo!Lose

\* Every behaviour of the handler is one of the abstract lossy queue, whose
\* pending values are those in the queue and in the buffer.
THEOREM Refinement == Spec => FifoSpec
<1>1. Init => Fifo!Init
  BY DEF Init, Fifo!Init, Held, Queued, InFlight, NoRequest
<1>2. IInv /\ [Next]_vars => [Fifo!Next]_(Fifo!vars)
  BY FifoPost, FifoSend, FifoLose DEF Next, Fifo!Next
<1> QED BY <1>1, <1>2, Invariance, PTL DEF Spec, FifoSpec, Fifo!Spec
-----------------------------------------------------------------------------
(* No value is lost without a reason.                                      *)

\* request_finished() either ends the process, or forgets only what is too old.
LEMMA RequestFinishedKeeps ==
  ASSUME NEW q \in Seq(Element), NEW socks, RequestFinished(q, socks), up',
         NEW k \in 1 .. Len(q), q[k].value # 0
  PROVE  q[k].value \in Held' \/ ~Usable(q[k], clock)
<1>1. CASE UsableAt(q, clock) = {}
  BY <1>1 DEF UsableAt
<1>2. ASSUME NEW i \in UsableAt(q, clock), IsFirstUsable(q, i, clock),
             buffer' = q[i], queue' = Remainder(q, i)
      PROVE  q[k].value \in Held' \/ ~Usable(q[k], clock)
  <2>1. i \in 1 .. Len(q)
    BY DEF UsableAt
  <2>2. CASE k < i
    BY <1>2, <2>1, <2>2 DEF IsFirstUsable, UsableAt
  <2>3. CASE k = i
    BY <1>2, <2>3 DEF Held, InFlight
  <2>4. CASE k > i
    <3>1. k - i \in 1 .. Len(q) - i /\ i + (k - i) = k
      BY <2>1, <2>4
    <3>2. k - i \in 1 .. Len(queue') /\ queue'[k - i] = q[k]
      BY <1>2, <2>1, <3>1, RemainderFacts
    <3> QED BY <3>2 DEF Held, Queued
  <2> QED BY <2>1, <2>2, <2>3, <2>4
<1> QED BY <1>1, <1>2 DEF RequestFinished, ProcessDies

LEMMA PostJustified == ASSUME IInv, Post PROVE LossJustified
<1> DEFINE q == Enqueue(queue, posted + 1, clock)
           new == [value |-> posted + 1, timestamp |-> clock]
<1>1. /\ queue \in Seq(Element) /\ Len(queue) <= MaxQueueSize
      /\ posted \in Nat /\ posted + 1 \in Nat /\ clock \in Nat
  BY HandlerAssumption DEF IInv, TypeOK
<1>2. PICK d \in {0, 1} :
        /\ d = 1 <=> Len(queue) = MaxQueueSize
        /\ Len(q) = Len(queue) + 1 - d
        /\ \A i \in 1 .. Len(queue) - d : q[i] = queue[i + d]
        /\ q[Len(queue) + 1 - d] = new
  BY <1>1, EnqueueFacts
<1>3. q \in Seq(Element)
  BY <1>1, EnqueueFacts
<1>4. posted' = posted + 1 /\ Len(q) \in 1 .. Len(q) /\ q[Len(q)] = new
  <2>1. Len(queue) + 1 - d \in Nat \ {0}
    BY <1>1, <1>2, QueueAssumption
  <2> QED BY <1>2, <2>1 DEF Post
<1>5. new.value = posted + 1 /\ new.value # 0 /\ Usable(new, clock)
  BY <1>1, QueueAssumption DEF Usable
<1> HIDE DEF q, new
<1>6. CASE state = "idle" /\ RequestFinished(q, sockets)
  <2>1. Held = {}
    BY <1>6 DEF IInv, IdleIsDrained, BufferIsRequest, Writing, NoRequest, Held,
                Queued, InFlight
  <2>2. up' => posted' \in Held'
    BY <1>3, <1>4, <1>5, <1>6, RequestFinishedKeeps
  <2> QED BY <2>1, <2>2 DEF LossJustified
<1>7. CASE queue' = q /\ buffer' = buffer
  <2>1. posted' \in Held'
    BY <1>4, <1>5, <1>7 DEF Held, Queued
  <2>2. ASSUME NEW i \in 1 .. Len(queue)
        PROVE  \/ queue[i].value \in Held'
               \/ i = 1 /\ Len(queue) = MaxQueueSize
    <3>1. CASE i - d \in 1 .. Len(queue) - d
      <4>1. (i - d) + d = i /\ i - d \in 1 .. Len(q)
        BY <1>2, <3>1
      <4>2. q[i - d] = queue[i]
        BY <1>2, <3>1, <4>1
      <4> QED BY <1>7, <4>1, <4>2 DEF Held, Queued
    <3>2. CASE i - d \notin 1 .. Len(queue) - d
      <4>1. i = 1 /\ d = 1
        BY <3>2
      <4> QED BY <1>2, <4>1
    <3> QED BY <3>1, <3>2
  <2>3. InFlight' = InFlight
    BY <1>7 DEF InFlight
  <2>4. posted' # posted
    BY <1>1, <1>4
  <2> QED BY <2>1, <2>2, <2>3, <2>4 DEF LossJustified, Held, Queued
<1> QED BY <1>6, <1>7 DEF Post, q

LEMMA PollJustified == ASSUME IInv, PollSends \/ PollEof PROVE LossJustified
<1>1. /\ queue \in Seq(Element) /\ posted' = posted
      /\ \A i \in 1 .. Len(queue) : queue[i].value # 0
  <2>1. queue \in Seq(Element) /\ buffer.value \in Nat
    BY DEF IInv, TypeOK, Element
  <2>2. \A i \in 1 .. Len(queue) : queue[i].value \in Nat
    BY <2>1, ValuesAreNumbers
  <2> QED BY <2>1, <2>2 DEF IInv, HeldAscends, Ascends, PollSends, PollEof
<1>2. \A v \in InFlight : sent' = Append(sent, v)
  BY DEF IInv, BufferIsRequest, InFlight, PollSends, PollEof, Writing, NoRequest
<1>3. CASE RequestFinished(queue, [sockets EXCEPT ![fd] = "free"])
  <2>1. up' => \A i \in 1 .. Len(queue) :
                 queue[i].value \in Held' \/ ~Usable(queue[i], clock)
    BY <1>1, <1>3, RequestFinishedKeeps
  <2> QED BY <1>1, <1>2, <2>1 DEF LossJustified, Held, Queued
<1>4. CASE queue' = queue
  BY <1>1, <1>2, <1>4 DEF LossJustified, Held, Queued
<1> QED BY <1>3, <1>4 DEF PollSends, PollEof

LEMMA OthersJustified ==
  ASSUME IInv,
         \/ PollThrows \/ OtherFailure \/ Respawn \/ Tick
         \/ \E n \in 0 .. RequestSize : PollBlocks(n)
         \/ \E f \in Fds : Connected(f) \/ PeerCloses(f) \/ ConnectionFails(f)
  PROVE  LossJustified
<1>1. posted' = posted
  BY DEF PollThrows, OtherFailure, Respawn, Tick, PollBlocks, Connected,
         PeerCloses, ConnectionFails, SocketBecomes
<1>2. CASE ~up'
  BY <1>1, <1>2 DEF LossJustified
<1>3. CASE queue' = queue /\ buffer' = buffer
  BY <1>1, <1>3 DEF LossJustified, Held, Queued, InFlight
<1> QED
  BY <1>2, <1>3
  DEF PollThrows, OtherFailure, ProcessDies, Respawn, Tick, PollBlocks, Connected,
      PeerCloses, ConnectionFails, SocketBecomes, handler

\* A value leaves the handler only sent, with the process, too old, or as the
\* oldest of a full queue; and the newest value is never the one refused.
THEOREM LossTheorem == Spec => LossIsJustified
<1>1. IInv /\ [Next]_vars => [LossJustified]_vars
  BY PostJustified, PollJustified, OthersJustified DEF Next
<1> QED BY <1>1, Invariance, PTL DEF Spec, LossIsJustified
-----------------------------------------------------------------------------
(* The handler implements HandlerLife, the handler of PollLoop.            *)

\* The connection behind fd_.
Sock == IF fd = NoFd THEN "none" ELSE sockets[fd]

\* A started connection is the one of the new state, and is behind fd_.
LEMMA StartConnectLife ==
  ASSUME NEW socks, socks = [f \in Fds |-> "free"], StartConnect(socks)
  PROVE  \/ state' = "connecting" /\ Sock' = "connecting"
         \/ state' = "sending" /\ Sock' = "established"
<1>1. PICK f \in Fds :
        /\ fd' = f
        /\ \/ /\ sockets' = [socks EXCEPT ![f] = "connecting"]
              /\ state' = "connecting"
           \/ /\ sockets' = [socks EXCEPT ![f] = "established"]
              /\ state' = "sending"
  BY DEF StartConnect
<1>2. fd' # NoFd
  BY <1>1, HandlerAssumption DEF NoFd
<1> QED BY <1>1, <1>2 DEF Sock

\* request_finished() seen from outside: the process dies, the handler becomes
\* idle, or it starts the next request of the queue with fewer elements left.
LEMMA RequestFinishedLife ==
  ASSUME NEW q \in Seq(Element), NEW socks, socks = [f \in Fds |-> "free"],
         RequestFinished(q, socks)
  PROVE  \/ ~up' /\ Life!BecomesIdle
         \/ up' = up /\ UsableAt(q, clock) = {} /\ Life!BecomesIdle
         \/ up' = up /\ \E rest \in 0 .. Len(q) - 1 : Life!Starts(rest)
<1> USE DEF Sock
<1>1. CASE UsableAt(q, clock) = {}
  BY <1>1 DEF RequestFinished, Life!BecomesIdle, NoFd
<1>2. ASSUME NEW i \in UsableAt(q, clock), queue' = Remainder(q, i),
             StartConnect(socks), up' = up
      PROVE  up' = up /\ \E rest \in 0 .. Len(q) - 1 : Life!Starts(rest)
  <2>1. i \in 1 .. Len(q) /\ Len(q) \in Nat
    BY DEF UsableAt
  <2>2. Len(queue') = Len(q) - i /\ Len(q) - i \in 0 .. Len(q) - 1
    BY <1>2, <2>1, RemainderFacts
  <2>3. Life!Starts(Len(q) - i)
    BY <1>2, <2>2, StartConnectLife DEF Life!Starts
  <2> QED BY <1>2, <2>2, <2>3
<1>3. CASE ProcessDies
  BY <1>3 DEF ProcessDies, Life!BecomesIdle, NoFd
<1> QED BY <1>1, <1>2, <1>3 DEF RequestFinished

LEMMA PostLives == ASSUME IInv, Post PROVE Life!Next
<1> DEFINE q == Enqueue(queue, posted + 1, clock)
<1>1. /\ queue \in Seq(Element) /\ Len(queue) <= MaxQueueSize /\ Len(queue) \in Nat
      /\ posted + 1 \in Nat /\ clock \in Nat /\ up
  BY HandlerAssumption DEF IInv, TypeOK, Post
<1>2. /\ q \in Seq(Element)
      /\ Len(q) = IF Len(queue) < MaxQueueSize THEN Len(queue) + 1 ELSE Len(queue)
  <2>1. PICK d \in {0, 1} :
          /\ d = 1 <=> Len(queue) = MaxQueueSize
          /\ Len(q) = Len(queue) + 1 - d
          /\ \A i \in 1 .. Len(queue) - d : q[i] = queue[i + d]
          /\ q[Len(queue) + 1 - d] = [value |-> posted + 1, timestamp |-> clock]
    BY <1>1, EnqueueFacts
  <2>2. q \in Seq(Element)
    BY <1>1, EnqueueFacts
  <2> QED BY <1>1, <2>1, <2>2, QueueAssumption
<1>3. CASE state = "idle" /\ RequestFinished(q, sockets)
  <2>1. /\ queue = <<>> /\ sockets = [f \in Fds |-> "free"]
    BY <1>3, ClosedSockets DEF IInv, IdleIsDrained
  <2>2. Len(q) = 1
    BY <1>2, <2>1, QueueAssumption
  <2>3. UsableAt(q, clock) # {}
    <3>1. q[1] = [value |-> posted + 1, timestamp |-> clock]
      BY <2>1, QueueAssumption DEF Enqueue
    <3>2. Usable(q[1], clock)
      BY <1>1, <3>1, QueueAssumption DEF Usable
    <3> QED BY <2>2, <3>2 DEF UsableAt
  <2> HIDE DEF q
  <2>4. \/ ~up' /\ Life!BecomesIdle
        \/ up' = up /\ \E rest \in 0 .. Len(q) - 1 : Life!Starts(rest)
    BY <1>2, <1>3, <2>1, <2>3, RequestFinishedLife
  <2>5. CASE ~up' /\ Life!BecomesIdle
    BY <1>1, <2>5 DEF Life!Next, Life!Dies
  <2>6. CASE up' = up /\ \E rest \in 0 .. Len(q) - 1 : Life!Starts(rest)
    <3>1. up' = up /\ Life!Starts(0)
      BY <2>2, <2>6
    <3> QED BY <1>1, <1>3, <3>1 DEF Life!Next, Life!Post
  <2> QED BY <2>4, <2>5, <2>6
<1>4. CASE /\ state # "idle" /\ queue' = q
           /\ UNCHANGED <<up, state, fd, buffer, outstanding, sockets>>
  BY <1>1, <1>2, <1>4 DEF Life!Next, Life!Post
<1> QED BY <1>3, <1>4 DEF Post

\* A connection that ends: the peer has closed it.
LEMMA FinishLives ==
  ASSUME IInv, up, state # "idle", sockets[fd] = "closed",
         RequestFinished(queue, [sockets EXCEPT ![fd] = "free"])
  PROVE  Life!Next
<1>1. queue \in Seq(Element) /\ Sock = "closed"
  BY DEF IInv, TypeOK, IdleIsDrained, Sock
<1>2. [sockets EXCEPT ![fd] = "free"] = [f \in Fds |-> "free"]
  BY ClosedSockets DEF IInv
<1>3. \/ ~up' /\ Life!BecomesIdle
      \/ up' = up /\ Life!BecomesIdle
      \/ up' = up /\ \E rest \in 0 .. Len(queue) - 1 : Life!Starts(rest)
  BY <1>1, <1>2, RequestFinishedLife
<1> QED BY <1>1, <1>3 DEF Sock, Life!Next, Life!Dies, Life!Finish

LEMMA PollLives == ASSUME IInv, Poll PROVE Life!Next
<1>1. CASE PollSends
  <2>1. fd # NoFd /\ up /\ state # "idle"
    BY <1>1 DEF IInv, IdleIsDrained, PollSends, Writing
  <2>2. CASE /\ sockets[fd] = "established" /\ state' = "receiving"
             /\ UNCHANGED <<up, queue, fd, outstanding, sockets>>
    BY <1>1, <2>1, <2>2 DEF PollSends, Writing, Life!Next, Life!Write
  <2>3. CASE /\ sockets[fd] = "closed"
             /\ RequestFinished(queue, [sockets EXCEPT ![fd] = "free"])
    BY <2>1, <2>3, FinishLives
  <2> QED BY <1>1, <2>2, <2>3 DEF PollSends
<1>2. CASE PollEof
  BY <1>2, FinishLives DEF PollEof
<1>3. CASE PollThrows
  BY <1>3 DEF PollThrows, ProcessDies, NoFd, Life!Next, Life!Dies, Life!BecomesIdle
<1>4. ASSUME NEW n \in 0 .. RequestSize, PollBlocks(n) PROVE Life!Next
  BY <1>4 DEF PollBlocks, Writing, Life!Next, Life!Write
<1> QED BY <1>1, <1>2, <1>3, <1>4 DEF Poll

\* The kernel and the peer act on the socket behind fd_: there is no other.
LEMMA SocketLives ==
  ASSUME IInv, NEW f \in Fds, Connected(f) \/ PeerCloses(f) \/ ConnectionFails(f)
  PROVE  Life!Next
<1>1. PICK to \in SocketStates :
        /\ sockets[f] # "free" /\ sockets' = [sockets EXCEPT ![f] = to]
        /\ \/ sockets[f] = "connecting" /\ to = "established"
           \/ sockets[f] = "established" /\ to = "closed"
           \/ sockets[f] \notin {"none", "failed"} /\ to = "failed"
        /\ UNCHANGED handler
  BY DEF Connected, PeerCloses, ConnectionFails, SocketBecomes, SocketStates
<1>2. fd = f /\ fd # NoFd
  BY <1>1 DEF IInv, NoSocketLeak
<1>3. Sock = sockets[f] /\ Sock' = to
  BY <1>1, <1>2 DEF Sock, handler, IInv, TypeOK
<1> QED BY <1>1, <1>3 DEF Sock, handler, Life!Next, Life!Network

\* Every behaviour of the handler is a life of a handler as PollLoop, and every
\* other handler of the process, sees it.
THEOREM LifeRefinement == Spec => LifeSpec
<1>1. Init => Life!Init
  BY DEF Init, Life!Init, NoFd
<1>2. IInv /\ [Next]_vars => [Life!Next]_(Life!vars)
  <2> SUFFICES ASSUME IInv, [Next]_vars PROVE [Life!Next]_(Life!vars)
    OBVIOUS
  <2>1. CASE Post
    BY <2>1, PostLives
  <2>2. CASE PollSends \/ PollEof \/ PollThrows \/ \E n \in 0 .. RequestSize : PollBlocks(n)
    BY <2>2, PollLives DEF Poll
  <2>3. CASE OtherFailure
    BY <2>3 DEF OtherFailure, ProcessDies, NoFd, Life!Next, Life!Dies, Life!BecomesIdle
  <2>4. CASE Respawn
    BY <2>4 DEF Respawn, Life!Next, Life!Respawn
  <2>5. CASE \E f \in Fds : Connected(f) \/ PeerCloses(f) \/ ConnectionFails(f)
    BY <2>5, SocketLives
  <2>6. CASE Tick \/ UNCHANGED vars
    BY <2>6 DEF Tick, vars, handler, Life!vars
  <2> QED BY <2>1, <2>2, <2>3, <2>4, <2>5, <2>6 DEF Next
<1> QED BY <1>1, <1>2, Invariance, PTL DEF Spec, LifeSpec, Life!Spec
=============================================================================
