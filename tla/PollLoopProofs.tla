--------------------------- MODULE PollLoopProofs ---------------------------
(***************************************************************************)
(* Proofs about PollLoop, for every number of bridges and size of their    *)
(* queues: however stale or foreign the revents are that make the loop     *)
(* call a handler, every handler lives the life of a handler, and the      *)
(* planned restart takes nothing that still counts.                        *)
(***************************************************************************)
EXTENDS PollLoop, FiniteSetTheorems, TLAPS

\* The groups of variables are always expanded.
USE DEF handlers, turn

(* The inductive invariant.                                                *)

\* A handler has a connection exactly while it is busy, and an idle one has
\* nothing to send.
IdleIsClosed ==
  \A b \in Bridges :
    /\ state[b] = "idle" <=> sock[b] = "none"
    /\ state[b] = "idle" => backlog[b] = 0

\* The values that are not too old are among those queued.
FreshIsQueued == \A b \in Bridges : fresh[b] <= backlog[b]

\* From a timeout of poll() to the end of the turn every queued value is too old
\* and only the silent handlers are busy.  Nothing in the turn changes that: poll()
\* returned nothing, and a request that ends has no value to follow it.
TimeoutIsQuiet ==
  timedOut =>
    /\ ~revents.serial /\ ~revents.proxy
    /\ \A b \in Bridges : fresh[b] = 0 /\ (state[b] = "idle" \/ b \in silent)

IInv == TypeOK /\ IdleIsClosed /\ FreshIsQueued /\ TimeoutIsQuiet
-----------------------------------------------------------------------------
LEMMA BridgesType == 1 \in Bridges /\ NBridges \in Bridges /\ Bridges \subseteq Nat
  BY LoopAssumption DEF Bridges

LEMMA NoReventsType ==
  NoRevents \in [serial : BOOLEAN, proxy : BOOLEAN, slot : [Bridges -> BOOLEAN]]
  BY DEF NoRevents

\* What a fresh child starts from has the right types.
LEMMA FreshTypes ==
  ASSUME NEW s, s = [b \in Bridges |-> "idle"],
         NEW q, q = [b \in Bridges |-> 0],
         NEW c, c = [b \in Bridges |-> "none"]
  PROVE  /\ s \in [Bridges -> States]
         /\ q \in [Bridges -> 0 .. MaxQueueSize]
         /\ c \in [Bridges -> SocketStates]
  BY LoopAssumption DEF States, SocketStates

THEOREM InitEstablishesIInv == Init => IInv
<1> SUFFICES ASSUME Init PROVE IInv
  OBVIOUS
<1>1. TypeOK
  <2>1. /\ state \in [Bridges -> States]
        /\ backlog \in [Bridges -> 0 .. MaxQueueSize]
        /\ fresh \in [Bridges -> 0 .. MaxQueueSize]
        /\ sock \in [Bridges -> SocketStates]
    BY FreshTypes DEF Init
  <2>2. events \in 0 .. MaxEvents
    BY LoopAssumption DEF Init
  <2> QED
    BY <2>1, <2>2, BridgesType, NoReventsType DEF Init, TypeOK, Locations
<1> QED
  BY <1>1 DEF Init, IInv, IdleIsClosed, FreshIsQueued, TimeoutIsQuiet

\* The next child starts from nothing.
LEMMA DeathStep == ASSUME TypeOK, Dies, events' \in 0 .. MaxEvents PROVE IInv'
<1>1. TypeOK'
  <2>1. /\ state' \in [Bridges -> States]
        /\ backlog' \in [Bridges -> 0 .. MaxQueueSize]
        /\ fresh' \in [Bridges -> 0 .. MaxQueueSize]
        /\ sock' \in [Bridges -> SocketStates]
    BY FreshTypes DEF Dies
  <2> QED
    BY <2>1, BridgesType, NoReventsType DEF Dies, TypeOK, Locations
<1> QED
  BY <1>1 DEF Dies, IInv, IdleIsClosed, FreshIsQueued, TimeoutIsQuiet

\* The revents of poll(), garbage included, are as many as there are slots.
LEMMA SlotsType ==
  ASSUME NEW garbage \in [Bridges -> BOOLEAN]
  PROVE  Slots(garbage) \in [Bridges -> BOOLEAN]
  BY DEF Slots, SlotIsReady

LEMMA PollStep == ASSUME IInv, PollReturns \/ PollTimesOut PROVE IInv'
<1>1. /\ timedOut' \in BOOLEAN /\ pc' = "serial"
      /\ silent' \in SUBSET Bridges
      /\ UNCHANGED <<cnt, anHourOld, state, backlog, sock, events>>
  BY DEF PollReturns, PollTimesOut, handlers
<1>2. revents' \in [serial : BOOLEAN, proxy : BOOLEAN, slot : [Bridges -> BOOLEAN]]
  <2>1. PICK serial, proxy \in BOOLEAN, garbage \in [Bridges -> BOOLEAN] :
          revents' = [serial |-> serial, proxy |-> proxy, slot |-> Slots(garbage)]
    BY DEF PollReturns, PollTimesOut
  <2>2. Slots(garbage) \in [Bridges -> BOOLEAN]
    BY SlotsType
  <2> QED
    BY <2>1, <2>2
<1>3. /\ fresh' \in [Bridges -> 0 .. MaxQueueSize]
      /\ \A b \in Bridges : fresh'[b] <= fresh[b]
      /\ timedOut' => \A b \in Bridges : fresh'[b] = 0 /\ (sock[b] = "none" \/ b \in silent')
      /\ timedOut' => ~revents'.serial /\ ~revents'.proxy
  <2>1. CASE PollReturns
    BY <2>1 DEF PollReturns, IInv, TypeOK
  <2>2. CASE PollTimesOut
    <3>1. fresh' = [b \in Bridges |-> 0]
      BY <2>2, TimeoutAssumption DEF PollTimesOut
    <3>2. /\ silent' = {b \in Bridges : sock[b] # "none"}
          /\ ~revents'.serial /\ ~revents'.proxy
      BY <2>2 DEF PollTimesOut
    <3>3. \A b \in Bridges : fresh[b] \in 0 .. MaxQueueSize
      BY DEF IInv, TypeOK
    <3> QED
      BY <3>1, <3>2, <3>3, LoopAssumption
  <2> QED
    BY <2>1, <2>2
<1>4. TypeOK'
  BY <1>1, <1>2, <1>3 DEF IInv, TypeOK, Locations
<1>5. IdleIsClosed' /\ FreshIsQueued'
  BY <1>1, <1>3 DEF IInv, TypeOK, IdleIsClosed, FreshIsQueued
<1>6. TimeoutIsQuiet'
  BY <1>1, <1>3 DEF IInv, IdleIsClosed, TimeoutIsQuiet
<1> QED
  BY <1>4, <1>5, <1>6 DEF IInv

\* What post() does to the handlers of a set of bridges.
LEMMA PostFacts ==
  ASSUME IInv, NEW M \in SUBSET Bridges, Post(M)
  PROVE  /\ state' \in [Bridges -> States]
         /\ backlog' \in [Bridges -> 0 .. MaxQueueSize]
         /\ fresh' \in [Bridges -> 0 .. MaxQueueSize]
         /\ sock' \in [Bridges -> SocketStates]
         /\ IdleIsClosed' /\ FreshIsQueued'
<1>1. PICK at \in [M -> {"connecting", "established"}] :
        /\ sock' = [b \in Bridges |->
             IF b \in M /\ state[b] = "idle" THEN at[b] ELSE sock[b]]
        /\ state' = [b \in Bridges |->
             IF ~(b \in M /\ state[b] = "idle") THEN state[b]
             ELSE IF at[b] = "connecting" THEN "connecting" ELSE "sending"]
        /\ backlog' = [b \in Bridges |->
             IF b \in M /\ ~(b \in M /\ state[b] = "idle") /\ backlog[b] < MaxQueueSize
             THEN backlog[b] + 1 ELSE backlog[b]]
        /\ fresh' = [b \in Bridges |->
             IF b \in M /\ ~(b \in M /\ state[b] = "idle") /\ fresh[b] < MaxQueueSize
             THEN fresh[b] + 1 ELSE fresh[b]]
  BY DEF Post
<1>2. state' \in [Bridges -> States] /\ sock' \in [Bridges -> SocketStates]
  BY <1>1 DEF IInv, TypeOK, States, SocketStates
<1>3. /\ backlog' \in [Bridges -> 0 .. MaxQueueSize]
      /\ fresh' \in [Bridges -> 0 .. MaxQueueSize]
  BY <1>1, LoopAssumption DEF IInv, TypeOK
<1>4. IdleIsClosed'
  BY <1>1, <1>2 DEF IInv, IdleIsClosed
<1>5. FreshIsQueued'
  <2>1. \A b \in Bridges : backlog[b] \in 0 .. MaxQueueSize /\ fresh[b] \in 0 .. MaxQueueSize
    BY DEF IInv, TypeOK
  <2> QED
    BY <1>1, <2>1, LoopAssumption DEF IInv, FreshIsQueued
<1> QED
  BY <1>2, <1>3, <1>4, <1>5

LEMMA ReceiveStep ==
  ASSUME IInv, NEW ready, NEW source, NEW next \in Locations, source \in Locations,
         timedOut => ~ready, Receive(source, ready, next)
  PROVE  IInv'
<1>1. CASE /\ ready /\ events < MaxEvents /\ events' = events + 1
           /\ \E M \in SUBSET Bridges : Post(M)
           /\ pc' \in {source, next}
           /\ UNCHANGED <<cnt, turn, anHourOld>>
  <2>1. /\ state' \in [Bridges -> States]
        /\ backlog' \in [Bridges -> 0 .. MaxQueueSize]
        /\ fresh' \in [Bridges -> 0 .. MaxQueueSize]
        /\ sock' \in [Bridges -> SocketStates]
        /\ IdleIsClosed' /\ FreshIsQueued'
    BY <1>1, PostFacts
  <2>2. TypeOK'
    BY <1>1, <2>1, LoopAssumption DEF IInv, TypeOK
  <2>3. TimeoutIsQuiet'
    BY <1>1 DEF TimeoutIsQuiet
  <2> QED
    BY <2>1, <2>2, <2>3 DEF IInv
<1>2. CASE events < MaxEvents /\ events' = events + 1 /\ Dies
  <2>1. events' \in 0 .. MaxEvents
    BY <1>2, LoopAssumption DEF IInv, TypeOK
  <2> QED
    BY <1>2, <2>1, DeathStep DEF IInv
<1>3. CASE /\ pc' = next
           /\ UNCHANGED <<cnt, turn, anHourOld, handlers, events>>
  BY <1>3 DEF IInv, TypeOK, IdleIsClosed, FreshIsQueued, TimeoutIsQuiet
<1> QED
  BY <1>1, <1>2, <1>3 DEF Receive

\* Polling one handler changes that one only, and a connection is still there
\* exactly while it is busy.  A handler without one ignores the call.
LEMMA HandlerFacts ==
  ASSUME IInv, NEW b \in Bridges, HandlerPolls(b) \/ UNCHANGED handlers
  PROVE  /\ state' \in [Bridges -> States]
         /\ backlog' \in [Bridges -> 0 .. MaxQueueSize]
         /\ fresh' \in [Bridges -> 0 .. MaxQueueSize]
         /\ sock' \in [Bridges -> SocketStates]
         /\ IdleIsClosed' /\ FreshIsQueued'
         /\ \A c \in Bridges : c # b \/ state[b] = "idle" =>
              state'[c] = state[c] /\ backlog'[c] = backlog[c] /\ sock'[c] = sock[c]
         /\ \A c \in Bridges : fresh[c] = 0 =>
              fresh'[c] = 0 /\ (state[c] = "idle" => state'[c] = "idle")
<1> USE DEF IInv, TypeOK, IdleIsClosed, FreshIsQueued, States, SocketStates
<1>1. CASE /\ state[b] \in {"connecting", "sending"}
           /\ state' = [state EXCEPT ![b] =
                IF sock[b] = "connecting" THEN "sending" ELSE "receiving"]
           /\ UNCHANGED <<backlog, fresh, sock>>
  BY <1>1
<1>2. CASE sock[b] = "closed" /\ RequestFinished(b)
  <2>1. CASE /\ fresh[b] = 0
             /\ backlog' = [backlog EXCEPT ![b] = 0]
             /\ sock' = [sock EXCEPT ![b] = "none"]
             /\ state' = [state EXCEPT ![b] = "idle"]
             /\ UNCHANGED fresh
    BY <1>2, <2>1, LoopAssumption
  <2>2. CASE /\ fresh[b] > 0
             /\ backlog' = [backlog EXCEPT ![b] = fresh[b] - 1]
             /\ fresh' = [fresh EXCEPT ![b] = @ - 1]
             /\ \E at \in {"connecting", "established"} :
                  /\ sock' = [sock EXCEPT ![b] = at]
                  /\ state' = [state EXCEPT ![b] =
                       IF at = "connecting" THEN at ELSE "sending"]
    <3>1. fresh[b] - 1 \in 0 .. MaxQueueSize
      BY <2>2, LoopAssumption
    <3>2. PICK at \in {"connecting", "established"} :
            /\ sock' = [sock EXCEPT ![b] = at]
            /\ state' = [state EXCEPT ![b] = IF at = "connecting" THEN at ELSE "sending"]
      BY <2>2
    <3> QED
      BY <1>2, <2>2, <3>1, <3>2
  <2> QED
    BY <1>2, <2>1, <2>2 DEF RequestFinished
<1>3. CASE UNCHANGED handlers
  BY <1>3
<1> QED
  BY <1>1, <1>2, <1>3 DEF HandlerPolls

LEMMA DispatchStep == ASSUME IInv, NEW b \in Bridges, Dispatch(b) PROVE IInv'
<1>1. CASE /\ HandlerPolls(b) \/ UNCHANGED handlers
           /\ IF b = NBridges THEN pc' = "check" /\ cnt' = 1
                              ELSE pc' = pc /\ cnt' = b + 1
           /\ UNCHANGED <<turn, anHourOld, events>>
  <2>1. /\ state' \in [Bridges -> States]
        /\ backlog' \in [Bridges -> 0 .. MaxQueueSize]
        /\ fresh' \in [Bridges -> 0 .. MaxQueueSize]
        /\ sock' \in [Bridges -> SocketStates]
        /\ IdleIsClosed' /\ FreshIsQueued'
        /\ \A c \in Bridges : fresh[c] = 0 =>
             fresh'[c] = 0 /\ (state[c] = "idle" => state'[c] = "idle")
    BY <1>1, HandlerFacts
  <2>2. cnt' \in Bridges /\ pc' \in Locations
    BY <1>1, LoopAssumption DEF IInv, TypeOK, Bridges, Locations
  <2>3. TypeOK'
    BY <1>1, <2>1, <2>2 DEF IInv, TypeOK
  <2>4. TimeoutIsQuiet'
    BY <1>1, <2>1 DEF IInv, TimeoutIsQuiet
  <2> QED
    BY <2>1, <2>3, <2>4 DEF IInv
<1>2. CASE Dies /\ UNCHANGED events
  BY <1>2, DeathStep DEF IInv, TypeOK
<1> QED
  BY <1>1, <1>2 DEF Dispatch

LEMMA OtherSteps ==
  ASSUME IInv,
         \/ CheckRestart \/ PollFails \/ Respawn \/ AnHourPasses
         \/ \E b \in Bridges : GrowsOld(b) \/ Connected(b) \/ PeerCloses(b) \/ ConnectionFails(b)
  PROVE  IInv'
<1>1. CASE Dies /\ UNCHANGED events
  BY <1>1, DeathStep DEF IInv, TypeOK
<1>2. CASE /\ pc' = "poll" /\ revents' = NoRevents /\ timedOut' = FALSE
           /\ silent' = {}
           /\ UNCHANGED <<cnt, anHourOld, handlers, events>>
  BY <1>2, NoReventsType
     DEF IInv, TypeOK, Locations, IdleIsClosed, FreshIsQueued, TimeoutIsQuiet
<1>3. CASE Respawn \/ AnHourPasses
  <2>1. /\ pc' \in Locations /\ anHourOld' \in BOOLEAN
        /\ UNCHANGED <<cnt, turn, handlers, events>>
    BY <1>3 DEF Respawn, AnHourPasses, IInv, TypeOK, Locations
  <2> QED
    BY <2>1 DEF IInv, TypeOK, IdleIsClosed, FreshIsQueued, TimeoutIsQuiet
<1>4. ASSUME NEW b \in Bridges, Connected(b) \/ PeerCloses(b) \/ ConnectionFails(b)
      PROVE  IInv'
  <2>1. PICK to \in SocketStates \ {"none"} :
          /\ sock[b] # "none" /\ sock' = [sock EXCEPT ![b] = to]
          /\ UNCHANGED <<pc, cnt, turn, anHourOld, state, backlog, fresh, events>>
    BY <1>4 DEF Connected, PeerCloses, ConnectionFails, SocketBecomes, SocketStates
  <2> QED
    BY <2>1 DEF IInv, TypeOK, IdleIsClosed, FreshIsQueued, TimeoutIsQuiet
<1>5. ASSUME NEW b \in Bridges, GrowsOld(b) PROVE IInv'
  <2>1. fresh[b] - 1 \in 0 .. MaxQueueSize
    BY <1>5, LoopAssumption DEF GrowsOld, IInv, TypeOK
  <2>2. TypeOK'
    BY <1>5, <2>1 DEF GrowsOld, IInv, TypeOK
  <2>3. FreshIsQueued'
    BY <1>5, <2>1 DEF GrowsOld, IInv, TypeOK, FreshIsQueued
  <2> QED
    BY <1>5, <2>2, <2>3 DEF GrowsOld, IInv, IdleIsClosed, TimeoutIsQuiet
<1> QED
  BY <1>1, <1>2, <1>3, <1>4, <1>5 DEF CheckRestart, PollFails

THEOREM StepPreservesIInv == IInv /\ [Next]_vars => IInv'
<1> SUFFICES ASSUME IInv, [Next]_vars PROVE IInv'
  OBVIOUS
<1>1. CASE UNCHANGED vars
  BY <1>1 DEF vars, IInv, TypeOK, IdleIsClosed, FreshIsQueued, TimeoutIsQuiet
<1>2. CASE PollReturns \/ PollTimesOut
  BY <1>2, PollStep
<1>3. CASE Serial
  BY <1>3, ReceiveStep DEF Serial, IInv, TimeoutIsQuiet, Locations
<1>4. CASE Proxy
  BY <1>4, ReceiveStep DEF Proxy, IInv, TimeoutIsQuiet, Locations
<1>5. CASE \E b \in Bridges : Dispatch(b)
  BY <1>5, DispatchStep
<1>6. CASE \/ CheckRestart \/ PollFails \/ Respawn \/ AnHourPasses
           \/ \E b \in Bridges : GrowsOld(b) \/ Connected(b) \/ PeerCloses(b) \/ ConnectionFails(b)
  BY <1>6, OtherSteps
<1> QED
  BY <1>1, <1>2, <1>3, <1>4, <1>5, <1>6 DEF Next, Loop

\* Every reachable state satisfies the inductive invariant.
THEOREM Invariance == Spec => []IInv
  BY InitEstablishesIInv, StepPreservesIInv, PTL DEF Spec

\* For any number of bridges: the types, and a handler has a connection in each
\* state but idle and nothing queued when it is idle.
THEOREM TypeCorrect == Spec => [](TypeOK /\ IdleIsClosed)
<1>1. IInv => TypeOK /\ IdleIsClosed
  BY DEF IInv
<1> QED
  BY <1>1, Invariance, PTL
-----------------------------------------------------------------------------
\* The planned restart takes nothing that still counts: the loop decides it in the
\* turn of a timeout, in which all values are too old and only the handlers of
\* silent bridges are busy, and nothing in such a turn makes it otherwise.
THEOREM RestartTheorem == Spec => RestartLosesOnlyOverdue
<1> DEFINE Spares == pc = "check" /\ pc' = "dead" =>
                       \A b \in Bridges :
                         fresh[b] = 0 /\ (state[b] = "idle" \/ b \in silent)
<1>1. IInv /\ [Next]_vars => [Spares]_vars
  <2> SUFFICES ASSUME IInv, Next, pc = "check", pc' = "dead"
               PROVE  \A b \in Bridges :
                        fresh[b] = 0 /\ (state[b] = "idle" \/ b \in silent)
    OBVIOUS
  <2>1. CheckRestart
    BY DEF Next, Loop, PollReturns, PollTimesOut, PollFails, Serial, Proxy, Receive,
           Dispatch, Respawn, AnHourPasses, GrowsOld, Connected, PeerCloses,
           ConnectionFails, SocketBecomes
  <2>2. timedOut
    BY <2>1 DEF CheckRestart
  <2> QED
    BY <2>2 DEF IInv, TimeoutIsQuiet
<1> QED
  BY <1>1, Invariance, PTL DEF Spec, RestartLosesOnlyOverdue
-----------------------------------------------------------------------------
(* Every handler of the loop implements HandlerLife.                       *)

\* What the loop does to one handler b.
LEMMA PollReturnsLives ==
  ASSUME NEW b \in Bridges,
         \/ PollReturns \/ PollTimesOut \/ AnHourPasses \/ UNCHANGED vars
         \/ \E c \in Bridges : GrowsOld(c)
  PROVE  UNCHANGED Life(b)!vars
  BY DEF PollReturns, PollTimesOut, AnHourPasses, GrowsOld, vars, Life!vars

LEMMA DiesLives ==
  ASSUME NEW b \in Bridges, pc # "dead", Dies
  PROVE  Life(b)!Next
  BY DEF Dies, Life!Next, Life!Dies, Life!BecomesIdle

\* A command for some of the bridges.
LEMMA PostLives ==
  ASSUME IInv, NEW b \in Bridges, pc # "dead", pc' # "dead",
         NEW M \in SUBSET Bridges, Post(M)
  PROVE  [Life(b)!Next]_(Life(b)!vars)
<1>1. PICK at \in [M -> {"connecting", "established"}] :
        /\ sock'[b] = IF b \in M /\ state[b] = "idle" THEN at[b] ELSE sock[b]
        /\ state'[b] = IF ~(b \in M /\ state[b] = "idle") THEN state[b]
                       ELSE IF at[b] = "connecting" THEN "connecting" ELSE "sending"
        /\ backlog'[b] =
             IF b \in M /\ ~(b \in M /\ state[b] = "idle") /\ backlog[b] < MaxQueueSize
             THEN backlog[b] + 1 ELSE backlog[b]
  BY DEF Post
<1>2. CASE b \notin M
  BY <1>1, <1>2 DEF Life!vars
<1>3. CASE b \in M /\ state[b] = "idle"
  <2>1. backlog[b] = 0 /\ at[b] \in {"connecting", "established"}
    BY <1>3 DEF IInv, IdleIsClosed
  <2>2. Life(b)!Starts(0)
    BY <1>1, <1>3, <2>1 DEF Life!Starts
  <2> QED
    BY <1>3, <2>2 DEF Life!Next, Life!Post
<1>4. CASE b \in M /\ state[b] # "idle"
  BY <1>1, <1>4 DEF Life!Next, Life!Post
<1> QED
  BY <1>2, <1>3, <1>4

LEMMA ReceiveLives ==
  ASSUME IInv, NEW b \in Bridges, NEW ready,
         NEW source, source # "dead", NEW next, next # "dead",
         Receive(source, ready, next)
  PROVE  [Life(b)!Next]_(Life(b)!vars)
<1>1. pc # "dead"
  BY DEF Receive
<1>2. ASSUME NEW M \in SUBSET Bridges, Post(M), pc' \in {source, next}
      PROVE  [Life(b)!Next]_(Life(b)!vars)
  BY <1>1, <1>2, PostLives
<1>3. CASE Dies
  BY <1>1, <1>3, DiesLives
<1>4. CASE pc' = next /\ UNCHANGED handlers
  BY <1>1, <1>4 DEF Life!vars
<1> QED
  BY <1>2, <1>3, <1>4 DEF Receive

\* The loop calls the handler of bridge c.
LEMMA HandlerLives ==
  ASSUME IInv, NEW b \in Bridges, NEW c \in Bridges, Dispatch(c)
  PROVE  [Life(b)!Next]_(Life(b)!vars)
<1>1. pc # "dead"
  BY DEF Dispatch
<1>2. CASE Dies
  BY <1>1, <1>2, DiesLives
<1>3. CASE /\ HandlerPolls(c) \/ UNCHANGED handlers
           /\ pc' # "dead"
  <2>1. CASE UNCHANGED <<state[b], backlog[b], sock[b]>>
    BY <1>1, <1>3, <2>1 DEF Life!vars
  <2>2. CASE /\ c = b
             /\ state[b] \in {"connecting", "sending"}
             /\ sock[b] \in {"connecting", "established"}
             /\ state' = [state EXCEPT ![b] =
                  IF sock[b] = "connecting" THEN "sending" ELSE "receiving"]
             /\ UNCHANGED <<backlog, fresh, sock>>
    BY <1>1, <1>3, <2>2 DEF IInv, TypeOK, Life!Next, Life!Write
  <2>3. CASE c = b /\ sock[b] = "closed" /\ RequestFinished(b)
    <3>1. CASE fresh[b] = 0
      BY <1>1, <1>3, <2>3, <3>1
         DEF RequestFinished, IInv, TypeOK, Life!Next, Life!Finish, Life!BecomesIdle
    <3>2. CASE fresh[b] > 0
      <4>1. PICK at \in {"connecting", "established"} :
              /\ backlog'[b] = fresh[b] - 1
              /\ sock'[b] = at
              /\ state'[b] = IF at = "connecting" THEN at ELSE "sending"
        BY <2>3, <3>2 DEF RequestFinished, IInv, TypeOK
      <4>2. fresh[b] - 1 \in 0 .. backlog[b] - 1
        BY <3>2 DEF IInv, TypeOK, FreshIsQueued
      <4>3. Life(b)!Starts(fresh[b] - 1)
        BY <4>1 DEF Life!Starts
      <4> QED
        BY <1>1, <1>3, <2>3, <4>2, <4>3 DEF Life!Next, Life!Finish
    <3> QED
      BY <2>3, <3>1, <3>2 DEF RequestFinished
  <2>4. \/ UNCHANGED <<state[b], backlog[b], sock[b]>>
        \/ c = b /\ HandlerPolls(b)
    BY <1>3, HandlerFacts
  <2> QED
    BY <2>1, <2>2, <2>3, <2>4 DEF HandlerPolls
<1> QED
  BY <1>1, <1>2, <1>3 DEF Dispatch

\* What the network does to a connection.
LEMMA NetworkLives ==
  ASSUME IInv, NEW b \in Bridges, NEW c \in Bridges,
         Connected(c) \/ PeerCloses(c) \/ ConnectionFails(c)
  PROVE  [Life(b)!Next]_(Life(b)!vars)
<1>1. UNCHANGED <<pc, state, backlog>>
  BY DEF Connected, PeerCloses, ConnectionFails, SocketBecomes
<1>2. CASE c # b
  <2>1. sock'[b] = sock[b]
    BY <1>2 DEF Connected, PeerCloses, ConnectionFails, SocketBecomes, IInv, TypeOK
  <2> QED
    BY <1>1, <2>1 DEF Life!vars
<1>3. CASE c = b
  <2>1. \/ sock[b] = "connecting" /\ sock'[b] = "established"
        \/ sock[b] = "established" /\ sock'[b] = "closed"
        \/ sock[b] \notin {"none", "failed"} /\ sock'[b] = "failed"
    BY <1>3 DEF Connected, PeerCloses, ConnectionFails, SocketBecomes, IInv, TypeOK
  <2> QED
    BY <1>1, <2>1 DEF Life!Next, Life!Network
<1> QED
  BY <1>2, <1>3

\* Every handler in the loop lives the life of a handler, whatever the other
\* handlers do and whichever slot of the revents it looks at.
THEOREM HandlersLive == Spec => EveryHandlerLives
<1>1. Init => \A b \in Bridges : Life(b)!Init
  BY DEF Init, Life!Init
<1>2. IInv /\ [Next]_vars => \A b \in Bridges : [Life(b)!Next]_(Life(b)!vars)
  <2> SUFFICES ASSUME IInv, [Next]_vars, NEW b \in Bridges
               PROVE  [Life(b)!Next]_(Life(b)!vars)
    OBVIOUS
  <2>1. CASE \/ PollReturns \/ PollTimesOut \/ AnHourPasses \/ UNCHANGED vars
             \/ \E c \in Bridges : GrowsOld(c)
    BY <2>1, PollReturnsLives
  <2>2. CASE Serial \/ Proxy
    BY <2>2, ReceiveLives DEF Serial, Proxy
  <2>3. CASE \E c \in Bridges : Dispatch(c)
    BY <2>3, HandlerLives
  <2>4. CASE CheckRestart \/ PollFails
    <3>1. CASE Dies
      BY <2>4, <3>1, DiesLives DEF CheckRestart, PollFails
    <3>2. CASE pc' = "poll" /\ UNCHANGED handlers
      BY <2>4, <3>2 DEF CheckRestart, PollFails, Life!vars
    <3> QED
      BY <2>4, <3>1, <3>2 DEF CheckRestart, PollFails
  <2>5. CASE Respawn
    BY <2>5 DEF Respawn, Life!Next, Life!Respawn
  <2>6. CASE \E c \in Bridges : Connected(c) \/ PeerCloses(c) \/ ConnectionFails(c)
    BY <2>6, NetworkLives
  <2> QED
    BY <2>1, <2>2, <2>3, <2>4, <2>5, <2>6 DEF Next, Loop
<1>3. IInv /\ [Next]_vars
        => [\A b \in Bridges : [Life(b)!Next]_(Life(b)!vars)]_vars
  BY <1>2
<1> QED
  BY <1>1, <1>3, Invariance, PTL DEF Spec, EveryHandlerLives
-----------------------------------------------------------------------------
(* The slots.                                                              *)

\* A bridge with a connection gets the slot after those of the bridges before
\* it, which is its own if they all have one.
LEMMA SlotFacts ==
  ASSUME NEW b \in Bridges
  PROVE  /\ SlotOf(b) \in 0 .. b
         /\ sock[b] # "none" => SlotOf(b) > 0
         /\ SlotOf(b) = b <=> \A a \in 1 .. b : sock[a] # "none"
<1> DEFINE S == {a \in 1 .. b : sock[a] # "none"}
<1>1. b \in Nat \ {0} /\ b \in 1 .. b
  BY BridgesType DEF Bridges
<1>2. IsFiniteSet(1 .. b) /\ Cardinality(1 .. b) = b
  BY <1>1, FS_Interval
<1>3. S \in SUBSET (1 .. b) /\ SlotOf(b) = Cardinality(S)
  BY DEF SlotOf
<1>4. sock[b] # "none" => S # {}
  BY <1>1
<1>5. S = 1 .. b <=> \A a \in 1 .. b : sock[a] # "none"
  OBVIOUS
<1> HIDE DEF S
<1>6. IsFiniteSet(S) /\ Cardinality(S) <= b /\ (Cardinality(S) = b => S = 1 .. b)
  BY <1>2, <1>3, FS_Subset
<1>7. Cardinality(S) \in Nat /\ (Cardinality(S) = 0 => S = {})
  BY <1>6, FS_CardinalityType, FS_EmptySet
<1>8. S = 1 .. b <=> Cardinality(S) = b
  BY <1>2, <1>6
<1>9. PICK n \in Nat : n = SlotOf(b) /\ n <= b /\ (n = 0 => S = {}) /\ (S = 1 .. b <=> n = b)
  BY <1>3, <1>6, <1>7, <1>8
<1>10. n \in 0 .. b /\ (sock[b] # "none" => n > 0)
  BY <1>1, <1>4, <1>9
<1> QED
  BY <1>5, <1>9, <1>10

\* No two bridges with a connection have the same slot.
LEMMA SlotsAscend ==
  ASSUME NEW b \in Bridges, NEW c \in Bridges, b < c
  PROVE  /\ SlotOf(b) <= SlotOf(c)
         /\ sock[c] # "none" => SlotOf(b) < SlotOf(c)
<1> DEFINE S(d) == {a \in 1 .. d : sock[a] # "none"}
<1>1. b \in Nat /\ c \in Nat /\ c \in 1 .. c /\ c \notin 1 .. b
  BY BridgesType DEF Bridges
<1>2. IsFiniteSet(S(c))
  <2>1. IsFiniteSet(1 .. c)
    BY <1>1, FS_Interval
  <2>2. S(c) \in SUBSET (1 .. c)
    OBVIOUS
  <2> HIDE DEF S
  <2> QED
    BY <2>1, <2>2, FS_Subset
<1>3. S(b) \in SUBSET S(c)
  BY <1>1
<1>4. sock[c] # "none" => S(b) # S(c)
  <2>1. c \notin S(b)
    BY <1>1
  <2>2. sock[c] # "none" => c \in S(c)
    BY <1>1
  <2> QED
    BY <2>1, <2>2
<1>5. SlotOf(b) = Cardinality(S(b)) /\ SlotOf(c) = Cardinality(S(c))
  BY DEF SlotOf
<1>6. SlotOf(b) \in Nat /\ SlotOf(c) \in Nat
  BY SlotFacts
<1> HIDE DEF S
<1>7. /\ Cardinality(S(b)) <= Cardinality(S(c))
      /\ Cardinality(S(c)) = Cardinality(S(b)) => S(c) = S(b)
  BY <1>2, <1>3, FS_Subset
<1> QED
  BY <1>4, <1>5, <1>6, <1>7

\* What poll() says of a bridge with a connection is in its slot.
LEMMA SlotSays ==
  ASSUME NEW b \in Bridges, sock[b] # "none", NEW garbage
  PROVE  SlotOf(b) \in Bridges /\ (Slots(garbage)[SlotOf(b)] <=> Ready(b))
<1>1. /\ b \in Nat /\ NBridges \in Nat /\ b \in 1 .. NBridges
      /\ SlotOf(b) \in 1 .. b /\ SlotOf(NBridges) \in Nat
  BY SlotFacts, BridgesType DEF Bridges
<1>2. SlotOf(b) \in Bridges
  BY <1>1 DEF Bridges
<1>3. SlotOf(b) <= SlotOf(NBridges)
  <2>1. CASE b = NBridges
    BY <1>1, <2>1
  <2>2. CASE b < NBridges
    BY <2>2, SlotsAscend, BridgesType
  <2> QED
    BY <1>1, <2>1, <2>2
<1>4. ASSUME NEW c \in Bridges, sock[c] # "none", SlotOf(c) = SlotOf(b)
      PROVE  c = b
  <2>1. c \in Nat
    BY BridgesType
  <2>2. ~(b < c)
    BY <1>1, <1>4, SlotsAscend
  <2>3. ~(c < b)
    BY <1>1, <1>4, SlotsAscend
  <2> QED
    BY <1>1, <2>1, <2>2, <2>3
<1>5. SlotIsReady(SlotOf(b)) <=> Ready(b)
  BY <1>4 DEF SlotIsReady
<1> QED
  BY <1>2, <1>3, <1>5 DEF Slots

\* How far the loop over the bridges is right, enocean_to_hue_bridge.cpp:95-123:
\* after poll() the readiness of each connection is in one slot, and the loop
\* reads that slot for its bridge exactly if every bridge before it has a
\* connection too; so always for the first.
THEOREM OwnSlot ==
  Spec => [][ pc = "poll" /\ pc' = "serial" =>
              \A b \in Bridges : sock[b] # "none" =>
                /\ revents'.slot[SlotOf(b)] <=> Ready(b)
                /\ SlotOf(b) = b <=> \A a \in 1 .. b : sock[a] # "none" ]_vars
<1>1. ASSUME [Next]_vars, pc = "poll", pc' = "serial", NEW b \in Bridges, sock[b] # "none"
      PROVE  revents'.slot[SlotOf(b)] <=> Ready(b)
  <2>1. PollReturns \/ PollTimesOut
    BY <1>1 DEF vars, Next, Loop, PollFails, Dies, Serial, Proxy, Receive, Dispatch,
                CheckRestart, Respawn, AnHourPasses, GrowsOld, Connected, PeerCloses,
                ConnectionFails, SocketBecomes
  <2>2. PICK serial, proxy, garbage :
          revents' = [serial |-> serial, proxy |-> proxy, slot |-> Slots(garbage)]
    BY <2>1 DEF PollReturns, PollTimesOut
  <2> QED
    BY <1>1, <2>2, SlotSays
<1>2. [Next]_vars =>
        [ pc = "poll" /\ pc' = "serial" =>
            \A b \in Bridges : sock[b] # "none" =>
              /\ revents'.slot[SlotOf(b)] <=> Ready(b)
              /\ SlotOf(b) = b <=> \A a \in 1 .. b : sock[a] # "none" ]_vars
  BY <1>1, SlotFacts
<1> QED
  BY <1>2, PTL DEF Spec
=============================================================================
