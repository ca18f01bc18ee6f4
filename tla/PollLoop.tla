------------------------------ MODULE PollLoop ------------------------------
(***************************************************************************)
(* enocean_to_hue_bridge::run_poll_loop(): one child process that polls    *)
(* the serial line, the proxy socket and the connections of its bridges,   *)
(* in the order of the array fds, and ends itself after an hour when       *)
(* nothing happens.                                                        *)
(*                                                                         *)
(* A handler is HueSensorPosix without its data: the queue is a length and *)
(* how many of its last values are not too old to be sent, a request is    *)
(* written in one piece.  A bridge may never answer.                       *)
(***************************************************************************)
EXTENDS Naturals, FiniteSets

CONSTANTS
  NBridges,       \* bridges on the command line
  MaxQueueSize,
  MaxEventAge,    \* MAX_EVENT_AGE, in seconds
  PollTimeout,    \* the timeout of poll(), in seconds
  Answering,      \* the bridges that accept, answer and close; others may hang
  MaxEvents       \* bound: commands received

ASSUME LoopAssumption ==
  /\ NBridges \in Nat \ {0}
  /\ MaxQueueSize \in Nat \ {0}
  /\ Answering \subseteq 1 .. NBridges
  /\ MaxEvents \in Nat

\* What is queued before a poll() that times out is too old after it.
ASSUME TimeoutAssumption ==
  MaxEventAge \in Nat /\ PollTimeout \in Nat /\ MaxEventAge < PollTimeout

VARIABLES
  pc,         \* what the loop does next; "dead" when there is no child process
  cnt,        \* in the loop over the bridges: the bridge, and the slot it looks at
  revents,    \* fds[..].revents: of the serial line, the proxy, and the slots for bridges
  timedOut,   \* poll() returned 0
  anHourOld,  \* curtime - starttime >= 3600
  state,      \* state_ of each bridge's handler
  backlog,    \* queue_size_ of each
  fresh,      \* how many of the queued values are not yet too old: the last ones
  sock,       \* its connection, "none" for fd_ = -1
  silent,     \* the bridges that had a connection, unheard of, when poll() timed out
  events      \* commands received so far

handlers == <<state, backlog, fresh, sock>>
turn == <<revents, timedOut, silent>>
vars == <<pc, cnt, turn, anHourOld, handlers, events>>

Bridges == 1 .. NBridges
States == {"idle", "connecting", "sending", "receiving"}
SocketStates == {"none", "connecting", "established", "closed", "failed"}
Locations == {"dead", "poll", "serial", "proxy", "bridges", "check"}

NoRevents == [serial |-> FALSE, proxy |-> FALSE, slot |-> [b \in Bridges |-> FALSE]]

TypeOK ==
  /\ pc \in Locations /\ cnt \in Bridges
  /\ revents \in [serial : BOOLEAN, proxy : BOOLEAN, slot : [Bridges -> BOOLEAN]]
  /\ timedOut \in BOOLEAN /\ anHourOld \in BOOLEAN
  /\ state \in [Bridges -> States]
  /\ backlog \in [Bridges -> 0 .. MaxQueueSize]
  /\ fresh \in [Bridges -> 0 .. MaxQueueSize]
  /\ silent \in SUBSET Bridges
  /\ sock \in [Bridges -> SocketStates]
  /\ events \in 0 .. MaxEvents

Init ==
  /\ pc = "poll"
  /\ cnt = 1
  /\ revents = NoRevents
  /\ timedOut = FALSE
  /\ anHourOld = FALSE
  /\ state = [b \in Bridges |-> "idle"]
  /\ backlog = [b \in Bridges |-> 0]
  /\ fresh = [b \in Bridges |-> 0]
  /\ silent = {}
  /\ sock = [b \in Bridges |-> "none"]
  /\ events = 0

\* The child ends: an exception, std::terminate or _exit(0).
Dies ==
  /\ pc' = "dead"
  /\ cnt' = 1
  /\ revents' = NoRevents
  /\ timedOut' = FALSE
  /\ anHourOld' = FALSE
  /\ state' = [b \in Bridges |-> "idle"]
  /\ backlog' = [b \in Bridges |-> 0]
  /\ fresh' = [b \in Bridges |-> 0]
  /\ silent' = {}
  /\ sock' = [b \in Bridges |-> "none"]

Respawn ==
  /\ pc = "dead"
  /\ pc' = "poll"
  /\ UNCHANGED <<cnt, turn, anHourOld, handlers, events>>
-----------------------------------------------------------------------------
(* poll().                                                                 *)

\* get_events() against the state of the connection.
Ready(b) ==
  \/ sock[b] \in {"closed", "failed"}
  \/ sock[b] = "established" /\ state[b] # "receiving"

\* The slot for bridge b, if it has a connection: only such bridges get an entry
\* of fds.
SlotOf(b) == Cardinality({a \in 1 .. b : sock[a] # "none"})

\* What poll() says of slot k.
SlotIsReady(k) == \E b \in Bridges : sock[b] # "none" /\ SlotOf(b) = k /\ Ready(b)

\* Mutant: poll() is told one entry too few.
SlotsButLast(garbage) ==
  [k \in Bridges |-> IF k < SlotOf(NBridges) THEN SlotIsReady(k) ELSE garbage[k]]

\* revents of the slots for bridges.  Slots without an entry are not
\* initialised: their content is any garbage.
Slots(garbage) ==
  [k \in Bridges |-> IF k <= SlotOf(NBridges) THEN SlotIsReady(k) ELSE garbage[k]]

\* poll() returns something for the serial line, the proxy or a bridge.
PollReturns ==
  /\ pc = "poll"
  /\ \E serial, proxy \in BOOLEAN, garbage \in [Bridges -> BOOLEAN] :
       /\ serial \/ proxy \/ \E b \in Bridges : Ready(b)
       /\ serial \/ proxy => events < MaxEvents
       /\ revents' = [serial |-> serial, proxy |-> proxy, slot |-> Slots(garbage)]
  /\ timedOut' = FALSE
  /\ silent' = {}
  /\ pc' = "serial"
  /\ UNCHANGED <<cnt, anHourOld, handlers, events>>

\* poll() returns 0 after ten minutes without any event.  Bridges with a connection
\* did not say a word, and all that is queued has become older by the timeout.
PollTimesOut ==
  /\ pc = "poll"
  /\ \A b \in Bridges : ~Ready(b)
  /\ \E garbage \in [Bridges -> BOOLEAN] :
       revents' = [serial |-> FALSE, proxy |-> FALSE, slot |-> Slots(garbage)]
  /\ timedOut' = TRUE
  /\ silent' = {b \in Bridges : sock[b] # "none"}
  /\ fresh' = [b \in Bridges |-> IF PollTimeout > MaxEventAge THEN 0 ELSE fresh[b]]
  /\ pc' = "serial"
  /\ UNCHANGED <<cnt, anHourOld, state, backlog, sock, events>>

\* poll() fails: an exception.
PollFails == pc = "poll" /\ Dies /\ UNCHANGED events
-----------------------------------------------------------------------------
(* Handling what poll() returned.                                          *)

\* Mutant: post() starts a connection whatever the handler is doing.
PostRestarts(M) ==
  /\ \E at \in [M -> {"connecting", "established"}] :
       sock' = [b \in Bridges |-> IF b \in M THEN at[b] ELSE sock[b]]
  /\ state' = [b \in Bridges |-> IF b \in M THEN "connecting" ELSE state[b]]
  /\ UNCHANGED <<backlog, fresh>>

\* Mutant: a full queue does not drop its oldest element.
PostUnbounded(M) ==
  /\ backlog' = [b \in Bridges |-> IF b \in M THEN backlog[b] + 1 ELSE backlog[b]]
  /\ UNCHANGED <<sock, state, fresh>>

\* post() to the bridges of set M: an idle one starts to connect.
Post(M) ==
  \E at \in [M -> {"connecting", "established"}] :
    LET starts(b) == b \in M /\ state[b] = "idle"
    IN  /\ sock' = [b \in Bridges |-> IF starts(b) THEN at[b] ELSE sock[b]]
        /\ state' = [b \in Bridges |->
             IF ~starts(b) THEN state[b]
             ELSE IF at[b] = "connecting" THEN "connecting" ELSE "sending"]
        /\ backlog' = [b \in Bridges |->
             IF b \in M /\ ~starts(b) /\ backlog[b] < MaxQueueSize
             THEN backlog[b] + 1 ELSE backlog[b]]
        /\ fresh' = [b \in Bridges |->
             IF b \in M /\ ~starts(b) /\ fresh[b] < MaxQueueSize
             THEN fresh[b] + 1 ELSE fresh[b]]

\* hnd_.poll() or proxy_poll(), when it is ready, takes what there is: an event
\* with a command for some of the bridges, or none, and then maybe another; or
\* there is an error, of the source or of start_connect() in post().
Receive(source, ready, next) ==
  /\ pc = source
  /\ \/ /\ ready
        /\ events < MaxEvents
        /\ events' = events + 1
        /\ \/ /\ \E M \in SUBSET Bridges : Post(M)
              /\ pc' \in {source, next}
              /\ UNCHANGED <<cnt, turn, anHourOld>>
           \/ Dies
     \/ /\ ~ready \/ events = MaxEvents
        /\ pc' = next
        /\ UNCHANGED <<cnt, turn, anHourOld, handlers, events>>

Serial == Receive("serial", revents.serial, "proxy")
Proxy == Receive("proxy", revents.proxy, "bridges")

\* request_finished() of bridge b: idle, or the next request, for the first value
\* of the queue that is not too old; those before it are dropped.
RequestFinished(b) ==
  \/ /\ fresh[b] = 0
     /\ backlog' = [backlog EXCEPT ![b] = 0]
     /\ sock' = [sock EXCEPT ![b] = "none"]
     /\ state' = [state EXCEPT ![b] = "idle"]
     /\ UNCHANGED fresh
  \/ /\ fresh[b] > 0
     /\ backlog' = [backlog EXCEPT ![b] = fresh[b] - 1]
     /\ fresh' = [fresh EXCEPT ![b] = @ - 1]
     /\ \E at \in {"connecting", "established"} :
          /\ sock' = [sock EXCEPT ![b] = at]
          /\ state' = [state EXCEPT ![b] = IF at = "connecting" THEN at ELSE "sending"]

\* b.poll() of one handler that returns ...
HandlerPolls(b) ==
  \/ /\ state[b] \in {"connecting", "sending"}
     /\ sock[b] \in {"connecting", "established"}
     /\ state' = [state EXCEPT ![b] =
          IF sock[b] = "connecting" THEN "sending" ELSE "receiving"]
     /\ UNCHANGED <<backlog, fresh, sock>>
  \/ sock[b] = "closed" /\ RequestFinished(b)
  \/ /\ sock[b] = "none" \/ (state[b] = "receiving" /\ sock[b] = "established")
     /\ UNCHANGED handlers

\* ... or ends the process: an error of the connection, or of start_connect().
HandlerThrows(b) == sock[b] = "failed" \/ (sock[b] = "closed" /\ fresh[b] > 0)

\* The loop over the bridges: bridge b looks at slot b.
Dispatch(b) ==
  /\ pc = "bridges" /\ cnt = b
  /\ UNCHANGED events
  /\ \/ /\ IF revents.slot[b] THEN HandlerPolls(b) ELSE UNCHANGED handlers
        /\ IF b = NBridges THEN pc' = "check" /\ cnt' = 1
                           ELSE pc' = pc /\ cnt' = b + 1
        /\ UNCHANGED <<turn, anHourOld>>
     \/ revents.slot[b] /\ HandlerThrows(b) /\ Dies

\* Mutant: the planned restart does not wait for a quiet moment.
CheckRestartAlways ==
  /\ pc = "check"
  /\ \/ anHourOld /\ Dies
     \/ /\ ~anHourOld
        /\ pc' = "poll"
        /\ revents' = NoRevents
        /\ timedOut' = FALSE
        /\ silent' = {}
        /\ UNCHANGED <<cnt, anHourOld, handlers>>
  /\ UNCHANGED events

\* After an hour the child ends itself, when poll() has timed out.
CheckRestart ==
  /\ pc = "check"
  /\ \/ anHourOld /\ timedOut /\ Dies
     \/ /\ ~(anHourOld /\ timedOut)
        /\ pc' = "poll"
        /\ revents' = NoRevents
        /\ timedOut' = FALSE
        /\ silent' = {}
        /\ UNCHANGED <<cnt, anHourOld, handlers>>
  /\ UNCHANGED events
-----------------------------------------------------------------------------
(* The world around the process.                                           *)

\* An hour of the wall clock passes, or somebody sets the clock, either way.
AnHourPasses ==
  /\ pc # "dead"
  /\ anHourOld' = ~anHourOld
  /\ UNCHANGED <<pc, cnt, turn, handlers, events>>

\* The oldest of the queued values becomes too old.
GrowsOld(b) ==
  /\ fresh[b] > 0
  /\ fresh' = [fresh EXCEPT ![b] = @ - 1]
  /\ UNCHANGED <<pc, cnt, turn, anHourOld, state, backlog, sock, events>>

SocketBecomes(b, from, to) ==
  /\ sock[b] \in from
  /\ sock' = [sock EXCEPT ![b] = to]
  /\ UNCHANGED <<pc, cnt, turn, anHourOld, state, backlog, fresh, events>>

Connected(b) == SocketBecomes(b, {"connecting"}, "established")
PeerCloses(b) == SocketBecomes(b, {"established"}, "closed")
ConnectionFails(b) == SocketBecomes(b, {"connecting", "established", "closed"}, "failed")

Loop ==
  \/ PollReturns
  \/ PollTimesOut
  \/ PollFails
  \/ Serial
  \/ Proxy
  \/ \E b \in Bridges : Dispatch(b)
  \/ CheckRestart

Next ==
  \/ Loop
  \/ Respawn
  \/ AnHourPasses
  \/ \E b \in Bridges : GrowsOld(b) \/ Connected(b) \/ PeerCloses(b) \/ ConnectionFails(b)

Spec == Init /\ [][Next]_vars

(* The child runs its loop, main() forks the next one, and the bridges in   *)
(* Answering accept, answer and close.  Of the others nothing is assumed.   *)
FairSpec ==
  /\ Spec
  /\ WF_vars(Loop)
  /\ WF_vars(Respawn)
  /\ \A b \in Answering : WF_vars(Connected(b)) /\ WF_vars(PeerCloses(b))
-----------------------------------------------------------------------------
(* Properties.                                                             *)

\* The planned restart throws away every queue and connection of the process, and
\* tests the result of poll() to find a quiet moment.  All it may take with it is
\* what no longer counts: queued values that are too old to be sent, and a request
\* to a bridge that has been silent for the whole timeout.
RestartLosesOnlyOverdue ==
  [][ pc = "check" /\ pc' = "dead" =>
        \A b \in Bridges : fresh[b] = 0 /\ (state[b] = "idle" \/ b \in silent) ]_vars

\* Seen from outside, every handler in the loop lives the life of a handler,
\* however stale or foreign the revents are that made the loop call it.
Life(b) == INSTANCE HandlerLife
             WITH up <- pc # "dead", state <- state[b], backlog <- backlog[b],
                  sock <- sock[b]
EveryHandlerLives ==
  /\ \A b \in Bridges : Life(b)!Init
  /\ [][ \A b \in Bridges : [Life(b)!Next]_(Life(b)!vars) ]_vars

Served(b) == state[b] # "idle" ~> state[b] = "idle"

\* The first bridge on the command line, which answers, is always served, though
\* the others may hang for ever: its entry, when it has one, is in the slot it looks
\* at.  The end of the process, for an error of any bridge, ends its requests too.
FirstBridgeServed == Served(1)

\* README.md:9, "The program also supports multiple Hue bridges as destination
\* of commands": so each of them is served.
EveryBridgeServed == \A b \in Bridges : Served(b)
=============================================================================
