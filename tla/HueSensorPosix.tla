--------------------------- MODULE HueSensorPosix ---------------------------
(***************************************************************************)
(* One hue_sensor_command_posix: the queue and state machine of            *)
(* hue_sensor_command over a non-blocking POSIX socket, as the process     *)
(* that owns it runs, dies and is forked again by main().                  *)
(*                                                                         *)
(* poll() is one action per way its loop of write() and read() calls can   *)
(* end.  A call that ends because the kernel has no more to offer leaves   *)
(* the state it was in when the kernel said so; what the peer does during  *)
(* the call is a step before or after it, which is the same thing, since   *)
(* poll() looks at nothing but the answers of its system calls.            *)
(***************************************************************************)
EXTENDS HueQueue

CONSTANTS
  RequestSize,   \* chunks in which the kernel may take one HTTP request
  Fds,           \* file descriptors the process may get
  MaxPosts,      \* bound: values posted
  MaxClock       \* bound: ticks of the clock

ASSUME HandlerAssumption ==
  /\ RequestSize \in Nat \ {0}
  /\ Fds \subseteq Nat
  /\ Fds # {}
  /\ MaxPosts \in Nat
  /\ MaxClock \in Nat

VARIABLES
  up,            \* the child process runs
  queue,         \* queue_[0 .. queue_size_ - 1]
  state,         \* state_
  fd,            \* fd_
  buffer,        \* buffer_: the element whose request it holds
  outstanding,   \* send_outstanding_size_, in chunks
  sockets,       \* kernel: what each descriptor of the process is
  clock,         \* CLOCK_MONOTONIC
  posted,        \* history: number of posts, also the last value posted
  sent           \* history: values whose request was written completely

handler == <<up, queue, state, fd, buffer, outstanding>>
vars == <<up, queue, state, fd, buffer, outstanding, sockets, clock, posted, sent>>

States == {"idle", "connecting", "sending", "receiving"}
Writing == {"connecting", "sending"}
SocketStates == {"free", "connecting", "established", "closed", "failed"}

NoFd == -1
\* buffer_ holds nothing to be sent: fresh, or used to receive the response.
NoRequest == [value |-> 0, timestamp |-> 0]

TypeOK ==
  /\ up \in BOOLEAN
  /\ queue \in Seq(Element) /\ Len(queue) <= MaxQueueSize
  /\ state \in States
  /\ fd \in Fds \union {NoFd}
  /\ buffer \in Element
  /\ outstanding \in 0 .. RequestSize
  /\ sockets \in [Fds -> SocketStates]
  /\ clock \in 0 .. MaxClock
  /\ posted \in 0 .. MaxPosts
  /\ sent \in Seq(1 .. MaxPosts)

Init ==
  /\ up = TRUE
  /\ queue = <<>>
  /\ state = "idle"
  /\ fd = NoFd
  /\ buffer = NoRequest
  /\ outstanding = 0
  /\ sockets = [f \in Fds |-> "free"]
  /\ clock = 0
  /\ posted = 0
  /\ sent = <<>>
-----------------------------------------------------------------------------
(* The process.                                                            *)

\* An exception that reaches main()'s catch, one that meets a noexcept (then
\* std::terminate), or _exit(): the process and its sockets are gone.  main()
\* never touches its own copy of the handler after fork(), so every child
\* starts from the constructed state.
ProcessDies ==
  /\ up' = FALSE
  /\ queue' = <<>>
  /\ state' = "idle"
  /\ fd' = NoFd
  /\ buffer' = NoRequest
  /\ outstanding' = 0
  /\ sockets' = [f \in Fds |-> "free"]

\* start_connect() on the sockets left: the lowest free descriptor, connected
\* at once or under way.  It throws when there is none.
StartConnect(socks) ==
  LET free == {f \in Fds : socks[f] = "free"}
  IN  \E f \in free :
        /\ \A g \in free : f <= g
        /\ fd' = f
        /\ \/ /\ sockets' = [socks EXCEPT ![f] = "connecting"]
              /\ state' = "connecting"
           \/ /\ sockets' = [socks EXCEPT ![f] = "established"]
              /\ state' = "sending"

\* Mutant: the next request is not started, the handler just becomes idle.
RequestFinishedStops(q, socks) ==
  /\ queue' = q
  /\ state' = "idle"
  /\ fd' = NoFd
  /\ sockets' = socks
  /\ UNCHANGED <<up, buffer, outstanding>>

\* request_finished() with queue q and no socket: the first usable element
\* is put into buffer_ and a connection started, or the handler is idle.
\* start_connect() may throw, and request_finished() is noexcept.
RequestFinished(q, socks) ==
  \/ /\ UsableAt(q, clock) = {}
     /\ queue' = <<>>
     /\ state' = "idle"
     /\ fd' = NoFd
     /\ sockets' = socks
     /\ buffer' = NoRequest
     /\ UNCHANGED <<up, outstanding>>
  \/ /\ \E i \in UsableAt(q, clock) :
          /\ IsFirstUsable(q, i, clock)
          /\ buffer' = q[i]
          /\ queue' = Remainder(q, i)
     /\ outstanding' = RequestSize
     /\ StartConnect(socks)
     /\ UNCHANGED up
  \/ /\ UsableAt(q, clock) # {}
     /\ ProcessDies
-----------------------------------------------------------------------------
(* Operations of the handler.                                              *)

\* Mutant: post() never starts a connection.
PostNeverStarts ==
  /\ up
  /\ posted < MaxPosts
  /\ posted' = posted + 1
  /\ queue' = Enqueue(queue, posted + 1, clock)
  /\ UNCHANGED <<up, state, fd, buffer, outstanding, sockets, clock, sent>>

\* post()
Post ==
  /\ up
  /\ posted < MaxPosts
  /\ posted' = posted + 1
  /\ LET q == Enqueue(queue, posted + 1, clock)
     IN  \/ /\ state = "idle"
            /\ RequestFinished(q, sockets)
         \/ /\ state # "idle"
            /\ queue' = q
            /\ UNCHANGED <<up, state, fd, buffer, outstanding, sockets>>
  /\ UNCHANGED <<clock, sent>>

\* Mutant: a complete write is taken for a partial one.
PollBlocksAll(n) ==
  /\ up
  /\ state \in Writing
  /\ n <= outstanding
  /\ \/ n = 0 /\ sockets[fd] = "connecting"
     \/ sockets[fd] \in {"established", "closed"}
  /\ state' = "sending"
  /\ outstanding' = outstanding - n
  /\ UNCHANGED <<up, queue, fd, buffer, sockets, clock, posted, sent>>

\* poll() writes n chunks, then the socket would block.
PollBlocks(n) ==
  /\ up
  /\ state \in Writing
  /\ n < outstanding
  /\ \/ n = 0 /\ sockets[fd] = "connecting"
     \/ sockets[fd] \in {"established", "closed"}
  /\ state' = "sending"
  /\ outstanding' = outstanding - n
  /\ UNCHANGED <<up, queue, fd, buffer, sockets, clock, posted, sent>>

\* poll() writes the rest of the request and goes on reading: nothing there
\* yet, or the end of file, on which the socket is closed.
PollSends ==
  /\ up
  /\ state \in Writing
  /\ sent' = Append(sent, buffer.value)
  /\ \/ /\ sockets[fd] = "established"
        /\ state' = "receiving"
        /\ buffer' = NoRequest
        /\ UNCHANGED <<up, queue, fd, outstanding, sockets>>
     \/ /\ sockets[fd] = "closed"
        /\ RequestFinished(queue, [sockets EXCEPT ![fd] = "free"])
  /\ UNCHANGED <<clock, posted>>

\* Mutant: the socket is not closed at the end of file.
PollEofLeaks ==
  /\ up
  /\ state = "receiving"
  /\ sockets[fd] = "closed"
  /\ RequestFinished(queue, sockets)
  /\ UNCHANGED <<clock, posted, sent>>

\* poll() reads the end of file of the response.
PollEof ==
  /\ up
  /\ state = "receiving"
  /\ sockets[fd] = "closed"
  /\ RequestFinished(queue, [sockets EXCEPT ![fd] = "free"])
  /\ UNCHANGED <<clock, posted, sent>>

\* write() or read() fails: poll() throws and the child process ends.
PollThrows ==
  /\ up
  /\ state # "idle"
  /\ sockets[fd] = "failed"
  /\ ProcessDies
  /\ UNCHANGED <<clock, posted, sent>>

Poll == PollSends \/ PollEof \/ PollThrows \/ \E n \in 0 .. RequestSize : PollBlocks(n)
-----------------------------------------------------------------------------
(* The rest of the process, the kernel, the peer and time.                 *)

\* Something else in the process ends it: the serial line, the proxy socket,
\* another bridge's handler, or the planned restart of run_poll_loop().
OtherFailure ==
  /\ up
  /\ ProcessDies
  /\ UNCHANGED <<clock, posted, sent>>

\* main() forks the next child.
Respawn ==
  /\ ~up
  /\ up' = TRUE
  /\ UNCHANGED <<queue, state, fd, buffer, outstanding, sockets, clock, posted, sent>>

SocketBecomes(f, from, to) ==
  /\ sockets[f] \in from
  /\ sockets' = [sockets EXCEPT ![f] = to]
  /\ UNCHANGED <<handler, clock, posted, sent>>

Connected(f) == SocketBecomes(f, {"connecting"}, "established")

\* The bridge closes the connection, as the request's "Connection: close"
\* asks it to after its response, or earlier.
PeerCloses(f) == SocketBecomes(f, {"established"}, "closed")

ConnectionFails(f) == SocketBecomes(f, {"connecting", "established", "closed"}, "failed")

Tick ==
  /\ clock < MaxClock
  /\ clock' = clock + 1
  /\ UNCHANGED <<handler, sockets, posted, sent>>

Next ==
  \/ Post
  \/ PollSends
  \/ PollEof
  \/ PollThrows
  \/ \E n \in 0 .. RequestSize : PollBlocks(n)
  \/ OtherFailure
  \/ Respawn
  \/ \E f \in Fds : Connected(f) \/ PeerCloses(f) \/ ConnectionFails(f)
  \/ Tick

Spec == Init /\ [][Next]_vars

(* Fairness.  run_poll_loop() calls poll() as long as there is something to *)
(* do for it and main() forks again, so these steps are taken.  TCP decides *)
(* every connection attempt.  That the bridge closes the connection is an   *)
(* assumption on the bridge, stated separately.                             *)
ProcessFairness == WF_vars(Poll) /\ WF_vars(Respawn)
ConnectFairness == \A f \in Fds : WF_vars(Connected(f))
PeerFairness == \A f \in Fds : WF_vars(PeerCloses(f))

HungPeerSpec == Spec /\ ProcessFairness /\ ConnectFairness
FairSpec == HungPeerSpec /\ PeerFairness
-----------------------------------------------------------------------------
(* Properties.                                                             *)

\* The values the handler still has to send.
Queued == {queue[i].value : i \in 1 .. Len(queue)}
InFlight == {buffer.value} \ {0}
Held == Queued \union InFlight

\* post() starts a connection only in state idle, and nothing else ever looks
\* at the queue again in that state: so an idle handler has no connection and
\* an empty queue, or a command would wait for the next press of a switch.
IdleIsDrained ==
  /\ state = "idle" <=> fd = NoFd
  /\ state = "idle" => queue = <<>>

\* buffer_ serves both directions: while the handler is writing it holds a
\* request, with something left to write, and in the other states none.
BufferIsRequest ==
  /\ state \in Writing => buffer.value # 0 /\ outstanding > 0
  /\ state \notin Writing => buffer = NoRequest

\* fd_ is the only descriptor the handler owns: whatever way a connection
\* ends (close() in poll(), or the end of the process), none is left open.
NoSocketLeak == {f \in Fds : sockets[f] # "free"} = {fd} \ {NoFd}

\* Commands reach the bridge in the order of post() and none twice, however
\* overflow, age and restarts thin them out.
InOrder == \A i, j \in 1 .. Len(sent) : i < j => sent[i] < sent[j]

\* A value disappears from the handler only by being sent, by the death of
\* the process, as too old, or as the oldest of a full queue when another is
\* posted; and the value just posted is always kept.
LossJustified ==
  /\ \A v \in Held \ Held' :
       \/ sent' = Append(sent, v)
       \/ ~up'
       \/ \E i \in 1 .. Len(queue) :
            /\ queue[i].value = v
            /\ \/ ~Usable(queue[i], clock)
               \/ i = 1 /\ Len(queue) = MaxQueueSize /\ posted' # posted
  /\ posted' # posted /\ up' => posted' \in Held'

LossIsJustified == [][LossJustified]_vars

\* The handler implements the lossy queue of LossyFifo: what is posted and
\* not yet written completely is pending.
Fifo == INSTANCE LossyFifo WITH pending <- Held
FifoSpec == Fifo!Spec

\* The handler implements the life of a handler that PollLoop is built on.
Life == INSTANCE HandlerLife
          WITH backlog <- Len(queue),
               sock <- IF fd = NoFd THEN "none" ELSE sockets[fd]
LifeSpec == Life!Spec

\* With a bridge that answers, no value stays in the handler for ever.
EventuallyHandled == \A v \in 1 .. MaxPosts : v \in Held ~> v \notin Held
=============================================================================
