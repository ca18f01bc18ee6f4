------------------------- MODULE HueSensorEmbedded --------------------------
(***************************************************************************)
(* One hue_sensor_command_embedded: the queue and state machine of         *)
(* hue_sensor_command over the callbacks of lwIP.                          *)
(*                                                                         *)
(* poll() and the callbacks never interrupt each other, but tcp_abort()    *)
(* calls connection_error() from within the handler's own code, and that   *)
(* starts the next request inside the one being started.  calls is the     *)
(* stack of what is still to be done, the innermost call first.            *)
(***************************************************************************)
EXTENDS HueQueue

CONSTANTS
  RequestSize,   \* chunks in which lwIP may take one HTTP request
  Pcbs,          \* protocol control blocks of lwIP
  FirstReport,   \* 500 ms, in ticks of the clock
  MaxReport,     \* 8000 ms
  MaxPosts,      \* bound: values posted
  MaxClock       \* bound: values do not age beyond this tick

ASSUME EmbeddedAssumption ==
  /\ RequestSize \in Nat \ {0}
  /\ Pcbs \subseteq Nat
  /\ FirstReport \in Nat \ {0} /\ MaxReport \in Nat /\ FirstReport <= MaxReport
  /\ MaxPosts \in Nat
  /\ MaxClock \in Nat

VARIABLES
  queue,         \* queue_[0 .. queue_size_ - 1]
  state,         \* state_
  pcb,           \* pcb_
  buffer,        \* buffer_: the element whose request it holds
  outstanding,   \* send_outstanding_size_, in chunks
  reportTime,    \* report_time_
  waited,        \* millis() - connect_time_, up to MaxReport
  calls,         \* the stack of calls that have not returned
  conns,         \* lwIP: the connections that call back this handler
  lwipFailed,    \* history: lwIP has refused a call since the device started
  clock,         \* millis()
  posted,        \* history: number of posts, also the last value posted
  sent           \* history: values whose request was written completely

vars == <<queue, state, pcb, buffer, outstanding, reportTime, waited, calls,
          conns, lwipFailed, clock, posted, sent>>

States == {"idle", "connecting", "sending", "receiving"}
Frames == {"request_finished", "start_connect", "tcp_new", "connect_failed",
           "established_failed"}
NoPcb == -1
NoRequest == [value |-> 0, timestamp |-> 0]

TypeOK ==
  /\ queue \in Seq(Element) /\ Len(queue) <= MaxQueueSize
  /\ state \in States
  /\ pcb \in Pcbs \union {NoPcb}
  /\ buffer \in Element
  /\ outstanding \in 0 .. RequestSize
  /\ reportTime \in 0 .. MaxReport
  /\ waited \in 0 .. MaxReport
  /\ calls \in Seq(Frames)
  /\ conns \in [Pcbs -> {"free", "connecting", "established"}]
  /\ lwipFailed \in BOOLEAN
  /\ clock \in 0 .. MaxClock
  /\ posted \in 0 .. MaxPosts
  /\ sent \in Seq(1 .. MaxPosts)

Init ==
  /\ queue = <<>>
  /\ state = "idle"
  /\ pcb = NoPcb
  /\ buffer = NoRequest
  /\ outstanding = 0
  /\ reportTime = 0
  /\ waited = 0
  /\ calls = <<>>
  /\ conns = [p \in Pcbs |-> "free"]
  /\ lwipFailed = FALSE
  /\ clock = 0
  /\ posted = 0
  /\ sent = <<>>

\* ESP.restart(), or the exception after an access through a null pointer: the
\* device starts again.
Reboot ==
  /\ queue' = <<>>
  /\ state' = "idle"
  /\ pcb' = NoPcb
  /\ buffer' = NoRequest
  /\ outstanding' = 0
  /\ reportTime' = 0
  /\ waited' = 0
  /\ calls' = <<>>
  /\ conns' = [p \in Pcbs |-> "free"]
  /\ lwipFailed' = FALSE
  /\ clock' = 0
  /\ UNCHANGED <<posted, sent>>
-----------------------------------------------------------------------------
(* Calls of the handler's own operations.                                  *)

Calls(frame) == calls # <<>> /\ Head(calls) = frame

\* request_finished() up to its call of start_connect().
RequestFinished ==
  /\ Calls("request_finished")
  /\ state' = "idle"
  /\ \/ /\ UsableAt(queue, clock) = {}
        /\ queue' = <<>>
        /\ calls' = Tail(calls)
        /\ UNCHANGED <<buffer, outstanding>>
     \/ /\ \E i \in UsableAt(queue, clock) :
             /\ IsFirstUsable(queue, i, clock)
             /\ buffer' = queue[i]
             /\ queue' = Remainder(queue, i)
        /\ outstanding' = RequestSize
        /\ calls' = <<"start_connect">> \o Tail(calls)
  /\ UNCHANGED <<pcb, reportTime, waited, conns, lwipFailed, clock, posted, sent>>

\* Mutant: the end of a connection does not reset pcb_.
ConnectionEndsKeepsPcb(p, todo) ==
  /\ conns' = [conns EXCEPT ![p] = "free"]
  /\ reportTime' = 0
  /\ calls' = <<"request_finished">> \o todo
  /\ UNCHANGED pcb

\* Mutant: the connection stays open.
ConnectionEndsLeaks(p, todo) ==
  /\ pcb' = NoPcb
  /\ reportTime' = 0
  /\ calls' = <<"request_finished">> \o todo
  /\ UNCHANGED conns

\* lwIP gives up connection p: connection_error(), or the end of
\* data_received(), which forgets pcb_, whichever connection that is, and
\* calls request_finished().
ConnectionEnds(p, todo) ==
  /\ conns' = [conns EXCEPT ![p] = "free"]
  /\ pcb' = NoPcb
  /\ reportTime' = 0
  /\ calls' = <<"request_finished">> \o todo

\* start_connect() finds a connection left over and aborts it first.
StartConnectAborts ==
  /\ Calls("start_connect")
  /\ pcb # NoPcb
  /\ ConnectionEnds(pcb, <<"tcp_new">> \o Tail(calls))
  /\ UNCHANGED <<queue, state, buffer, outstanding, waited, lwipFailed, clock, posted, sent>>

\* start_connect() returns false, and the rest of request_finished().
StartConnectReturns ==
  /\ state' = IF state = "idle" THEN "connecting" ELSE state
  /\ calls' = Tail(calls)

AtTcpNew == Calls("tcp_new") \/ (Calls("start_connect") /\ pcb = NoPcb)

OutOfMemory ==
  /\ AtTcpNew
  /\ pcb' = NoPcb
  /\ reportTime' = 0
  /\ lwipFailed' = TRUE
  /\ StartConnectReturns
  /\ UNCHANGED <<queue, buffer, outstanding, waited, conns, clock, posted, sent>>

\* tcp_new() and tcp_connect().  When the latter fails, tcp_abort() calls
\* connection_error() before start_connect() goes on.
StartConnect ==
  /\ AtTcpNew
  /\ \E p \in Pcbs :
       /\ conns[p] = "free"
       /\ \A q \in Pcbs : conns[q] = "free" => p <= q
       /\ \/ /\ conns' = [conns EXCEPT ![p] = "connecting"]
             /\ pcb' = p
             /\ reportTime' = FirstReport
             /\ StartConnectReturns
             /\ UNCHANGED lwipFailed
          \/ /\ lwipFailed' = TRUE
             /\ ConnectionEnds(p, <<"connect_failed">> \o Tail(calls))
             /\ UNCHANGED state
  /\ waited' = 0
  /\ UNCHANGED <<queue, buffer, outstanding, clock, posted, sent>>

\* start_connect() after tcp_abort().
ConnectFailed ==
  /\ Calls("connect_failed")
  /\ pcb' = NoPcb
  /\ StartConnectReturns
  /\ UNCHANGED <<queue, buffer, outstanding, reportTime, waited, conns, lwipFailed,
                 clock, posted, sent>>

\* connection_established() after tcp_abort(): request_failed() once more.
EstablishedFailed ==
  /\ Calls("established_failed")
  /\ reportTime' = 0
  /\ calls' = <<"request_finished">> \o Tail(calls)
  /\ UNCHANGED <<queue, state, pcb, buffer, outstanding, waited, conns, lwipFailed,
                 clock, posted, sent>>

CallsGoOn ==
  \/ RequestFinished
  \/ StartConnectAborts
  \/ OutOfMemory
  \/ StartConnect
  \/ ConnectFailed
  \/ EstablishedFailed
-----------------------------------------------------------------------------
(* Operations, called when no other is under way.                          *)

\* post()
Post ==
  /\ calls = <<>>
  /\ posted < MaxPosts
  /\ posted' = posted + 1
  /\ queue' = Enqueue(queue, posted + 1, clock)
  /\ calls' = IF state = "idle" THEN <<"request_finished">> ELSE <<>>
  /\ UNCHANGED <<state, pcb, buffer, outstanding, reportTime, waited, conns,
                 lwipFailed, clock, sent>>

\* Mutant: a request of which nothing was written is not looked at.
IsSlowOnceWritten ==
  /\ state # "idle" /\ pcb # NoPcb /\ reportTime # 0
  /\ outstanding < RequestSize
  /\ waited >= reportTime

\* poll()'s test for requests that take long.
IsSlow ==
  /\ state # "idle" /\ pcb # NoPcb /\ reportTime # 0
  /\ waited >= reportTime

\* Such a request is reported after 500 ms, twice that and so on ...
Reports ==
  /\ IsSlow => 2 * reportTime <= MaxReport
  /\ reportTime' = IF IsSlow THEN 2 * reportTime ELSE reportTime

\* ... and in the end poll() aborts it and restarts the device.
PollAborts ==
  /\ calls = <<>>
  /\ IsSlow /\ 2 * reportTime > MaxReport
  /\ Reboot

\* poll() has nothing to do, no send space or no memory.
PollWaits ==
  /\ calls = <<>>
  /\ state = "sending" => pcb # NoPcb
  /\ Reports
  /\ UNCHANGED <<queue, state, pcb, buffer, outstanding, waited, calls, conns,
                 lwipFailed, clock, posted, sent>>

\* poll() writes n chunks.
PollWrites(n) ==
  /\ calls = <<>>
  /\ state = "sending" /\ pcb # NoPcb
  /\ 0 < n /\ n <= outstanding
  /\ Reports
  /\ outstanding' = outstanding - n
  /\ IF n = outstanding
     THEN state' = "receiving" /\ sent' = Append(sent, buffer.value)
     ELSE UNCHANGED <<state, sent>>
  /\ UNCHANGED <<queue, pcb, buffer, waited, calls, conns, lwipFailed, clock, posted>>

\* tcp_write() fails: poll() calls connection_error(), which forgets the
\* connection, but lwIP does not.
PollWriteFails ==
  /\ calls = <<>>
  /\ state = "sending" /\ pcb # NoPcb /\ outstanding > 0
  /\ IsSlow => 2 * reportTime <= MaxReport
  /\ pcb' = NoPcb
  /\ reportTime' = 0
  /\ calls' = <<"request_finished">>
  /\ lwipFailed' = TRUE
  /\ UNCHANGED <<queue, state, buffer, outstanding, waited, conns, clock, posted, sent>>

\* poll() asks for the send space of no connection.
PollCrashes ==
  /\ calls = <<>>
  /\ state = "sending" /\ pcb = NoPcb
  /\ Reboot

Poll ==
  \/ PollAborts
  \/ PollWaits
  \/ \E n \in 1 .. RequestSize : PollWrites(n)
  \/ PollWriteFails
  \/ PollCrashes
-----------------------------------------------------------------------------
(* Callbacks, of any connection that lwIP knows to be the handler's.       *)

\* Mutant: the request starts from its beginning with every connection.
ConnectionEstablishedResends(p) ==
  /\ calls = <<>>
  /\ conns[p] = "connecting"
  /\ conns' = [conns EXCEPT ![p] = "established"]
  /\ state' = "sending"
  /\ outstanding' = RequestSize
  /\ UNCHANGED <<queue, pcb, buffer, reportTime, waited, calls,
                 lwipFailed, clock, posted, sent>>

ConnectionEstablished(p) ==
  /\ calls = <<>>
  /\ conns[p] = "connecting"
  /\ conns' = [conns EXCEPT ![p] = "established"]
  /\ state' = "sending"
  /\ UNCHANGED <<queue, pcb, buffer, outstanding, reportTime, waited, calls,
                 lwipFailed, clock, posted, sent>>

\* connection_established() with an error: tcp_abort() calls connection_error().
EstablishedWithError(p) ==
  /\ calls = <<>>
  /\ conns[p] = "connecting"
  /\ ConnectionEnds(p, <<"established_failed">>)
  /\ lwipFailed' = TRUE
  /\ UNCHANGED <<queue, state, buffer, outstanding, waited, clock, posted, sent>>

ConnectionError(p) ==
  /\ calls = <<>>
  /\ conns[p] # "free"
  /\ ConnectionEnds(p, <<>>)
  /\ UNCHANGED <<queue, state, buffer, outstanding, waited, lwipFailed, clock, posted, sent>>

\* data_received() of the last segment.  Data before it change nothing.  There
\* is no return statement: what lwIP makes of the undefined result is when or
\* whether it calls again, of which the model assumes nothing.
EndReceived(p) ==
  /\ calls = <<>>
  /\ conns[p] = "established"
  /\ ConnectionEnds(p, <<>>)
  /\ UNCHANGED <<queue, state, buffer, outstanding, waited, lwipFailed, clock, posted, sent>>

Tick ==
  /\ clock' = IF clock < MaxClock THEN clock + 1 ELSE clock
  /\ waited' = IF waited < MaxReport THEN waited + 1 ELSE waited
  /\ UNCHANGED <<queue, state, pcb, buffer, outstanding, reportTime, calls, conns,
                 lwipFailed, posted, sent>>

Next ==
  \/ CallsGoOn
  \/ Post
  \/ Poll
  \/ \E p \in Pcbs : ConnectionEstablished(p) \/ EstablishedWithError(p)
                     \/ ConnectionError(p) \/ EndReceived(p)
  \/ Tick

Spec == Init /\ [][Next]_vars

(* Time passes, calls return, and poll() is called again and again; that    *)
(* lwIP ever takes or answers anything is not assumed.                      *)
FairSpec == Spec /\ WF_vars(CallsGoOn) /\ WF_vars(Tick) /\ WF_vars(IsSlow /\ Poll)
-----------------------------------------------------------------------------
(* Properties.                                                             *)

Queued == {queue[i].value : i \in 1 .. Len(queue)}

\* As long as lwIP takes every call, there is one connection, the one of the
\* request under way, and a handler that is idle has no value left.
OneConnection ==
  ~lwipFailed =>
    /\ {p \in Pcbs : conns[p] # "free"} = {pcb} \ {NoPcb}
    /\ calls = <<>> => (state = "idle" <=> pcb = NoPcb)
    /\ calls = <<>> /\ state = "idle" => queue = <<>>

\* Whatever fails, and however the callbacks of several connections get mixed
\* up: pcb_ never is a connection that lwIP has already freed.
PcbIsLive == pcb # NoPcb => conns[pcb] # "free"

\* Requests started inside one another take a value each, so the stack of an
\* embedded device is safe: the recursion ends with the queue.
RecursionBounded == Len(calls) <= MaxQueueSize + 2

\* What is sent is sent once and in the order of post(), even when requests
\* nest and connections are forgotten.
MaySend == Queued \union (IF outstanding > 0 THEN {buffer.value} ELSE {})
Fifo == INSTANCE LossyFifo WITH pending <- MaySend
FifoSpec == Fifo!Spec

\* hue_sensor_command.hpp:104, "too old values will be lost": what else goes is
\* the oldest value of a full queue when another is posted, the value whose
\* connection ended before its request was written, and all of them when the
\* device restarts, for a request that takes too long or for a connection that
\* was forgotten after lwIP refused a call.  The value just posted is kept.
LossJustified ==
  /\ \A v \in MaySend \ MaySend' :
       \/ sent' = Append(sent, v)
       \/ \E i \in 1 .. Len(queue) :
            /\ queue[i].value = v
            /\ \/ ~Usable(queue[i], clock)
               \/ i = 1 /\ Len(queue) = MaxQueueSize /\ posted' # posted
       \/ v = buffer.value /\ Calls("request_finished") /\ (pcb = NoPcb \/ lwipFailed)
       \/ IsSlow /\ 2 * reportTime > MaxReport
       \/ lwipFailed /\ state = "sending" /\ pcb = NoPcb
  /\ posted' # posted => posted' \in MaySend'
LossIsJustified == [][LossJustified]_vars

\* Unless lwIP refuses a call, no value stays in the handler, not even when
\* the bridge never answers: in the end the device restarts.
Held == Queued \union (IF state = "idle" THEN {} ELSE {buffer.value})
EventuallyHandled ==
  \A v \in 1 .. MaxPosts : v \in Held ~> v \notin Held \/ lwipFailed

\* hue_sensor_command_embedded.hpp:75, "Force restarting connect in poll(), if
\* it failed due to OOM": a handler without connection does not stay connecting.
IsStuck == state = "connecting" /\ pcb = NoPcb
ConnectRestarted == IsStuck ~> ~IsStuck
=============================================================================
