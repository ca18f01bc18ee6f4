---------------------------- MODULE HandlerLife -----------------------------
(***************************************************************************)
(* The life of one handler as the rest of its process sees it: the state   *)
(* machine of hue_sensor_command without values, ages and bytes.  Both     *)
(* HueSensorPosix and every bridge of PollLoop implement it, so that what  *)
(* PollLoop says of its handlers is said of the real one.                  *)
(***************************************************************************)
EXTENDS Naturals

CONSTANT MaxQueueSize

VARIABLES
  up,        \* the process runs
  state,     \* state_
  backlog,   \* queue_size_
  sock       \* the connection behind fd_, "none" for -1

vars == <<up, state, backlog, sock>>

Init == up = TRUE /\ state = "idle" /\ backlog = 0 /\ sock = "none"

Starts(rest) ==
  /\ backlog' = rest
  /\ \/ state' = "connecting" /\ sock' = "connecting"
     \/ state' = "sending" /\ sock' = "established"

BecomesIdle == backlog' = 0 /\ state' = "idle" /\ sock' = "none"

\* An idle handler connects at once, a busy one queues.
Post ==
  /\ up /\ up'
  /\ \/ state = "idle" /\ Starts(0)
     \/ /\ state # "idle"
        /\ backlog' = IF backlog < MaxQueueSize THEN backlog + 1 ELSE backlog
        /\ UNCHANGED <<state, sock>>

\* The peer has closed: the next request that is not too old, or idle.
Finish ==
  /\ up /\ up'
  /\ sock = "closed"
  /\ BecomesIdle \/ \E rest \in 0 .. backlog - 1 : Starts(rest)

Write ==
  /\ up
  /\ state \in {"connecting", "sending"}
  /\ \/ state' = "sending"
     \/ state' = "receiving" /\ sock = "established"
  /\ UNCHANGED <<up, backlog, sock>>

Dies == up /\ ~up' /\ BecomesIdle

Respawn == ~up /\ up' /\ UNCHANGED <<state, backlog, sock>>

Network ==
  /\ \/ sock = "connecting" /\ sock' = "established"
     \/ sock = "established" /\ sock' = "closed"
     \/ sock \notin {"none", "failed"} /\ sock' = "failed"
  /\ UNCHANGED <<up, state, backlog>>

Next == Post \/ Finish \/ Write \/ Dies \/ Respawn \/ Network

Spec == Init /\ [][Next]_vars
=============================================================================
