----------------------------- MODULE LossyFifo ------------------------------
(***************************************************************************)
(* What a hue_sensor_command promises to the code that posts to it: the    *)
(* values are numbered in the order of post(); any of them may be lost     *)
(* (queue overflow, age, crash of the process), but what is sent is sent   *)
(* once and in the order of post().                                        *)
(***************************************************************************)
EXTENDS Naturals, Sequences

VARIABLES
  posted,    \* number of values posted so far
  pending,   \* values that may still be sent
  sent       \* values sent, in order

vars == <<posted, pending, sent>>

Init ==
  /\ posted = 0
  /\ pending = {}
  /\ sent = <<>>

\* A new value enters; it or any pending one may be lost by that.
Post ==
  /\ posted' = posted + 1
  /\ pending' \in SUBSET (pending \union {posted + 1})
  /\ sent' = sent

Lose ==
  /\ pending' \in SUBSET pending
  /\ UNCHANGED <<posted, sent>>

\* Sending a value gives up every pending one that was posted before it.
Send(v) ==
  /\ sent' = Append(sent, v)
  /\ pending' \in SUBSET {w \in pending : v < w}
  /\ posted' = posted

Next == Post \/ Lose \/ \E v \in pending : Send(v)

Spec == Init /\ [][Next]_vars
-----------------------------------------------------------------------------
\* Nothing is sent twice or out of order.
InOrder == \A i, j \in 1 .. Len(sent) : i < j => sent[i] < sent[j]
=============================================================================
