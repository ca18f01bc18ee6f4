------------------------------ MODULE HueQueue ------------------------------
(***************************************************************************)
(* The command queue of hue_sensor_command: post() appends a value with    *)
(* its time stamp and drops the oldest when the queue is full;             *)
(* prepare_buffer() takes the first element that is not too old and        *)
(* forgets everything in front of it.  Pure operators, shared by the       *)
(* transports that drive the queue.                                        *)
(***************************************************************************)
EXTENDS Integers, Sequences

CONSTANTS
  MaxQueueSize,   \* MAX_QUEUE_SIZE, 4 in the code
  MaxEventAge     \* MAX_EVENT_AGE, 500000 in the code, in ticks of the clock

ASSUME QueueAssumption ==
  /\ MaxQueueSize \in Nat \ {0}
  /\ MaxEventAge \in Nat

\* queue_element; a value stands for the command posted as the value-th one.
Element == [value : Nat, timestamp : Nat]

\* Mutant: a full queue refuses the newest value, the oldest stay.
EnqueueDropNewest(q, v, now) ==
  IF Len(q) = MaxQueueSize THEN q
  ELSE Append(q, [value |-> v, timestamp |-> now])

\* Mutant: the bound is tested after the append, one element too late.
EnqueueOffByOne(q, v, now) ==
  Append(IF Len(q) > MaxQueueSize THEN Tail(q) ELSE q,
         [value |-> v, timestamp |-> now])

\* post(), first part: make room by dropping the oldest, append.
Enqueue(q, v, now) ==
  Append(IF Len(q) = MaxQueueSize THEN Tail(q) ELSE q,
         [value |-> v, timestamp |-> now])

\* prepare_buffer()'s test of one element.
Usable(e, now) ==
  LET delta == now - e.timestamp
  IN  delta >= 0 /\ delta <= MaxEventAge

UsableAt(q, now) == {i \in 1 .. Len(q) : Usable(q[i], now)}

\* Mutant: prepare_buffer()'s loop runs from the back.
IsFirstUsableBackwards(q, i, now) == \A j \in UsableAt(q, now) : j <= i

\* i, the index of a usable element, is where prepare_buffer()'s loop stops.
IsFirstUsable(q, i, now) == \A j \in UsableAt(q, now) : i <= j

\* Mutant: the memmove starts at the picked element, which stays queued.
RemainderKeepsPicked(q, i) == SubSeq(q, i, Len(q))

\* What the memmove leaves in the queue when element i is picked.
Remainder(q, i) == SubSeq(q, i + 1, Len(q))
=============================================================================
