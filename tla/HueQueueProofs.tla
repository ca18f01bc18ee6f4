--------------------------- MODULE HueQueueProofs ---------------------------
(***************************************************************************)
(* What post() and prepare_buffer() keep of the queue: lemmas about the    *)
(* operators of HueQueue, for the theorems about both transports.          *)
(***************************************************************************)
EXTENDS HueQueue, TLAPS

\* The values of q ascend, above lo and up to hi.
Ascends(q, lo, hi) ==
  /\ \A i \in 1 .. Len(q) : lo < q[i].value /\ q[i].value <= hi
  /\ \A i, j \in 1 .. Len(q) : i < j => q[i].value < q[j].value

Values(q) == {q[i].value : i \in 1 .. Len(q)}
-----------------------------------------------------------------------------
LEMMA ElementsOfSeq ==
  ASSUME NEW S, NEW s \in Seq(S)
  PROVE  \A n \in 1 .. Len(s) : s[n] \in S
OBVIOUS

LEMMA ValuesAreNumbers ==
  ASSUME NEW q \in Seq(Element)
  PROVE  \A i \in 1 .. Len(q) : q[i] \in Element /\ q[i].value \in Nat
<1>1. \A i \in 1 .. Len(q) : q[i] \in Element
  OBVIOUS
<1> QED BY <1>1 DEF Element

\* post() keeps the queue within its bound: it drops the first d elements, at
\* most one, moves the others up and puts the new one behind them.
LEMMA EnqueueFacts ==
  ASSUME NEW q \in Seq(Element), Len(q) <= MaxQueueSize,
         NEW v \in Nat, NEW now \in Nat
  PROVE  /\ Enqueue(q, v, now) \in Seq(Element)
         /\ Len(Enqueue(q, v, now)) <= MaxQueueSize
         /\ \E d \in {0, 1} :
              /\ d = 1 <=> Len(q) = MaxQueueSize
              /\ Len(Enqueue(q, v, now)) = Len(q) + 1 - d
              /\ \A i \in 1 .. Len(q) - d : Enqueue(q, v, now)[i] = q[i + d]
              /\ Enqueue(q, v, now)[Len(q) + 1 - d] = [value |-> v, timestamp |-> now]
<1> DEFINE e == [value |-> v, timestamp |-> now]
<1>e. e \in Element
  BY DEF Element
<1>1. CASE Len(q) = MaxQueueSize
  <2>1. q # <<>> /\ Tail(q) \in Seq(Element) /\ Len(Tail(q)) = Len(q) - 1
        /\ \A i \in 1 .. Len(q) - 1 : Tail(q)[i] = q[i + 1]
    BY <1>1, QueueAssumption
  <2>2. Enqueue(q, v, now) = Append(Tail(q), e)
    BY <1>1 DEF Enqueue
  <2> QED BY <1>e, <1>1, <2>1, <2>2
<1>2. CASE Len(q) # MaxQueueSize
  <2>1. Enqueue(q, v, now) = Append(q, e)
    BY <1>2 DEF Enqueue
  <2> QED BY <1>e, <1>2, <2>1, QueueAssumption
<1> QED BY <1>1, <1>2

\* prepare_buffer() leaves the elements behind the one it picked.
LEMMA RemainderFacts ==
  ASSUME NEW q \in Seq(Element), NEW i \in 1 .. Len(q)
  PROVE  /\ Remainder(q, i) \in Seq(Element)
         /\ Len(Remainder(q, i)) = Len(q) - i
         /\ \A j \in 1 .. Len(q) - i : Remainder(q, i)[j] = q[i + j]
BY DEF Remainder

\* Ascending values stay so in what post() makes of the queue ...
LEMMA EnqueueAscends ==
  ASSUME NEW q \in Seq(Element), Len(q) <= MaxQueueSize,
         NEW p \in Nat, NEW lo \in Nat, NEW now \in Nat,
         lo <= p, Ascends(q, lo, p)
  PROVE  Ascends(Enqueue(q, p + 1, now), lo, p + 1)
<1> DEFINE r == Enqueue(q, p + 1, now)
<1>0. p + 1 \in Nat
  OBVIOUS
<1>1. PICK d \in {0, 1} :
        /\ Len(r) = Len(q) + 1 - d
        /\ \A i \in 1 .. Len(q) - d : r[i] = q[i + d]
        /\ r[Len(q) + 1 - d] = [value |-> p + 1, timestamp |-> now]
  BY <1>0, EnqueueFacts, ZenonT(40)
<1>2. Len(r) \in Nat
  BY <1>0, EnqueueFacts
<1>3. \A i \in 1 .. Len(q) : q[i].value \in Nat
  BY ValuesAreNumbers
<1> HIDE DEF r
<1>4. \A i \in 1 .. Len(r) : lo < r[i].value /\ r[i].value <= p + 1
  <2> TAKE i \in 1 .. Len(r)
  <2>1. CASE i \in 1 .. Len(q) - d
    BY <1>1, <1>3, <2>1 DEF Ascends
  <2>2. CASE i = Len(q) + 1 - d
    BY <1>1, <2>2
  <2> QED BY <1>1, <2>1, <2>2
<1>5. \A i, j \in 1 .. Len(r) : i < j => r[i].value < r[j].value
  <2> SUFFICES ASSUME NEW i \in 1 .. Len(r), NEW j \in 1 .. Len(r), i < j
               PROVE  r[i].value < r[j].value
    OBVIOUS
  <2>1. i \in 1 .. Len(q) - d /\ i + d \in 1 .. Len(q) /\ r[i] = q[i + d]
    BY <1>1
  <2>2. CASE j \in 1 .. Len(q) - d
    <3>1. j + d \in 1 .. Len(q) /\ i + d < j + d /\ r[j] = q[j + d]
      BY <1>1, <2>1, <2>2
    <3> QED BY <2>1, <3>1 DEF Ascends
  <2>3. CASE j = Len(q) + 1 - d
    <3>1. q[i + d].value < p + 1
      BY <1>3, <2>1 DEF Ascends
    <3>2. r[j].value = p + 1
      BY <1>1, <2>3
    <3> QED BY <2>1, <3>1, <3>2
  <2>4. j \in 1 .. Len(q) - d \/ j = Len(q) + 1 - d
    <3>1. Len(q) \in Nat /\ j \in 1 .. Len(q) + 1 - d
      BY <1>1
    <3> QED BY <3>1
  <2> QED BY <2>2, <2>3, <2>4
<1> QED BY <1>4, <1>5 DEF Ascends, r

\* ... and in what prepare_buffer() leaves, above the picked one.
LEMMA RemainderAscends ==
  ASSUME NEW q \in Seq(Element), NEW i \in 1 .. Len(q),
         NEW lo \in Nat, NEW hi \in Nat, Ascends(q, lo, hi)
  PROVE  /\ Ascends(Remainder(q, i), q[i].value, hi)
         /\ \A j \in 1 .. Len(Remainder(q, i)) :
              \E k \in 1 .. Len(q) : Remainder(q, i)[j] = q[k]
<1> DEFINE r == Remainder(q, i)
<1>1. /\ Len(r) = Len(q) - i
      /\ \A j \in 1 .. Len(q) - i : r[j] = q[i + j]
  BY RemainderFacts
<1> HIDE DEF r
<1>2. \A j \in 1 .. Len(r) : i + j \in 1 .. Len(q) /\ i < i + j /\ r[j] = q[i + j]
  BY <1>1
<1>3. \A k \in 1 .. Len(q) : q[k].value \in Nat /\ q[k].value <= hi
  BY ValuesAreNumbers DEF Ascends
<1>4. \A k, l \in 1 .. Len(q) : k < l => q[k].value < q[l].value
  BY DEF Ascends
<1>5. \A j \in 1 .. Len(r) : q[i].value < r[j].value /\ r[j].value <= hi
  BY <1>2, <1>3, <1>4
<1>6. \A j, k \in 1 .. Len(r) : j < k => r[j].value < r[k].value
  <2> SUFFICES ASSUME NEW j \in 1 .. Len(r), NEW k \in 1 .. Len(r), j < k
               PROVE  r[j].value < r[k].value
    OBVIOUS
  <2>1. i + j < i + k
    BY <1>1
  <2> QED BY <1>2, <1>4, <2>1
<1> QED BY <1>2, <1>5, <1>6 DEF Ascends, r

\* The queue holds nothing but what was posted.
LEMMA EnqueueHolds ==
  ASSUME NEW q \in Seq(Element), Len(q) <= MaxQueueSize,
         NEW v \in Nat, NEW now \in Nat
  PROVE  Values(Enqueue(q, v, now)) \subseteq Values(q) \union {v}
<1> DEFINE r == Enqueue(q, v, now)
<1>1. PICK d \in {0, 1} :
        /\ Len(r) = Len(q) + 1 - d
        /\ \A i \in 1 .. Len(q) - d : r[i] = q[i + d]
        /\ r[Len(q) + 1 - d] = [value |-> v, timestamp |-> now]
  BY EnqueueFacts
<1> HIDE DEF r
<1>2. ASSUME NEW i \in 1 .. Len(r) PROVE r[i].value \in Values(q) \union {v}
  <2>1. CASE i \in 1 .. Len(q) - d
    <3>1. i + d \in 1 .. Len(q) /\ r[i] = q[i + d]
      BY <1>1, <2>1
    <3> QED BY <3>1 DEF Values
  <2>2. CASE i = Len(q) + 1 - d
    BY <1>1, <2>2
  <2>3. Len(q) \in Nat /\ i \in 1 .. Len(q) + 1 - d
    BY <1>1
  <2> QED BY <2>1, <2>2, <2>3
<1> QED BY <1>2 DEF Values, r

\* prepare_buffer() adds nothing to the queue.
LEMMA RemainderHolds ==
  ASSUME NEW q \in Seq(Element), NEW i \in 1 .. Len(q)
  PROVE  /\ Values(Remainder(q, i)) \subseteq Values(q)
         /\ q[i].value \in Values(q)
<1>1. /\ Len(Remainder(q, i)) = Len(q) - i
      /\ \A j \in 1 .. Len(q) - i : Remainder(q, i)[j] = q[i + j]
  BY RemainderFacts
<1>2. \A j \in 1 .. Len(q) - i : i + j \in 1 .. Len(q)
  OBVIOUS
<1> QED
  BY <1>1, <1>2 DEF Values

\* post() keeps the new value, and of the others all but the oldest of a full
\* queue.
LEMMA EnqueueKeeps ==
  ASSUME NEW q \in Seq(Element), Len(q) <= MaxQueueSize,
         NEW v \in Nat, NEW now \in Nat
  PROVE  /\ v \in Values(Enqueue(q, v, now))
         /\ \A k \in 1 .. Len(q) : \/ q[k].value \in Values(Enqueue(q, v, now))
                                   \/ k = 1 /\ Len(q) = MaxQueueSize
<1> DEFINE r == Enqueue(q, v, now)
<1>1. PICK d \in {0, 1} :
        /\ d = 1 <=> Len(q) = MaxQueueSize
        /\ Len(r) = Len(q) + 1 - d
        /\ \A i \in 1 .. Len(q) - d : r[i] = q[i + d]
        /\ r[Len(q) + 1 - d] = [value |-> v, timestamp |-> now]
  BY EnqueueFacts
<1> HIDE DEF r
<1>2. Len(r) \in 1 .. Len(r)
  <2>1. Len(q) \in Nat /\ MaxQueueSize \in Nat \ {0}
    BY QueueAssumption
  <2>2. CASE d = 1
    BY <1>1, <2>1, <2>2
  <2>3. CASE d = 0
    BY <1>1, <2>1, <2>3
  <2> QED
    BY <2>2, <2>3
<1>3. v \in Values(r)
  <2>1. r[Len(r)].value = v
    BY <1>1
  <2> QED
    BY <1>2, <2>1 DEF Values
<1>4. ASSUME NEW k \in 1 .. Len(q), ~(k = 1 /\ Len(q) = MaxQueueSize)
      PROVE  q[k].value \in Values(r)
  <2>1. k - d \in 1 .. Len(q) - d /\ (k - d) + d = k
    BY <1>1, <1>4
  <2>2. k - d \in 1 .. Len(r) /\ r[k - d] = q[k]
    BY <1>1, <2>1
  <2> QED
    BY <2>2 DEF Values
<1> QED
  BY <1>3, <1>4 DEF r

\* prepare_buffer() keeps what is behind the element it picks.
LEMMA RemainderKeeps ==
  ASSUME NEW q \in Seq(Element), NEW i \in 1 .. Len(q), NEW k \in i + 1 .. Len(q)
  PROVE  q[k].value \in Values(Remainder(q, i))
<1>1. k - i \in 1 .. Len(q) - i /\ i + (k - i) = k
  OBVIOUS
<1>2. k - i \in 1 .. Len(Remainder(q, i)) /\ Remainder(q, i)[k - i] = q[k]
  BY <1>1, RemainderFacts
<1> QED
  BY <1>2 DEF Values
=============================================================================
