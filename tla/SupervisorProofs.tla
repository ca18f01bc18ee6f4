-------------------------- MODULE SupervisorProofs --------------------------
(***************************************************************************)
(* Theorems about Supervisor, for every choice of its constants with       *)
(* SupervisorAssumption and DelayAssumption.                               *)
(***************************************************************************)
EXTENDS Supervisor, TLAPS

(* What main() has saved up: a short run costs one ShortRun of the advance, *)
(* which Few - 1 of them use up.  The sleeps and the longer runs earn what  *)
(* the next fork costs.                                                     *)
Used(n) == ShortRun * (IF n < Few THEN n ELSE Few - 1)

Earned ==
  IF pc = "fork" THEN 0 ELSE IF pc = "sleep" THEN Delay ELSE ShortRun + Nap

Saved == (ShortRun + Nap) * forks <= elapsed + Earned + Used(respawnCnt)

\* The fork whose child is waited for is not in the counter yet.
ForkPending == pc = "wait" => respawnCnt < forks

\* The invariant that the steps keep: RateBounded says nothing of the counter,
\* on which the next sleep depends.
IInv == TypeOK /\ RateBounded /\ Saved /\ ForkPending /\ PlannedRestartIsPrompt

\* Multiplication by ShortRun is monotonic.
LEMMA TimesMonotonic ==
  ASSUME NEW s \in Nat, NEW c \in Nat, NEW k \in Nat, c <= k
  PROVE  s * c <= s * k
<1>1. k - c \in Nat
  OBVIOUS
<1>2. s * (k - c) \in Nat
  BY <1>1
<1>3. s * k = s * c + s * (k - c)
  OBVIOUS
<1> QED
  BY <1>2, <1>3

\* The advance is bounded by that of Few - 1 short runs, and a run adds at most
\* one to it.
LEMMA UsedBounded ==
  ASSUME NEW c \in Nat
  PROVE  /\ Used(c) \in Nat /\ Used(c + 1) \in Nat
         /\ Used(c) <= Few * ShortRun - ShortRun
         /\ c + 1 < Few => Used(c + 1) = Used(c) + ShortRun
         /\ Used(c) <= Used(c + 1)
<1> DEFINE m(n) == IF n < Few THEN n ELSE Few - 1
<1> USE SupervisorAssumption
<1>1. m(c) \in Nat /\ m(c + 1) \in Nat /\ Few - 1 \in Nat /\ m(c) <= Few - 1
      /\ m(c) <= m(c + 1) /\ (c + 1 < Few => m(c + 1) = m(c) + 1)
  OBVIOUS
<1>2. Used(c) = ShortRun * m(c) /\ Used(c + 1) = ShortRun * m(c + 1)
  BY DEF Used
<1> HIDE DEF m
<1>3. ShortRun * m(c) <= ShortRun * (Few - 1)
  BY <1>1, TimesMonotonic
<1>4. ShortRun * m(c) <= ShortRun * m(c + 1)
  BY <1>1, TimesMonotonic
<1>5. ShortRun * (Few - 1) = Few * ShortRun - ShortRun
  OBVIOUS
<1>6. ShortRun * (m(c) + 1) = ShortRun * m(c) + ShortRun
  BY <1>1
<1>7. ShortRun * m(c) \in Nat /\ ShortRun * m(c + 1) \in Nat
  BY <1>1
<1> QED
  BY <1>1, <1>2, <1>3, <1>4, <1>5, <1>6, <1>7

LEMMA UsedZero == Used(0) = 0
BY SupervisorAssumption DEF Used

LEMMA InitIInv == Init => IInv
<1>1. ShortRun + Nap \in Nat /\ Few * ShortRun \in Nat
  BY SupervisorAssumption
<1>2. (ShortRun + Nap) * 0 = 0
  BY <1>1
<1> QED
  BY <1>1, <1>2, UsedZero, SupervisorAssumption
     DEF Init, IInv, TypeOK, RateBounded, Saved, Earned, ForkPending,
         PlannedRestartIsPrompt, NoProcess

\* Fork pays for itself with what was earned.
LEMMA ForkStep == IInv /\ Fork => IInv'
<1> SUFFICES ASSUME IInv, Fork PROVE IInv'
  OBVIOUS
<1> USE SupervisorAssumption DEF IInv, Fork
<1>1. TypeOK'
  BY DEF TypeOK
<1>2. PlannedRestartIsPrompt'
  BY DEF PlannedRestartIsPrompt
<1>3. (ShortRun + Nap) * forks' = (ShortRun + Nap) * forks + (ShortRun + Nap)
      /\ (ShortRun + Nap) * forks \in Nat
  BY DEF TypeOK
<1>4. (ShortRun + Nap) * forks <= elapsed + Used(respawnCnt)
  <2>1. Used(respawnCnt) \in Nat
    BY UsedBounded DEF TypeOK
  <2> QED
    BY <2>1 DEF Saved, Earned, TypeOK
<1>5. Used(respawnCnt)' = Used(respawnCnt)
  BY DEF Used
<1>6. Used(respawnCnt) \in Nat /\ Used(respawnCnt) <= Few * ShortRun - ShortRun
  BY UsedBounded DEF TypeOK
<1>7. Saved'
  BY <1>3, <1>4, <1>5, <1>6 DEF Saved, Earned, TypeOK
<1>8. Few * ShortRun \in Nat
  OBVIOUS
<1>9. RateBounded'
  BY <1>3, <1>4, <1>6, <1>8 DEF RateBounded, TypeOK
<1>10. ForkPending'
  BY DEF ForkPending, TypeOK
<1> QED
  BY <1>1, <1>2, <1>7, <1>9, <1>10

\* A run of a child, however it ends: the three classes of its length.
LEMMA ChildStep ==
  ASSUME IInv, NEW delta \in Runtimes, ChildFails(delta) \/ ChildRestarts(delta)
  PROVE  IInv'
<1> DEFINE rate == ShortRun + Nap
           paid == rate * forks
           most == Few * ShortRun
<1>1. /\ pc = "wait" /\ pc' = IF IsLong(delta) THEN "fork" ELSE "sleep"
      /\ respawnCnt' = Count(delta) /\ elapsed' = elapsed + delta
      /\ UNCHANGED <<pid, foreign, forks>>
      /\ \/ ended' = "failed"
         \/ ended' = "planned" /\ delta >= PollTimeout
  BY DEF ChildFails, ChildRestarts, OwnChildEnds
<1>2. /\ delta \in Nat /\ ShortRun \in Nat /\ Nap \in Nat /\ LongRun \in Nat /\ Few \in Nat
      /\ Rest \in Nat /\ LongRest \in Nat /\ most \in Nat /\ PollTimeout \in Nat
      /\ ShortRun + Nap <= Rest /\ Rest <= LongRest /\ most + Nap <= LongRun
      /\ LongRun <= PollTimeout
  BY SupervisorAssumption, DelayAssumption
<1>3. /\ elapsed \in Nat /\ respawnCnt \in Nat /\ forks \in Nat /\ paid \in Nat
      /\ respawnCnt <= forks
  BY <1>2 DEF IInv, TypeOK
<1>4. /\ Used(respawnCnt) \in Nat /\ Used(respawnCnt + 1) \in Nat
      /\ Used(respawnCnt) <= most - ShortRun
      /\ respawnCnt + 1 < Few => Used(respawnCnt + 1) = Used(respawnCnt) + ShortRun
      /\ Used(respawnCnt) <= Used(respawnCnt + 1)
  BY <1>3, UsedBounded
<1>5. paid <= elapsed + rate + Used(respawnCnt)
  BY <1>1, <1>2, <1>3, <1>4 DEF IInv, Saved, Earned
<1>6. paid' = paid
  BY <1>1
<1>7. Used(respawnCnt)' = Used(respawnCnt')
  BY DEF Used
<1> DEFINE Goal == Saved /\ respawnCnt \in 0 .. forks
<1>8. ASSUME IsLong(delta) PROVE Goal'
  <2>1. pc' = "fork" /\ respawnCnt' = 0 /\ delta >= LongRun
    BY <1>1, <1>8 DEF Count, IsLong
  <2>2. paid <= elapsed + delta
    BY <1>2, <1>3, <1>4, <1>5, <2>1
  <2>3. Saved'
    BY <1>1, <1>6, <1>7, <2>1, <2>2, UsedZero DEF Saved, Earned
  <2> QED
    BY <1>1, <1>3, <2>1, <2>3
<1>9. ASSUME ~IsLong(delta), delta < ShortRun PROVE Goal'
  <2>1. pc' = "sleep" /\ respawnCnt' = respawnCnt + 1
    BY <1>1, <1>9 DEF Count
  <2>2. respawnCnt + 1 < Few => Delay' = Nap
    BY <2>1 DEF Delay
  <2>3. respawnCnt + 1 >= Few => Delay' >= Rest
    BY <1>2, <1>3, <2>1 DEF Delay
  <2>4. Delay' \in Nat
    BY <1>2, <1>3, <2>1 DEF Delay
  <2>5. paid <= elapsed + delta + Delay' + Used(respawnCnt + 1)
    BY <1>2, <1>3, <1>4, <1>5, <2>2, <2>3, <2>4
  <2>6. Saved'
    BY <1>1, <1>6, <1>7, <2>1, <2>5 DEF Saved, Earned
  <2>7. respawnCnt < forks
    BY <1>1 DEF IInv, ForkPending
  <2> QED
    BY <1>1, <1>3, <2>1, <2>6, <2>7
<1>10. ASSUME ~IsLong(delta), delta >= ShortRun PROVE Goal'
  <2>1. pc' = "sleep" /\ respawnCnt' = respawnCnt
    BY <1>1, <1>2, <1>10 DEF Count
  <2>2. Delay' \in Nat /\ Delay' >= Nap
    BY <1>2, <1>3, <2>1 DEF Delay
  <2>3. paid <= elapsed + delta + Delay' + Used(respawnCnt)
    BY <1>2, <1>3, <1>4, <1>5, <1>10, <2>2
  <2>4. Saved'
    BY <1>1, <1>6, <1>7, <2>1, <2>3 DEF Saved, Earned
  <2> QED
    BY <1>1, <1>3, <2>1, <2>4
<1>11. Goal'
  BY <1>2, <1>8, <1>9, <1>10
<1>12. elapsed' \in Nat /\ RateBounded'
  <2>1. paid <= elapsed + most + Nap
    BY DEF IInv, RateBounded
  <2> QED
    BY <1>1, <1>2, <1>3, <1>6, <2>1 DEF RateBounded
<1>13. TypeOK'
  BY <1>1, <1>11, <1>12 DEF IInv, TypeOK
<1>14. PlannedRestartIsPrompt'
  BY <1>1, <1>2 DEF PlannedRestartIsPrompt, IsLong, Count
<1>15. ForkPending'
  BY <1>1 DEF ForkPending
<1> QED
  BY <1>11, <1>12, <1>13, <1>14, <1>15 DEF IInv

\* What the supervisor does besides is time passing.
LEMMA RestStep ==
  ASSUME IInv, \/ Sleep
               \/ \E delta \in Runtimes : WrongChildEnds(delta)
               \/ UNCHANGED vars
  PROVE  IInv'
<1> USE SupervisorAssumption DEF IInv
<1>1. Used(respawnCnt) \in Nat /\ (ShortRun + Nap) * forks \in Nat /\ Few * ShortRun \in Nat
  BY UsedBounded DEF TypeOK
<1>2. Delay \in Nat
  BY DEF Delay
<1>3. CASE Sleep
  <2>1. (Used(respawnCnt))' = Used(respawnCnt)
    BY <1>3 DEF Sleep, Used
  <2> QED
    BY <1>1, <1>2, <1>3, <2>1
       DEF Sleep, TypeOK, RateBounded, Saved, Earned, ForkPending, PlannedRestartIsPrompt
<1>4. CASE \E delta \in Runtimes : WrongChildEnds(delta)
  <2>1. PICK delta \in Runtimes : WrongChildEnds(delta)
    BY <1>4
  <2>2. (Used(respawnCnt))' = Used(respawnCnt)
    BY <2>1 DEF WrongChildEnds, Used
  <2>3. delta \in Nat /\ elapsed \in Nat /\ elapsed' = elapsed + delta /\ forks' = forks
        /\ pc = "wait" /\ pc' = "stopped"
    BY <2>1 DEF WrongChildEnds, TypeOK
  <2>4. TypeOK'
    <3>1. foreign' \in BOOLEAN /\ UNCHANGED <<pid, respawnCnt, ended, forks>>
      BY <2>1 DEF WrongChildEnds
    <3>2. elapsed' \in Nat
      BY <2>3
    <3> QED
      BY <2>3, <3>1, <3>2 DEF TypeOK
  <2>5. RateBounded' /\ Saved'
    <3> DEFINE paid == (ShortRun + Nap) * forks
               most == Few * ShortRun
    <3>1. paid <= elapsed + most + Nap /\ paid <= elapsed + (ShortRun + Nap) + Used(respawnCnt)
      BY <2>3 DEF RateBounded, Saved, Earned
    <3>2. paid' = paid
      BY <2>3
    <3>3. paid \in Nat /\ most \in Nat
      BY <1>1
    <3> HIDE DEF paid, most
    <3>4. paid <= elapsed' + most + Nap /\ paid <= elapsed' + (ShortRun + Nap) + Used(respawnCnt)
      BY <1>1, <2>3, <3>1, <3>3
    <3> QED
      BY <2>2, <2>3, <3>2, <3>4 DEF RateBounded, Saved, Earned, paid, most
  <2> QED
    BY <2>1, <2>4, <2>5 DEF WrongChildEnds, ForkPending, PlannedRestartIsPrompt
<1>5. CASE UNCHANGED vars
  BY <1>5 DEF vars, TypeOK, RateBounded, Saved, Earned, Used, Delay, ForkPending,
              PlannedRestartIsPrompt
<1> QED
  BY <1>3, <1>4, <1>5

\* All of it holds in every state of the supervisor.
THEOREM Invariance == Spec => []IInv
<1>1. IInv /\ [Next]_vars => IInv'
  BY ForkStep, ChildStep, RestStep DEF Next
<1> QED
  BY <1>1, InitIInv, PTL DEF Spec

\* The types, and that the counter never exceeds the number of starts.
THEOREM TypeCorrect == Spec => []TypeOK
BY Invariance, PTL DEF IInv

\* main() starts children no faster than once per ShortRun + Nap, but for the
\* advance of Few starts, whatever the lengths of their runs.
THEOREM StartsAreBounded == Spec => []RateBounded
BY Invariance, PTL DEF IInv

\* The planned restart is never followed by a sleep: this rests on the timeout
\* of poll() being no shorter than LongRun.
THEOREM PlannedRestarts == Spec => []PlannedRestartIsPrompt
BY Invariance, PTL DEF IInv
=============================================================================
