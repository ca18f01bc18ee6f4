----------------------------- MODULE Supervisor -----------------------------
(***************************************************************************)
(* The loop of main(): fork a child that runs the bridge, wait for its     *)
(* end, reckon how long it ran, sleep, and fork again.  Times are in the   *)
(* unit of timestamp(), milliseconds of a clock that is never set.         *)
(*                                                                         *)
(* Inside the child is PollLoop: it ends by an exception at any time, or   *)
(* by its planned restart.  A process that was started with a child of     *)
(* somebody else's (exec from a shell) waits for that one too.             *)
(***************************************************************************)
EXTENDS Integers

CONSTANTS
  ShortRun,      \* 5000: a shorter run counts as a failure
  LongRun,       \* 60000: a longer one resets the counter
  Few, Many,     \* 10 and 30 failures
  Nap, Rest, LongRest,   \* sleep() after few, some and many: 1, 30 and 60 s
  PollTimeout,   \* 600000: the timeout of the child's poll()
  Runtimes,      \* times a child may run
  Inherited,     \* whether the program was started with a child
  MaxForks       \* bound: calls of fork()

ASSUME SupervisorAssumption ==
  /\ ShortRun \in Nat /\ LongRun \in Nat /\ PollTimeout \in Nat
  /\ Few \in Nat \ {0} /\ Many \in Nat /\ Few <= Many
  /\ Nap \in Nat /\ Rest \in Nat /\ LongRest \in Nat
  /\ Runtimes \subseteq Nat
  /\ Inherited \in BOOLEAN
  /\ MaxForks \in Nat

(* What makes the numbers of the code work together.                       *)
ASSUME DelayAssumption ==
  /\ ShortRun + Nap <= Rest /\ Rest <= LongRest
  /\ Few * ShortRun + Nap <= LongRun
  /\ LongRun <= PollTimeout

VARIABLES
  pc,           \* "fork", "wait", "sleep"; "stopped" when main() has returned
  pid,          \* what fork() returned, NoProcess for a failure
  foreign,      \* the inherited child still runs
  respawnCnt,   \* respawn_cnt
  ended,        \* history: how the last child ended
  forks,        \* history: calls of fork()
  elapsed       \* history: a lower bound of the time since the start

vars == <<pc, pid, foreign, respawnCnt, ended, forks, elapsed>>

NoProcess == -1
Foreign == 0       \* the process id of the inherited child

TypeOK ==
  /\ pc \in {"fork", "wait", "sleep", "stopped"}
  /\ pid \in {NoProcess} \union 1 .. MaxForks
  /\ foreign \in BOOLEAN
  /\ respawnCnt \in 0 .. forks
  /\ ended \in {"none", "failed", "planned"}
  /\ forks \in 0 .. MaxForks
  /\ elapsed \in Nat

Init ==
  /\ pc = "fork"
  /\ pid = NoProcess
  /\ foreign = Inherited
  /\ respawnCnt = 0
  /\ ended = "none"
  /\ forks = 0
  /\ elapsed = 0

\* fork() gives a new process or, out of memory or of processes, fails.  The
\* code does not look for the failure.
Fork ==
  /\ pc = "fork"
  /\ forks < MaxForks
  /\ forks' = forks + 1
  /\ pid' \in {forks + 1, NoProcess}
  /\ pc' = "wait"
  /\ UNCHANGED <<foreign, respawnCnt, ended, elapsed>>
-----------------------------------------------------------------------------
(* wait().                                                                 *)

Children ==
  (IF pid = NoProcess THEN {} ELSE {pid}) \union (IF foreign THEN {Foreign} ELSE {})

\* wait() returns one that has ended or, when there is none at all, -1.
Waited == IF Children = {} THEN {NoProcess} ELSE Children

\* Mutant: any run that is not short resets the counter.
CountForgetful(delta) == IF delta < ShortRun THEN respawnCnt + 1 ELSE 0

\* Mutant: a long run goes on counting and sleeping.
IsLongNever(delta) == FALSE

\* The run was long enough to start again at once.
IsLong(delta) == delta >= LongRun

\* Mutant: a run of medium length works a failure off.
CountDown(delta) ==
  IF IsLong(delta) THEN 0
  ELSE IF delta < ShortRun THEN respawnCnt + 1 ELSE respawnCnt - 1

\* respawn_cnt after a run: between the two limits it stays.
Count(delta) ==
  IF IsLong(delta) THEN 0
  ELSE IF delta < ShortRun THEN respawnCnt + 1 ELSE respawnCnt

\* The child of this pass has run for delta, or fork() has failed and wait()
\* has, too: -1 = -1.
OwnChildEnds(delta) ==
  /\ pc = "wait"
  /\ pid \in Waited
  /\ elapsed' = elapsed + delta
  /\ respawnCnt' = Count(delta)
  /\ pc' = IF IsLong(delta) THEN "fork" ELSE "sleep"
  /\ UNCHANGED <<pid, foreign, forks>>

\* An exception in the child, or no child.
ChildFails(delta) == OwnChildEnds(delta) /\ ended' = "failed"

\* _exit(0) in run_poll_loop(): poll() has just timed out.  The hour it asks for
\* is one of the wall clock, which may be set, and says nothing about delta.
ChildRestarts(delta) ==
  /\ pid # NoProcess
  /\ delta >= PollTimeout
  /\ OwnChildEnds(delta)
  /\ ended' = "planned"

\* wait() returns another process than the one just started: main() returns.
WrongChildEnds(delta) ==
  /\ pc = "wait"
  /\ foreign
  /\ foreign' = FALSE
  /\ elapsed' = elapsed + delta
  /\ pc' = "stopped"
  /\ UNCHANGED <<pid, respawnCnt, ended, forks>>
-----------------------------------------------------------------------------
(* sleep().                                                                *)

Delay ==
  IF respawnCnt < Few THEN Nap ELSE IF respawnCnt < Many THEN Rest ELSE LongRest

Sleep ==
  /\ pc = "sleep"
  /\ elapsed' = elapsed + Delay
  /\ pc' = "fork"
  /\ UNCHANGED <<pid, foreign, respawnCnt, ended, forks>>

Next ==
  \/ Fork
  \/ \E delta \in Runtimes :
       ChildFails(delta) \/ ChildRestarts(delta) \/ WrongChildEnds(delta)
  \/ Sleep

Spec == Init /\ [][Next]_vars
-----------------------------------------------------------------------------
(* Properties.                                                             *)

\* However the child fails, and although runs of medium length neither count
\* nor reset the counter, main() never forks faster than once per ShortRun + Nap
\* (6 s), but for Few starts it has in advance.  With the numbers of the code the
\* bound is reached: 10 starts within 9 s.
RateBounded == (ShortRun + Nap) * forks <= elapsed + Few * ShortRun + Nap

\* After its planned restart the bridge hears again at once, and with a fresh
\* counter: there is no sleep although the child's hour and main()'s minute are
\* measured on different clocks.
PlannedRestartIsPrompt == ended = "planned" => pc # "sleep" /\ respawnCnt = 0
=============================================================================
