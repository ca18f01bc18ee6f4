----------------------------- MODULE EventFilter ----------------------------
(***************************************************************************)
(* enocean_to_hue_bridge::handle_event() on top of command_mapping: one    *)
(* radio telegram of a sender is received by several receivers, the local  *)
(* serial line and proxies that forward it over UDP, so the bridge gets up *)
(* to one copy of an event from each, at different times.  map() and the   *)
(* table command_states_ decide which copies become commands.              *)
(*                                                                         *)
(* Copies of events are lost, or arrive at most MaxSkew ticks after the    *)
(* telegram, in any order.  Time stands still while a copy is overdue.     *)
(***************************************************************************)
EXTENDS CommandMapping, FiniteSets

CONSTANTS
  Receivers,      \* the local serial line and the proxies
  Window,         \* 200 ms, in ticks of the clock
  MaxSkew,        \* the latest copy of an event, in ticks after it
  MinGap,         \* least time between two telegrams of one sender, in ticks
  MaxTelegrams,   \* bound: telegrams of all senders
  MaxClock        \* bound: ticks

\* enocean_to_hue_bridge.cpp:198, "Typically, all commands arrive within a
\* millisecond or so", and "Nobody is going to press the switch that fast".
ASSUME FilterAssumption ==
  /\ Window \in Nat /\ MaxSkew \in Nat /\ MinGap \in Nat
  /\ MaxSkew < Window /\ MaxSkew < MinGap
  /\ MaxTelegrams \in Nat /\ MaxClock \in Nat

VARIABLES
  clock,       \* bridges_[0].timestamp()
  seen,        \* command_states_: the last command of each sender, and when
  telegrams,   \* history: the events of all senders, in order, and their times
  copies,      \* copies of them on their way
  heard,       \* history: telegrams of which a copy was handled
  posted       \* history: the commands posted, each with its telegram

filter == <<clock, seen, telegrams, copies, heard, posted>>
filterVars == <<vars, filter>>

\* No entry in command_states_.
NeverSeen == [ts |-> -1, id |-> 0]

FilterInit ==
  /\ Init
  /\ clock = 0
  /\ seen = [id \in Ids |-> NeverSeen]
  /\ telegrams = <<>>
  /\ copies = {}
  /\ heard = {}
  /\ posted = <<>>

\* The mapping file is read before anything is received.
Load == (LoadLine \/ EndOfFile) /\ UNCHANGED filter

TelegramsOf(id) == {n \in 1 .. Len(telegrams) : telegrams[n].event.sender = id}

\* The line is opened just before the mapping file is read; what comes in that
\* moment is left out.
Telegram(e) ==
  /\ status = "running"
  /\ Len(telegrams) < MaxTelegrams
  /\ \A n \in TelegramsOf(e.sender) : clock - telegrams[n].at >= MinGap
  /\ telegrams' = Append(telegrams, [event |-> e, at |-> clock])
  /\ copies' = copies \union ({Len(telegrams) + 1} \X Receivers)
  /\ UNCHANGED <<vars, clock, seen, heard, posted>>

LoseCopy(c) ==
  /\ c \in copies
  /\ copies' = copies \ {c}
  /\ UNCHANGED <<vars, clock, seen, telegrams, heard, posted>>

\* Mutant: one entry for all senders.
IsNewShared(sender, id) ==
  \A s \in Ids :
    seen[s] = NeverSeen \/ clock - seen[s].ts >= Window \/ seen[s].id # id

\* Mutant: the times are compared in the wrong unit.
IsNewNextTick(sender, id) ==
  seen[sender] = NeverSeen \/ clock - seen[sender].ts >= 1 \/ seen[sender].id # id

\* do_send of handle_event() for a command of a sender.
IsNew(sender, id) ==
  seen[sender] = NeverSeen \/ clock - seen[sender].ts >= Window \/ seen[sender].id # id

\* handle_event() of one copy.
HandleEvent(c) ==
  LET e == telegrams[c[1]].event
      id == MapEvent(table, last, e).out.value
  IN  /\ c \in copies
      /\ Event(e)
      /\ copies' = copies \ {c}
      /\ heard' = heard \union {c[1]}
      /\ seen' = IF id = 0 THEN seen
                 ELSE [seen EXCEPT ![e.sender] = [ts |-> clock, id |-> id]]
      /\ posted' = IF id # 0 /\ IsNew(e.sender, id)
                   THEN Append(posted, [telegram |-> c[1], id |-> id])
                   ELSE posted
      /\ UNCHANGED <<clock, telegrams>>

Tick ==
  /\ status = "running"
  /\ clock < MaxClock
  /\ \A c \in copies : clock - telegrams[c[1]].at < MaxSkew
  /\ clock' = clock + 1
  /\ UNCHANGED <<vars, seen, telegrams, copies, heard, posted>>

FilterNext ==
  \/ Load
  \/ \E e \in Events : Telegram(e)
  \/ \E c \in (1 .. MaxTelegrams) \X Receivers : LoseCopy(c) \/ HandleEvent(c)
  \/ Tick

FilterSpec == FilterInit /\ [][FilterNext]_filterVars
-----------------------------------------------------------------------------
(* Properties.                                                             *)

FilterTypeOK ==
  /\ TypeOK
  /\ clock \in 0 .. MaxClock
  /\ \A id \in Ids : seen[id].ts \in -1 .. clock
  /\ copies \subseteq (1 .. Len(telegrams)) \X Receivers
  /\ heard \subseteq 1 .. Len(telegrams)
  /\ \A k \in 1 .. Len(posted) : posted[k].telegram \in heard

PostsOf(n) == {k \in 1 .. Len(posted) : posted[k].telegram = n}

\* enocean_to_hue_bridge.cpp:196, "The same command can be received by multiple
\* receivers.  So we are posting only in case enough time has passed since the
\* occurrence of the same command": one telegram of a sender becomes at most
\* one command, however many copies of it arrive.
PostedOnce == \A n \in 1 .. Len(telegrams) : Cardinality(PostsOf(n)) <= 1

\* The entry of the table for telegram n, and what it says.
Entry(n) ==
  LET e == telegrams[n].event
  IN  <<e.sender, IF e.type = SWITCH THEN ButtonId(e.state)
                  ELSE IF IsClosed(e.state) THEN 1 ELSE 0>>
IsMapped(n) ==
  /\ telegrams[n].event.packet = RADIO_ERP1
  /\ telegrams[n].event.type \in {SWITCH, CONTACT}
  /\ Entry(n) \in DOMAIN table
Command(n) == table[Entry(n)][1]
IsRelease(n) ==
  IsMapped(n) /\ telegrams[n].event.type = SWITCH /\ Command(n) = RELEASE
HasCommand(n) == IsMapped(n) /\ ~IsRelease(n)

\* The earlier telegrams of the sender of telegram n, and the last of them that
\* was heard and meant something.
Before(n) == {k \in TelegramsOf(telegrams[n].event.sender) : k < n}
MappedBefore(n) == {k \in heard \intersect Before(n) : IsMapped(k)}
IsLastHeard(p, n) == p \in MappedBefore(n) /\ \A k \in MappedBefore(n) : k <= p

\* No telegram with the same command so shortly before telegram n that a late
\* copy of it, which starts the window anew, can hide n.
IsSeparate(n) ==
  \A k \in Before(n) :
    \/ telegrams[n].at - telegrams[k].at >= Window + MaxSkew
    \/ IsMapped(k) => Command(k) # Command(n)

\* The other side of the filter: a command the bridge has heard is posted when
\* the same one was not given shortly before, and so is the release after a
\* press that was heard.
NoCommandLost ==
  \A n \in heard :
    /\ HasCommand(n) /\ IsSeparate(n) => PostsOf(n) # {}
    /\ \A p \in heard :
         IsRelease(n) /\ IsLastHeard(p, n) /\ HasCommand(p)
         => \E k \in PostsOf(n) : posted[k].id = -Command(p)

\* A negated command of a switch is posted only for the release of the press
\* heard last, of those that are mapped: never again for a later release whose
\* own press was lost.
EchoAnswersHeard ==
  \A n \in heard : telegrams[n].event.sender \in Switches =>
    \A k \in PostsOf(n) : posted[k].id < 0 =>
      /\ IsRelease(n)
      /\ \E p \in heard :
           IsLastHeard(p, n) /\ HasCommand(p) /\ posted[k].id = -Command(p)

\* enocean_to_hue_bridge.cpp:199, "Nobody is going to press the switch that fast
\* (5 commands/second from the same switch)": when a sender's next command posted
\* is the same one again, almost the whole window lies between the telegrams.
PostSender(k) == telegrams[posted[k].telegram].event.sender
PostedAt(k) == telegrams[posted[k].telegram].at
IsNextPost(j, k) ==
  /\ j < k /\ PostSender(j) = PostSender(k)
  /\ \A i \in j + 1 .. k - 1 : PostSender(i) # PostSender(k)
SameCommandApart ==
  \A j, k \in 1 .. Len(posted) :
    IsNextPost(j, k) /\ posted[j].id = posted[k].id
    => PostedAt(k) - PostedAt(j) >= Window - MaxSkew

\* enocean_to_hue_bridge.cpp:196 again, as a whole: the bridge with its receivers
\* and copies works as one that hears each telegram at most once, those of a
\* sender in order, and leaves out a command only if it repeats the last one.
Single == INSTANCE OneReceiver WITH
  sent <- [n \in 1 .. Len(telegrams) |-> telegrams[n].event],
  given <- [id \in Ids |-> seen[id].id],
  posts <- [k \in 1 .. Len(posted) |-> [sender |-> PostSender(k), id |-> posted[k].id]]
OneReceiverSpec == Single!Spec
=============================================================================
