---------------------------- MODULE OneReceiver -----------------------------
(***************************************************************************)
(* What the duplicate filter of handle_event() promises: a bridge with any *)
(* number of receivers works as if it had one.  A telegram is heard at     *)
(* most once, those of a sender in the order they were sent; no copies, no *)
(* times.  A command is left out only if it repeats what the sender said   *)
(* last.  What load() makes of the mapping file is left to CommandMapping. *)
(***************************************************************************)
EXTENDS MappingTable

CONSTANTS
  Ids,      \* EnOcean senders
  Events    \* what a telegram may say

VARIABLES
  status,   \* of load(), as in CommandMapping
  table,    \* mapping_
  last,     \* last_value_
  sent,     \* the telegrams of all senders, in order
  heard,    \* the numbers of those heard
  given,    \* the last command of each sender, 0 for none
  posts     \* the commands posted, each with its sender

vars == <<status, table, last, sent, heard, given, posts>>

Init ==
  /\ status = "loading"
  /\ table = EmptyTable
  /\ last = [id \in Ids |-> 0]
  /\ sent = <<>> /\ heard = {}
  /\ given = [id \in Ids |-> 0]
  /\ posts = <<>>

\* The table stays as it is when the bridge runs.
Load ==
  /\ status = "loading"
  /\ UNCHANGED <<last, sent, heard, given, posts>>

Send(e) ==
  /\ status = "running"
  /\ sent' = Append(sent, e)
  /\ UNCHANGED <<status, table, last, heard, given, posts>>

Give(id, value) ==
  /\ given' = [given EXCEPT ![id] = value]
  /\ \/ posts' = Append(posts, [sender |-> id, id |-> value])
     \/ given[id] = value /\ posts' = posts

\* Telegram n, with nothing heard of its sender that was sent later.
Hear(n) ==
  LET id == sent[n].sender
      r == MapEvent(table, last, sent[n])
  IN  /\ status = "running"
      /\ \A k \in heard : sent[k].sender = id => k < n
      /\ heard' = heard \union {n}
      /\ last' = [last EXCEPT ![id] = r.last]
      /\ IF r.out.value = 0 THEN UNCHANGED <<given, posts>> ELSE Give(id, r.out.value)
      /\ UNCHANGED <<status, table, sent>>

Next ==
  \/ Load
  \/ \E e \in Events : Send(e)
  \/ \E n \in 1 .. Len(sent) : Hear(n)

Spec == Init /\ [][Next]_vars
=============================================================================
