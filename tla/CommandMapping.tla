--------------------------- MODULE CommandMapping ---------------------------
(***************************************************************************)
(* command_mapping at work: load() reads a file line by line, then events  *)
(* arrive in any order and map() turns each into a command.  Radio events  *)
(* get lost, so a press need not be followed by its release.               *)
(*                                                                         *)
(* A line is [kind |-> "bridge", set |-> ...] with the bridges it names,   *)
(* [kind |-> "map", id, button, value], or [kind |-> "bad"] for one that   *)
(* sscanf or a range check refuses.  Empty lines and comments are dropped. *)
(***************************************************************************)
EXTENDS MappingTable

CONSTANTS
  Files,        \* mapping files, sequences of lines
  Switches,     \* EnOcean senders that are switches
  Contacts,     \* and those that are door or window contacts
  Events,       \* what the receivers may hand on
  MaxCommands   \* bound: commands put out per sender

Ids == Switches \union Contacts

Line == [kind : {"bridge"}, set : SUBSET Nat]
        \union [kind : {"map"}, id : Ids, button : Int, value : Int]
        \union [kind : {"bad"}]

\* A sender either is a switch or a contact.
ASSUME MappingAssumption ==
  /\ Files \subseteq Seq(Line)
  /\ \A e \in Events : /\ e.sender \in Ids
                       /\ e.sender \in Switches => e.type # CONTACT
                       /\ e.sender \in Contacts => e.type # SWITCH
  /\ MaxCommands \in Nat

VARIABLES
  file,         \* the file given on the command line
  status,       \* "loading", "running", or "failed" when load() has thrown
  linesRead,    \* lines read so far
  bridgeSet,    \* load()'s bridge_set
  table,        \* mapping_
  last,         \* last_value_
  out           \* history: the commands (other than 0) of each sender, in order

vars == <<file, status, linesRead, bridgeSet, table, last, out>>

Init ==
  /\ file \in Files
  /\ status = "loading"
  /\ linesRead = 0
  /\ bridgeSet = {1}
  /\ table = EmptyTable
  /\ last = [id \in Ids |-> 0]
  /\ out = [id \in Ids |-> <<>>]

\* One round of load()'s loop.
LoadLine ==
  /\ status = "loading"
  /\ linesRead < Len(file)
  /\ linesRead' = linesRead + 1
  /\ LET line == file[linesRead + 1]
     IN  \/ /\ line.kind = "bridge"
            /\ bridgeSet' = line.set
            /\ UNCHANGED <<status, table>>
         \/ /\ line.kind = "map" /\ Accepted(line.button, line.value)
            /\ table' = AddMapping(table, line.id, line.button, line.value, bridgeSet)
            /\ UNCHANGED <<status, bridgeSet>>
         \/ /\ line.kind = "bad" \/ (line.kind = "map" /\ ~Accepted(line.button, line.value))
            /\ status' = "failed"
            /\ UNCHANGED <<table, bridgeSet>>
  /\ UNCHANGED <<file, last, out>>

EndOfFile ==
  /\ status = "loading"
  /\ linesRead = Len(file)
  /\ status' = "running"
  /\ UNCHANGED <<file, linesRead, bridgeSet, table, last, out>>

Put(id, value) == IF value = 0 THEN out[id] ELSE Append(out[id], value)

\* handle_event() asks map().
Event(e) ==
  LET r == MapEvent(table, last, e)
  IN  /\ status = "running"
      /\ Len(out[e.sender]) < MaxCommands
      /\ last' = [last EXCEPT ![e.sender] = r.last]
      /\ out' = [out EXCEPT ![e.sender] = Put(e.sender, r.out.value)]
      /\ UNCHANGED <<file, status, linesRead, bridgeSet, table>>

Next ==
  \/ LoadLine
  \/ EndOfFile
  \/ \E e \in Events : Event(e)

Spec == Init /\ [][Next]_vars
-----------------------------------------------------------------------------
(* Properties.                                                             *)

TypeOK ==
  /\ file \in Files
  /\ status \in {"loading", "running", "failed"}
  /\ linesRead \in 0 .. Len(file)
  /\ DOMAIN table \subseteq Ids \X (0 .. MaxButton)
  /\ \A key \in DOMAIN table : ValidValue(key[2], table[key][1]) /\ table[key][1] # -1
  /\ \A id \in Ids : last[id] >= 0

\* command_mapping.hpp and README.md list which buttons a line stands for:
\* the first line of the file, from the top, that covers a button of a sender
\* decides its value and, with the nearest "bridge" line above it, its bridges.
Covers(line, id, button) ==
  /\ line.kind = "map" /\ line.id = id
  /\ \/ line.button = button
     \/ line.button \in {-1, -3} /\ button >= 1
     \/ line.button = -2
     \/ line.button = -3 /\ button = 0

ValueFor(line, button) ==
  IF button = 0 /\ (line.button = -3 \/ line.value = -1) THEN RELEASE
  ELSE IF line.button < 0 THEN line.value + button ELSE line.value

BridgesAt(n) ==
  LET above == {k \in 1 .. n : file[k].kind = "bridge"}
  IN  IF above = {} THEN {1} ELSE file[CHOOSE k \in above : \A j \in above : j <= k].set

FirstLineDecides ==
  \A id \in Ids, button \in 0 .. MaxButton :
    LET covering == {n \in 1 .. Len(file) : Covers(file[n], id, button)}
        key == <<id, button>>
    IN  status = "running" =>
          IF covering = {} THEN key \notin DOMAIN table
          ELSE /\ key \in DOMAIN table
               /\ \E n \in covering :
                    /\ \A k \in covering : n <= k
                    /\ table[key] = <<ValueFor(file[n], button), BridgesAt(n)>>

\* A negated command answers the press right before it: of the same sender,
\* with its value, and only once, whichever presses and releases got lost or
\* are not mapped.
EchoAnswersPress ==
  \A id \in Switches : \A n \in 1 .. Len(out[id]) :
    out[id][n] < 0 => n > 1 /\ out[id][n - 1] = -out[id][n]
=============================================================================
