-------------------------- MODULE MCCommandMapping --------------------------
(* CommandMapping for TLC: one switch, one contact, some events, and        *)
(* every file of at most MaxLines of the lines below.                       *)
EXTENDS CommandMapping

CONSTANTS MaxLines, switch, contact

\* Stands for -2147483648, far below every other value of the files.
IntMin == -1000

Bridge(set) == [kind |-> "bridge", set |-> set]
Map(id, button, value) == [kind |-> "map", id |-> id, button |-> button, value |-> value]

Lines ==
  {Bridge({2}), Bridge({1, 2}), [kind |-> "bad"],
   Map(switch, 0, -1), Map(switch, 1, 30), Map(switch, 1, 20), Map(switch, 2, 25),
   Map(switch, -1, 30), Map(switch, -2, 10), Map(switch, -3, 40), Map(switch, -4, 1),
   Map(switch, 1, 0), Map(contact, 0, 7), Map(contact, 1, 8)}

DocumentedFiles == UNION {[1 .. n -> Lines] : n \in 0 .. MaxLines}

Telegram(type, sender, state) ==
  [packet |-> RADIO_ERP1, type |-> type, sender |-> sender, state |-> state]

\* Buttons 1, 2 and 5, a release, and three buttons at once; a contact opening
\* and closing; a telegram of another kind and an answer of the receiver.
AllEvents ==
  {Telegram(SWITCH, switch, state) : state \in {0, 16, 48, 55, 49}}
  \union {Telegram(CONTACT, contact, state) : state \in {8, 9}}
  \union {Telegram(165, switch, 48),
           [packet |-> 2, type |-> SWITCH, sender |-> switch, state |-> 48]}
=============================================================================
