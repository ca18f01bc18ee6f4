--------------------------- MODULE MCEventFilter ----------------------------
(* EventFilter for TLC: a switch with button release mapped and a button    *)
(* that is not, a switch without release and a contact, all giving the same *)
(* command, for instance all lights off.                                    *)
EXTENDS EventFilter

CONSTANTS withRelease, plain, door

IntMin == -1000

Map(id, button, value) == [kind |-> "map", id |-> id, button |-> button, value |-> value]

MappingFile ==
  <<Map(withRelease, 1, 9), Map(withRelease, 0, -1), Map(plain, 1, 9), Map(door, 1, 9)>>
OneFile == {MappingFile}

Radio(type, sender, state) ==
  [packet |-> RADIO_ERP1, type |-> type, sender |-> sender, state |-> state]

\* Button 1, button 2 and the release; the door is closed.
RadioEvents ==
  {Radio(SWITCH, withRelease, state) : state \in {48, 16, 0}}
  \union {Radio(SWITCH, plain, 48), Radio(CONTACT, door, 9)}
=============================================================================
