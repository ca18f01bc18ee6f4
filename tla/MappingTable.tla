---------------------------- MODULE MappingTable ----------------------------
(***************************************************************************)
(* command_mapping: what add_mapping() adds to the table for one line of a *)
(* mapping file, and what map() answers to an event.  Pure operators.      *)
(***************************************************************************)
EXTENDS Integers, Sequences

CONSTANTS
  MaxButton,   \* 8 in the code
  RELEASE      \* numeric_limits<int32_t>::min(), here any number below all others

ASSUME TableAssumption ==
  /\ MaxButton \in Nat \ {0}
  /\ RELEASE \in Int
  /\ RELEASE < -MaxButton - 3

-----------------------------------------------------------------------------
(* Events.  An event is [packet, type, sender, state]: the packet type, the *)
(* type of radio telegram, who sent it, and its byte of buttons or contact. *)

RADIO_ERP1 == 1
SWITCH == 246    \* 0xf6
CONTACT == 213   \* 0xd5

\* button_id(): top left and bottom left, top right and bottom right, both top,
\* both bottom, and the two diagonals.  Everything else is like a release.
ButtonCodes == <<48, 16, 112, 80, 55, 21, 53, 23>>

ButtonId(state) ==
  IF \E n \in 1 .. 8 : ButtonCodes[n] = state
  THEN CHOOSE n \in 1 .. 8 : ButtonCodes[n] = state
  ELSE 0

IsClosed(state) == state % 2 = 1
-----------------------------------------------------------------------------
(* Loading.                                                                *)

\* add_mapping()'s test of the value, at every level of its recursion.
ValidValue(button, value) ==
  value > 0 \/ value = RELEASE \/ (value = -1 /\ button = 0)

ValidButton(button) == button >= -3 /\ button <= MaxButton

\* Mutant: the release value -1 is stored as it is.
EntriesKeepMinusOne(button, value) ==
  IF button >= 0
  THEN {<<button, value>>}
  ELSE {<<b, value + b>> : b \in (IF button = -2 THEN 0 ELSE 1) .. MaxButton}
       \union (IF button = -3 THEN {<<0, RELEASE>>} ELSE {})

\* The (button, value) entries one call of add_mapping() stands for.
Entries(button, value) ==
  IF button >= 0
  THEN {<<button, IF button = 0 /\ value = -1 THEN RELEASE ELSE value>>}
  ELSE {<<b, value + b>> : b \in (IF button = -2 THEN 0 ELSE 1) .. MaxButton}
       \union (IF button = -3 THEN {<<0, RELEASE>>} ELSE {})

\* No level of add_mapping() throws.
Accepted(button, value) ==
  /\ ValidButton(button) /\ ValidValue(button, value)
  /\ \A e \in Entries(button, value) : ValidValue(e[1], e[2])

EmptyTable == [key \in {} |-> <<>>]

\* Mutant: a later line replaces an earlier one (operator[] for emplace).
AddMappingReplaces(table, id, button, value, set) ==
  LET new == {e[1] : e \in Entries(button, value)}
      valueOf(b) == (CHOOSE e \in Entries(button, value) : e[1] = b)[2]
  IN  [key \in {<<id, b>> : b \in new} \union DOMAIN table |->
         IF key[1] = id /\ key[2] \in new THEN <<valueOf(key[2]), set>> ELSE table[key]]

\* add_mapping(): emplace does not replace what an earlier line has put there.
AddMapping(table, id, button, value, set) ==
  LET new == {e[1] : e \in Entries(button, value)}
      valueOf(b) == (CHOOSE e \in Entries(button, value) : e[1] = b)[2]
  IN  [key \in {<<id, b>> : b \in new} \union DOMAIN table |->
         IF key \in DOMAIN table THEN table[key] ELSE <<valueOf(key[2]), set>>]

-----------------------------------------------------------------------------
(* Mapping.                                                                *)

NotMapped == [value |-> 0, set |-> {}]

\* Mutant: a released button is not forgotten.
MapSwitchKeepsLast(table, last, id, button) ==
  IF <<id, button>> \notin DOMAIN table
  THEN [out |-> NotMapped, last |-> last[id]]
  ELSE LET m == table[<<id, button>>]
       IN  IF m[1] = RELEASE
           THEN [out |-> [value |-> -last[id], set |-> m[2]], last |-> last[id]]
           ELSE [out |-> [value |-> m[1], set |-> m[2]], last |-> m[1]]

\* Mutant: the negated command is what is kept.
MapSwitchStoresEcho(table, last, id, button) ==
  IF <<id, button>> \notin DOMAIN table
  THEN [out |-> NotMapped, last |-> last[id]]
  ELSE LET m == table[<<id, button>>]
       IN  IF m[1] = RELEASE
           THEN [out |-> [value |-> -last[id], set |-> m[2]], last |-> -last[id]]
           ELSE [out |-> [value |-> m[1], set |-> m[2]], last |-> m[1]]

\* map() of a switch event: the command and bridges (0 for none), and the new
\* last_value_ of the switch.
MapSwitch(table, last, id, button) ==
  IF <<id, button>> \notin DOMAIN table
  THEN [out |-> NotMapped, last |-> last[id]]
  ELSE LET m == table[<<id, button>>]
       IN  IF m[1] = RELEASE
           THEN [out |-> [value |-> -last[id], set |-> m[2]], last |-> 0]
           ELSE [out |-> [value |-> m[1], set |-> m[2]], last |-> m[1]]

\* map() of a contact event: the entry as it is.
MapContact(table, id, closed) ==
  LET key == <<id, IF closed THEN 1 ELSE 0>>
  IN  IF key \in DOMAIN table
      THEN [value |-> table[key][1], set |-> table[key][2]]
      ELSE NotMapped

\* map(): other packets and other telegrams are for nobody.
MapEvent(table, last, e) ==
  CASE e.packet = RADIO_ERP1 /\ e.type = SWITCH ->
         MapSwitch(table, last, e.sender, ButtonId(e.state))
    [] e.packet = RADIO_ERP1 /\ e.type = CONTACT ->
         [out |-> MapContact(table, e.sender, IsClosed(e.state)), last |-> last[e.sender]]
    [] OTHER -> [out |-> NotMapped, last |-> last[e.sender]]
=============================================================================
