-------------------------- MODULE EventFilterProofs -------------------------
(***************************************************************************)
(* Theorems about CommandMapping, for every mapping file and any sequence  *)
(* of telegrams, and about EventFilter, which feeds it with the copies of  *)
(* telegrams and filters what it answers, for any number of receivers.     *)
(***************************************************************************)
EXTENDS EventFilter, FiniteSetTheorems, TLAPS

(* CommandMapping: the inductive invariant.                                *)

\* What the table may hold for a button.
IsCommand(v) == v \in Int /\ (v > 0 \/ v = RELEASE)

Types ==
  /\ file \in Files /\ file \in Seq(Line)
  /\ status \in {"loading", "running", "failed"}
  /\ linesRead \in 0 .. Len(file)
  /\ DOMAIN table \subseteq Ids \X (0 .. MaxButton)
  /\ \A key \in DOMAIN table : IsCommand(table[key][1])
  /\ last \in [Ids -> Nat]
  /\ out \in [Ids -> Seq(Int)]

\* A command that waits to be negated is the last one put out.
LastIsOut ==
  \A id \in Switches : last[id] # 0 =>
    Len(out[id]) > 0 /\ out[id][Len(out[id])] = last[id]

\* FirstLineDecides of the lines read so far.
DecidedAt(n, id, button) ==
  LET covering == {k \in 1 .. n : Covers(file[k], id, button)}
      key == <<id, button>>
  IN  IF covering = {} THEN key \notin DOMAIN table
      ELSE /\ key \in DOMAIN table
           /\ \E k \in covering :
                /\ \A j \in covering : k <= j
                /\ table[key] = <<ValueFor(file[k], button), BridgesAt(k)>>

LinesDecide ==
  /\ status = "running" => linesRead = Len(file)
  /\ status = "loading" => bridgeSet = BridgesAt(linesRead)
  /\ status # "failed" => \A id \in Ids, button \in 0 .. MaxButton : DecidedAt(linesRead, id, button)

IInv == Types /\ LastIsOut /\ EchoAnswersPress /\ LinesDecide
-----------------------------------------------------------------------------
(* Lines.                                                                  *)

LEMMA MapLineFields ==
  ASSUME NEW line \in Line, line.kind = "map"
  PROVE  line.id \in Ids /\ line.button \in Int /\ line.value \in Int
BY DEF Line

\* What an accepted line adds is a command for a button of the switch.
LEMMA EntriesAreCommands ==
  ASSUME NEW button \in Int, NEW value \in Int, Accepted(button, value),
         NEW e \in Entries(button, value)
  PROVE  e[1] \in 0 .. MaxButton /\ IsCommand(e[2])
<1>1. /\ MaxButton \in Nat /\ MaxButton >= 1 /\ RELEASE \in Int /\ RELEASE < -MaxButton - 3
      /\ button >= -3 /\ button <= MaxButton
  BY TableAssumption DEF Accepted, ValidButton
<1>2. ValidValue(e[1], e[2]) /\ ValidValue(button, value)
  BY DEF Accepted
<1>3. CASE button >= 0
  <2>1. e = <<button, IF button = 0 /\ value = -1 THEN RELEASE ELSE value>>
    BY <1>3 DEF Entries
  <2>2. CASE button = 0 /\ value = -1
    BY <1>1, <2>1, <2>2 DEF IsCommand
  <2>3. CASE ~(button = 0 /\ value = -1)
    <3>1. e[1] = button /\ e[2] = value
      BY <2>1, <2>3
    <3> QED
      BY <1>1, <1>2, <1>3, <2>3, <3>1 DEF IsCommand, ValidValue
  <2> QED
    BY <2>2, <2>3
<1>4. CASE button < 0
  <2>1. CASE e = <<0, RELEASE>>
    BY <1>1, <2>1 DEF IsCommand
  <2>2. CASE \E b \in (IF button = -2 THEN 0 ELSE 1) .. MaxButton : e = <<b, value + b>>
    <3>1. PICK b \in (IF button = -2 THEN 0 ELSE 1) .. MaxButton : e = <<b, value + b>>
      BY <2>2
    <3>2. b \in 0 .. MaxButton /\ e[1] = b /\ e[2] = value + b
      BY <1>1, <3>1
    <3>3. value > 0 \/ value = RELEASE
      BY <1>2, <1>4 DEF ValidValue
    <3>4. value + b # -1
      BY <1>1, <3>2, <3>3
    <3> QED
      BY <1>2, <3>2, <3>4 DEF IsCommand, ValidValue
  <2>3. \/ e = <<0, RELEASE>>
        \/ \E b \in (IF button = -2 THEN 0 ELSE 1) .. MaxButton : e = <<b, value + b>>
    BY <1>4 DEF Entries
  <2> QED
    BY <2>1, <2>2, <2>3
<1> QED
  BY <1>3, <1>4

\* The entries of a line are the buttons it covers, each with its value.
LEMMA EntriesCover ==
  ASSUME NEW line \in Line, line.kind = "map", Accepted(line.button, line.value),
         NEW b \in 0 .. MaxButton
  PROVE  /\ Covers(line, line.id, b) <=> \E e \in Entries(line.button, line.value) : e[1] = b
         /\ \A e \in Entries(line.button, line.value) : e[1] = b => e[2] = ValueFor(line, b)
<1> DEFINE button == line.button
           value == line.value
<1>1. /\ MaxButton \in Nat /\ MaxButton >= 1 /\ button \in Int /\ value \in Int
      /\ button >= -3 /\ button <= MaxButton
  BY TableAssumption, MapLineFields DEF Accepted, ValidButton
<1>2. ValidValue(button, value)
  BY DEF Accepted
<1>3. Covers(line, line.id, b) <=>
        \/ button = b
        \/ button \in {-1, -3} /\ b >= 1
        \/ button = -2
        \/ button = -3 /\ b = 0
  BY DEF Covers
<1>4. ValueFor(line, b) = IF b = 0 /\ (button = -3 \/ value = -1) THEN RELEASE
                          ELSE IF button < 0 THEN value + b ELSE value
  BY DEF ValueFor
<1> HIDE DEF button, value
<1>5. CASE button >= 0
  <2>1. Entries(button, value) = {<<button, IF button = 0 /\ value = -1 THEN RELEASE ELSE value>>}
    BY <1>5 DEF Entries
  <2>2. Covers(line, line.id, b) <=> button = b
    BY <1>1, <1>3, <1>5
  <2>3. \A e \in Entries(button, value) : e[1] = button /\ (b = button => e[2] = ValueFor(line, b))
    BY <1>1, <1>4, <1>5, <2>1
  <2>4. \E e \in Entries(button, value) : e[1] = button
    BY <2>1
  <2> QED
    BY <2>2, <2>3, <2>4 DEF button, value
<1>6. CASE button < 0
  <2>1. value # -1 /\ (button = -1 \/ button = -2 \/ button = -3)
    BY <1>1, <1>2, <1>6, TableAssumption DEF ValidValue
  <2> DEFINE first == IF button = -2 THEN 0 ELSE 1
  <2>2. Entries(button, value) = {<<c, value + c>> : c \in first .. MaxButton}
                                 \union (IF button = -3 THEN {<<0, RELEASE>>} ELSE {})
    <3>1. ~(button >= 0)
      BY <1>1, <1>6
    <3> QED
      BY <3>1 DEF Entries
  <2>3. ASSUME NEW e \in Entries(button, value), e[1] = b
        PROVE  e[2] = ValueFor(line, b) /\ Covers(line, line.id, b)
    <3>1. CASE \E c \in first .. MaxButton : e = <<c, value + c>>
      <4>1. PICK c \in first .. MaxButton : e = <<c, value + c>>
        BY <3>1
      <4>2. c = b /\ e[2] = value + b
        BY <2>3, <4>1
      <4> QED
        BY <1>1, <1>3, <1>4, <1>6, <2>1, <4>1, <4>2
    <3>2. CASE button = -3 /\ e = <<0, RELEASE>>
      BY <1>3, <1>4, <2>3, <3>2
    <3> QED
      BY <2>2, <3>1, <3>2
  <2>4. ASSUME Covers(line, line.id, b)
        PROVE  \E e \in Entries(button, value) : e[1] = b
    <3>1. CASE b = 0 /\ button = -3
      <4>1. <<0, RELEASE>> \in Entries(button, value)
        BY <2>2, <3>1
      <4> QED
        BY <3>1, <4>1
    <3>2. CASE ~(b = 0 /\ button = -3)
      <4>1. b \in first .. MaxButton
        BY <1>1, <1>3, <1>6, <2>1, <2>4, <3>2
      <4>2. <<b, value + b>> \in Entries(button, value)
        BY <2>2, <4>1
      <4> QED
        BY <4>2
    <3> QED
      BY <3>1, <3>2
  <2> QED
    BY <2>3, <2>4 DEF button, value
<1> QED
  BY <1>1, <1>5, <1>6

\* What add_mapping() makes of table t: the new one has the entries of t, and for
\* each button that the line covers and that has none, the one of the line.
IsAdded(line, t, set, new) ==
  /\ \A key \in DOMAIN t : key \in DOMAIN new /\ new[key] = t[key]
  /\ \A key \in DOMAIN new : key \notin DOMAIN t =>
       \E b \in 0 .. MaxButton :
         /\ key = <<line.id, b>> /\ Covers(line, line.id, b)
         /\ new[key] = <<ValueFor(line, b), set>> /\ IsCommand(ValueFor(line, b))
  /\ \A b \in 0 .. MaxButton : Covers(line, line.id, b) => <<line.id, b>> \in DOMAIN new

LEMMA MappingAdded ==
  ASSUME NEW line \in Line, line.kind = "map", Accepted(line.button, line.value),
         NEW t, NEW set
  PROVE  IsAdded(line, t, set, AddMapping(t, line.id, line.button, line.value, set))
<1> DEFINE E == Entries(line.button, line.value)
           B == {e[1] : e \in E}
           valueOf(b) == (CHOOSE e \in E : e[1] = b)[2]
           new == AddMapping(t, line.id, line.button, line.value, set)
<1>1. new = [key \in {<<line.id, b>> : b \in B} \union DOMAIN t |->
               IF key \in DOMAIN t THEN t[key] ELSE <<valueOf(key[2]), set>>]
  BY DEF AddMapping
<1>2. ASSUME NEW b \in B
      PROVE  /\ b \in 0 .. MaxButton /\ Covers(line, line.id, b)
             /\ valueOf(b) = ValueFor(line, b) /\ IsCommand(ValueFor(line, b))
  <2>1. PICK e \in E : e[1] = b
    BY <1>2
  <2>2. b \in 0 .. MaxButton
    BY <2>1, MapLineFields, EntriesAreCommands
  <2> DEFINE f == CHOOSE g \in E : g[1] = b
  <2>3. f \in E /\ f[1] = b
    BY <2>1
  <2>4. valueOf(b) = f[2]
    OBVIOUS
  <2> HIDE DEF f, valueOf, E
  <2>5. f[2] = ValueFor(line, b) /\ Covers(line, line.id, b)
    BY <2>1, <2>2, <2>3, EntriesCover DEF E
  <2>6. IsCommand(f[2])
    BY <2>3, MapLineFields, EntriesAreCommands DEF E
  <2> QED
    BY <2>2, <2>4, <2>5, <2>6
<1>3. ASSUME NEW b \in 0 .. MaxButton, Covers(line, line.id, b)
      PROVE  b \in B
  BY <1>3, EntriesCover
<1> HIDE DEF B, E, valueOf, new
<1>4. ASSUME NEW key \in DOMAIN t PROVE key \in DOMAIN new /\ new[key] = t[key]
  BY <1>1
<1>5. ASSUME NEW key \in DOMAIN new, key \notin DOMAIN t
      PROVE  \E b \in 0 .. MaxButton :
               /\ key = <<line.id, b>> /\ Covers(line, line.id, b)
               /\ new[key] = <<ValueFor(line, b), set>> /\ IsCommand(ValueFor(line, b))
  <2>1. PICK b \in B : key = <<line.id, b>>
    BY <1>1, <1>5
  <2>2. new[key] = <<valueOf(b), set>>
    BY <1>1, <1>5, <2>1
  <2> QED
    BY <1>2, <2>1, <2>2
<1>6. ASSUME NEW b \in 0 .. MaxButton, Covers(line, line.id, b)
      PROVE  <<line.id, b>> \in DOMAIN new
  BY <1>1, <1>3, <1>6
<1> QED
  BY <1>4, <1>5, <1>6 DEF IsAdded, new
-----------------------------------------------------------------------------
(* The invariant: it holds initially, and each step keeps it.              *)

LEMMA InitIInv == Init => IInv
<1> SUFFICES ASSUME Init PROVE IInv
  OBVIOUS
<1>1. file \in Files /\ file \in Seq(Line) /\ linesRead = 0 /\ linesRead \in 0 .. Len(file)
  BY MappingAssumption DEF Init
<1>2. DOMAIN table = {}
  BY DEF Init, EmptyTable
<1>3. last \in [Ids -> Nat] /\ out \in [Ids -> Seq(Int)]
  BY DEF Init
<1>4. Types
  BY <1>1, <1>2, <1>3 DEF Types, Init
<1>5. \A id \in Switches : last[id] = 0 /\ out[id] = <<>>
  BY DEF Init, Ids
<1>6. LastIsOut /\ EchoAnswersPress
  BY <1>5 DEF LastIsOut, EchoAnswersPress
<1>7. LinesDecide
  <2>1. \A id \in Ids, button \in 0 .. MaxButton : DecidedAt(linesRead, id, button)
    BY <1>1, <1>2 DEF DecidedAt
  <2>2. {k \in 1 .. linesRead : file[k].kind = "bridge"} = {}
    BY <1>1
  <2>3. BridgesAt(linesRead) = {1}
    BY <2>2 DEF BridgesAt
  <2> QED
    BY <2>1, <2>3 DEF LinesDecide, Init
<1> QED
  BY <1>4, <1>6, <1>7 DEF IInv

\* The bridges that a line is for, from those of the line before it.
LEMMA BridgesOfNext ==
  ASSUME NEW n \in Nat
  PROVE  BridgesAt(n + 1) = IF file[n + 1].kind = "bridge" THEN file[n + 1].set ELSE BridgesAt(n)
<1> DEFINE above(m) == {k \in 1 .. m : file[k].kind = "bridge"}
<1>1. CASE file[n + 1].kind = "bridge"
  <2>1. n + 1 \in above(n + 1) /\ \A j \in above(n + 1) : j <= n + 1
    BY <1>1
  <2>2. \A k \in above(n + 1) : (\A j \in above(n + 1) : j <= k) => k = n + 1
    BY <2>1
  <2>3. (CHOOSE k \in above(n + 1) : \A j \in above(n + 1) : j <= k) = n + 1
    BY <2>1, <2>2
  <2> QED
    BY <1>1, <2>1, <2>3 DEF BridgesAt
<1>2. CASE file[n + 1].kind # "bridge"
  <2>1. above(n + 1) = above(n)
    BY <1>2
  <2> DEFINE Nearest(A) ==
        IF A = {} THEN {1} ELSE file[CHOOSE k \in A : \A j \in A : j <= k].set
  <2>2. BridgesAt(n + 1) = Nearest(above(n + 1)) /\ BridgesAt(n) = Nearest(above(n))
    BY DEF BridgesAt
  <2> HIDE DEF above, Nearest
  <2>3. BridgesAt(n + 1) = BridgesAt(n)
    BY <2>1, <2>2
  <2> QED
    BY <1>2, <2>3
<1> QED
  BY <1>1, <1>2

\* A line that covers a button decides it unless an earlier one has done so.
LEMMA LineDecides ==
  ASSUME Types, LinesDecide, status = "loading", linesRead < Len(file), LoadLine,
         file[linesRead + 1].kind = "map",
         Accepted(file[linesRead + 1].button, file[linesRead + 1].value),
         NEW id \in Ids, NEW button \in 0 .. MaxButton
  PROVE  DecidedAt(linesRead, id, button)'
<1> DEFINE n == linesRead + 1
           line == file[n]
           key == <<id, button>>
           covering(m) == {k \in 1 .. m : Covers(file[k], id, button)}
<1>1. /\ n \in 1 .. Len(file) /\ n \in Nat /\ linesRead \in Nat /\ line \in Line
      /\ file' = file /\ linesRead' = linesRead + 1
      /\ table' = AddMapping(table, line.id, line.button, line.value, bridgeSet)
  BY DEF Types, LoadLine
<1>2. IsAdded(line, table, bridgeSet, table')
  BY <1>1, MappingAdded
<1>3. bridgeSet = BridgesAt(n)
  BY <1>1, BridgesOfNext DEF LinesDecide
<1>4. DecidedAt(linesRead, id, button)
  BY DEF LinesDecide
<1>5. /\ covering(n) = covering(linesRead) \union (IF Covers(line, id, button) THEN {n} ELSE {})
      /\ \A k \in covering(linesRead) : k < n
  BY <1>1
<1>6. \A m : DecidedAt(m, id, button) <=>
        IF covering(m) = {} THEN key \notin DOMAIN table
        ELSE /\ key \in DOMAIN table
             /\ \E k \in covering(m) :
                  /\ \A j \in covering(m) : k <= j
                  /\ table[key] = <<ValueFor(file[k], button), BridgesAt(k)>>
  BY DEF DecidedAt
<1>7. DecidedAt(linesRead, id, button)' <=>
        IF covering(n) = {} THEN key \notin DOMAIN table'
        ELSE /\ key \in DOMAIN table'
             /\ \E k \in covering(n) :
                  /\ \A j \in covering(n) : k <= j
                  /\ table'[key] = <<ValueFor(file[k], button), BridgesAt(k)>>
  <2>1. \A k : BridgesAt(k)' = BridgesAt(k)
    BY <1>1 DEF BridgesAt
  <2>2. DecidedAt(linesRead, id, button)' <=>
          LET c == {k \in 1 .. linesRead' : Covers(file[k], id, button)}
          IN  IF c = {} THEN key \notin DOMAIN table'
              ELSE /\ key \in DOMAIN table'
                   /\ \E k \in c :
                        /\ \A j \in c : k <= j
                        /\ table'[key] = <<ValueFor(file[k], button), BridgesAt(k)>>
    BY <1>1, <2>1 DEF DecidedAt
  <2> QED
    BY <1>1, <2>2

<1> HIDE DEF covering
<1>8. CASE covering(linesRead) # {}
  <2>1. covering(n) # {} /\ key \in DOMAIN table /\ key \in DOMAIN table' /\ table'[key] = table[key]
    BY <1>2, <1>4, <1>5, <1>6, <1>8 DEF IsAdded
  <2>2. PICK k \in covering(linesRead) :
          /\ \A j \in covering(linesRead) : k <= j
          /\ table[key] = <<ValueFor(file[k], button), BridgesAt(k)>>
    BY <1>4, <1>6, <1>8
  <2>3. k \in covering(n) /\ \A j \in covering(n) : k <= j
    <3>1. k < n /\ k \in Int
      BY <1>5, <2>2 DEF covering
    <3> QED
      BY <1>1, <1>5, <2>2, <3>1
  <2> QED
    BY <1>7, <2>1, <2>2, <2>3
<1>9. CASE covering(linesRead) = {} /\ Covers(line, id, button)
  <2>1. covering(n) = {n} /\ key \notin DOMAIN table /\ line.id = id
    BY <1>4, <1>5, <1>6, <1>9 DEF Covers
  <2>2. key \in DOMAIN table'
    BY <1>2, <1>9, <2>1 DEF IsAdded
  <2>3. PICK b \in 0 .. MaxButton : /\ key = <<line.id, b>>
                                    /\ table'[key] = <<ValueFor(line, b), bridgeSet>>
    BY <1>2, <2>1, <2>2 DEF IsAdded
  <2>4. table'[key] = <<ValueFor(line, button), BridgesAt(n)>>
    BY <1>3, <2>3
  <2> QED
    BY <1>1, <1>7, <2>1, <2>2, <2>4
<1>10. CASE covering(linesRead) = {} /\ ~Covers(line, id, button)
  <2>1. covering(n) = {} /\ key \notin DOMAIN table
    BY <1>4, <1>5, <1>6, <1>10
  <2>2. key \notin DOMAIN table'
    <3> SUFFICES ASSUME key \in DOMAIN table' PROVE FALSE
      OBVIOUS
    <3>1. PICK b \in 0 .. MaxButton : key = <<line.id, b>> /\ Covers(line, line.id, b)
      BY <1>2, <2>1 DEF IsAdded
    <3>2. line.id = id /\ b = button
      BY <3>1
    <3> QED
      BY <1>10, <3>1, <3>2
  <2> QED
    BY <1>7, <2>1, <2>2
<1> QED
  BY <1>8, <1>9, <1>10

LEMMA LoadLineStep == IInv /\ LoadLine => IInv'
<1> SUFFICES ASSUME IInv, LoadLine PROVE IInv'
  OBVIOUS
<1> USE DEF IInv
<1> DEFINE line == file[linesRead + 1]
<1>1. /\ status = "loading" /\ linesRead < Len(file) /\ linesRead' = linesRead + 1
      /\ file' = file /\ last' = last /\ out' = out
  BY DEF LoadLine
<1>2. linesRead + 1 \in 1 .. Len(file) /\ linesRead \in Nat /\ line \in Line
      /\ linesRead' \in 0 .. Len(file)
  BY <1>1 DEF Types
<1>3. LastIsOut' /\ EchoAnswersPress'
  BY <1>1 DEF LastIsOut, EchoAnswersPress
<1>4. \A k : BridgesAt(k)' = BridgesAt(k)
  BY <1>1 DEF BridgesAt
<1>5. BridgesAt(linesRead)' = BridgesAt(linesRead + 1)
  BY <1>1, <1>4
<1>6. BridgesAt(linesRead + 1) = IF line.kind = "bridge" THEN line.set ELSE bridgeSet
  BY <1>1, <1>2, BridgesOfNext DEF LinesDecide
<1>7. CASE line.kind = "map" /\ Accepted(line.button, line.value)
  <2>1. /\ table' = AddMapping(table, line.id, line.button, line.value, bridgeSet)
        /\ UNCHANGED <<status, bridgeSet>>
    BY <1>7 DEF LoadLine
  <2>2. \A id \in Ids, button \in 0 .. MaxButton : DecidedAt(linesRead, id, button)'
    BY <1>1, <1>7, LineDecides
  <2>3. LinesDecide'
    BY <1>1, <1>5, <1>6, <1>7, <2>1, <2>2 DEF LinesDecide
  <2>4. /\ DOMAIN table' \subseteq Ids \X (0 .. MaxButton)
        /\ \A key \in DOMAIN table' : IsCommand(table'[key][1])
    <3>2. IsAdded(line, table, bridgeSet, table')
      BY <1>2, <1>7, <2>1, MappingAdded
    <3> HIDE DEF line
    <3>1. ASSUME NEW key \in DOMAIN table'
          PROVE  key \in Ids \X (0 .. MaxButton) /\ IsCommand(table'[key][1])
      <4>1. CASE key \in DOMAIN table
        <5>1. table'[key] = table[key]
          BY <3>2, <4>1 DEF IsAdded
        <5> QED
          BY <4>1, <5>1 DEF Types
      <4>2. CASE key \notin DOMAIN table
        <5>1. PICK b \in 0 .. MaxButton :
                /\ key = <<line.id, b>>
                /\ table'[key] = <<ValueFor(line, b), bridgeSet>> /\ IsCommand(ValueFor(line, b))
          BY <3>2, <4>2 DEF IsAdded
        <5> QED
          BY <1>2, <1>7, <5>1, MapLineFields
      <4> QED
        BY <4>1, <4>2
    <3> QED
      BY <3>1
  <2>5. Types'
    BY <1>1, <1>2, <2>1, <2>4 DEF Types
  <2> QED
    BY <1>3, <2>3, <2>5
<1>8. CASE line.kind = "bridge"
  <2>1. bridgeSet' = line.set /\ UNCHANGED <<status, table>>
    BY <1>8 DEF LoadLine
  <2>2. Types'
    BY <1>1, <1>2, <2>1 DEF Types
  <2>3. ASSUME NEW id \in Ids, NEW button \in 0 .. MaxButton
        PROVE  DecidedAt(linesRead, id, button)'
    <3>1. ~Covers(line, id, button)
      BY <1>8 DEF Covers
    <3>2. {k \in 1 .. linesRead + 1 : Covers(file[k], id, button)}
          = {k \in 1 .. linesRead : Covers(file[k], id, button)}
      BY <1>2, <3>1
    <3>3. DecidedAt(linesRead, id, button)
      BY <1>1 DEF LinesDecide
    <3> QED
      BY <1>1, <1>4, <2>1, <3>2, <3>3 DEF DecidedAt
  <2>4. LinesDecide'
    BY <1>1, <1>5, <1>6, <1>8, <2>1, <2>3 DEF LinesDecide
  <2> QED
    BY <1>3, <2>2, <2>4
<1>9. CASE ~(line.kind = "map" /\ Accepted(line.button, line.value)) /\ line.kind # "bridge"
  <2>1. status' = "failed" /\ UNCHANGED <<table, bridgeSet>>
    BY <1>9 DEF LoadLine
  <2>2. Types'
    BY <1>1, <1>2, <2>1 DEF Types
  <2>3. LinesDecide'
    BY <2>1 DEF LinesDecide
  <2> QED
    BY <1>3, <2>2, <2>3
<1> QED
  BY <1>7, <1>8, <1>9

LEMMA EndOfFileStep == IInv /\ EndOfFile => IInv'
<1> SUFFICES ASSUME IInv, EndOfFile PROVE IInv'
  OBVIOUS
<1> USE DEF IInv
<1>1. /\ status = "loading" /\ linesRead = Len(file) /\ status' = "running"
      /\ UNCHANGED <<file, linesRead, bridgeSet, table, last, out>>
  BY DEF EndOfFile
<1>2. Types' /\ LastIsOut' /\ EchoAnswersPress'
  BY <1>1 DEF Types, LastIsOut, EchoAnswersPress
<1>3. \A k : BridgesAt(k)' = BridgesAt(k)
  BY <1>1 DEF BridgesAt
<1>4. ASSUME NEW id \in Ids, NEW button \in 0 .. MaxButton
      PROVE  DecidedAt(linesRead, id, button)'
  <2>1. DecidedAt(linesRead, id, button)
    BY <1>1 DEF LinesDecide
  <2> QED
    BY <1>1, <1>3, <2>1 DEF DecidedAt
<1>5. LinesDecide'
  BY <1>1, <1>4 DEF LinesDecide
<1> QED
  BY <1>2, <1>5

\* map() of a switch: no command, the one of a press, which it keeps, or the one
\* kept with the other sign.
IsSwitchAnswer(r, kept) ==
  \/ r.out.value = 0 /\ r.last = kept
  \/ r.out.value > 0 /\ r.last = r.out.value
  \/ r.out.value = -kept /\ kept # 0 /\ r.last = 0

LEMMA SwitchAnswer ==
  ASSUME Types, NEW id \in Ids, NEW button
  PROVE  LET r == MapSwitch(table, last, id, button)
         IN  /\ r.out.value \in Int /\ r.last \in Nat
             /\ IsSwitchAnswer(r, last[id])
<1> DEFINE key == <<id, button>>
           r == MapSwitch(table, last, id, button)
<1>1. last[id] \in Nat
  BY DEF Types
<1>2. CASE key \notin DOMAIN table
  <2>1. r.out.value = 0 /\ r.last = last[id]
    BY <1>2 DEF MapSwitch, NotMapped
  <2> QED
    BY <1>1, <2>1 DEF IsSwitchAnswer
<1>3. CASE key \in DOMAIN table
  <2> DEFINE v == table[key][1]
  <2>1. v \in Int /\ (v > 0 \/ v = RELEASE)
    BY <1>3 DEF Types, IsCommand
  <2>2. CASE v = RELEASE
    <3>1. r.out.value = -last[id] /\ r.last = 0
      BY <1>3, <2>2 DEF MapSwitch
    <3> QED
      BY <1>1, <3>1 DEF IsSwitchAnswer
  <2>3. CASE v # RELEASE
    <3>1. r.out.value = v /\ r.last = v
      BY <1>3, <2>3 DEF MapSwitch
    <3> HIDE DEF r, v
    <3> QED
      BY <2>1, <2>3, <3>1 DEF IsSwitchAnswer, r, v
  <2> QED
    BY <2>2, <2>3
<1> QED
  BY <1>2, <1>3

LEMMA EventAnswer ==
  ASSUME Types, NEW e \in Events
  PROVE  LET r == MapEvent(table, last, e)
         IN  /\ e.sender \in Ids /\ r.out.value \in Int /\ r.last \in Nat
             /\ e.sender \in Switches => IsSwitchAnswer(r, last[e.sender])
<1> DEFINE r == MapEvent(table, last, e)
           id == e.sender
<1>0. e.sender \in Ids /\ (e.sender \in Switches => e.type # CONTACT)
  BY MappingAssumption, Zenon
<1>1. id \in Ids /\ last[id] \in Nat
  BY <1>0 DEF Types
<1>2. CASE e.packet = RADIO_ERP1 /\ e.type = SWITCH
  <2>1. r = MapSwitch(table, last, id, ButtonId(e.state))
    BY <1>2 DEF MapEvent, SWITCH, CONTACT
  <2> HIDE DEF r, id
  <2>2. r.out.value \in Int /\ r.last \in Nat /\ IsSwitchAnswer(r, last[id])
    BY <1>1, <2>1, SwitchAnswer
  <2> QED
    BY <1>1, <2>2 DEF r, id
<1>3. CASE e.packet = RADIO_ERP1 /\ e.type = CONTACT
  <2>1. id \notin Switches
    BY <1>0, <1>3
  <2>2. r.out = MapContact(table, id, IsClosed(e.state)) /\ r.last = last[id]
    BY <1>3 DEF MapEvent, SWITCH, CONTACT
  <2>3. MapContact(table, id, IsClosed(e.state)).value \in Int
    BY DEF MapContact, NotMapped, Types, IsCommand
  <2> QED
    BY <1>1, <2>1, <2>2, <2>3
<1>4. CASE ~(e.packet = RADIO_ERP1 /\ e.type \in {SWITCH, CONTACT})
  <2>1. r = [out |-> NotMapped, last |-> last[id]]
    BY <1>4 DEF MapEvent
  <2>2. r.out.value = 0 /\ r.last = last[id]
    BY <2>1 DEF NotMapped
  <2> QED
    BY <1>1, <2>2 DEF IsSwitchAnswer
<1> QED
  BY <1>2, <1>3, <1>4

LEMMA EventStep ==
  ASSUME IInv, NEW e \in Events, Event(e)
  PROVE  IInv'
<1> USE DEF IInv
<1> DEFINE r == MapEvent(table, last, e)
           s == e.sender
<1>1. /\ last' = [last EXCEPT ![s] = r.last]
      /\ out' = [out EXCEPT ![s] = Put(s, r.out.value)]
      /\ UNCHANGED <<file, status, linesRead, bridgeSet, table>>
  BY DEF Event
<1>2. /\ s \in Ids /\ r.out.value \in Int /\ r.last \in Nat
      /\ s \in Switches => IsSwitchAnswer(r, last[s])
  BY EventAnswer
<1> HIDE DEF r, s
<1>3. LinesDecide'
  <2>1. \A k : BridgesAt(k)' = BridgesAt(k)
    BY <1>1 DEF BridgesAt
  <2>2. \A n, id, button : DecidedAt(n, id, button)' <=> DecidedAt(n, id, button)
    BY <1>1, <2>1 DEF DecidedAt
  <2> QED
    BY <1>1, <2>1, <2>2 DEF LinesDecide
<1>4. /\ last \in [Ids -> Nat] /\ out \in [Ids -> Seq(Int)]
      /\ \A id \in Ids \ {s} : last'[id] = last[id] /\ out'[id] = out[id]
      /\ last'[s] = r.last /\ out'[s] = Put(s, r.out.value)
      /\ out[s] \in Seq(Int) /\ Switches \subseteq Ids
  BY <1>1, <1>2 DEF Types, Ids
<1>5. Put(s, r.out.value) \in Seq(Int)
  BY <1>2, <1>4 DEF Put
<1>6. Types'
  <2>1. last' \in [Ids -> Nat]
    BY <1>1, <1>2, <1>4
  <2>2. out' \in [Ids -> Seq(Int)]
    BY <1>1, <1>2, <1>4, <1>5
  <2> QED
    BY <1>1, <2>1, <2>2 DEF Types
<1>7. ASSUME s \in Switches
      PROVE  /\ last'[s] # 0 => Len(out'[s]) > 0 /\ out'[s][Len(out'[s])] = last'[s]
             /\ \A n \in 1 .. Len(out'[s]) :
                  out'[s][n] < 0 => n > 1 /\ out'[s][n - 1] = -out'[s][n]
  <2>1. /\ last[s] # 0 => Len(out[s]) > 0 /\ out[s][Len(out[s])] = last[s]
        /\ \A n \in 1 .. Len(out[s]) : out[s][n] < 0 => n > 1 /\ out[s][n - 1] = -out[s][n]
    BY <1>7 DEF LastIsOut, EchoAnswersPress
  <2>2. last[s] \in Nat
    BY <1>2, <1>4
  <2>3. CASE r.out.value = 0
    <3>1. out'[s] = out[s] /\ last'[s] = last[s]
      BY <1>2, <1>4, <1>7, <2>2, <2>3 DEF Put, IsSwitchAnswer
    <3> QED
      BY <2>1, <3>1
  <2>4. CASE r.out.value # 0
    <3>1. out'[s] = Append(out[s], r.out.value)
      BY <1>4, <2>4 DEF Put
    <3>2. /\ Len(out'[s]) = Len(out[s]) + 1 /\ out'[s][Len(out[s]) + 1] = r.out.value
          /\ \A n \in 1 .. Len(out[s]) : out'[s][n] = out[s][n]
          /\ Len(out[s]) \in Nat
      BY <1>2, <1>4, <3>1
    <3>3. \/ r.out.value > 0 /\ last'[s] = r.out.value
          \/ r.out.value = -last[s] /\ last[s] # 0 /\ last'[s] = 0
      BY <1>2, <1>4, <1>7, <2>4 DEF IsSwitchAnswer
    <3>4. last'[s] # 0 => Len(out'[s]) > 0 /\ out'[s][Len(out'[s])] = last'[s]
      BY <3>2, <3>3
    <3>5. ASSUME NEW n \in 1 .. Len(out'[s]), out'[s][n] < 0
          PROVE  n > 1 /\ out'[s][n - 1] = -out'[s][n]
      <4>1. CASE n \in 1 .. Len(out[s])
        <5>1. out[s][n] < 0
          BY <3>2, <3>5, <4>1
        <5>2. n > 1 /\ out[s][n - 1] = -out[s][n]
          BY <2>1, <4>1, <5>1
        <5>3. n - 1 \in 1 .. Len(out[s])
          BY <4>1, <5>2
        <5> QED
          BY <3>2, <4>1, <5>2, <5>3
      <4>2. CASE n = Len(out[s]) + 1
        <5>1. r.out.value < 0
          BY <3>2, <3>5, <4>2
        <5>2. r.out.value = -last[s] /\ last[s] # 0
          BY <1>2, <3>3, <5>1
        <5>3. Len(out[s]) \in 1 .. Len(out[s]) /\ out[s][Len(out[s])] = last[s]
          BY <2>1, <3>2, <5>2
        <5>4. n - 1 = Len(out[s]) /\ n > 1
          BY <3>2, <4>2, <5>3
        <5> QED
          BY <1>2, <2>2, <3>2, <4>2, <5>2, <5>3, <5>4
      <4> QED
        BY <3>2, <4>1, <4>2
    <3> QED
      BY <3>4, <3>5
  <2> QED
    BY <2>3, <2>4
<1>8. LastIsOut'
  BY <1>4, <1>7 DEF LastIsOut
<1>9. EchoAnswersPress'
  BY <1>4, <1>7 DEF EchoAnswersPress
<1> QED
  BY <1>3, <1>6, <1>8, <1>9

THEOREM Invariance == Spec => []IInv
<1>1. IInv /\ UNCHANGED vars => IInv'
  <2> SUFFICES ASSUME IInv, UNCHANGED vars PROVE IInv'
    OBVIOUS
  <2>1. \A k : BridgesAt(k)' = BridgesAt(k)
    BY DEF vars, BridgesAt
  <2>2. \A n, id, button : DecidedAt(n, id, button)' <=> DecidedAt(n, id, button)
    BY <2>1 DEF DecidedAt, vars
  <2>3. LinesDecide'
    BY <2>1, <2>2 DEF IInv, LinesDecide, vars
  <2> QED
    BY <2>3 DEF IInv, vars, Types, LastIsOut, EchoAnswersPress
<1>2. IInv /\ [Next]_vars => IInv'
  BY <1>1, LoadLineStep, EndOfFileStep, EventStep DEF Next
<1> QED
  BY <1>2, InitIInv, PTL DEF Spec

\* The types, and that the table holds commands and releases only, no -1.
THEOREM TypeCorrect == Spec => []TypeOK
<1>1. IInv => TypeOK
  <2> SUFFICES ASSUME IInv PROVE TypeOK
    OBVIOUS
  <2>1. ASSUME NEW key \in DOMAIN table
        PROVE  ValidValue(key[2], table[key][1]) /\ table[key][1] # -1
    <3>1. IsCommand(table[key][1])
      BY DEF IInv, Types
    <3> QED
      BY <3>1, TableAssumption DEF IsCommand, ValidValue
  <2>2. \A id \in Ids : last[id] >= 0
    BY DEF IInv, Types
  <2> QED
    BY <2>1, <2>2 DEF IInv, Types, TypeOK
<1> QED
  BY <1>1, Invariance, PTL

\* For any file, the first line that covers a button of a sender decides what the
\* button does, with the bridges named last above that line.
THEOREM TableTheorem == Spec => []FirstLineDecides
<1>1. IInv => FirstLineDecides
  BY DEF IInv, LinesDecide, DecidedAt, FirstLineDecides
<1> QED
  BY <1>1, Invariance, PTL

\* For any file and any loss of telegrams, a negated command comes right after
\* the press it answers.
THEOREM EchoTheorem == Spec => []EchoAnswersPress
BY Invariance, PTL DEF IInv
-----------------------------------------------------------------------------
(* EventFilter: the telegrams and their times.                             *)

Sent ==
  /\ clock \in 0 .. MaxClock
  /\ telegrams \in Seq([event : Events, at : Nat])
  /\ \A n \in 1 .. Len(telegrams) : telegrams[n].at <= clock
  /\ copies \subseteq (1 .. Len(telegrams)) \X Receivers
  /\ heard \subseteq 1 .. Len(telegrams)
  /\ Len(telegrams) > 0 => status = "running"

\* Two telegrams of a sender are apart, and no copy is overdue.
InTime ==
  /\ \A n \in 1 .. Len(telegrams) : \A k \in Before(n) :
       telegrams[n].at - telegrams[k].at >= MinGap
  /\ \A c \in copies : clock - telegrams[c[1]].at <= MaxSkew

RadioInv == Sent /\ InTime

LEMMA TelegramFields ==
  ASSUME Sent, NEW n \in 1 .. Len(telegrams)
  PROVE  telegrams[n].event \in Events /\ telegrams[n].at \in Nat
<1> DEFINE R == [event : Events, at : Nat]
<1>1. telegrams \in Seq(R)
  BY DEF Sent
<1> HIDE DEF R
<1>2. telegrams[n] \in R
  BY <1>1
<1> QED
  BY <1>2 DEF R

\* So a copy on its way is one of the latest telegram of its sender.
LEMMA LatestOfSender ==
  ASSUME RadioInv, NEW c \in copies, NEW n \in 1 .. Len(telegrams), c[1] \in Before(n)
  PROVE  FALSE
<1>1. /\ telegrams[n].at - telegrams[c[1]].at >= MinGap
      /\ clock - telegrams[c[1]].at <= MaxSkew
      /\ telegrams[n].at <= clock
  BY DEF RadioInv, InTime, Sent
<1>2. telegrams[n].at \in Nat /\ telegrams[c[1]].at \in Nat /\ clock \in Nat
  <2>1. c[1] \in 1 .. Len(telegrams)
    BY DEF Before, TelegramsOf
  <2> QED
    BY <2>1, TelegramFields, FilterAssumption DEF RadioInv, Sent
<1> QED
  BY <1>1, <1>2, FilterAssumption

LEMMA RadioInit == FilterInit => RadioInv
<1> SUFFICES ASSUME FilterInit PROVE RadioInv
  OBVIOUS
<1>1. telegrams = <<>> /\ copies = {} /\ heard = {} /\ clock = 0
  BY DEF FilterInit
<1>2. Sent
  BY <1>1, FilterAssumption DEF Sent
<1>3. InTime
  BY <1>1 DEF InTime
<1> QED
  BY <1>2, <1>3 DEF RadioInv

\* What the filter adds leaves the rest of the telegrams as they were.
LEMMA TelegramStep ==
  ASSUME RadioInv, NEW e \in Events, Telegram(e)
  PROVE  /\ RadioInv'
         /\ Len(telegrams') = Len(telegrams) + 1
         /\ \A n \in 1 .. Len(telegrams) : telegrams'[n] = telegrams[n]
<1> DEFINE new == Len(telegrams) + 1
<1>1. /\ status = "running"
      /\ \A n \in TelegramsOf(e.sender) : clock - telegrams[n].at >= MinGap
      /\ telegrams' = Append(telegrams, [event |-> e, at |-> clock])
      /\ copies' = copies \union ({new} \X Receivers)
      /\ status' = status /\ clock' = clock /\ heard' = heard
  BY DEF Telegram, vars
<1>2. clock \in Nat
  BY FilterAssumption DEF RadioInv, Sent
<1>3. /\ Len(telegrams) \in Nat
      /\ Len(telegrams') = new
      /\ telegrams' \in Seq([event : Events, at : Nat])
      /\ \A n \in 1 .. Len(telegrams) : telegrams'[n] = telegrams[n]
      /\ telegrams'[new] = [event |-> e, at |-> clock]
  BY <1>1, <1>2 DEF RadioInv, Sent
<1> HIDE DEF new
<1>4. 1 .. new = 1 .. Len(telegrams) \union {new} /\ new \notin 1 .. Len(telegrams)
  BY <1>3 DEF new
<1>5. \A n \in 1 .. new : telegrams'[n].at <= clock
  BY <1>2, <1>3, <1>4 DEF RadioInv, Sent
<1>6. copies' \subseteq (1 .. new) \X Receivers /\ heard' \subseteq 1 .. new
  BY <1>1, <1>4 DEF RadioInv, Sent
<1>7. Sent'
  BY <1>1, <1>3, <1>5, <1>6 DEF RadioInv, Sent
<1>8. ASSUME NEW n \in 1 .. new, NEW k \in Before(n)'
      PROVE  telegrams'[n].at - telegrams'[k].at >= MinGap
  <2>1. /\ k \in 1 .. new /\ k < n
        /\ telegrams'[k].event.sender = telegrams'[n].event.sender
    BY <1>3, <1>8 DEF Before, TelegramsOf
  <2>2. k \in 1 .. Len(telegrams) /\ telegrams'[k] = telegrams[k]
    BY <1>3, <1>4, <2>1 DEF new
  <2>3. CASE n = new
    <3>1. k \in TelegramsOf(e.sender)
      BY <1>3, <2>1, <2>2, <2>3 DEF TelegramsOf
    <3> QED
      BY <1>1, <1>3, <2>2, <2>3, <3>1
  <2>4. CASE n \in 1 .. Len(telegrams)
    <3>1. k \in Before(n) /\ telegrams'[n] = telegrams[n]
      BY <1>3, <2>1, <2>2, <2>4 DEF Before, TelegramsOf
    <3> QED
      BY <2>2, <2>4, <3>1 DEF RadioInv, InTime
  <2> QED
    BY <1>4, <2>3, <2>4
<1>9. ASSUME NEW c \in copies'
      PROVE  clock - telegrams'[c[1]].at <= MaxSkew
  <2>1. CASE c \in copies
    <3>1. c[1] \in 1 .. Len(telegrams)
      BY <2>1 DEF RadioInv, Sent
    <3> QED
      BY <1>3, <2>1, <3>1 DEF RadioInv, InTime
  <2>2. CASE c \in {new} \X Receivers
    <3>1. telegrams'[c[1]].at = clock
      BY <1>3, <2>2
    <3> QED
      BY <1>2, <3>1, FilterAssumption
  <2> QED
    BY <1>1, <2>1, <2>2
<1>10. InTime'
  BY <1>1, <1>3, <1>8, <1>9 DEF InTime
<1> QED
  BY <1>3, <1>7, <1>10 DEF RadioInv, new

LEMMA RadioStep == RadioInv /\ [FilterNext]_filterVars => RadioInv'
<1> SUFFICES ASSUME RadioInv, [FilterNext]_filterVars PROVE RadioInv'
  OBVIOUS
<1>1. ASSUME UNCHANGED <<telegrams, heard>>, copies' \subseteq copies, UNCHANGED clock,
             Len(telegrams) > 0 => status' = "running"
      PROVE  RadioInv'
  <2>1. Sent'
    BY <1>1 DEF RadioInv, Sent
  <2>2. InTime'
    BY <1>1 DEF RadioInv, InTime, Before, TelegramsOf
  <2> QED
    BY <2>1, <2>2 DEF RadioInv
<1>2. CASE Load
  <2>1. UNCHANGED <<telegrams, heard, copies, clock>>
    BY <1>2 DEF Load, filter
  <2>2. Len(telegrams) = 0 \/ status' = "running"
    <3>1. status # "running"
      BY <1>2 DEF Load, LoadLine, EndOfFile
    <3>2. Len(telegrams) \in Nat
      BY DEF RadioInv, Sent
    <3> QED
      BY <3>1, <3>2 DEF RadioInv, Sent
  <2> QED
    BY <1>1, <2>1, <2>2
<1>3. ASSUME NEW e \in Events, Telegram(e) PROVE RadioInv'
  BY <1>3, TelegramStep
<1>4. ASSUME NEW c \in (1 .. MaxTelegrams) \X Receivers, LoseCopy(c) PROVE RadioInv'
  BY <1>1, <1>4 DEF LoseCopy, vars, RadioInv, Sent
<1>5. ASSUME NEW c \in (1 .. MaxTelegrams) \X Receivers, HandleEvent(c) PROVE RadioInv'
  <2>1. /\ c \in copies /\ copies' = copies \ {c} /\ heard' = heard \union {c[1]}
        /\ UNCHANGED <<clock, telegrams, status>>
    BY <1>5 DEF HandleEvent, Event
  <2>2. Sent'
    BY <2>1 DEF RadioInv, Sent
  <2>3. InTime'
    BY <2>1 DEF RadioInv, InTime, Before, TelegramsOf
  <2> QED
    BY <2>2, <2>3 DEF RadioInv
<1>6. CASE Tick
  <2>1. /\ clock < MaxClock /\ clock' = clock + 1
        /\ \A c \in copies : clock - telegrams[c[1]].at < MaxSkew
        /\ UNCHANGED <<telegrams, copies, heard, status>>
    BY <1>6 DEF Tick, vars
  <2>2. \A n \in 1 .. Len(telegrams) : telegrams[n].at \in Nat
    BY TelegramFields DEF RadioInv
  <2>3. clock \in Nat /\ \A c \in copies : c[1] \in 1 .. Len(telegrams)
    BY FilterAssumption DEF RadioInv, Sent
  <2>4. \A n \in 1 .. Len(telegrams) : telegrams[n].at <= clock'
    BY <2>1, <2>2, <2>3 DEF RadioInv, Sent
  <2>5. \A c \in copies : clock' - telegrams[c[1]].at <= MaxSkew
    BY <2>1, <2>2, <2>3, FilterAssumption
  <2>6. Sent'
    BY <2>1, <2>3, <2>4, FilterAssumption DEF RadioInv, Sent
  <2>7. InTime'
    BY <2>1, <2>5 DEF RadioInv, InTime, Before, TelegramsOf
  <2> QED
    BY <2>6, <2>7 DEF RadioInv
<1>7. CASE UNCHANGED filterVars
  BY <1>1, <1>7 DEF filterVars, filter, vars, RadioInv, Sent
<1> QED
  BY <1>2, <1>3, <1>4, <1>5, <1>6, <1>7 DEF FilterNext

THEOREM RadioInvariance == FilterSpec => []RadioInv
BY RadioInit, RadioStep, PTL DEF FilterSpec

\* The bridge with its filter, its receivers and its clock is a CommandMapping:
\* whatever copies of telegrams do, map() only ever sees events in some order.
THEOREM FilterImplementsMapping == FilterSpec => Spec
<1>1. FilterInit => Init
  BY DEF FilterInit
<1>2. RadioInv /\ [FilterNext]_filterVars => [Next]_vars
  <2> SUFFICES ASSUME RadioInv, [FilterNext]_filterVars PROVE [Next]_vars
    OBVIOUS
  <2>1. CASE Load
    BY <2>1 DEF Load, Next
  <2>2. ASSUME NEW c \in (1 .. MaxTelegrams) \X Receivers, HandleEvent(c) PROVE Next
    <3>1. c \in copies /\ Event(telegrams[c[1]].event)
      BY <2>2 DEF HandleEvent
    <3>2. telegrams[c[1]].event \in Events
      BY <3>1, TelegramFields DEF RadioInv, Sent
    <3> QED
      BY <3>1, <3>2 DEF Next
  <2>3. ASSUME NEW c \in (1 .. MaxTelegrams) \X Receivers, LoseCopy(c) PROVE UNCHANGED vars
    BY <2>3 DEF LoseCopy
  <2>4. ASSUME NEW e \in Events, Telegram(e) PROVE UNCHANGED vars
    BY <2>4 DEF Telegram
  <2>5. CASE Tick
    BY <2>5 DEF Tick
  <2>6. CASE UNCHANGED filterVars
    BY <2>6 DEF filterVars
  <2> QED
    BY <2>1, <2>2, <2>3, <2>4, <2>5, <2>6 DEF FilterNext
<1> QED
  BY <1>1, <1>2, RadioInvariance, PTL DEF FilterSpec, Spec
-----------------------------------------------------------------------------
(* EventFilter: what the table of the filter and last_value_ remember.     *)

Sender(n) == telegrams[n].event.sender

\* The last telegram of a sender that was heard and meant something.
MappedHeard(id) == {n \in heard \intersect TelegramsOf(id) : IsMapped(n)}
IsLastMapped(m, id) == m \in MappedHeard(id) /\ \A n \in MappedHeard(id) : n <= m

Seen ==
  /\ seen \in [Ids -> [ts : Int, id : Int]]
  /\ \A id \in Ids : seen[id].ts \in -1 .. clock

\* map() keeps the command of the last telegram, unless that was a release.
KeptIsHeard ==
  \A id \in Switches :
    /\ last[id] # 0 =>
         \E m \in heard : IsLastMapped(m, id) /\ HasCommand(m) /\ last[id] = Command(m)
    /\ \A m \in heard : IsLastMapped(m, id) /\ HasCommand(m) => last[id] = Command(m)

\* The entry of a sender is the command of the last telegram, and not older.
SeenIsHeard ==
  \A id \in Ids : \A m \in heard :
    IsLastMapped(m, id) /\ HasCommand(m) =>
      seen[id].id = Command(m) /\ seen[id].ts >= telegrams[m].at

\* An entry comes from some telegram, and is hardly younger than it.
SeenIsRecent ==
  \A id \in Ids : seen[id] # NeverSeen =>
    \E m \in MappedHeard(id) :
      /\ seen[id].ts - telegrams[m].at <= MaxSkew
      /\ HasCommand(m) => seen[id].id = Command(m)
      /\ IsRelease(m) => seen[id].id < 0

\* A command is that of a telegram heard, and of each telegram there is one.
PostsAreHeard ==
  /\ posted \in Seq([telegram : Nat, id : Int])
  /\ \A k \in 1 .. Len(posted) : posted[k].telegram \in heard
  /\ \A j, k \in 1 .. Len(posted) : posted[j].telegram = posted[k].telegram => j = k

FilterIInv ==
  /\ RadioInv
  /\ Seen /\ KeptIsHeard /\ SeenIsHeard /\ SeenIsRecent
  /\ PostsAreHeard /\ NoCommandLost /\ EchoAnswersHeard

LEMMA SenderKind ==
  ASSUME Sent, NEW n \in 1 .. Len(telegrams)
  PROVE  /\ Sender(n) \in Ids
         /\ Sender(n) \in Switches => telegrams[n].event.type # CONTACT
         /\ telegrams[n].event.type = SWITCH => Sender(n) \in Switches
<1> DEFINE e == telegrams[n].event
<1>1. e \in Events
  BY TelegramFields
<1> HIDE DEF e
<1>2. /\ e.sender \in Ids
      /\ e.sender \in Switches => e.type # CONTACT
      /\ e.sender \in Contacts => e.type # SWITCH
  BY <1>1, MappingAssumption, Zenon
<1> QED
  BY <1>2 DEF e, Sender, Ids

\* A mapped telegram has a command, positive when it is a switch's, or it is a
\* release.
LEMMA CommandKind ==
  ASSUME Sent, Types, NEW n \in 1 .. Len(telegrams), IsMapped(n)
  PROVE  /\ Command(n) \in Int
         /\ HasCommand(n) => Command(n) # 0
         /\ HasCommand(n) /\ Sender(n) \in Switches => Command(n) > 0
         /\ IsRelease(n) => Sender(n) \in Switches
<1>1. Entry(n) \in DOMAIN table
  BY DEF IsMapped
<1>2. Command(n) \in Int /\ (Command(n) > 0 \/ Command(n) = RELEASE)
  BY <1>1 DEF Types, IsCommand, Command
<1>3. Sender(n) \in Switches => telegrams[n].event.type = SWITCH
  BY SenderKind DEF IsMapped
<1>4. IsRelease(n) => Sender(n) \in Switches
  BY SenderKind DEF IsRelease
<1> QED
  BY <1>2, <1>3, <1>4, TableAssumption DEF HasCommand, IsRelease

\* What map() answers to a copy of telegram n.
LEMMA TelegramAnswer ==
  ASSUME Sent, Types, NEW n \in 1 .. Len(telegrams)
  PROVE  LET r == MapEvent(table, last, telegrams[n].event)
         IN  /\ ~IsMapped(n) => r.out.value = 0 /\ r.last = last[Sender(n)]
             /\ HasCommand(n) => /\ r.out.value = Command(n)
                                 /\ Sender(n) \in Switches => r.last = Command(n)
                                 /\ Sender(n) \notin Switches => r.last = last[Sender(n)]
             /\ IsRelease(n) => r.out.value = -last[Sender(n)] /\ r.last = 0
<1> DEFINE e == telegrams[n].event
           r == MapEvent(table, last, e)
           key == Entry(n)
<1>1. CASE e.packet = RADIO_ERP1 /\ e.type = SWITCH
  <2>1. key = <<e.sender, ButtonId(e.state)>>
    BY <1>1 DEF Entry
  <2>2. r = MapSwitch(table, last, e.sender, ButtonId(e.state))
    BY <1>1 DEF MapEvent, SWITCH, CONTACT
  <2>3. IsMapped(n) <=> key \in DOMAIN table
    BY <1>1 DEF IsMapped
  <2>4. CASE key \notin DOMAIN table
    BY <2>1, <2>2, <2>3, <2>4 DEF MapSwitch, NotMapped, HasCommand, IsRelease, Sender
  <2>5. CASE key \in DOMAIN table /\ table[key][1] = RELEASE
    <3>1. IsRelease(n) /\ IsMapped(n)
      BY <1>1, <2>3, <2>5 DEF IsRelease, Command
    <3>2. r.out.value = -last[e.sender] /\ r.last = 0
      BY <2>1, <2>2, <2>5 DEF MapSwitch
    <3> QED
      BY <3>1, <3>2 DEF HasCommand, Sender
  <2>6. CASE key \in DOMAIN table /\ table[key][1] # RELEASE
    <3>1. HasCommand(n) /\ IsMapped(n) /\ ~IsRelease(n)
      BY <2>3, <2>6 DEF IsRelease, Command, HasCommand
    <3>2. r.out.value = table[key][1] /\ r.last = table[key][1]
      BY <2>1, <2>2, <2>6 DEF MapSwitch
    <3>3. Sender(n) \in Switches
      BY <1>1, SenderKind
    <3> QED
      BY <3>1, <3>2, <3>3 DEF Command
  <2> QED
    BY <2>4, <2>5, <2>6
<1>2. CASE e.packet = RADIO_ERP1 /\ e.type = CONTACT
  <2>1. key = <<e.sender, IF IsClosed(e.state) THEN 1 ELSE 0>> /\ e.type # SWITCH
    BY <1>2 DEF Entry, SWITCH, CONTACT
  <2>2. r = [out |-> MapContact(table, e.sender, IsClosed(e.state)), last |-> last[e.sender]]
    BY <1>2 DEF MapEvent, SWITCH, CONTACT
  <2>3. ~IsRelease(n) /\ Sender(n) \notin Switches
    BY <1>2, <2>1, SenderKind DEF IsRelease
  <2>4. IsMapped(n) <=> key \in DOMAIN table
    BY <1>2 DEF IsMapped
  <2>5. r.out.value = IF key \in DOMAIN table THEN table[key][1] ELSE 0
    BY <2>1, <2>2 DEF MapContact, NotMapped
  <2> QED
    BY <2>2, <2>3, <2>4, <2>5 DEF HasCommand, Command, Sender
<1>3. CASE ~(e.packet = RADIO_ERP1 /\ e.type \in {SWITCH, CONTACT})
  <2>1. r = [out |-> NotMapped, last |-> last[e.sender]]
    BY <1>3 DEF MapEvent
  <2>2. ~IsMapped(n)
    BY <1>3 DEF IsMapped
  <2> QED
    BY <2>1, <2>2 DEF NotMapped, HasCommand, IsRelease, Sender
<1> QED
  BY <1>1, <1>2, <1>3

LEMMA FilterInitIInv == FilterInit => FilterIInv
<1> SUFFICES ASSUME FilterInit PROVE FilterIInv
  OBVIOUS
<1>1. /\ seen = [id \in Ids |-> NeverSeen] /\ heard = {} /\ posted = <<>> /\ clock = 0
      /\ last = [id \in Ids |-> 0]
  BY DEF FilterInit, Init
<1>2. Seen
  BY <1>1 DEF Seen, NeverSeen
<1>3. KeptIsHeard /\ SeenIsHeard /\ SeenIsRecent
  BY <1>1 DEF KeptIsHeard, SeenIsHeard, SeenIsRecent, Ids
<1>4. PostsAreHeard /\ NoCommandLost /\ EchoAnswersHeard
  BY <1>1 DEF PostsAreHeard, NoCommandLost, EchoAnswersHeard
<1> QED
  BY <1>2, <1>3, <1>4, RadioInit DEF FilterIInv

\* Nothing that is said about a telegram sent changes when others are sent.
LEMMA TelegramsStay ==
  ASSUME Sent, Len(telegrams') >= Len(telegrams), Len(telegrams') \in Nat,
         \A n \in 1 .. Len(telegrams) : telegrams'[n] = telegrams[n],
         Len(telegrams) = 0 \/ table' = table,
         NEW n \in 1 .. Len(telegrams)
  PROVE  /\ Before(n)' = Before(n)
         /\ Command(n)' = Command(n)
         /\ IsMapped(n)' <=> IsMapped(n)
         /\ IsRelease(n)' <=> IsRelease(n)
         /\ HasCommand(n)' <=> HasCommand(n)
<1>0. /\ telegrams'[n] = telegrams[n] /\ table' = table /\ Len(telegrams) \in Nat
      /\ n \in 1 .. Len(telegrams')
  BY DEF Sent
<1>1. Before(n)' = Before(n)
  BY <1>0 DEF Before, TelegramsOf
<1>2. Entry(n)' = Entry(n)
  BY <1>0 DEF Entry
<1>3. Command(n)' = Command(n)
  BY <1>0, <1>2 DEF Command
<1>4. IsMapped(n)' <=> IsMapped(n)
  BY <1>0, <1>2 DEF IsMapped
<1>5. IsRelease(n)' <=> IsRelease(n)
  BY <1>0, <1>3, <1>4 DEF IsRelease
<1>6. HasCommand(n)' <=> HasCommand(n)
  BY <1>4, <1>5 DEF HasCommand
<1> QED
  BY <1>1, <1>3, <1>4, <1>5, <1>6

\* Every step but that of handle_event().
LEMMA QuietStep ==
  ASSUME FilterIInv, Types, RadioInv',
         Len(telegrams') >= Len(telegrams), Len(telegrams') \in Nat,
         \A n \in 1 .. Len(telegrams) : telegrams'[n] = telegrams[n],
         Len(telegrams) = 0 \/ table' = table,
         clock' >= clock, UNCHANGED <<last, seen, heard, posted>>
  PROVE  FilterIInv'
<1> USE DEF FilterIInv
<1>1. \A n \in heard : n \in 1 .. Len(telegrams) /\ telegrams'[n] = telegrams[n]
  BY DEF RadioInv, Sent
<1>2. \A n \in heard :
        /\ Before(n)' = Before(n) /\ Command(n)' = Command(n)
        /\ IsMapped(n)' <=> IsMapped(n)
        /\ IsRelease(n)' <=> IsRelease(n)
        /\ HasCommand(n)' <=> HasCommand(n)
  BY <1>1, TelegramsStay DEF RadioInv
<1>3. ASSUME NEW id PROVE MappedHeard(id)' = MappedHeard(id)
  <2>1. \A n \in heard : n \in TelegramsOf(id)' <=> n \in TelegramsOf(id)
    BY <1>1 DEF TelegramsOf, RadioInv, Sent
  <2> QED
    BY <1>2, <2>1 DEF MappedHeard
<1>4. \A id, m : IsLastMapped(m, id)' <=> IsLastMapped(m, id)
  BY <1>3 DEF IsLastMapped
<1>5. \A n \in heard : MappedBefore(n)' = MappedBefore(n)
  BY <1>2 DEF MappedBefore
<1>6. \A n \in heard : \A p : IsLastHeard(p, n)' <=> IsLastHeard(p, n)
  BY <1>5 DEF IsLastHeard
<1>7. Seen'
  BY FilterAssumption DEF Seen, RadioInv, Sent
<1>8. KeptIsHeard'
  BY <1>2, <1>4 DEF KeptIsHeard
<1>9. SeenIsHeard'
  BY <1>1, <1>2, <1>4 DEF SeenIsHeard
<1>10. SeenIsRecent'
  BY <1>1, <1>2, <1>3 DEF SeenIsRecent, MappedHeard, NeverSeen
<1>11. PostsAreHeard'
  BY DEF PostsAreHeard
<1>12. \A n \in heard : IsSeparate(n)' <=> IsSeparate(n)
  <2>1. ASSUME NEW n \in heard, NEW k \in Before(n)
        PROVE  /\ telegrams'[k] = telegrams[k] /\ telegrams'[n] = telegrams[n]
               /\ IsMapped(k)' <=> IsMapped(k)
               /\ Command(k)' = Command(k) /\ Command(n)' = Command(n)
    <3>1. k \in 1 .. Len(telegrams)
      BY DEF Before, TelegramsOf
    <3> QED
      BY <1>1, <1>2, <3>1, TelegramsStay DEF RadioInv
  <2> QED
    BY <1>2, <2>1 DEF IsSeparate
<1>13. NoCommandLost'
  BY <1>2, <1>6, <1>12 DEF NoCommandLost, PostsOf
<1>14. EchoAnswersHeard'
  BY <1>1, <1>2, <1>6 DEF EchoAnswersHeard, PostsOf
<1> QED
  BY <1>7, <1>8, <1>9, <1>10, <1>11, <1>13, <1>14

\* A copy on its way is of the last telegram of its sender.
LEMMA LatestHandled ==
  ASSUME RadioInv, NEW c \in copies, NEW k \in 1 .. Len(telegrams), Sender(k) = Sender(c[1])
  PROVE  k <= c[1]
<1>1. c[1] \in 1 .. Len(telegrams) /\ Len(telegrams) \in Nat
  BY DEF RadioInv, Sent
<1>2. c[1] < k => c[1] \in Before(k)
  BY <1>1 DEF Before, TelegramsOf, Sender
<1> QED
  BY <1>1, <1>2, LatestOfSender

\* A second copy of a telegram posts nothing, and nothing else can be told of it
\* but that the window starts anew.
LEMMA SecondCopy ==
  ASSUME FilterIInv, Types, NEW c \in copies, HandleEvent(c), c[1] \in heard
  PROVE  /\ posted' = posted /\ last' = last
         /\ \A id \in Ids : seen'[id].id = seen[id].id
<1> USE DEF FilterIInv
<1> SUFFICES ASSUME NEW n, n = c[1], NEW s, s = Sender(n)
             PROVE  /\ posted' = posted /\ last' = last
                    /\ \A id \in Ids : seen'[id].id = seen[id].id
  OBVIOUS
<1> DEFINE r == MapEvent(table, last, telegrams[n].event)
           id == r.out.value
<1>1. /\ last' = [last EXCEPT ![s] = r.last]
      /\ seen' = IF id = 0 THEN seen ELSE [seen EXCEPT ![s] = [ts |-> clock, id |-> id]]
      /\ posted' = IF id # 0 /\ IsNew(s, id)
                   THEN Append(posted, [telegram |-> n, id |-> id]) ELSE posted
  BY DEF HandleEvent, Event, Sender
<1>2. /\ n \in 1 .. Len(telegrams) /\ heard \subseteq 1 .. Len(telegrams)
      /\ Len(telegrams) \in Nat /\ clock \in Nat /\ telegrams[n].at \in Nat
      /\ telegrams[n].event \in Events
  BY TelegramFields, FilterAssumption DEF RadioInv, Sent
<1>3. /\ s \in Ids /\ id \in Int
      /\ last \in [Ids -> Nat] /\ seen \in [Ids -> [ts : Int, id : Int]]
  BY <1>2, EventAnswer DEF Types, Seen, Sender
<1>4. /\ ~IsMapped(n) => id = 0 /\ r.last = last[s]
      /\ HasCommand(n) => /\ id = Command(n)
                          /\ s \in Switches => r.last = Command(n)
                          /\ s \notin Switches => r.last = last[s]
      /\ IsRelease(n) => id = -last[s] /\ r.last = 0
  BY <1>2, TelegramAnswer DEF RadioInv
<1>5. /\ IsRelease(n) => s \in Switches /\ IsMapped(n)
      /\ HasCommand(n) => Command(n) # 0
      /\ HasCommand(n) \/ IsRelease(n) <=> IsMapped(n)
      /\ ~(HasCommand(n) /\ IsRelease(n))
  BY <1>2, CommandKind DEF RadioInv, HasCommand, IsRelease
<1> HIDE DEF r, id
<1>6. IsMapped(n) => IsLastMapped(n, s)
  <2>1. \A k \in 1 .. Len(telegrams) : Sender(k) = s => k <= n
    BY LatestHandled
  <2>2. \A k \in MappedHeard(s) : k \in 1 .. Len(telegrams) /\ Sender(k) = s
    BY DEF MappedHeard, TelegramsOf, Sender
  <2>3. IsMapped(n) => n \in MappedHeard(s)
    BY <1>2 DEF MappedHeard, TelegramsOf, Sender
  <2> QED
    BY <2>1, <2>2, <2>3 DEF IsLastMapped
<1>7. IsRelease(n) => last[s] = 0
  <2> SUFFICES ASSUME IsRelease(n), last[s] # 0 PROVE FALSE
    OBVIOUS
  <2>1. PICK m \in heard : IsLastMapped(m, s) /\ HasCommand(m)
    BY <1>5 DEF KeptIsHeard
  <2>2. m = n
    BY <1>2, <1>5, <1>6, <2>1 DEF IsLastMapped
  <2> QED
    BY <1>5, <2>1, <2>2
<1>8. CASE ~HasCommand(n)
  <2>1. id = 0 /\ r.last = last[s]
    BY <1>3, <1>4, <1>5, <1>7, <1>8
  <2> QED
    BY <1>1, <1>3, <2>1
<1>9. CASE HasCommand(n)
  <2>1. id = Command(n) /\ id # 0 /\ IsMapped(n)
    BY <1>4, <1>5, <1>9
  <2>2. seen[s].id = id /\ seen[s].ts >= telegrams[n].at /\ seen[s].ts \in Int
    BY <1>3, <1>6, <1>9, <2>1 DEF SeenIsHeard
  <2>3. seen[s] # NeverSeen
    BY <2>1, <2>2 DEF NeverSeen
  <2>4. clock - seen[s].ts < Window /\ Window \in Nat
    <3>1. clock - telegrams[n].at <= MaxSkew
      BY DEF RadioInv, InTime
    <3> QED
      BY <1>2, <2>2, <3>1, FilterAssumption
  <2>5. ~IsNew(s, id)
    BY <1>2, <2>2, <2>3, <2>4 DEF IsNew
  <2>6. r.last = last[s]
    <3>1. s \in Switches => last[s] = Command(n)
      BY <1>6, <1>9, <2>1 DEF KeptIsHeard
    <3> QED
      BY <1>4, <1>9, <3>1
  <2>7. \A i \in Ids : seen'[i].id = seen[i].id
    BY <1>1, <1>3, <2>1, <2>2
  <2> QED
    BY <1>1, <1>3, <2>5, <2>6, <2>7
<1> QED
  BY <1>8, <1>9

\* handle_event() of a copy of telegram n of sender s, to which map() answers r.
LEMMA HandleStep ==
  ASSUME FilterIInv, Types, RadioInv', NEW c \in copies, HandleEvent(c)
  PROVE  FilterIInv'
<1> USE DEF FilterIInv
<1> SUFFICES ASSUME NEW n, n = c[1], NEW s, s = Sender(n) PROVE FilterIInv'
  OBVIOUS
<1> DEFINE r == MapEvent(table, last, telegrams[n].event)
           id == r.out.value
           known == 1 .. Len(telegrams)
<1>1. /\ UNCHANGED <<table, telegrams, clock>>
      /\ heard' = heard \union {n}
      /\ last' = [last EXCEPT ![s] = r.last]
      /\ seen' = IF id = 0 THEN seen ELSE [seen EXCEPT ![s] = [ts |-> clock, id |-> id]]
      /\ posted' = IF id # 0 /\ IsNew(s, id)
                   THEN Append(posted, [telegram |-> n, id |-> id]) ELSE posted
  BY DEF HandleEvent, Event, Sender
<1>2. /\ n \in known /\ heard \subseteq known /\ Len(telegrams) \in Nat
      /\ clock \in Nat /\ telegrams[n].event \in Events
      /\ \A k \in known : telegrams[k].at \in Nat /\ telegrams[k].at <= clock
  <2> HIDE DEF r, id
  <2>1. Sent
    BY DEF RadioInv
  <2>2. n \in known /\ heard \subseteq known /\ Len(telegrams) \in Nat
    BY <2>1 DEF Sent
  <2>3. clock \in Nat
    BY <2>1, FilterAssumption DEF Sent
  <2>4. \A k \in known : telegrams[k].event \in Events /\ telegrams[k].at \in Nat
    BY <2>1, TelegramFields
  <2>5. \A k \in known : telegrams[k].at <= clock
    BY <2>1 DEF Sent
  <2> QED
    BY <2>2, <2>3, <2>4, <2>5
<1>3. /\ s \in Ids /\ id \in Int /\ r.last \in Nat
      /\ last \in [Ids -> Nat] /\ Switches \subseteq Ids
  BY <1>2, EventAnswer DEF Types, Ids, Sender
<1>4. /\ ~IsMapped(n) => id = 0 /\ r.last = last[s]
      /\ HasCommand(n) => id = Command(n) /\ (s \in Switches => r.last = Command(n))
      /\ IsRelease(n) => id = -last[s] /\ r.last = 0
  BY <1>2, TelegramAnswer DEF RadioInv
<1>5. \A k \in known : IsMapped(k) =>
        /\ Command(k) \in Int
        /\ HasCommand(k) => Command(k) # 0
        /\ HasCommand(k) /\ Sender(k) \in Switches => Command(k) > 0
        /\ IsRelease(k) => Sender(k) \in Switches
  BY CommandKind DEF RadioInv
<1>6. \A k : (HasCommand(k) \/ IsRelease(k) <=> IsMapped(k)) /\ ~(HasCommand(k) /\ IsRelease(k))
  BY DEF HasCommand, IsRelease
<1>7. \A k \in known :
        /\ Before(k)' = Before(k) /\ Command(k)' = Command(k)
        /\ IsMapped(k)' <=> IsMapped(k)
        /\ IsRelease(k)' <=> IsRelease(k)
        /\ HasCommand(k)' <=> HasCommand(k)
  BY <1>1, <1>2, TelegramsStay DEF RadioInv
<1>8. clock - telegrams[n].at <= MaxSkew
  BY DEF RadioInv, InTime
<1>9. \A k \in known : n \notin Before(k)
  BY LatestOfSender
<1> HIDE DEF r, id, known

\* Telegram n is the last one of its sender.
<1>10. \A k \in known : Sender(k) = s => k <= n
  BY LatestHandled DEF known
<1>11. \A k, j : k \in MappedHeard(j) <=>
         k \in heard /\ k \in known /\ Sender(k) = j /\ IsMapped(k)
  BY DEF MappedHeard, TelegramsOf, Sender, known
<1>12. \A k, j : k \in MappedHeard(j)' <=>
         k \in heard \union {n} /\ k \in known /\ Sender(k) = j /\ IsMapped(k)
  <2>1. \A k, j : k \in MappedHeard(j)' <=>
          /\ k \in heard' /\ k \in 1 .. Len(telegrams')
          /\ telegrams'[k].event.sender = j /\ IsMapped(k)'
    BY DEF MappedHeard, TelegramsOf
  <2> QED
    BY <1>1, <1>7, <2>1 DEF Sender, known
<1>13. \A j, m : j # s \/ ~IsMapped(n) => (IsLastMapped(m, j)' <=> IsLastMapped(m, j))
  <2> SUFFICES ASSUME NEW j, NEW m, j # s \/ ~IsMapped(n)
               PROVE  IsLastMapped(m, j)' <=> IsLastMapped(m, j)
    OBVIOUS
  <2>1. \A k : k \in MappedHeard(j)' <=> k \in MappedHeard(j)
    BY <1>11, <1>12
  <2> QED
    BY <2>1 DEF IsLastMapped
<1>14. IsMapped(n) => n \in MappedHeard(s)' /\ \A m : IsLastMapped(m, s)' <=> m = n
  <2> SUFFICES ASSUME IsMapped(n)
               PROVE  n \in MappedHeard(s)' /\ \A m : IsLastMapped(m, s)' <=> m = n
    OBVIOUS
  <2>1. n \in MappedHeard(s)'
    BY <1>2, <1>12
  <2>2. \A k \in MappedHeard(s)' : k \in known /\ k <= n
    BY <1>10, <1>12
  <2> QED
    BY <1>2, <2>1, <2>2 DEF IsLastMapped, known
<1>15. n \in heard /\ IsMapped(n) => IsLastMapped(n, s)
  BY <1>2, <1>10, <1>11 DEF IsLastMapped
<1>16. \A k \in known : \A p : IsLastHeard(p, k)' <=> IsLastHeard(p, k)
  <2>1. ASSUME NEW k \in known PROVE MappedBefore(k)' = MappedBefore(k)
    <3>1. \A j \in Before(k) : j \in known /\ j # n
      BY <1>9 DEF Before, TelegramsOf, known
    <3>2. \A j : j \in MappedBefore(k)' <=> j \in heard' /\ j \in Before(k)' /\ IsMapped(j)'
      BY DEF MappedBefore
    <3>3. \A j : j \in MappedBefore(k)' <=> j \in heard /\ j \in Before(k) /\ IsMapped(j)
      BY <1>1, <1>7, <3>1, <3>2
    <3> QED
      BY <3>3 DEF MappedBefore
  <2> QED
    BY <2>1 DEF IsLastHeard
<1>17. n \notin heard => \A p : IsLastHeard(p, n) <=> IsLastMapped(p, s)
  <2> SUFFICES ASSUME n \notin heard PROVE MappedBefore(n) = MappedHeard(s)
    BY DEF IsLastHeard, IsLastMapped
  <2>1. \A k : k \in MappedBefore(n) <=>
          k \in heard /\ k \in known /\ Sender(k) = s /\ k < n /\ IsMapped(k)
    BY DEF MappedBefore, Before, TelegramsOf, Sender, known
  <2>2. \A k \in heard : k # n
    OBVIOUS
  <2>3. \A k \in known : Sender(k) = s /\ k # n => k < n
    BY <1>2, <1>10 DEF known
  <2>4. \A k : k \in MappedBefore(n) <=> k \in MappedHeard(s)
    BY <1>11, <2>1, <2>2, <2>3
  <2> QED
    BY <2>4

<1>18. n \in heard => posted' = posted
  BY SecondCopy
<1>20. Seen'
  <2>1. seen' \in [Ids -> [ts : Int, id : Int]]
    BY <1>1, <1>2, <1>3 DEF Seen
  <2>2. \A j \in Ids : seen'[j].ts \in -1 .. clock
    BY <1>1, <1>2, <1>3 DEF Seen
  <2> QED
    BY <1>1, <2>1, <2>2 DEF Seen
<1>21. /\ \A j \in Ids \ {s} : last'[j] = last[j] /\ seen'[j] = seen[j]
       /\ last'[s] = r.last
       /\ id = 0 => seen'[s] = seen[s]
       /\ id # 0 => seen'[s] = [ts |-> clock, id |-> id]
  BY <1>1, <1>3 DEF Seen
<1>22. KeptIsHeard'
  <2>1. ASSUME NEW j \in Switches
        PROVE  /\ last'[j] # 0 =>
                    \E m \in heard' : IsLastMapped(m, j)' /\ HasCommand(m)' /\ last'[j] = Command(m)'
               /\ \A m \in heard' :
                    IsLastMapped(m, j)' /\ HasCommand(m)' => last'[j] = Command(m)'
    <3>1. heard' \subseteq known
      BY <1>1, <1>2
    <3>2. CASE j # s \/ ~IsMapped(n)
      <4>1. last'[j] = last[j]
        BY <1>3, <1>4, <1>21, <3>2
      <4>2. \A m : IsLastMapped(m, j)' <=> IsLastMapped(m, j)
        BY <1>13, <3>2
      <4>3. \A m : IsLastMapped(m, j) => m \in heard
        BY DEF IsLastMapped, MappedHeard
      <4> QED
        BY <1>1, <1>2, <1>7, <3>1, <4>1, <4>2, <4>3 DEF KeptIsHeard
    <3>3. CASE j = s /\ HasCommand(n)
      <4>1. last'[j] = Command(n) /\ IsMapped(n)
        BY <1>4, <1>6, <1>21, <2>1, <3>3
      <4>2. n \in heard' /\ \A m : IsLastMapped(m, j)' <=> m = n
        BY <1>1, <1>14, <3>3, <4>1
      <4> QED
        BY <1>2, <1>7, <3>3, <4>1, <4>2
    <3>4. CASE j = s /\ IsRelease(n)
      <4>1. last'[j] = 0
        BY <1>4, <1>21, <3>4
      <4>2. \A m : IsLastMapped(m, j)' => m = n
        BY <1>6, <1>14, <3>4
      <4>3. ~HasCommand(n)'
        BY <1>2, <1>6, <1>7, <3>4
      <4> QED
        BY <4>1, <4>2, <4>3
    <3> QED
      BY <1>6, <3>2, <3>3, <3>4
  <2> QED
    BY <2>1 DEF KeptIsHeard
<1>23. SeenIsHeard'
  <2>1. ASSUME NEW j \in Ids, NEW m \in heard', IsLastMapped(m, j)', HasCommand(m)'
        PROVE  seen'[j].id = Command(m)' /\ seen'[j].ts >= telegrams'[m].at
    <3>1. m \in known /\ HasCommand(m) /\ Command(m)' = Command(m)
      BY <1>1, <1>2, <1>7, <2>1
    <3>2. CASE j # s \/ ~IsMapped(n)
      <4>1. seen'[j] = seen[j]
        BY <1>4, <1>21, <3>2
      <4>2. IsLastMapped(m, j) /\ m \in heard
        BY <1>13, <2>1, <3>2 DEF IsLastMapped, MappedHeard
      <4> QED
        BY <1>1, <3>1, <4>1, <4>2 DEF SeenIsHeard
    <3>3. CASE j = s /\ IsMapped(n)
      <4>1. m = n
        BY <1>14, <2>1, <3>3
      <4>2. id = Command(n) /\ id # 0
        BY <1>2, <1>4, <1>5, <3>1, <3>3, <4>1
      <4> QED
        BY <1>1, <1>2, <1>21, <3>1, <3>3, <4>1, <4>2
    <3> QED
      BY <3>2, <3>3
  <2> QED
    BY <2>1 DEF SeenIsHeard
<1>24. SeenIsRecent'
  <2>1. ASSUME NEW j \in Ids, seen'[j] # NeverSeen
        PROVE  \E m \in MappedHeard(j)' :
                 /\ seen'[j].ts - telegrams'[m].at <= MaxSkew
                 /\ HasCommand(m)' => seen'[j].id = Command(m)'
                 /\ IsRelease(m)' => seen'[j].id < 0
    <3>1. CASE j # s \/ id = 0
      <4>1. seen'[j] = seen[j]
        BY <1>21, <3>1
      <4>2. PICK m \in MappedHeard(j) :
              /\ seen[j].ts - telegrams[m].at <= MaxSkew
              /\ HasCommand(m) => seen[j].id = Command(m)
              /\ IsRelease(m) => seen[j].id < 0
        BY <2>1, <4>1 DEF SeenIsRecent
      <4>3. m \in MappedHeard(j)' /\ m \in known
        BY <1>11, <1>12
      <4> QED
        BY <1>1, <1>7, <4>1, <4>2, <4>3
    <3>2. CASE j = s /\ id # 0
      <4>1. seen'[j] = [ts |-> clock, id |-> id]
        BY <1>21, <3>2
      <4>2. IsMapped(n) /\ n \in MappedHeard(j)'
        BY <1>4, <1>14, <3>2
      <4>3. HasCommand(n)' => id = Command(n)'
        BY <1>2, <1>4, <1>7
      <4>4. IsRelease(n)' => id < 0
        BY <1>2, <1>3, <1>4, <1>7, <3>2
      <4> QED
        BY <1>1, <1>8, <4>1, <4>2, <4>3, <4>4
    <3> QED
      BY <3>1, <3>2
  <2> QED
    BY <2>1 DEF SeenIsRecent

<1>25. posted \in Seq([telegram : Nat, id : Int]) /\ Len(posted) \in Nat
  BY DEF PostsAreHeard
<1>26. \/ posted' = posted
       \/ /\ n \notin heard /\ id # 0
          /\ posted' = Append(posted, [telegram |-> n, id |-> id])
          /\ posted' \in Seq([telegram : Nat, id : Int])
          /\ Len(posted') = Len(posted) + 1
          /\ \A k \in 1 .. Len(posted) : posted'[k] = posted[k]
          /\ posted'[Len(posted) + 1] = [telegram |-> n, id |-> id]
  <2> SUFFICES ASSUME posted' # posted
               PROVE  /\ n \notin heard /\ id # 0
                      /\ posted' = Append(posted, [telegram |-> n, id |-> id])
                      /\ posted' \in Seq([telegram : Nat, id : Int])
                      /\ Len(posted') = Len(posted) + 1
                      /\ \A k \in 1 .. Len(posted) : posted'[k] = posted[k]
                      /\ posted'[Len(posted) + 1] = [telegram |-> n, id |-> id]
    OBVIOUS
  <2>1. n \notin heard /\ id # 0 /\ posted' = Append(posted, [telegram |-> n, id |-> id])
    BY <1>1, <1>18
  <2>2. [telegram |-> n, id |-> id] \in [telegram : Nat, id : Int]
    BY <1>2, <1>3 DEF known
  <2> QED
    BY <1>25, <2>1, <2>2
<1>27. PostsAreHeard'
  <2>1. CASE posted' = posted
    BY <1>1, <2>1 DEF PostsAreHeard
  <2>2. CASE posted' # posted
    <3>1. \A k \in 1 .. Len(posted') : k \in 1 .. Len(posted) \/ k = Len(posted) + 1
      BY <1>25, <1>26, <2>2
    <3>2. \A k \in 1 .. Len(posted) : posted'[k].telegram \in heard /\ posted'[k].telegram # n
      BY <1>26, <2>2 DEF PostsAreHeard
    <3>3. posted'[Len(posted) + 1].telegram = n
      BY <1>26, <2>2
    <3>4. \A k \in 1 .. Len(posted') : posted'[k].telegram \in heard'
      BY <1>1, <3>1, <3>2, <3>3
    <3>5. ASSUME NEW j \in 1 .. Len(posted'), NEW k \in 1 .. Len(posted'),
                 posted'[j].telegram = posted'[k].telegram
          PROVE  j = k
      <4>1. CASE j \in 1 .. Len(posted) /\ k \in 1 .. Len(posted)
        BY <1>26, <2>2, <3>5, <4>1 DEF PostsAreHeard
      <4>2. CASE j = Len(posted) + 1 \/ k = Len(posted) + 1
        BY <3>1, <3>2, <3>3, <3>5, <4>2
      <4> QED
        BY <3>1, <4>1, <4>2
    <3> QED
      BY <1>26, <2>2, <3>4, <3>5 DEF PostsAreHeard
  <2> QED
    BY <2>1, <2>2

\* What is said of the commands of the telegrams heard before stays true.
<1>28. \A k \in heard : PostsOf(k) \subseteq PostsOf(k)'
  <2>1. ASSUME NEW k \in heard, NEW j \in PostsOf(k) PROVE j \in PostsOf(k)'
    <3>1. j \in 1 .. Len(posted) /\ posted[j].telegram = k
      BY <2>1 DEF PostsOf
    <3>2. j \in 1 .. Len(posted') /\ posted'[j] = posted[j]
      <4>1. CASE posted' = posted
        BY <3>1, <4>1
      <4>2. CASE posted' # posted
        BY <1>25, <1>26, <3>1, <4>2
      <4> QED
        BY <4>1, <4>2
    <3> QED
      BY <3>1, <3>2 DEF PostsOf
  <2> QED
    BY <2>1
<1>29. \A k \in known : IsSeparate(k)' <=> IsSeparate(k)
  <2>1. \A k \in known : \A j \in Before(k) : j \in known
    BY DEF Before, TelegramsOf, known
  <2> QED
    BY <1>1, <1>7, <2>1 DEF IsSeparate
<1>30. posted' # posted => n \notin heard /\ PostsOf(n)' # {} /\
         \E k \in PostsOf(n)' : posted'[k].id = id
  <2> SUFFICES ASSUME posted' # posted
               PROVE  n \notin heard /\ \E k \in PostsOf(n)' : posted'[k].id = id
    OBVIOUS
  <2>1. /\ Len(posted) + 1 \in 1 .. Len(posted')
        /\ posted'[Len(posted) + 1] = [telegram |-> n, id |-> id]
    BY <1>25, <1>26
  <2>2. Len(posted) + 1 \in PostsOf(n)'
    BY <2>1 DEF PostsOf
  <2> QED
    BY <1>26, <2>1, <2>2
<1>31. id # 0 /\ IsNew(s, id) => posted' # posted
  <2> SUFFICES ASSUME posted' = Append(posted, [telegram |-> n, id |-> id]) PROVE posted' # posted
    BY <1>1
  <2>1. [telegram |-> n, id |-> id] \in [telegram : Nat, id : Int]
    BY <1>2, <1>3 DEF known
  <2>2. Len(posted') = Len(posted) + 1
    BY <1>25, <2>1
  <2> QED
    BY <1>25, <2>2

\* A command that is not given again shortly after itself is new.
<1>32. ASSUME n \notin heard, HasCommand(n), IsSeparate(n)
       PROVE  posted' # posted
  <2>1. id = Command(n) /\ id # 0 /\ IsMapped(n)
    BY <1>2, <1>4, <1>5, <1>6, <1>32
  <2> SUFFICES ASSUME seen[s] # NeverSeen
               PROVE  clock - seen[s].ts >= Window \/ seen[s].id # id
    BY <1>31, <2>1 DEF IsNew
  <2>2. PICK k \in MappedHeard(s) :
          /\ seen[s].ts - telegrams[k].at <= MaxSkew
          /\ HasCommand(k) => seen[s].id = Command(k)
          /\ IsRelease(k) => seen[s].id < 0
    BY <1>3 DEF SeenIsRecent
  <2>3. /\ k \in heard /\ k \in known /\ Sender(k) = s /\ IsMapped(k) /\ k # n
    BY <1>11, <1>32, <2>2
  <2>4. k \in Before(n)
    BY <1>2, <1>10, <2>3 DEF Before, TelegramsOf, Sender, known
  <2>5. seen[s].ts \in Int /\ seen[s].id \in Int
    BY <1>3 DEF Seen
  <2>6. CASE telegrams[n].at - telegrams[k].at >= Window + MaxSkew
    <3>1. /\ clock >= telegrams[n].at
          /\ clock \in Nat /\ telegrams[n].at \in Nat /\ telegrams[k].at \in Nat
      BY <1>2, <2>3
    <3>2. seen[s].ts - telegrams[k].at <= MaxSkew
      BY <2>2
    <3>3. Window \in Nat /\ MaxSkew \in Nat
      BY FilterAssumption
    <3> QED
      BY <2>5, <2>6, <3>1, <3>2, <3>3
  <2>7. CASE Command(k) # Command(n)
    <3>1. CASE HasCommand(k)
      BY <2>1, <2>2, <2>7, <3>1
    <3>2. CASE IsRelease(k)
      <4>1. s \in Switches
        BY <1>5, <2>3, <3>2
      <4>2. id > 0
        BY <1>2, <1>5, <1>32, <2>1, <4>1
      <4> QED
        BY <2>2, <2>5, <3>2, <4>2
    <3> QED
      BY <1>6, <2>3, <3>1, <3>2
  <2> QED
    BY <1>32, <2>3, <2>4, <2>6, <2>7 DEF IsSeparate

\* The release of a press that was heard is new.
<1>33. ASSUME n \notin heard, IsRelease(n), NEW p \in heard, IsLastHeard(p, n), HasCommand(p)
       PROVE  posted' # posted /\ id = -Command(p)
  <2>1. s \in Switches /\ IsMapped(n)
    BY <1>2, <1>5, <1>6, <1>33
  <2>2. IsLastMapped(p, s) /\ p \in known /\ Sender(p) = s /\ IsMapped(p)
    BY <1>11, <1>17, <1>33 DEF IsLastMapped
  <2>3. last[s] = Command(p) /\ seen[s].id = Command(p) /\ Command(p) > 0
    BY <1>3, <1>5, <1>33, <2>1, <2>2 DEF KeptIsHeard, SeenIsHeard
  <2>4. id = -Command(p) /\ id # 0 /\ seen[s].id # id
    BY <1>4, <1>5, <1>33, <2>2, <2>3
  <2> QED
    BY <1>31, <2>4 DEF IsNew
<1>34. NoCommandLost'
  <2>1. ASSUME NEW k \in heard', HasCommand(k)', IsSeparate(k)' PROVE PostsOf(k)' # {}
    <3>1. k \in known /\ HasCommand(k) /\ IsSeparate(k)
      BY <1>1, <1>2, <1>7, <1>29, <2>1
    <3>2. CASE k \in heard
      BY <1>28, <3>1, <3>2 DEF NoCommandLost
    <3>3. CASE k = n /\ n \notin heard
      BY <1>30, <1>32, <3>1, <3>3
    <3> QED
      BY <1>1, <2>1, <3>2, <3>3
  <2>2. ASSUME NEW k \in heard', NEW p \in heard', IsRelease(k)', IsLastHeard(p, k)', HasCommand(p)'
        PROVE  \E j \in PostsOf(k)' : posted'[j].id = -Command(p)'
    <3>1. /\ k \in known /\ p \in known /\ IsRelease(k) /\ IsLastHeard(p, k) /\ HasCommand(p)
          /\ Command(p)' = Command(p)
      BY <1>1, <1>2, <1>7, <1>16, <2>2
    <3>2. p \in heard
      BY <3>1 DEF IsLastHeard, MappedBefore
    <3>3. CASE k \in heard
      <4>1. PICK j \in PostsOf(k) : posted[j].id = -Command(p)
        BY <3>1, <3>2, <3>3 DEF NoCommandLost
      <4>2. j \in PostsOf(k)' /\ posted'[j] = posted[j]
        BY <1>26, <1>28, <3>3, <4>1 DEF PostsOf
      <4> QED
        BY <3>1, <4>1, <4>2
    <3>4. CASE k = n /\ n \notin heard
      BY <1>30, <1>33, <3>1, <3>2, <3>4
    <3> QED
      BY <1>1, <2>2, <3>3, <3>4
  <2> QED
    BY <2>1, <2>2 DEF NoCommandLost

\* A negative command of a switch is new, so it is that of the telegram kept.
<1>35. ASSUME posted' # posted, s \in Switches, id < 0
       PROVE  /\ IsRelease(n)
              /\ \E p \in heard : IsLastHeard(p, n) /\ HasCommand(p) /\ id = -Command(p)
  <2>1. n \notin heard
    BY <1>26, <1>35
  <2>2. IsRelease(n)
    <3>1. HasCommand(n) => IsMapped(n) /\ id > 0
      BY <1>2, <1>4, <1>5, <1>6, <1>35
    <3> QED
      BY <1>3, <1>4, <1>6, <1>35, <3>1
  <2>3. last[s] # 0 /\ id = -last[s]
    BY <1>3, <1>4, <1>35, <2>2
  <2>4. PICK p \in heard : IsLastMapped(p, s) /\ HasCommand(p) /\ last[s] = Command(p)
    BY <1>35, <2>3 DEF KeptIsHeard
  <2> QED
    BY <1>17, <2>1, <2>2, <2>3, <2>4
<1>36. EchoAnswersHeard'
  <2>1. ASSUME NEW m \in heard', telegrams'[m].event.sender \in Switches,
               NEW k \in PostsOf(m)', posted'[k].id < 0
        PROVE  /\ IsRelease(m)'
               /\ \E p \in heard' :
                    IsLastHeard(p, m)' /\ HasCommand(p)' /\ posted'[k].id = -Command(p)'
    <3>1. m \in known /\ Sender(m) \in Switches
      BY <1>1, <1>2, <2>1 DEF Sender
    <3>2. /\ IsRelease(m)
          /\ \E p \in heard :
               IsLastHeard(p, m) /\ HasCommand(p) /\ posted'[k].id = -Command(p)
      <4>1. CASE k \in 1 .. Len(posted)
        <5>1. posted'[k] = posted[k]
          BY <1>26, <4>1
        <5>2. k \in PostsOf(m) /\ m \in heard
          BY <2>1, <4>1, <5>1 DEF PostsOf, PostsAreHeard
        <5> QED
          BY <2>1, <3>1, <5>1, <5>2 DEF EchoAnswersHeard, Sender
      <4>2. CASE k \notin 1 .. Len(posted)
        <5>1. posted' # posted /\ k = Len(posted) + 1
          BY <1>25, <1>26, <2>1, <4>2 DEF PostsOf
        <5>2. m = n /\ posted'[k].id = id
          BY <1>26, <2>1, <5>1 DEF PostsOf
        <5> QED
          BY <1>35, <2>1, <3>1, <5>1, <5>2
      <4> QED
        BY <4>1, <4>2
    <3>3. PICK p \in heard :
            IsLastHeard(p, m) /\ HasCommand(p) /\ posted'[k].id = -Command(p)
      BY <3>2
    <3>4. /\ IsRelease(m)' /\ IsLastHeard(p, m)' /\ HasCommand(p)'
          /\ Command(p)' = Command(p) /\ p \in heard'
      BY <1>1, <1>2, <1>7, <1>16, <3>1, <3>2, <3>3
    <3> QED
      BY <3>3, <3>4
  <2> QED
    BY <2>1 DEF EchoAnswersHeard
<1> QED
  BY <1>20, <1>22, <1>23, <1>24, <1>27, <1>34, <1>36

LEMMA FilterStep == FilterIInv /\ Types /\ RadioInv' /\ [FilterNext]_filterVars => FilterIInv'
<1> SUFFICES ASSUME FilterIInv, Types, RadioInv', [FilterNext]_filterVars PROVE FilterIInv'
  OBVIOUS
<1>1. RadioInv /\ Len(telegrams) \in Nat /\ clock \in Nat
  BY FilterAssumption DEF FilterIInv, RadioInv, Sent
<1>2. CASE Load
  <2>1. Len(telegrams) = 0 /\ UNCHANGED <<telegrams, clock, last, seen, heard, posted>>
    BY <1>1, <1>2 DEF Load, LoadLine, EndOfFile, filter, RadioInv, Sent
  <2> QED
    BY <1>1, <2>1, QuietStep
<1>3. ASSUME NEW e \in Events, Telegram(e) PROVE FilterIInv'
  <2>1. UNCHANGED <<table, clock, last, seen, heard, posted>>
    BY <1>3 DEF Telegram, vars
  <2> QED
    BY <1>1, <1>3, <2>1, TelegramStep, QuietStep
<1>4. ASSUME NEW c \in (1 .. MaxTelegrams) \X Receivers, LoseCopy(c) PROVE FilterIInv'
  <2>1. UNCHANGED <<table, telegrams, clock, last, seen, heard, posted>>
    BY <1>4 DEF LoseCopy, vars
  <2> QED
    BY <1>1, <2>1, QuietStep
<1>5. ASSUME NEW c \in (1 .. MaxTelegrams) \X Receivers, HandleEvent(c) PROVE FilterIInv'
  <2>1. c \in copies
    BY <1>5 DEF HandleEvent
  <2> QED
    BY <1>5, <2>1, HandleStep
<1>6. CASE Tick
  <2>1. UNCHANGED <<table, telegrams, last, seen, heard, posted>> /\ clock' >= clock
    BY <1>1, <1>6 DEF Tick, vars
  <2> QED
    BY <1>1, <2>1, QuietStep
<1>7. CASE UNCHANGED filterVars
  <2>1. UNCHANGED <<table, telegrams, clock, last, seen, heard, posted>>
    BY <1>7 DEF filterVars, filter, vars
  <2> QED
    BY <1>1, <2>1, QuietStep
<1> QED
  BY <1>2, <1>3, <1>4, <1>5, <1>6, <1>7 DEF FilterNext

THEOREM FilterInvariance == FilterSpec => []FilterIInv
<1>1. FilterSpec => []IInv
  BY FilterImplementsMapping, Invariance, PTL
<1>2. IInv => Types
  BY DEF IInv
<1> QED
  BY <1>1, <1>2, FilterInitIInv, FilterStep, RadioInvariance, PTL DEF FilterSpec

\* The types of the mapping and of the filter, also of its times: no entry of the
\* table of the filter is younger than the clock.
THEOREM FilterTypeCorrect == FilterSpec => []FilterTypeOK
<1>1. FilterIInv /\ TypeOK => FilterTypeOK
  BY DEF FilterIInv, RadioInv, Sent, Seen, PostsAreHeard, FilterTypeOK
<1>2. FilterSpec => []TypeOK
  BY FilterImplementsMapping, TypeCorrect, PTL
<1> QED
  BY <1>1, <1>2, FilterInvariance, PTL

\* However many receivers hand on a telegram, in whatever order and however late
\* within the skew, it becomes at most one command.
THEOREM PostedOnceTheorem == FilterSpec => []PostedOnce
<1>1. FilterIInv => PostedOnce
  <2> SUFFICES ASSUME FilterIInv, NEW n \in 1 .. Len(telegrams)
               PROVE  Cardinality(PostsOf(n)) <= 1
    BY DEF PostedOnce
  <2>1. \A j, k \in PostsOf(n) : j = k
    BY DEF FilterIInv, PostsAreHeard, PostsOf
  <2>2. CASE PostsOf(n) = {}
    BY <2>2, FS_EmptySet
  <2>3. CASE PostsOf(n) # {}
    <3>1. PICK k \in PostsOf(n) : TRUE
      BY <2>3
    <3>2. PostsOf(n) = {k}
      BY <2>1, <3>1
    <3>3. Cardinality({k}) = 1
      BY FS_Singleton, Zenon
    <3> QED
      BY <3>2, <3>3
  <2> QED
    BY <2>2, <2>3
<1> QED
  BY <1>1, FilterInvariance, PTL

\* The filter hides no command that was not given shortly before, and never the
\* release of a press that was heard.
THEOREM NoCommandLostTheorem == FilterSpec => []NoCommandLost
BY FilterInvariance, PTL DEF FilterIInv

\* A negated command that is posted is that of the last press heard, whatever
\* copies of it and of other telegrams got lost or came late.
THEOREM EchoAnswersHeardTheorem == FilterSpec => []EchoAnswersHeard
BY FilterInvariance, PTL DEF FilterIInv
-----------------------------------------------------------------------------
(* The bridge with many receivers implements the one with a single one.    *)

\* What the refinement mapping puts for the variables of OneReceiver.
SentEvents == [n \in 1 .. Len(telegrams) |-> telegrams[n].event]
GivenIds == [id \in Ids |-> seen[id].id]
PostIds == [k \in 1 .. Len(posted) |-> [sender |-> PostSender(k), id |-> posted[k].id]]

\* Both modules take map() from MappingTable.
LEMMA SameAnswer == \A e : Single!MapEvent(table, last, e) = MapEvent(table, last, e)
BY Zenon DEF Single!MapEvent, Single!MapSwitch, Single!MapContact, Single!NotMapped,
             Single!ButtonId, Single!ButtonCodes, Single!IsClosed, Single!RADIO_ERP1,
             Single!SWITCH, Single!CONTACT, MapEvent, MapSwitch, MapContact, NotMapped,
             ButtonId, ButtonCodes, IsClosed, RADIO_ERP1, SWITCH, CONTACT

\* What was sent and posted before reads the same when more is sent.
LEMMA PostsStay ==
  ASSUME Sent, PostsAreHeard, Len(telegrams') >= Len(telegrams), Len(telegrams') \in Nat,
         \A n \in 1 .. Len(telegrams) : telegrams'[n] = telegrams[n]
  PROVE  /\ \A k \in 1 .. Len(posted) : telegrams'[posted[k].telegram].event.sender = PostSender(k)
         /\ posted' = posted => PostIds' = PostIds
<1>1. \A k \in 1 .. Len(posted) : posted[k].telegram \in 1 .. Len(telegrams)
  BY DEF Sent, PostsAreHeard
<1>2. \A k \in 1 .. Len(posted) : telegrams'[posted[k].telegram].event.sender = PostSender(k)
  BY <1>1 DEF PostSender
<1>3. ASSUME posted' = posted PROVE PostIds' = PostIds
  <2>1. PostIds' = [k \in 1 .. Len(posted) |->
          [sender |-> telegrams'[posted[k].telegram].event.sender, id |-> posted[k].id]]
    BY <1>3 DEF PostIds, PostSender
  <2> QED
    BY <1>2, <2>1 DEF PostIds
<1> QED
  BY <1>2, <1>3

LEMMA SingleInit == FilterInit => Single!Init
<1> SUFFICES ASSUME FilterInit PROVE Single!Init
  OBVIOUS
<1>1. /\ status = "loading" /\ table = EmptyTable /\ last = [id \in Ids |-> 0]
      /\ telegrams = <<>> /\ heard = {} /\ posted = <<>>
      /\ seen = [id \in Ids |-> NeverSeen]
  BY DEF FilterInit, Init
<1>2. SentEvents = <<>> /\ PostIds = <<>>
  BY <1>1 DEF SentEvents, PostIds
<1>3. GivenIds = [id \in Ids |-> 0]
  BY <1>1 DEF GivenIds, NeverSeen
<1>4. EmptyTable = Single!EmptyTable
  BY DEF EmptyTable, Single!EmptyTable
<1> QED
  BY <1>1, <1>2, <1>3, <1>4 DEF Single!Init, SentEvents, GivenIds, PostIds

\* The first copy of telegram n is the one that is heard.
LEMMA FirstCopy ==
  ASSUME FilterIInv, Types, NEW c \in copies, HandleEvent(c), c[1] \notin heard
  PROVE  c[1] \in 1 .. Len(SentEvents) /\ Single!Hear(c[1])
<1> USE DEF FilterIInv
<1> SUFFICES ASSUME NEW n, n = c[1], NEW s, s = Sender(n)
             PROVE  n \in 1 .. Len(SentEvents) /\ Single!Hear(n)
  OBVIOUS
<1> SUFFICES ASSUME NEW r, r = MapEvent(table, last, telegrams[n].event)
             PROVE  n \in 1 .. Len(SentEvents) /\ Single!Hear(n)
  OBVIOUS
<1>1. /\ UNCHANGED <<status, table, telegrams, clock>>
      /\ status = "running"
      /\ heard' = heard \union {n}
      /\ last' = [last EXCEPT ![s] = r.last]
      /\ seen' = IF r.out.value = 0 THEN seen
                 ELSE [seen EXCEPT ![s] = [ts |-> clock, id |-> r.out.value]]
      /\ posted' = IF r.out.value # 0 /\ IsNew(s, r.out.value)
                   THEN Append(posted, [telegram |-> n, id |-> r.out.value]) ELSE posted
  BY DEF HandleEvent, Event, Sender
<1>2. /\ n \in 1 .. Len(telegrams) /\ heard \subseteq 1 .. Len(telegrams)
      /\ Len(telegrams) \in Nat /\ telegrams[n].event \in Events
  BY TelegramFields DEF RadioInv, Sent
<1>3. /\ s \in Ids /\ r.out.value \in Int
      /\ seen \in [Ids -> [ts : Int, id : Int]]
      /\ posted \in Seq([telegram : Nat, id : Int])
  BY <1>2, EventAnswer DEF Seen, Sender, PostsAreHeard
<1>4. /\ Len(SentEvents) = Len(telegrams)
      /\ SentEvents[n] = telegrams[n].event
      /\ \A k \in heard : SentEvents[k].sender = Sender(k)
  BY <1>2 DEF SentEvents, Sender
<1>5. \A k \in heard : SentEvents[k].sender = s => k < n
  BY <1>2, <1>4, LatestHandled DEF RadioInv
<1>6. Single!MapEvent(table, last, SentEvents[n]) = r
  BY <1>4, SameAnswer
<1>7. SentEvents' = SentEvents
  BY <1>1 DEF SentEvents
<1>8. \A k \in 1 .. Len(posted) : telegrams[posted[k].telegram].event.sender = PostSender(k)
  BY DEF PostSender
<1>9. posted' = posted => PostIds' = PostIds
  BY <1>1 DEF PostIds, PostSender
<1>10. n \in 1 .. Len(SentEvents)
  BY <1>2, <1>4
<1>11. ASSUME /\ r.out.value = 0 => UNCHANGED <<GivenIds, PostIds>>
              /\ r.out.value # 0 =>
                   /\ GivenIds' = [GivenIds EXCEPT ![s] = r.out.value]
                   /\ \/ PostIds' = Append(PostIds, [sender |-> s, id |-> r.out.value])
                      \/ GivenIds[s] = r.out.value /\ PostIds' = PostIds
       PROVE  Single!Hear(n)
  <2> DEFINE id == SentEvents[n].sender
             q == Single!MapEvent(table, last, SentEvents[n])
  <2>1. id = s /\ q = r
    BY <1>4, <1>6 DEF Sender
  <2>2. IF q.out.value = 0 THEN UNCHANGED <<GivenIds, PostIds>>
        ELSE /\ GivenIds' = [GivenIds EXCEPT ![id] = q.out.value]
             /\ \/ PostIds' = Append(PostIds, [sender |-> id, id |-> q.out.value])
                \/ GivenIds[id] = q.out.value /\ PostIds' = PostIds
    BY <1>11, <2>1
  <2>3. /\ status = "running"
        /\ \A k \in heard : SentEvents[k].sender = id => k < n
        /\ heard' = heard \union {n}
        /\ last' = [last EXCEPT ![id] = q.last]
        /\ UNCHANGED <<status, table, SentEvents>>
    BY <1>1, <1>5, <1>7, <2>1
  <2> QED
    BY <2>2, <2>3, Zenon DEF Single!Hear, Single!Give, SentEvents, GivenIds, PostIds
<1>12. CASE r.out.value = 0
  <2>1. GivenIds' = GivenIds /\ PostIds' = PostIds
    BY <1>1, <1>9, <1>12 DEF GivenIds
  <2> QED
    BY <1>10, <1>11, <1>12, <2>1
<1>13. CASE r.out.value # 0
  <2>1. GivenIds' = [GivenIds EXCEPT ![s] = r.out.value]
    BY <1>1, <1>3, <1>13 DEF GivenIds
  <2>2. CASE IsNew(s, r.out.value)
    <3>1. posted' = Append(posted, [telegram |-> n, id |-> r.out.value])
      BY <1>1, <1>13, <2>2
    <3>2. PostIds' = Append(PostIds, [sender |-> s, id |-> r.out.value])
      <4>1. /\ Len(posted') = Len(posted) + 1 /\ Len(posted) \in Nat
            /\ posted'[Len(posted) + 1] = [telegram |-> n, id |-> r.out.value]
            /\ \A k \in 1 .. Len(posted) : posted'[k] = posted[k]
        BY <1>2, <1>3, <3>1
      <4>2. PostIds' = [k \in 1 .. Len(posted) + 1 |->
              [sender |-> telegrams[posted'[k].telegram].event.sender, id |-> posted'[k].id]]
        BY <1>1, <4>1 DEF PostIds, PostSender
      <4>3. PostIds = [k \in 1 .. Len(posted) |->
              [sender |-> telegrams[posted[k].telegram].event.sender, id |-> posted[k].id]]
        BY DEF PostIds, PostSender
      <4>4. telegrams[n].event.sender = s
        BY DEF Sender
      <4> QED
        BY <4>1, <4>2, <4>3, <4>4
    <3> QED
      BY <1>10, <1>11, <1>13, <2>1, <3>2
  <2>3. CASE ~IsNew(s, r.out.value)
    <3>1. GivenIds[s] = r.out.value
      BY <1>3, <2>3 DEF IsNew, GivenIds
    <3>2. PostIds' = PostIds
      BY <1>1, <1>9, <2>3
    <3> QED
      BY <1>10, <1>11, <1>13, <2>1, <3>1, <3>2
  <2> QED
    BY <2>2, <2>3
<1> QED
  BY <1>12, <1>13

\* Nothing but handle_event() of a first copy, what load() does and a new telegram
\* can be told from standing still.
LEMMA SingleStep ==
  ASSUME FilterIInv, Types, RadioInv', [FilterNext]_filterVars
  PROVE  [Single!Next]_(Single!vars)
<1> USE DEF FilterIInv
<1>1. Sent /\ PostsAreHeard /\ Len(telegrams) \in Nat
  BY DEF RadioInv, Sent
<1>2. CASE Load
  <2>1. UNCHANGED <<last, telegrams, heard, seen, posted>> /\ status = "loading"
    BY <1>2 DEF Load, LoadLine, EndOfFile, filter
  <2>2. UNCHANGED <<SentEvents, GivenIds, PostIds>>
    BY <2>1 DEF SentEvents, GivenIds, PostIds, PostSender
  <2> QED
    BY <2>1, <2>2 DEF Single!Next, Single!Load, SentEvents, GivenIds, PostIds
<1>3. ASSUME NEW e \in Events, Telegram(e) PROVE Single!Next
  <2>1. /\ UNCHANGED <<status, table, last, heard, seen, posted>> /\ status = "running"
        /\ telegrams' = Append(telegrams, [event |-> e, at |-> clock])
    BY <1>3 DEF Telegram, vars
  <2>2. /\ Len(telegrams') = Len(telegrams) + 1
        /\ \A n \in 1 .. Len(telegrams) : telegrams'[n] = telegrams[n]
        /\ telegrams'[Len(telegrams) + 1].event = e
    BY <1>1, <1>3, <2>1, TelegramStep DEF Sent
  <2>3. PostIds' = PostIds
    BY <1>1, <2>1, <2>2, PostsStay
  <2>4. GivenIds' = GivenIds
    BY <2>1 DEF GivenIds
  <2>5. SentEvents' = Append(SentEvents, e)
    <3>1. SentEvents' = [n \in 1 .. Len(telegrams) + 1 |-> telegrams'[n].event]
      BY <2>2 DEF SentEvents
    <3>2. SentEvents = [n \in 1 .. Len(telegrams) |-> telegrams[n].event]
      BY DEF SentEvents
    <3> QED
      BY <1>1, <2>2, <3>1, <3>2
  <2>6. Single!Send(e)
    BY <2>1, <2>3, <2>4, <2>5 DEF Single!Send, SentEvents, GivenIds, PostIds
  <2> QED
    BY <2>6 DEF Single!Next
<1>4. ASSUME NEW c \in copies, HandleEvent(c) PROVE [Single!Next]_(Single!vars)
  <2>1. CASE c[1] \notin heard
    BY <1>4, <2>1, FirstCopy DEF Single!Next, SentEvents
  <2>2. CASE c[1] \in heard
    <3>1. /\ UNCHANGED <<status, table, telegrams, last, posted>> /\ heard' = heard
          /\ \A id \in Ids : seen'[id].id = seen[id].id
      BY <1>4, <2>2, SecondCopy DEF HandleEvent, Event
    <3>2. UNCHANGED <<SentEvents, GivenIds, PostIds>>
      BY <3>1 DEF SentEvents, GivenIds, PostIds, PostSender
    <3> QED
      BY <3>1, <3>2 DEF Single!vars, SentEvents, GivenIds, PostIds
  <2> QED
    BY <2>1, <2>2
<1>5. CASE UNCHANGED <<status, table, last, telegrams, heard, seen, posted>>
  <2>1. UNCHANGED <<SentEvents, GivenIds, PostIds>>
    BY <1>5 DEF SentEvents, GivenIds, PostIds, PostSender
  <2> QED
    BY <1>5, <2>1 DEF Single!vars, SentEvents, GivenIds, PostIds
<1>6. ASSUME NEW c \in (1 .. MaxTelegrams) \X Receivers, LoseCopy(c) \/ HandleEvent(c)
      PROVE  [Single!Next]_(Single!vars)
  <2>1. LoseCopy(c) => UNCHANGED <<status, table, last, telegrams, heard, seen, posted>>
    BY DEF LoseCopy, vars
  <2>2. HandleEvent(c) => c \in copies
    BY DEF HandleEvent
  <2> QED
    BY <1>4, <1>5, <1>6, <2>1, <2>2
<1>7. Tick \/ UNCHANGED filterVars
      => UNCHANGED <<status, table, last, telegrams, heard, seen, posted>>
  BY DEF Tick, filterVars, filter, vars
<1> QED
  BY <1>2, <1>3, <1>5, <1>6, <1>7 DEF FilterNext

\* The duplicate filter as a whole, for any number of receivers, any loss and any
\* order of copies within the skew: what is posted is what a bridge with a single
\* receiver would post, which leaves out nothing but repeated commands.
THEOREM FilterImplementsOneReceiver == FilterSpec => OneReceiverSpec
<1>1. FilterSpec => []Types
  <2>1. FilterSpec => []IInv
    BY FilterImplementsMapping, Invariance, PTL
  <2>2. IInv => Types
    BY DEF IInv
  <2> QED
    BY <2>1, <2>2, PTL
<1>2. FilterIInv /\ Types /\ RadioInv' /\ [FilterNext]_filterVars => [Single!Next]_(Single!vars)
  BY SingleStep
<1>3. FilterSpec => Single!Spec
  BY <1>1, <1>2, SingleInit, FilterInvariance, RadioInvariance, PTL
  DEF FilterSpec, Single!Spec
<1> QED
  BY <1>3 DEF OneReceiverSpec
-----------------------------------------------------------------------------
(* How far apart the filter keeps the same command of one sender.          *)

\* The last command posted of a sender is the one in the table of the filter.
IsLastPost(k) == \A i \in k + 1 .. Len(posted) : PostSender(i) # PostSender(k)
LastPostSeen ==
  \A k \in 1 .. Len(posted) :
    /\ posted[k].id # 0
    /\ IsLastPost(k) => /\ seen[PostSender(k)].id = posted[k].id
                        /\ seen[PostSender(k)].ts >= PostedAt(k)

ApartInv == LastPostSeen /\ SameCommandApart

\* A step that posts nothing, and leaves of the table of the filter what it says
\* of each sender or makes it younger.
LEMMA ApartQuiet ==
  ASSUME ApartInv, Sent, Seen, Seen', PostsAreHeard,
         Len(telegrams') >= Len(telegrams), Len(telegrams') \in Nat,
         \A n \in 1 .. Len(telegrams) : telegrams'[n] = telegrams[n],
         posted' = posted,
         \A id \in Ids : seen'[id].id = seen[id].id /\ seen'[id].ts >= seen[id].ts
  PROVE  ApartInv'
<1>1. \A k \in 1 .. Len(posted) :
        /\ posted[k].telegram \in 1 .. Len(telegrams)
        /\ PostSender(k) \in Ids
        /\ PostedAt(k) \in Nat
        /\ PostSender(k)' = PostSender(k) /\ PostedAt(k)' = PostedAt(k)
  <2> SUFFICES ASSUME NEW k \in 1 .. Len(posted)
               PROVE  /\ posted[k].telegram \in 1 .. Len(telegrams)
                      /\ PostSender(k) \in Ids
                      /\ PostedAt(k) \in Nat
                      /\ PostSender(k)' = PostSender(k) /\ PostedAt(k)' = PostedAt(k)
    OBVIOUS
  <2>1. posted[k].telegram \in 1 .. Len(telegrams)
    BY DEF Sent, PostsAreHeard
  <2> QED
    BY <2>1, SenderKind, TelegramFields DEF PostSender, PostedAt, Sender
<1>2. \A k \in 1 .. Len(posted) : IsLastPost(k)' <=> IsLastPost(k)
  <2>1. Len(posted) \in Nat
    BY DEF PostsAreHeard
  <2>2. \A k \in 1 .. Len(posted) : \A i \in k + 1 .. Len(posted) : i \in 1 .. Len(posted)
    BY <2>1
  <2> QED
    BY <1>1, <2>2 DEF IsLastPost
<1>3. LastPostSeen'
  <2>1. \A id \in Ids : seen[id].ts \in Int /\ seen'[id].ts \in Int
    BY DEF Seen
  <2> SUFFICES ASSUME NEW k \in 1 .. Len(posted)
               PROVE  /\ posted[k].id # 0
                      /\ IsLastPost(k)' => /\ seen'[PostSender(k)'].id = posted[k].id
                                            /\ seen'[PostSender(k)'].ts >= PostedAt(k)'
    BY DEF LastPostSeen
  <2>2. /\ posted[k].id # 0
        /\ IsLastPost(k) => /\ seen[PostSender(k)].id = posted[k].id
                            /\ seen[PostSender(k)].ts >= PostedAt(k)
    BY DEF ApartInv, LastPostSeen
  <2>3. /\ PostSender(k)' = PostSender(k) /\ PostedAt(k)' = PostedAt(k)
        /\ PostSender(k) \in Ids /\ PostedAt(k) \in Nat
        /\ IsLastPost(k)' <=> IsLastPost(k)
    BY <1>1, <1>2
  <2> QED
    BY <2>1, <2>2, <2>3
<1>4. SameCommandApart'
  <2>1. \A j, k \in 1 .. Len(posted) : IsNextPost(j, k)' <=> IsNextPost(j, k)
    BY <1>1 DEF IsNextPost, PostsAreHeard
  <2> QED
    BY <1>1, <2>1 DEF ApartInv, SameCommandApart
<1> QED
  BY <1>3, <1>4 DEF ApartInv

\* handle_event() of a copy that is posted.
LEMMA ApartPost ==
  ASSUME ApartInv, FilterIInv, Types, FilterIInv', NEW c \in copies, HandleEvent(c), posted' # posted
  PROVE  ApartInv'
<1> USE DEF FilterIInv
<1> SUFFICES ASSUME NEW n, n = c[1], NEW s, s = Sender(n),
                    NEW v, v = MapEvent(table, last, telegrams[n].event).out.value
             PROVE  ApartInv'
  OBVIOUS
<1>1. /\ UNCHANGED <<telegrams, clock>>
      /\ v # 0 /\ IsNew(s, v)
      /\ posted' = Append(posted, [telegram |-> n, id |-> v])
      /\ seen' = [seen EXCEPT ![s] = [ts |-> clock, id |-> v]]
  BY DEF HandleEvent, Sender
<1>2. /\ n \in 1 .. Len(telegrams) /\ s \in Ids /\ clock \in Nat
      /\ telegrams[n].at \in Nat /\ telegrams[n].at <= clock
      /\ clock - telegrams[n].at <= MaxSkew
      /\ MaxSkew \in Nat /\ Window \in Nat
  <2>1. n \in 1 .. Len(telegrams) /\ clock \in Nat
    BY FilterAssumption DEF RadioInv, Sent
  <2>2. s \in Ids /\ telegrams[n].at \in Nat
    BY <2>1, SenderKind, TelegramFields DEF RadioInv
  <2>3. telegrams[n].at <= clock /\ clock - telegrams[n].at <= MaxSkew
    BY <2>1 DEF RadioInv, Sent, InTime
  <2> QED
    BY <2>1, <2>2, <2>3, FilterAssumption
<1>3. seen \in [Ids -> [ts : Int, id : Int]]
  BY DEF Seen
<1>4. /\ Len(posted) \in Nat /\ Len(posted') = Len(posted) + 1
      /\ posted'[Len(posted) + 1] = [telegram |-> n, id |-> v]
      /\ \A k \in 1 .. Len(posted) : posted'[k] = posted[k]
  BY <1>1 DEF PostsAreHeard
<1> SUFFICES ASSUME NEW new, new = Len(posted) + 1 PROVE ApartInv'
  OBVIOUS
<1>5. /\ PostSender(new)' = s /\ PostedAt(new)' = telegrams[n].at
      /\ \A k \in 1 .. Len(posted) :
           /\ PostSender(k)' = PostSender(k) /\ PostedAt(k)' = PostedAt(k)
           /\ PostSender(k) \in Ids /\ PostedAt(k) \in Nat
  <2>1. \A k \in 1 .. Len(posted) : posted[k].telegram \in 1 .. Len(telegrams)
    BY DEF RadioInv, Sent, PostsAreHeard
  <2>2. \A k \in 1 .. Len(posted) : PostSender(k) \in Ids /\ PostedAt(k) \in Nat
    BY <2>1, SenderKind, TelegramFields DEF RadioInv, PostSender, PostedAt, Sender
  <2> QED
    BY <1>1, <1>4, <2>2, SMTT(20) DEF PostSender, PostedAt, Sender
<1>6. ASSUME NEW k \in 1 .. new, IsLastPost(k)'
      PROVE  k = new \/ (k \in 1 .. Len(posted) /\ IsLastPost(k) /\ PostSender(k) # s)
  <2>1. \A i \in k + 1 .. new : PostSender(i)' # PostSender(k)'
    BY <1>4, <1>6 DEF IsLastPost
  <2> SUFFICES ASSUME k # new
               PROVE  k \in 1 .. Len(posted) /\ IsLastPost(k) /\ PostSender(k) # s
    OBVIOUS
  <2>2. k \in 1 .. Len(posted) /\ new \in k + 1 .. new
    BY <1>4
  <2>3. \A i \in k + 1 .. Len(posted) : i \in k + 1 .. new /\ i \in 1 .. Len(posted)
    BY <1>4, <2>2
  <2> QED
    BY <1>5, <2>1, <2>2, <2>3 DEF IsLastPost
<1>7. LastPostSeen'
  <2>1. ASSUME NEW k \in 1 .. new
        PROVE  /\ posted'[k].id # 0
               /\ IsLastPost(k)' => /\ seen'[PostSender(k)'].id = posted'[k].id
                                    /\ seen'[PostSender(k)'].ts >= PostedAt(k)'
    <3>1. CASE k = new
      BY <1>1, <1>2, <1>3, <1>4, <1>5, <3>1
    <3>2. CASE k # new
      <4>1. k \in 1 .. Len(posted)
        BY <1>4, <3>2
      <4>2. posted'[k].id = posted[k].id /\ posted[k].id # 0
        BY <1>4, <4>1 DEF ApartInv, LastPostSeen
      <4>3. IsLastPost(k)' => IsLastPost(k) /\ PostSender(k) # s
        BY <1>6, <3>2
      <4>4. PostSender(k) # s => seen'[PostSender(k)] = seen[PostSender(k)]
        BY <1>1, <1>3, <1>5, <4>1
      <4> QED
        BY <1>5, <4>1, <4>2, <4>3, <4>4 DEF ApartInv, LastPostSeen
    <3> QED
      BY <3>1, <3>2
  <2> QED
    BY <1>4, <2>1 DEF LastPostSeen
<1>8. SameCommandApart'
  <2>1. ASSUME NEW j \in 1 .. new, NEW k \in 1 .. new, IsNextPost(j, k)',
               posted'[j].id = posted'[k].id
        PROVE  PostedAt(k)' - PostedAt(j)' >= Window - MaxSkew
    <3>1. /\ j < k /\ PostSender(j)' = PostSender(k)'
          /\ \A i \in j + 1 .. k - 1 : PostSender(i)' # PostSender(k)'
      BY <2>1 DEF IsNextPost
    <3>2. j \in 1 .. Len(posted)
      BY <1>4, <3>1
    <3>3. \A i \in j + 1 .. k - 1 : i \in 1 .. Len(posted)
      BY <1>4, <3>2
    <3>4. CASE k = new
      <4>1. PostSender(j) = s /\ posted[j].id = v
        BY <1>4, <1>5, <2>1, <3>1, <3>2, <3>4
      <4>2. \A i \in j + 1 .. Len(posted) : PostSender(i) # s
        BY <1>4, <1>5, <3>1, <3>3, <3>4
      <4>3. seen[s].id = v /\ seen[s].ts >= PostedAt(j)
        BY <3>2, <4>1, <4>2 DEF ApartInv, LastPostSeen, IsLastPost
      <4>4. clock - seen[s].ts >= Window
        BY <1>1, <4>3 DEF IsNew, NeverSeen
      <4>5. seen[s].ts \in Int
        BY <1>2, <1>3
      <4>6. PostedAt(k)' = telegrams[n].at /\ PostedAt(j)' = PostedAt(j) /\ PostedAt(j) \in Nat
        BY <1>5, <3>2, <3>4
      <4>7. \A at \in Nat, ts \in Int : ts >= at /\ clock - ts >= Window
              => telegrams[n].at - at >= Window - MaxSkew
        BY <1>2
      <4> QED
        BY <4>3, <4>4, <4>5, <4>6, <4>7
    <3>5. CASE k # new
      <4>1. k \in 1 .. Len(posted)
        BY <1>4, <3>5
      <4>2. IsNextPost(j, k) /\ posted[j].id = posted[k].id
        BY <1>4, <1>5, <2>1, <3>1, <3>2, <3>3, <4>1 DEF IsNextPost
      <4> QED
        BY <1>5, <3>2, <4>1, <4>2 DEF ApartInv, SameCommandApart
    <3> QED
      BY <3>4, <3>5
  <2> QED
    BY <1>4, <2>1 DEF SameCommandApart
<1> QED
  BY <1>7, <1>8 DEF ApartInv

LEMMA ApartStep ==
  ASSUME ApartInv, FilterIInv, FilterIInv', Types, [FilterNext]_filterVars
  PROVE  ApartInv'
<1>1. /\ RadioInv /\ Sent /\ Sent' /\ Seen /\ Seen' /\ PostsAreHeard
      /\ Len(telegrams) \in Nat /\ Len(telegrams') \in Nat
      /\ \A id \in Ids : seen[id].ts \in Int
  BY DEF FilterIInv, RadioInv, Sent, Seen
<1>2. ASSUME UNCHANGED <<telegrams, seen, posted>> PROVE ApartInv'
  BY <1>1, <1>2, ApartQuiet
<1>3. ASSUME NEW e \in Events, Telegram(e) PROVE ApartInv'
  <2>1. UNCHANGED <<seen, posted>>
    BY <1>3 DEF Telegram
  <2> QED
    BY <1>1, <1>3, <2>1, TelegramStep, ApartQuiet
<1>4. ASSUME NEW c \in copies, HandleEvent(c) PROVE ApartInv'
  <2>1. CASE posted' # posted
    BY <1>4, <2>1, ApartPost
  <2>2. CASE posted' = posted
    <3> SUFFICES ASSUME NEW s, s = Sender(c[1]),
                        NEW v, v = MapEvent(table, last, telegrams[c[1]].event).out.value
                 PROVE  ApartInv'
      OBVIOUS
    <3>1. /\ telegrams' = telegrams
          /\ seen' = IF v = 0 THEN seen ELSE [seen EXCEPT ![s] = [ts |-> clock, id |-> v]]
          /\ v = 0 \/ ~IsNew(s, v) \/ posted' = Append(posted, [telegram |-> c[1], id |-> v])
      BY <1>4 DEF HandleEvent, Sender
    <3>2. Append(posted, [telegram |-> c[1], id |-> v]) # posted
      <4>1. Len(posted) \in Nat /\ posted \in Seq([telegram : Nat, id : Int])
        BY <1>1 DEF PostsAreHeard
      <4>2. Len(Append(posted, [telegram |-> c[1], id |-> v])) = Len(posted) + 1
        BY <4>1
      <4> QED
        BY <4>1, <4>2
    <3>3. \A id \in Ids : seen'[id].id = seen[id].id /\ seen'[id].ts >= seen[id].ts
      <4>1. seen \in [Ids -> [ts : Int, id : Int]] /\ \A id \in Ids : seen[id].ts <= clock
        BY <1>1, FilterAssumption DEF Seen, Sent
      <4>2. clock \in Int
        BY <1>1, FilterAssumption DEF Sent
      <4> QED
        BY <2>2, <3>1, <3>2, <4>1, <4>2 DEF IsNew
    <3> QED
      BY <1>1, <2>2, <3>1, <3>3, ApartQuiet, SMTT(20)
  <2> QED
    BY <2>1, <2>2
<1>5. CASE Load
  <2>1. UNCHANGED <<telegrams, seen, posted>>
    BY <1>5 DEF Load, filter
  <2> QED
    BY <1>2, <2>1
<1>6. ASSUME NEW c \in (1 .. MaxTelegrams) \X Receivers, LoseCopy(c) \/ HandleEvent(c)
      PROVE  ApartInv'
  <2>1. LoseCopy(c) => UNCHANGED <<telegrams, seen, posted>>
    BY DEF LoseCopy
  <2>2. HandleEvent(c) => c \in copies
    BY DEF HandleEvent
  <2> QED
    BY <1>2, <1>4, <1>6, <2>1, <2>2
<1>7. Tick \/ UNCHANGED filterVars => UNCHANGED <<telegrams, seen, posted>>
  BY DEF Tick, filterVars, filter
<1> QED
  BY <1>2, <1>3, <1>5, <1>6, <1>7 DEF FilterNext

\* When the next command of a sender is the same one again, its telegram was sent
\* at least the window less the skew after that of the one before.
THEOREM SameCommandApartTheorem == FilterSpec => []SameCommandApart
<1>1. FilterSpec => []Types
  <2>1. FilterSpec => []IInv
    BY FilterImplementsMapping, Invariance, PTL
  <2>2. IInv => Types
    BY DEF IInv
  <2> QED
    BY <2>1, <2>2, PTL
<1>2. FilterInit => ApartInv
  BY DEF FilterInit, ApartInv, LastPostSeen, SameCommandApart
<1>3. ApartInv /\ FilterIInv /\ FilterIInv' /\ Types /\ [FilterNext]_filterVars => ApartInv'
  BY ApartStep
<1>4. ApartInv => SameCommandApart
  BY DEF ApartInv
<1> QED
  BY <1>1, <1>2, <1>3, <1>4, FilterInvariance, PTL DEF FilterSpec
=============================================================================
