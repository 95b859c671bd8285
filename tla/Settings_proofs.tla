-------------------------- MODULE Settings_proofs --------------------------
(***************************************************************************)
(* Proofs about Settings, for any number of processes on one database and   *)
(* any names, texts and bounds.                                             *)
(*                                                                          *)
(* IInv adds four things to TypeOK: a process that has loaded has an id and *)
(* a name, and no older signature behind an empty one (LoadedHasNames), the *)
(* tables hold what was stored last (TablesHoldSaved), the process that     *)
(* stored it still shows it (SaverShowsSaved), and what a starting process  *)
(* has read so far is from what was stored when it read it (ReadFromStored).*)
(*                                                                          *)
(* AccountInv, proved over IInv, counts the rows of app_identity and the    *)
(* ids the network has seen.                                                *)
(***************************************************************************)
EXTENDS Settings, FiniteSetTheorems, TLAPS

Named == {m \in Memory : /\ m.id \in Id /\ m.displayName \in Name /\ m.role \in Name
                         /\ m.signature = NoText => m.signatureText = NoText}

LoadedHasNames ==
  \A p \in Process : /\ phase[p] \in {"loaded", "announced", "up"} => memory[p] \in Named
                     /\ phase[p] \in Table => memory[p].id \in Id
                     /\ phase[p] \in {"announced", "up"} => wireName[p] \in Name

TablesHoldSaved ==
  IF db.rows = <<>> THEN saver = {} /\ saved = Blank /\ db.settings = Blank
  ELSE /\ saved \in Named
       /\ db.settings = tablesOf(saved)
       /\ db.rows[Len(db.rows)] = rowOf(saved)

SaverShowsSaved ==
  \A p \in saver : phase[p] = "up" /\ ready[p] /\ memory[p] = saved

\* What m has of the states stored when the tables before the given one have been read.
ReadSoFar(m, stored, table) ==
  /\ \E s \in stored : m.id = s.id /\ m.displayName = s.displayName
  /\ m.signatureText = NoText
  /\ table # "general_settings" => \E s \in stored : m.option = s.option
  /\ IF table \in {"general_settings", "hotkey_settings"} THEN m.shortcut = Default
     ELSE \E s \in stored : m.shortcut = orElse(s.shortcut, Default)
  /\ table \in {"profile_details", "app_state"} => \E s \in stored : m.address = s.address
  /\ table = "app_state" => \E s \in stored : m.name = s.name /\ m.signature = s.signature

Sources(p) ==
  /\ sources[p] \subseteq Named \cup {Blank}
  /\ phase[p] \in Table => ready[p] /\ saved \in sources[p]
  /\ phase[p] = "loaded" /\ ready[p] /\ db.rows = <<>> => Blank \in sources[p]
  /\ Blank \notin sources[p] /\ Len(db.rows) = 1 =>
       /\ phase[p] \in Table => ReadSoFar(memory[p], sources[p], phase[p])
       /\ phase[p] = "loaded" /\ ready[p] => ShowsOnly(memory[p], sources[p])

ReadFromStored == \A p \in Process : Sources(p)

IInv == TypeOK /\ LoadedHasNames /\ TablesHoldSaved /\ SaverShowsSaved /\ ReadFromStored

(***************************************************************************)
(* The operators.                                                           *)
(***************************************************************************)
LEMMA BlankType == Blank \in Memory /\ Blank \notin Named
BY TextAssumption DEF Blank, Memory, Named, Text, NoId, Id

LEMMA Tables ==
  Table = {"general_settings", "hotkey_settings", "mail_settings", "profile_details", "app_state"}
BY DEF Table, following

LEMMA ReplaceEndsWithRow ==
  ASSUME NEW rows \in Seq(Row), NEW row \in Row
  PROVE  /\ replace(rows, row) \in Seq(Row)
         /\ replace(rows, row) # <<>>
         /\ replace(rows, row)[Len(replace(rows, row))] = row
<1> DEFINE old == {i \in DOMAIN rows : rows[i].id = row.id}
           k   == CHOOSE i \in old : TRUE
           new == [i \in DOMAIN rows |-> IF i < k THEN rows[i]
                                         ELSE IF i < Len(rows) THEN rows[i + 1] ELSE row]
<1>1. CASE old = {}
  <2>1. replace(rows, row) = Append(rows, row)
    BY <1>1 DEF replace
  <2> QED
    BY <2>1
<1>2. CASE old # {}
  <2>1. replace(rows, row) = new
    BY <1>2 DEF replace
  <2>2. k \in old
    BY <1>2
  <2>3. k \in 1..Len(rows)
    BY <2>2
  <2>4. DOMAIN rows = 1..Len(rows) /\ Len(rows) \in Nat
    OBVIOUS
  <2> HIDE DEF k
  <2>5. \A i \in 1..Len(rows) : new[i] \in Row
    BY <2>3, <2>4
  <2>6. new \in Seq(Row) /\ Len(new) = Len(rows)
    BY <2>4, <2>5
  <2>7. new[Len(rows)] = row /\ new # <<>>
    BY <2>3, <2>4, <2>6
  <2> QED
    BY <2>1, <2>6, <2>7
<1> QED
  BY <1>1, <1>2

IdsOf(rows) == {rows[i].id : i \in DOMAIN rows}

LEMMA ReplaceIds ==
  ASSUME NEW rows \in Seq(Row), NEW row \in Row
  PROVE  /\ IdsOf(replace(rows, row)) = IdsOf(rows) \cup {row.id}
         /\ Len(replace(rows, row)) = IF row.id \in IdsOf(rows) THEN Len(rows) ELSE Len(rows) + 1
<1> USE DEF IdsOf
<1> DEFINE old == {i \in DOMAIN rows : rows[i].id = row.id}
           k   == CHOOSE i \in old : TRUE
           new == [i \in DOMAIN rows |-> IF i < k THEN rows[i]
                                         ELSE IF i < Len(rows) THEN rows[i + 1] ELSE row]
<1>0. DOMAIN rows = 1..Len(rows) /\ Len(rows) \in Nat
  OBVIOUS
<1>1. CASE old = {}
  <2>1. replace(rows, row) = Append(rows, row)
    BY <1>1 DEF replace
  <2>2. row.id \notin IdsOf(rows)
    BY <1>1
  <2>3. /\ Len(Append(rows, row)) = Len(rows) + 1
        /\ DOMAIN Append(rows, row) = 1..(Len(rows) + 1)
        /\ \A i \in 1..Len(rows) : Append(rows, row)[i] = rows[i]
        /\ Append(rows, row)[Len(rows) + 1] = row
    OBVIOUS
  <2>4. IdsOf(Append(rows, row)) = IdsOf(rows) \cup {row.id}
    <3>1. \A i \in 1..Len(rows) : i \in 1..(Len(rows) + 1)
      BY <1>0
    <3>2. \A i \in 1..(Len(rows) + 1) : i \in 1..Len(rows) \/ i = Len(rows) + 1
      BY <1>0
    <3>3. Len(rows) + 1 \in 1..(Len(rows) + 1)
      BY <1>0
    <3> QED
      BY <1>0, <2>3, <3>1, <3>2, <3>3
  <2> QED
    BY <2>1, <2>2, <2>3, <2>4
<1>2. CASE old # {}
  <2>1. replace(rows, row) = new
    BY <1>2 DEF replace
  <2>2. k \in old
    BY <1>2
  <2>3. k \in 1..Len(rows) /\ rows[k].id = row.id
    BY <1>0, <2>2
  <2> HIDE DEF k
  <2>4. DOMAIN new = 1..Len(rows)
    BY <1>0
  <2>5. Len(new) = Len(rows)
    BY <1>0, <2>4
  <2>6. \A i \in 1..Len(rows) : new[i].id \in IdsOf(rows)
    <3> SUFFICES ASSUME NEW i \in 1..Len(rows) PROVE new[i].id \in IdsOf(rows)
      OBVIOUS
    <3>1. CASE i < k
      BY <1>0, <3>1
    <3>2. CASE ~(i < k) /\ i < Len(rows)
      <4>1. new[i] = rows[i + 1] /\ i + 1 \in 1..Len(rows)
        BY <1>0, <2>3, <3>2
      <4> QED
        BY <1>0, <4>1
    <3>3. CASE ~(i < k) /\ ~(i < Len(rows))
      <4>1. new[i] = row
        BY <1>0, <3>3
      <4> QED
        BY <1>0, <2>3, <4>1
    <3> QED
      BY <3>1, <3>2, <3>3
  <2>7. \A i \in 1..Len(rows) : rows[i].id \in IdsOf(new)
    <3> SUFFICES ASSUME NEW i \in 1..Len(rows) PROVE rows[i].id \in IdsOf(new)
      OBVIOUS
    <3>1. CASE i < k
      <4>1. new[i] = rows[i]
        BY <1>0, <3>1
      <4> QED
        BY <2>4, <4>1
    <3>2. CASE i = k
      <4>1. Len(rows) \in 1..Len(rows) /\ new[Len(rows)] = row
        BY <1>0, <2>3
      <4> QED
        BY <2>3, <2>4, <3>2, <4>1
    <3>3. CASE i > k
      <4>1. i - 1 \in 1..Len(rows) /\ new[i - 1] = rows[i]
        BY <1>0, <2>3, <3>3
      <4> QED
        BY <2>4, <4>1
    <3> QED
      BY <2>3, <3>1, <3>2, <3>3
  <2>8. IdsOf(new) = IdsOf(rows) /\ row.id \in IdsOf(rows)
    BY <1>0, <2>3, <2>4, <2>6, <2>7
  <2> HIDE DEF new, IdsOf
  <2> QED
    BY <2>1, <2>5, <2>8
<1> QED
  BY <1>1, <1>2

LEMMA OneRow ==
  ASSUME NEW rows \in Seq(Row), Len(rows) = 1
  PROVE  rows # <<>> /\ Head(rows) = rows[Len(rows)]
OBVIOUS

LEMMA SavedType ==
  ASSUME NEW d \in [rows : Seq(Row), settings : Memory], NEW m \in Named
  PROVE  /\ saveState(d, m) \in [rows : Seq(Row), settings : Memory]
         /\ saveState(d, m).rows # <<>>
         /\ saveState(d, m).rows[Len(saveState(d, m).rows)] = rowOf(m)
         /\ saveState(d, m).settings = tablesOf(m)
<1>1. rowOf(m) \in Row
  BY DEF rowOf, Row, Named, Memory, Text
<1>2. tablesOf(m) \in Memory
  BY DEF tablesOf, Named, Memory, Text, NoId
<1>3. d.rows \in Seq(Row)
  OBVIOUS
<1> QED
  BY <1>1, <1>2, <1>3, ReplaceEndsWithRow DEF saveState

LEMMA WithNamesType ==
  ASSUME NEW m \in Memory, m.id \in Id
  PROVE  withNames(m) \in Named /\ withNames(m).id = m.id
<1> DEFINE displayName == orElse(m.displayName, HostName)
           name        == orElse(m.name, displayName)
           text        == orElse(m.signatureText, Placeholder)
<1>1. displayName \in Name /\ name \in Name
  BY TextAssumption DEF orElse, Memory, Text
<1>2. /\ text \in Signature /\ orElse(m.signature, text) \in Signature
      /\ orElse(m.signature, text) # NoText
  BY TextAssumption DEF orElse, Memory
<1>3. orElse(m.role, RoleName) \in Name
  BY TextAssumption DEF orElse, Memory, Text
<1>4. withNames(m) = [m EXCEPT !.displayName = name, !.name = name, !.signatureText = text,
                               !.signature = orElse(@, text), !.role = orElse(@, RoleName)]
  BY DEF withNames
<1> HIDE DEF name, text
<1> QED
  BY <1>1, <1>2, <1>3, <1>4 DEF Named, Memory, Text

LEMMA IdentityType ==
  ASSUME TypeOK, NEW id \in Id
  PROVE  readIdentity(id) \in Memory /\ readIdentity(id).id \in Id
<1>1. CASE db.rows = <<>>
  BY <1>1, BlankType DEF readIdentity, Memory
<1>2. CASE db.rows # <<>>
  <2>1. db.rows \in Seq(Row)
    BY DEF TypeOK
  <2>2. Head(db.rows) \in Row
    BY <1>2, <2>1
  <2>3. Head(db.rows).id \in Id /\ Head(db.rows).displayName \in Text
    BY <2>2 DEF Row
  <2> QED
    BY <1>2, <2>3, BlankType DEF readIdentity, Memory
<1> QED
  BY <1>1, <1>2

LEMMA ReadType ==
  ASSUME TypeOK, NEW m \in Memory, NEW table \in Table
  PROVE  readTable(m, table) \in Memory /\ readTable(m, table).id = m.id
<1> DEFINE d == db.settings
<1>1. d \in Memory
  BY DEF TypeOK
<1>2. /\ orElse(d.shortcut, m.shortcut) \in Option \cup {NoText}
      /\ orElse(d.signatureText, m.signatureText) \in Signature \cup {NoText}
  BY <1>1 DEF orElse, Memory
<1> DEFINE r == readTable(m, table)
<1>3. CASE table = "general_settings"
  <2>1. r = [m EXCEPT !.option = d.option]
    BY <1>3 DEF readTable
  <2> QED
    BY <1>1, <2>1 DEF Memory
<1>4. CASE table = "hotkey_settings"
  <2>1. r = [m EXCEPT !.shortcut = orElse(d.shortcut, m.shortcut)]
    BY <1>4 DEF readTable, Memory
  <2> QED
    BY <1>2, <2>1 DEF Memory
<1>5. CASE table = "mail_settings"
  <2>1. r = [m EXCEPT !.address = d.address]
    BY <1>5 DEF readTable
  <2> QED
    BY <1>1, <2>1 DEF Memory
<1>6. CASE table = "profile_details"
  <2>1. r = [m EXCEPT !.name = d.name, !.signature = d.signature]
    BY <1>6 DEF readTable
  <2> QED
    BY <1>1, <2>1 DEF Memory
<1>7. CASE table = "app_state"
  <2>1. r = [m EXCEPT !.role = d.role, !.signatureText = orElse(d.signatureText, m.signatureText)]
    BY <1>7 DEF readTable, Memory
  <2> QED
    BY <1>1, <1>2, <2>1 DEF Memory
<1> QED
  BY <1>3, <1>4, <1>5, <1>6, <1>7, Tables

(***************************************************************************)
(* The invariant is inductive.                                              *)
(***************************************************************************)
LEMMA InitInv == Init => IInv
<1> SUFFICES ASSUME Init PROVE IInv
  OBVIOUS
<1>1. TypeOK
  BY BlankType, BoundAssumption DEF Init, TypeOK, Text, NoMessage
<1>2. LoadedHasNames /\ TablesHoldSaved /\ SaverShowsSaved
  BY Tables DEF Init, LoadedHasNames, TablesHoldSaved, SaverShowsSaved
<1>3. ReadFromStored
  BY Tables DEF Init, ReadFromStored, Sources
<1> QED
  BY <1>1, <1>2, <1>3 DEF IInv

\* The first row is what was stored last, when it is the only one.
LEMMA IdentityIsStored ==
  ASSUME IInv, Blank # saved, Len(db.rows) = 1, NEW id
  PROVE  ReadSoFar(readIdentity(id), {saved}, "general_settings")
<1>1. db.rows \in Seq(Row)
  BY DEF IInv, TypeOK
<1>2. db.rows # <<>> /\ Head(db.rows) = db.rows[Len(db.rows)]
  BY <1>1, OneRow
<1>3. saved \in Named /\ Head(db.rows) = rowOf(saved)
  BY <1>2 DEF IInv, TablesHoldSaved
<1>4. Head(db.rows).id = saved.id /\ Head(db.rows).displayName = saved.displayName
  BY <1>3 DEF rowOf
<1> DEFINE m == readIdentity(id)
<1>5. m = [Blank EXCEPT !.id = saved.id, !.displayName = saved.displayName]
  BY <1>2, <1>4 DEF readIdentity
<1>6. /\ m.id = saved.id /\ m.displayName = saved.displayName
      /\ m.signatureText = NoText /\ m.shortcut = Default
  BY <1>5 DEF Blank
<1> QED
  BY <1>6 DEF ReadSoFar

LEMMA LoadStep ==
  ASSUME IInv, NEW p \in Process, load(p)
  PROVE  IInv'
<1> USE DEF IInv, load
<1>1. starts + 1 \in Id
  BY BoundAssumption DEF TypeOK, Id
<1>2. p \notin saver
  BY DEF SaverShowsSaved
<1>3. TablesHoldSaved'
  BY DEF TablesHoldSaved
<1>4. /\ saved \in Named \cup {Blank}
      /\ \A q \in Process \ {p} : /\ phase'[q] = phase[q] /\ memory'[q] = memory[q]
                                  /\ ready'[q] = ready[q] /\ sources'[q] = sources[q]
  BY DEF TablesHoldSaved, TypeOK
<1>5. CASE ready'[p]
  <2>1. /\ ready' = [ready EXCEPT ![p] = TRUE]
        /\ phase' = [phase EXCEPT ![p] = "general_settings"]
        /\ memory' = [memory EXCEPT ![p] = readIdentity(starts + 1)]
        /\ sources' = [sources EXCEPT ![p] = {saved}]
        /\ failures' = failures
    BY <1>5 DEF TypeOK
  <2>2. readIdentity(starts + 1) \in Memory /\ readIdentity(starts + 1).id \in Id
    BY <1>1, IdentityType
  <2>3. TypeOK'
    BY <2>1, <2>2, Tables, BoundAssumption DEF TypeOK, NoMessage
  <2>4. LoadedHasNames'
    BY <2>1, <2>2, Tables DEF LoadedHasNames, TypeOK
  <2>5. SaverShowsSaved'
    BY <2>1, <1>2 DEF SaverShowsSaved, TypeOK
  <2>6. Sources(p)'
    <3>1. /\ phase'[p] = "general_settings" /\ ready'[p] /\ sources'[p] = {saved}
          /\ memory'[p] = readIdentity(starts + 1)
      BY <2>1 DEF TypeOK
    <3>2. Blank # saved /\ Len(db.rows) = 1
            => ReadSoFar(readIdentity(starts + 1), {saved}, "general_settings")
      BY IdentityIsStored
    <3> QED
      BY <1>4, <3>1, <3>2, Tables DEF Sources
  <2>7. ReadFromStored'
    BY <1>4, <2>6 DEF ReadFromStored, Sources
  <2> QED
    BY <1>3, <2>3, <2>4, <2>5, <2>7
<1>6. CASE ~ready'[p]
  <2>1. /\ failures < MaxFailures /\ failures' = failures + 1
        /\ phase' = [phase EXCEPT ![p] = "loaded"]
        /\ ready' = [ready EXCEPT ![p] = FALSE]
        /\ memory' = [memory EXCEPT ![p] = withNames([Blank EXCEPT !.id = starts + 1])]
        /\ sources' = sources
    BY <1>6 DEF TypeOK
  <2>2. [Blank EXCEPT !.id = starts + 1] \in Memory /\ [Blank EXCEPT !.id = starts + 1].id \in Id
    BY <1>1, BlankType DEF Memory
  <2>3. withNames([Blank EXCEPT !.id = starts + 1]) \in Named
    BY <2>2, WithNamesType
  <2>4. withNames([Blank EXCEPT !.id = starts + 1]) \in Memory
    BY <2>3 DEF Named
  <2>5. TypeOK'
    <3>1. /\ phase' \in [Process -> {"off", "loaded", "announced", "up"} \cup Table]
          /\ ready' \in [Process -> BOOLEAN]
      BY <2>1 DEF TypeOK
    <3>2. memory' \in [Process -> Memory]
      BY <2>1, <2>4 DEF TypeOK
    <3>3. starts' \in 0..MaxStarts /\ failures' \in 0..MaxFailures /\ overlaps' \in Nat
      BY <2>1, BoundAssumption DEF TypeOK
    <3> QED
      BY <2>1, <3>1, <3>2, <3>3 DEF TypeOK
  <2>6. LoadedHasNames'
    BY <2>1, <2>3, Tables DEF LoadedHasNames, TypeOK
  <2>7. SaverShowsSaved'
    BY <2>1, <1>2 DEF SaverShowsSaved, TypeOK
  <2>8. ReadFromStored'
    BY <1>4, <2>1, Tables DEF ReadFromStored, Sources, TypeOK
  <2> QED
    BY <1>3, <2>5, <2>6, <2>7, <2>8
<1> QED
  BY <1>5, <1>6

\* The tables hold the parts of the state stored last.
LEMMA ReadIsStored ==
  ASSUME IInv, NEW m \in Memory, NEW S \in SUBSET Named, saved \in S,
         NEW table \in Table, ReadSoFar(m, S, table)
  PROVE  /\ table # "app_state" => ReadSoFar(readTable(m, table), S, following[table])
         /\ table = "app_state" => ShowsOnly(withNames(readTable(m, table)), S)
<1> DEFINE r == readTable(m, table)
<1>1. db.settings = tablesOf(saved) /\ saved \in Memory
  BY BlankType DEF IInv, TablesHoldSaved, Named
<1>2. /\ db.settings.option = saved.option /\ db.settings.shortcut = saved.shortcut
      /\ db.settings.address = saved.address /\ db.settings.name = saved.name
      /\ db.settings.signature = saved.signature /\ db.settings.role = saved.role
      /\ db.settings.signatureText = saved.signatureText
  BY <1>1 DEF tablesOf, Memory
<1>3. CASE table = "general_settings"
  <2>1. r = [m EXCEPT !.option = saved.option]
    BY <1>2, <1>3 DEF readTable
  <2>2. following[table] = "hotkey_settings"
    BY <1>3 DEF following
  <2> QED
    BY <1>3, <2>1, <2>2 DEF ReadSoFar, Memory
<1>4. CASE table = "hotkey_settings"
  <2>1. r = [m EXCEPT !.shortcut = orElse(saved.shortcut, Default)]
    BY <1>2, <1>4 DEF readTable, ReadSoFar
  <2>2. following[table] = "mail_settings"
    BY <1>4 DEF following
  <2> QED
    BY <1>4, <2>1, <2>2 DEF ReadSoFar, Memory
<1>5. CASE table = "mail_settings"
  <2>1. r = [m EXCEPT !.address = saved.address]
    BY <1>2, <1>5 DEF readTable
  <2>2. following[table] = "profile_details"
    BY <1>5 DEF following
  <2> QED
    BY <1>5, <2>1, <2>2 DEF ReadSoFar, Memory
<1>6. CASE table = "profile_details"
  <2>1. r = [m EXCEPT !.name = saved.name, !.signature = saved.signature]
    BY <1>2, <1>6 DEF readTable
  <2>2. following[table] = "app_state"
    BY <1>6 DEF following
  <2>3. /\ r.id = m.id /\ r.displayName = m.displayName /\ r.option = m.option
        /\ r.shortcut = m.shortcut /\ r.address = m.address /\ r.signatureText = m.signatureText
        /\ r.name = saved.name /\ r.signature = saved.signature
    BY <2>1 DEF Memory
  <2>4. ReadSoFar(m, S, "profile_details")
    BY <1>6
  <2>5. /\ \E s \in S : r.id = s.id /\ r.displayName = s.displayName
        /\ r.signatureText = NoText
        /\ \E s \in S : r.option = s.option
        /\ \E s \in S : r.shortcut = orElse(s.shortcut, Default)
        /\ \E s \in S : r.address = s.address
    BY <2>3, <2>4 DEF ReadSoFar
  <2>6. \E s \in S : r.name = s.name /\ r.signature = s.signature
    BY <2>3
  <2>7. ReadSoFar(r, S, "app_state")
    <3> HIDE DEF r
    <3> QED
      BY <2>5, <2>6 DEF ReadSoFar
  <2> QED
    BY <1>6, <2>2, <2>7
<1>7. CASE table = "app_state"
  <2>1. r = [m EXCEPT !.role = saved.role, !.signatureText = saved.signatureText]
    BY <1>2, <1>7 DEF readTable, ReadSoFar, orElse
  <2>2. PICK s \in S : m.id = s.id /\ m.displayName = s.displayName
    BY DEF ReadSoFar
  <2>3. PICK t \in S : m.name = t.name /\ m.signature = t.signature
    BY <1>7 DEF ReadSoFar
  <2>4. /\ r \in Memory /\ r.id = s.id /\ r.displayName = s.displayName
        /\ r.name = t.name /\ r.signature = t.signature
        /\ r.role = saved.role /\ r.signatureText = saved.signatureText
        /\ r.option = m.option /\ r.shortcut = m.shortcut /\ r.address = m.address
    BY <1>1, <2>1, <2>2, <2>3 DEF Memory
  <2>5. /\ \E u \in S : m.option = u.option
        /\ \E u \in S : m.shortcut = orElse(u.shortcut, Default)
        /\ \E u \in S : m.address = u.address
    BY <1>7 DEF ReadSoFar
  <2> DEFINE w == withNames(r)
             text == orElse(r.signatureText, Placeholder)
             name == orElse(r.name, orElse(r.displayName, HostName))
  <2>6. /\ w.id = r.id /\ w.name = name
        /\ w.signature = orElse(r.signature, text) /\ w.role = orElse(r.role, RoleName)
        /\ w.option = r.option /\ w.shortcut = r.shortcut /\ w.address = r.address
    BY <2>4 DEF withNames, Memory
  <2>7. s.displayName \in Name /\ t.name \in Text /\ t.signature \in Signature \cup {NoText}
    BY DEF Named, Memory
  <2>8. name = orElse(t.name, s.displayName) /\ name # NoText
    BY <2>4, <2>7, TextAssumption DEF orElse, Text
  <2>9. shown(w) = orElse(t.name, s.displayName)
    BY <2>6, <2>8 DEF shown, orElse
  <2>10. w.signature = orElse(t.signature, orElse(saved.signatureText, Placeholder))
    BY <2>4, <2>6
  <2>11. (\A u \in S : u.signature = NoText) => w.signature = Placeholder
    <3>1. (\A u \in S : u.signature = NoText)
             => t.signature = NoText /\ saved.signatureText = NoText
      BY DEF Named
    <3> QED
      BY <2>10, <3>1 DEF orElse
  <2>12. w.id = s.id /\ w.role = orElse(saved.role, RoleName)
    BY <2>4, <2>6
  <2>13. /\ \E u \in S : w.option = u.option
         /\ \E u \in S : w.shortcut = orElse(u.shortcut, Default)
         /\ \E u \in S : w.address = u.address
    BY <2>4, <2>5, <2>6
  <2> HIDE DEF w
  <2>14. ShowsOnly(w, S)
    BY <2>9, <2>10, <2>11, <2>12, <2>13 DEF ShowsOnly
  <2> QED
    BY <1>7, <2>14 DEF w
<1> QED
  BY <1>3, <1>4, <1>5, <1>6, <1>7, Tables

LEMMA LoadTableStep ==
  ASSUME IInv, NEW p \in Process, loadTable(p)
  PROVE  IInv'
<1> DEFINE read == readTable(memory[p], phase[p])
           next == following[phase[p]]
           m    == IF phase[p] = "app_state" THEN withNames(read) ELSE read
<1>1. /\ phase[p] \in Table
      /\ phase' = [phase EXCEPT ![p] = next] /\ memory' = [memory EXCEPT ![p] = m]
      /\ sent' = NoMessage
      /\ UNCHANGED <<ready, wireName, db, heard, saved, saver, sources, overlaps,
                     starts, edits, failures, deaths>>
  BY DEF loadTable, history, spent
<1>2. /\ phase[p] # "app_state" => next \in Table
      /\ phase[p] = "app_state" => next = "loaded"
      /\ "loaded" \notin Table
  BY <1>1, Tables DEF following
<1>3. TypeOK /\ memory[p] \in Memory /\ memory[p].id \in Id
  BY <1>1 DEF IInv, TypeOK, LoadedHasNames
<1>4. read \in Memory /\ read.id \in Id
  BY <1>1, <1>3, ReadType
<1>5. /\ m \in Memory /\ m.id \in Id
      /\ phase[p] = "app_state" => m \in Named
  BY <1>4, WithNamesType DEF Named
<1>6. /\ phase'[p] = next /\ memory'[p] = m
      /\ \A q \in Process \ {p} : phase'[q] = phase[q] /\ memory'[q] = memory[q]
  BY <1>1, <1>3 DEF TypeOK
<1>7. IInv /\ (phase[p] = "app_state" \/ phase[p] # "app_state")
  OBVIOUS
<1> HIDE DEF m, next
<1>8. TypeOK'
  <2>1. next \in {"off", "loaded", "announced", "up"} \cup Table
    BY <1>2
  <2> QED
    BY <1>1, <1>3, <1>5, <2>1 DEF TypeOK
<1>9. LoadedHasNames'
  BY <1>1, <1>2, <1>5, <1>6, <1>7, Tables DEF IInv, LoadedHasNames
<1>10. TablesHoldSaved'
  BY <1>1 DEF IInv, TablesHoldSaved
<1>11. SaverShowsSaved'
  <2>1. p \notin saver
    BY <1>1, Tables DEF IInv, SaverShowsSaved
  <2> QED
    BY <1>1, <1>6, <2>1 DEF IInv, SaverShowsSaved
<1>12. Sources(p)'
  <2>1. Sources(p) /\ ready[p] /\ saved \in sources[p]
    BY <1>1 DEF IInv, ReadFromStored, Sources
  <2>2. db.rows = <<>> => Blank \in sources[p]
    BY <2>1 DEF IInv, TablesHoldSaved
  <2>3. ASSUME Blank \notin sources[p], Len(db.rows) = 1
        PROVE  /\ phase[p] # "app_state" => ReadSoFar(m, sources[p], next)
               /\ phase[p] = "app_state" => ShowsOnly(m, sources[p])
    <3>1. sources[p] \in SUBSET Named /\ ReadSoFar(memory[p], sources[p], phase[p])
      BY <1>1, <2>1, <2>3 DEF Sources
    <3> QED
      BY <1>1, <1>3, <2>1, <3>1, ReadIsStored DEF m, next
  <2> QED
    BY <1>1, <1>2, <1>6, <2>1, <2>2, <2>3 DEF Sources
<1>13. ReadFromStored'
  <2>1. ASSUME NEW q \in Process \ {p} PROVE Sources(q)'
    BY <1>1, <1>6 DEF IInv, ReadFromStored, Sources
  <2> QED
    BY <1>12, <2>1 DEF ReadFromStored
<1> QED
  BY <1>8, <1>9, <1>10, <1>11, <1>13 DEF IInv

LEMMA AnnounceStep ==
  ASSUME IInv, NEW p \in Process, announceOnline(p)
  PROVE  IInv'
<1> USE DEF IInv, announceOnline, spent
<1>1. memory[p] \in Named
  BY DEF LoadedHasNames
<1>2. memory[p].displayName \in Name /\ memory[p].id \in Id
  BY <1>1 DEF Named
<1>3. TypeOK'
  BY <1>2 DEF TypeOK, NoMessage, Text
<1>4. LoadedHasNames'
  BY <1>1, <1>2, Tables DEF LoadedHasNames, TypeOK
<1>5. TablesHoldSaved'
  BY DEF TablesHoldSaved
<1>6. p \notin saver
  BY DEF SaverShowsSaved
<1>7. SaverShowsSaved'
  BY <1>6 DEF SaverShowsSaved, TypeOK
<1>8. /\ sources'[p] = {} /\ phase'[p] = "announced"
      /\ \A q \in Process \ {p} : phase'[q] = phase[q] /\ sources'[q] = sources[q]
  BY DEF TypeOK
<1>9. ReadFromStored'
  BY <1>8, Tables DEF ReadFromStored, Sources
<1> QED
  BY <1>3, <1>4, <1>5, <1>7, <1>9

\* More may be stored than what was read; nothing that was read is lost by it.
LEMMA MoreStored ==
  ASSUME NEW m, NEW S, NEW T, S \subseteq T, NEW table
  PROVE  /\ ReadSoFar(m, S, table) => ReadSoFar(m, T, table)
         /\ ShowsOnly(m, S) => ShowsOnly(m, T)
<1>1. ReadSoFar(m, S, table) => ReadSoFar(m, T, table)
  BY DEF ReadSoFar
<1>2. ShowsOnly(m, S) => ShowsOnly(m, T)
  BY DEF ShowsOnly
<1> QED
  BY <1>1, <1>2

\* What initialized and edit have in common: p is up with the memory m, and stores it.
LEMMA StoreStep ==
  ASSUME IInv, NEW p \in Process, NEW m \in Named, persistSettings(p, m),
         phase[p] \in {"announced", "up"},
         phase' = [phase EXCEPT ![p] = "up"], memory' = [memory EXCEPT ![p] = m],
         edits' \in 0..MaxEdits, sent' = NoMessage,
         UNCHANGED <<ready, wireName, heard, overlaps, starts, failures, deaths>>
  PROVE  IInv'
<1> USE DEF IInv
<1>1. m \in Memory
  BY DEF Named
<1>2. LoadedHasNames'
  BY Tables DEF LoadedHasNames, TypeOK
<1>3. CASE ready[p]
  <2>1. db' = saveState(db, m) /\ saved' = m /\ saver' = {p}
    BY <1>3 DEF persistSettings
  <2>2. db \in [rows : Seq(Row), settings : Memory]
    BY DEF TypeOK
  <2>3. /\ db' \in [rows : Seq(Row), settings : Memory]
        /\ db'.rows # <<>>
        /\ db'.rows[Len(db'.rows)] = rowOf(m)
        /\ db'.settings = tablesOf(m)
    BY <2>1, <2>2, SavedType
  <2>4. TypeOK'
    <3>1. sources' \in [Process -> SUBSET Memory]
      BY <1>1, <1>3 DEF persistSettings, TypeOK
    <3> QED
      BY <1>1, <2>1, <2>3, <3>1 DEF TypeOK, NoMessage
  <2>5. TablesHoldSaved'
    BY <2>1, <2>3 DEF TablesHoldSaved
  <2>6. SaverShowsSaved'
    BY <1>3, <2>1 DEF SaverShowsSaved, TypeOK
  <2>7. ReadFromStored'
    <3> SUFFICES ASSUME NEW q \in Process PROVE Sources(q)'
      BY DEF ReadFromStored
    <3>1. Sources(q) /\ phase[p] \notin Table \cup {"loaded"} /\ phase'[p] \notin Table \cup {"loaded"}
      BY Tables DEF ReadFromStored, TypeOK
    <3>2. q # p => phase'[q] = phase[q] /\ memory'[q] = memory[q]
      BY DEF TypeOK
    <3>3. /\ ready' = ready /\ saved' = m
          /\ sources'[q] = IF phase[q] \in Table THEN sources[q] \cup {m} ELSE sources[q]
      BY <1>3 DEF persistSettings
    <3>4. sources'[q] \subseteq Named \cup {Blank} /\ sources[q] \subseteq sources'[q]
      BY <3>1, <3>3 DEF Sources
    <3>5. ASSUME Blank \notin sources'[q], Len(db'.rows) = 1, q # p,
                 phase[q] \in Table \/ (phase[q] = "loaded" /\ ready[q])
          PROVE  Blank \notin sources[q] /\ Len(db.rows) = 1
      <4>1. Blank \notin sources[q]
        BY <3>4, <3>5
      <4>2. db.rows # <<>>
        BY <3>1, <3>5, <4>1 DEF Sources, TablesHoldSaved
      <4>3. Len(db.rows) = 1
        <5>1. rowOf(m) \in Row
          BY DEF rowOf, Row, Named, Memory, Text
        <5>2. db.rows \in Seq(Row) /\ Len(db.rows) \in Nat
          BY DEF TypeOK
        <5>3. Len(replace(db.rows, rowOf(m))) \in {Len(db.rows), Len(db.rows) + 1}
          BY <5>1, <5>2, ReplaceIds
        <5> QED
          <6>1. db'.rows = replace(db.rows, rowOf(m))
            BY <2>1 DEF saveState
          <6>2. Len(db.rows) # 0
            BY <4>2, <5>2
          <6>3. Len(db'.rows) = 1
            BY <3>5
          <6>4. 1 \in {Len(db.rows), Len(db.rows) + 1}
            BY <5>3, <6>1, <6>3
          <6> QED
            BY <5>2, <6>2, <6>4
      <4> QED
        BY <4>1, <4>3
    <3>6. CASE q = p
      BY <2>3, <3>1, <3>4, <3>6 DEF Sources
    <3>7. CASE q # p
      <4>1. phase[q] \in Table => ready'[q] /\ saved' \in sources'[q]
        BY <3>1, <3>3 DEF Sources
      <4>2. Blank \notin sources'[q] /\ Len(db'.rows) = 1 /\ phase[q] \in Table
              => ReadSoFar(memory[q], sources'[q], phase[q])
        BY <3>1, <3>4, <3>5, <3>7, MoreStored DEF Sources
      <4>3. Blank \notin sources'[q] /\ Len(db'.rows) = 1 /\ phase[q] = "loaded" /\ ready[q]
              => ShowsOnly(memory[q], sources'[q])
        BY <3>1, <3>4, <3>5, <3>7, MoreStored DEF Sources
      <4> QED
        BY <2>3, <3>2, <3>3, <3>4, <3>7, <4>1, <4>2, <4>3 DEF Sources
    <3> QED
      BY <3>6, <3>7
  <2> QED
    BY <1>2, <2>4, <2>5, <2>6, <2>7
<1>4. CASE ~ready[p]
  <2>1. UNCHANGED <<db, saved, saver, sources>>
    BY <1>4 DEF persistSettings
  <2>2. TypeOK'
    BY <1>1, <2>1 DEF TypeOK, NoMessage
  <2>3. TablesHoldSaved'
    BY <2>1 DEF TablesHoldSaved
  <2>4. p \notin saver
    BY <1>4 DEF SaverShowsSaved
  <2>5. SaverShowsSaved'
    BY <2>1, <2>4 DEF SaverShowsSaved, TypeOK
  <2>6. \A q \in Process \ {p} : phase'[q] = phase[q] /\ memory'[q] = memory[q]
    BY DEF TypeOK
  <2>7. phase'[p] = "up"
    BY DEF TypeOK
  <2>8. ReadFromStored'
    BY <2>1, <2>6, <2>7, Tables DEF ReadFromStored, Sources
  <2> QED
    BY <1>2, <2>2, <2>3, <2>5, <2>8
<1> QED
  BY <1>3, <1>4

LEMMA InitializedStep ==
  ASSUME IInv, NEW p \in Process, initialized(p)
  PROVE  IInv'
<1>1. memory[p] \in Named
  BY DEF initialized, IInv, LoadedHasNames
<1>2. memory' = [memory EXCEPT ![p] = memory[p]]
  BY DEF initialized, IInv, TypeOK
<1>3. edits' \in 0..MaxEdits
  BY DEF initialized, spent, IInv, TypeOK
<1> QED
  BY <1>1, <1>2, <1>3, StoreStep DEF initialized, spent

LEMMA EditStep ==
  ASSUME IInv, NEW p \in Process, NEW m \in Named, edit(p, m)
  PROVE  IInv'
<1>1. phase' = [phase EXCEPT ![p] = "up"]
  BY DEF edit, IInv, TypeOK
<1>2. edits' \in 0..MaxEdits
  BY BoundAssumption DEF edit, IInv, TypeOK
<1> QED
  BY <1>1, <1>2, StoreStep DEF edit

LEMMA UpdateStep ==
  ASSUME IInv, NEW p \in Process, NEW name \in Text,
         NEW signature \in Signature \cup {NoText},
         updateProfileDetails(p, name, signature)
  PROVE  IInv'
<1> DEFINE m == [memory[p] EXCEPT !.name = name, !.displayName = orElse(name, @),
                                  !.signature = signature, !.signatureText = signature]
<1>1. edit(p, m)
  BY DEF updateProfileDetails
<1>2. memory[p] \in Named
  BY <1>1 DEF edit, IInv, LoadedHasNames
<1>3. m \in Named
  BY <1>2 DEF Named, Memory, Text, orElse
<1> HIDE DEF m
<1> QED
  BY <1>1, <1>3, EditStep

LEMMA PreferenceStep ==
  ASSUME IInv, NEW p \in Process,
         bindGeneralSettings(p) \/ bindHotkeySettings(p) \/ bindMailSettings(p)
  PROVE  IInv'
<1>1. memory[p] \in Named
  BY DEF bindGeneralSettings, bindHotkeySettings, bindMailSettings, edit, IInv, LoadedHasNames
<1>2. CASE bindGeneralSettings(p)
  <2>1. PICK option \in Option : edit(p, [memory[p] EXCEPT !.option = option])
    BY <1>2 DEF bindGeneralSettings
  <2>2. [memory[p] EXCEPT !.option = option] \in Named
    BY <1>1 DEF Named, Memory, Text
  <2> QED
    BY <2>1, <2>2, EditStep
<1>3. CASE bindHotkeySettings(p)
  <2>1. PICK text \in Option \cup {NoText} : edit(p, [memory[p] EXCEPT !.shortcut = text])
    BY <1>3 DEF bindHotkeySettings
  <2>2. [memory[p] EXCEPT !.shortcut = text] \in Named
    BY <1>1 DEF Named, Memory, Text
  <2> QED
    BY <2>1, <2>2, EditStep
<1>4. CASE bindMailSettings(p)
  <2>1. PICK text \in Option \cup {NoText} : edit(p, [memory[p] EXCEPT !.address = text])
    BY <1>4 DEF bindMailSettings
  <2>2. [memory[p] EXCEPT !.address = text] \in Named
    BY <1>1 DEF Named, Memory, Text
  <2> QED
    BY <2>1, <2>2, EditStep
<1> QED
  BY <1>2, <1>3, <1>4

LEMMA SendStep ==
  ASSUME IInv, NEW p \in Process, NEW kind \in {"chat", "file"}, send(p, kind)
  PROVE  IInv'
<1> USE DEF IInv, send, process, history, spent
<1>1. memory[p] \in Named /\ wireName[p] \in Name
  BY DEF LoadedHasNames
<1>2. shown(memory[p]) \in Name
  BY <1>1 DEF shown, orElse, Named, Memory, Text
<1>3. roleNameOf(memory[p], kind) \in Name
  BY <1>1, <1>2 DEF roleNameOf, Named
<1>4. sent' \in [kind : {"chat", "file"}, roleName : Name, displayName : Name, profile : Name]
  BY <1>1, <1>2, <1>3 DEF message
<1>5. TypeOK'
  BY <1>4 DEF TypeOK
<1>6. LoadedHasNames' /\ TablesHoldSaved' /\ SaverShowsSaved' /\ ReadFromStored'
  BY DEF LoadedHasNames, TablesHoldSaved, SaverShowsSaved, ReadFromStored, Sources
<1> QED
  BY <1>5, <1>6

LEMMA DieStep ==
  ASSUME IInv, NEW p \in Process, die(p)
  PROVE  IInv'
<1> USE DEF IInv, die
<1>1. TypeOK'
  BY BlankType, BoundAssumption DEF TypeOK, NoMessage, Text
<1>2. LoadedHasNames'
  BY Tables DEF LoadedHasNames, TypeOK
<1>3. TablesHoldSaved'
  BY DEF TablesHoldSaved
<1>4. SaverShowsSaved'
  BY DEF SaverShowsSaved, TypeOK
<1>5. /\ sources'[p] = {} /\ phase'[p] = "off"
      /\ \A q \in Process \ {p} : /\ phase'[q] = phase[q] /\ sources'[q] = sources[q]
                                  /\ memory'[q] = memory[q] /\ ready'[q] = ready[q]
  BY DEF TypeOK
<1>6. ReadFromStored'
  BY <1>5, Tables DEF ReadFromStored, Sources
<1> QED
  BY <1>1, <1>2, <1>3, <1>4, <1>6

LEMMA NextInv == IInv /\ [Next]_vars => IInv'
<1> SUFFICES ASSUME IInv, [Next]_vars PROVE IInv'
  OBVIOUS
<1>1. CASE UNCHANGED vars
  BY <1>1 DEF IInv, TypeOK, LoadedHasNames, TablesHoldSaved, SaverShowsSaved, ReadFromStored,
              Sources, vars, process, history, spent
<1>2. CASE Next
  BY <1>2, LoadStep, LoadTableStep, AnnounceStep, InitializedStep, UpdateStep, PreferenceStep, SendStep,
     DieStep DEF Next, saveProfile
<1> QED
  BY <1>1, <1>2

THEOREM Inductive == Spec => []IInv
BY InitInv, NextInv, PTL DEF Spec

(***************************************************************************)
(* The rows of app_identity and the ids the network has seen.  Both are     *)
(* counted with the processes that are about to add to them: Fresh are      *)
(* those that will store an id the table does not have, and SeenIds has     *)
(* the ids of all that are starting.                                        *)
(***************************************************************************)
RowIds  == IdsOf(db.rows)
Fresh   == {p \in Process : starting(p) /\ ready[p] /\ memory[p].id \notin RowIds}
SeenIds == RowIds \cup {h.id : h \in heard}
                  \cup {memory[p].id : p \in {q \in Process : starting(q)}}
Pending == db.rows # <<>> \/ \E p \in Process : starting(p) /\ ready[p]

\* A process that is up on a database has its row in it.
StoredIsRow == \A p \in Process : phase[p] = "up" /\ ready[p] => memory[p].id \in RowIds

RowsCounted == IsFiniteSet(Fresh) /\ Len(db.rows) + Cardinality(Fresh) <= 1 + overlaps

\* The one identity that needs no excuse is that of the first row, stored or pending.
SeenCounted ==
  /\ IsFiniteSet(SeenIds)
  /\ Cardinality(SeenIds) <= failures + deaths + overlaps + (IF Pending THEN 1 ELSE 0)

AccountInv == StoredIsRow /\ RowsCounted /\ SeenCounted

LEMMA OneMore ==
  ASSUME NEW S, IsFiniteSet(S), NEW x
  PROVE  /\ IsFiniteSet(S \cup {x})
         /\ Cardinality(S \cup {x}) <= Cardinality(S) + 1
         /\ Cardinality(S \cup {x}) \in Nat
<1>1. Cardinality(S) \in Nat
  BY FS_CardinalityType
<1>2. /\ IsFiniteSet(S \cup {x})
      /\ Cardinality(S \cup {x}) = IF x \in S THEN Cardinality(S) ELSE Cardinality(S) + 1
  BY FS_AddElement
<1> QED
  BY <1>1, <1>2

LEMMA InitAccount == Init => AccountInv
<1> SUFFICES ASSUME Init PROVE AccountInv
  OBVIOUS
<1>1. RowIds = {} /\ Fresh = {} /\ SeenIds = {} /\ ~Pending
  BY DEF Init, RowIds, IdsOf, Fresh, SeenIds, Pending, starting
<1>2. Len(db.rows) = 0
  BY DEF Init
<1>3. StoredIsRow
  BY DEF Init, StoredIsRow
<1> QED
  BY <1>1, <1>2, <1>3, FS_EmptySet DEF Init, AccountInv, RowsCounted, SeenCounted

\* A step that adds no id and no row, and takes no pending row back for free.
LEMMA FewerCounted ==
  ASSUME IInv, AccountInv, TypeOK', Fresh' \subseteq Fresh, SeenIds' \subseteq SeenIds,
         Len(db'.rows) = Len(db.rows), overlaps' = overlaps, failures' = failures,
         \/ (Pending <=> Pending') /\ deaths' = deaths
         \/ deaths' = deaths + 1
  PROVE  RowsCounted' /\ SeenCounted'
<1>1. /\ IsFiniteSet(Fresh') /\ Cardinality(Fresh') <= Cardinality(Fresh)
      /\ IsFiniteSet(SeenIds') /\ Cardinality(SeenIds') <= Cardinality(SeenIds)
  BY FS_Subset DEF AccountInv, RowsCounted, SeenCounted
<1>2. /\ Cardinality(Fresh) \in Nat /\ Cardinality(SeenIds) \in Nat
      /\ Cardinality(Fresh') \in Nat /\ Cardinality(SeenIds') \in Nat
  BY <1>1, FS_CardinalityType DEF AccountInv, RowsCounted, SeenCounted
<1>3. /\ failures \in Nat /\ deaths \in Nat /\ overlaps \in Nat
      /\ Len(db.rows) \in Nat
  BY BoundAssumption DEF IInv, TypeOK
<1>4. RowsCounted'
  BY <1>1, <1>2, <1>3 DEF AccountInv, RowsCounted
<1>5. SeenCounted'
  <2>1. Cardinality(SeenIds) <= failures + deaths + overlaps + (IF Pending THEN 1 ELSE 0)
    BY DEF AccountInv, SeenCounted
  <2>2. Cardinality(SeenIds')
          <= failures' + deaths' + overlaps' + (IF Pending' THEN 1 ELSE 0)
    BY <1>1, <1>2, <1>3, <2>1, SMTT(30)
  <2> QED
    BY <1>1, <2>2 DEF SeenCounted
<1> QED
  BY <1>4, <1>5

LEMMA LoadAccount ==
  ASSUME IInv, AccountInv, IInv', NEW p \in Process, load(p)
  PROVE  AccountInv'
<1> DEFINE id == memory'[p].id
           ok == ready'[p]
           next == IF ok THEN "general_settings" ELSE "loaded"
<1>0. ready \in [Process -> BOOLEAN]
  BY DEF IInv, TypeOK
<1>1. /\ ok \in BOOLEAN
      /\ failures' = IF ok THEN failures ELSE failures + 1
      /\ ready' = [ready EXCEPT ![p] = ok]
      /\ phase' = [phase EXCEPT ![p] = next]
      /\ ok => memory' = [memory EXCEPT ![p] = readIdentity(starts + 1)]
      /\ \E m : memory' = [memory EXCEPT ![p] = m]
  BY <1>0 DEF load
<1> HIDE DEF ok
<1>2. /\ phase[p] = "off"
      /\ overlaps' = IF \E q \in Process \ {p} : starting(q) THEN overlaps + 1 ELSE overlaps
      /\ UNCHANGED <<db, heard, deaths>>
  BY DEF load
<1>3. /\ phase \in [Process -> {"off", "loaded", "announced", "up"} \cup Table]
      /\ ready \in [Process -> BOOLEAN] /\ memory \in [Process -> Memory]
      /\ next \notin {"off", "up"}
      /\ failures \in Nat /\ deaths \in Nat /\ overlaps \in Nat /\ Len(db.rows) \in Nat
  BY BoundAssumption DEF IInv, TypeOK
<1>4. /\ RowIds' = RowIds /\ ~starting(p) /\ starting(p)' /\ ready'[p] = ok
      /\ \A q \in Process \ {p} : /\ starting(q)' <=> starting(q)
                                  /\ phase'[q] = phase[q]
                                  /\ ready'[q] = ready[q] /\ memory'[q] = memory[q]
  BY <1>1, <1>2, <1>3 DEF RowIds, IdsOf, starting
<1>5. StoredIsRow'
  <2>1. phase'[p] # "up"
    BY <1>4 DEF starting
  <2> QED
    BY <1>4, <2>1 DEF AccountInv, StoredIsRow
<1>6. ok /\ db.rows # <<>> => id \in RowIds
  <2> SUFFICES ASSUME ok, db.rows # <<>> PROVE id \in RowIds
    OBVIOUS
  <2>1. db.rows \in Seq(Row)
    BY DEF IInv, TypeOK
  <2>2. 1 \in DOMAIN db.rows /\ Head(db.rows) = db.rows[1] /\ db.rows[1] \in Row
    BY <2>1
  <2>3. readIdentity(starts + 1).id = db.rows[1].id
    BY <2>2 DEF readIdentity, Blank
  <2>4. id = db.rows[1].id
    BY <1>1, <1>3, <2>3
  <2> QED
    BY <2>2, <2>4 DEF RowIds, IdsOf
<1> HIDE DEF id
<1>7. Fresh' \subseteq Fresh \cup {p} /\ (~ok \/ db.rows # <<>> => Fresh' \subseteq Fresh)
  BY <1>4, <1>6 DEF Fresh, id
<1>8. SeenIds' \subseteq SeenIds \cup {id}
  <2> SUFFICES ASSUME NEW q \in Process, starting(q)', memory'[q].id # id
               PROVE  memory'[q].id \in SeenIds
    BY <1>2, <1>4 DEF SeenIds
  <2> QED
    BY <1>4 DEF SeenIds, id
<1>9. id \in RowIds => SeenIds' \subseteq SeenIds
  BY <1>8 DEF SeenIds
<1>10. Pending' <=> Pending \/ ok
  BY <1>2, <1>4 DEF Pending
<1>11. /\ IsFiniteSet(Fresh) /\ IsFiniteSet(SeenIds)
       /\ Cardinality(Fresh) \in Nat /\ Cardinality(SeenIds) \in Nat
       /\ Len(db.rows) + Cardinality(Fresh) <= 1 + overlaps
       /\ Cardinality(SeenIds) <= failures + deaths + overlaps + (IF Pending THEN 1 ELSE 0)
  BY FS_CardinalityType DEF AccountInv, RowsCounted, SeenCounted
<1>12. /\ IsFiniteSet(Fresh') /\ Cardinality(Fresh') \in Nat
       /\ Cardinality(Fresh') <= Cardinality(Fresh) + 1
       /\ Fresh' \subseteq Fresh => Cardinality(Fresh') <= Cardinality(Fresh)
  <2>1. /\ IsFiniteSet(Fresh \cup {p})
        /\ Cardinality(Fresh \cup {p}) <= Cardinality(Fresh) + 1
        /\ Cardinality(Fresh \cup {p}) \in Nat
    BY <1>11, OneMore
  <2>2. IsFiniteSet(Fresh') /\ Cardinality(Fresh') <= Cardinality(Fresh \cup {p})
    BY <1>7, <2>1, FS_Subset
  <2>3. Cardinality(Fresh') \in Nat
    BY <2>2, FS_CardinalityType
  <2>4. Fresh' \subseteq Fresh => Cardinality(Fresh') <= Cardinality(Fresh)
    BY <1>11, FS_Subset
  <2> QED
    BY <1>11, <2>1, <2>2, <2>3, <2>4
<1>13. /\ IsFiniteSet(SeenIds') /\ Cardinality(SeenIds') \in Nat
       /\ Cardinality(SeenIds') <= Cardinality(SeenIds) + 1
       /\ SeenIds' \subseteq SeenIds => Cardinality(SeenIds') <= Cardinality(SeenIds)
  <2>1. /\ IsFiniteSet(SeenIds \cup {id})
        /\ Cardinality(SeenIds \cup {id}) <= Cardinality(SeenIds) + 1
        /\ Cardinality(SeenIds \cup {id}) \in Nat
    BY <1>11, OneMore
  <2>2. IsFiniteSet(SeenIds') /\ Cardinality(SeenIds') <= Cardinality(SeenIds \cup {id})
    BY <1>8, <2>1, FS_Subset
  <2>3. Cardinality(SeenIds') \in Nat
    BY <2>2, FS_CardinalityType
  <2>4. SeenIds' \subseteq SeenIds => Cardinality(SeenIds') <= Cardinality(SeenIds)
    BY <1>11, FS_Subset
  <2> QED
    BY <1>11, <2>1, <2>2, <2>3, <2>4
<1>14. CASE ok /\ db.rows = <<>> /\ \E q \in Process \ {p} : starting(q)
  <2>1. overlaps' = overlaps + 1 /\ failures' = failures /\ deaths' = deaths /\ Pending'
    BY <1>1, <1>2, <1>10, <1>14
  <2>2. RowsCounted'
    BY <1>2, <1>3, <1>11, <1>12, <2>1 DEF RowsCounted
  <2>3. SeenCounted'
    BY <1>3, <1>11, <1>13, <2>1 DEF SeenCounted
  <2> QED
    BY <1>5, <2>2, <2>3 DEF AccountInv
<1>15. CASE ok /\ db.rows = <<>> /\ ~ \E q \in Process \ {p} : starting(q)
  <2>1. overlaps' = overlaps /\ failures' = failures /\ deaths' = deaths /\ Pending'
    BY <1>1, <1>2, <1>10, <1>15
  <2>2. ~Pending /\ Fresh = {}
    BY <1>4, <1>15 DEF Pending, Fresh
  <2>3. Cardinality(Fresh) = 0 /\ Len(db.rows) = 0
    BY <1>15, <2>2, FS_EmptySet
  <2>4. RowsCounted'
    BY <1>2, <1>3, <1>12, <2>1, <2>3 DEF RowsCounted
  <2>5. SeenCounted'
    BY <1>3, <1>11, <1>13, <2>1, <2>2 DEF SeenCounted
  <2> QED
    BY <1>5, <2>4, <2>5 DEF AccountInv
<1>16. CASE ok /\ db.rows # <<>>
  <2>1. /\ overlaps' >= overlaps /\ overlaps' \in Nat /\ failures' = failures
        /\ deaths' = deaths /\ Pending /\ Pending'
    BY <1>1, <1>2, <1>3, <1>10, <1>16 DEF Pending
  <2>2. Fresh' \subseteq Fresh /\ SeenIds' \subseteq SeenIds
    BY <1>6, <1>7, <1>9, <1>16
  <2>3. RowsCounted'
    BY <1>2, <1>3, <1>11, <1>12, <2>1, <2>2 DEF RowsCounted
  <2>4. SeenCounted'
    BY <1>3, <1>11, <1>13, <2>1, <2>2 DEF SeenCounted
  <2> QED
    BY <1>5, <2>3, <2>4 DEF AccountInv
<1>17. CASE ~ok
  <2>1. /\ overlaps' >= overlaps /\ overlaps' \in Nat /\ failures' = failures + 1
        /\ deaths' = deaths /\ (Pending' <=> Pending) /\ Fresh' \subseteq Fresh
    BY <1>1, <1>2, <1>3, <1>7, <1>10, <1>17
  <2>2. RowsCounted'
    BY <1>2, <1>3, <1>11, <1>12, <2>1 DEF RowsCounted
  <2>3. SeenCounted'
    BY <1>3, <1>11, <1>13, <2>1 DEF SeenCounted
  <2> QED
    BY <1>5, <2>2, <2>3 DEF AccountInv
<1> QED
  BY <1>14, <1>15, <1>16, <1>17

\* A SELECT changes no id and stores nothing.
LEMMA LoadTableAccount ==
  ASSUME IInv, AccountInv, IInv', NEW p \in Process, loadTable(p)
  PROVE  AccountInv'
<1>1. /\ phase[p] \in Table /\ phase' = [phase EXCEPT ![p] = following[@]]
      /\ \E m : memory' = [memory EXCEPT ![p] = m]
      /\ UNCHANGED <<ready, db, heard, overlaps, failures, deaths>>
  BY DEF loadTable, history, spent
<1>2. /\ phase \in [Process -> {"off", "loaded", "announced", "up"} \cup Table]
      /\ memory \in [Process -> Memory]
  BY DEF IInv, TypeOK
<1>3. starting(p) /\ \A q \in Process : starting(q)' <=> starting(q)
  <2>1. following[phase[p]] \notin {"off", "up"} /\ phase[p] \notin {"off", "up"}
    BY <1>1, Tables DEF following
  <2> QED
    BY <1>1, <1>2, <2>1 DEF starting
<1>4. \A q \in Process : memory'[q].id = memory[q].id
  <2>1. memory'[p].id = memory[p].id
    <3> DEFINE read == readTable(memory[p], phase[p])
    <3>1. memory[p] \in Memory /\ memory[p].id \in Id /\ TypeOK
      BY <1>1, <1>2 DEF IInv, LoadedHasNames
    <3>2. read \in Memory /\ read.id = memory[p].id
      BY <1>1, <3>1, ReadType
    <3>3. withNames(read).id = read.id
      BY <3>1, <3>2, WithNamesType
    <3>4. memory'[p] = IF phase[p] = "app_state" THEN withNames(read) ELSE read
      BY <1>2 DEF loadTable
    <3> QED
      BY <3>2, <3>3, <3>4
  <2> QED
    BY <1>1, <1>2, <2>1
<1>5. RowIds' = RowIds
  BY <1>1 DEF RowIds
<1>6. Fresh' \subseteq Fresh /\ (Pending' <=> Pending)
  BY <1>1, <1>3, <1>4, <1>5 DEF Fresh, Pending
<1>7. SeenIds' \subseteq SeenIds
  BY <1>1, <1>3, <1>4, <1>5 DEF SeenIds
<1>8. StoredIsRow'
  <2>1. phase'[p] # "up"
    BY <1>1, <1>2, Tables DEF following
  <2> QED
    BY <1>1, <1>2, <1>4, <1>5, <2>1 DEF AccountInv, StoredIsRow
<1>9. Len(db'.rows) = Len(db.rows) /\ TypeOK'
  BY <1>1 DEF IInv
<1>10. RowsCounted' /\ SeenCounted'
  BY <1>1, <1>6, <1>7, <1>9, FewerCounted
<1> QED
  BY <1>8, <1>10 DEF AccountInv

LEMMA AnnounceAccount ==
  ASSUME IInv, AccountInv, IInv', NEW p \in Process, announceOnline(p)
  PROVE  AccountInv'
<1>1. /\ phase[p] = "loaded" /\ phase' = [phase EXCEPT ![p] = "announced"]
      /\ heard' = heard \cup {[id |-> memory[p].id, name |-> memory[p].displayName]}
      /\ UNCHANGED <<ready, memory, db, overlaps, failures, deaths>>
  BY DEF announceOnline, spent
<1>2. phase \in [Process -> {"off", "loaded", "announced", "up"} \cup Table]
  BY DEF IInv, TypeOK
<1>3. starting(p) /\ \A q \in Process : starting(q)' <=> starting(q)
  BY <1>1, <1>2 DEF starting
<1>4. RowIds' = RowIds
  BY <1>1 DEF RowIds
<1>5. Fresh' \subseteq Fresh /\ (Pending' <=> Pending)
  BY <1>1, <1>3, <1>4 DEF Fresh, Pending
<1>6. SeenIds' \subseteq SeenIds
  BY <1>1, <1>3, <1>4 DEF SeenIds
<1>7. StoredIsRow'
  BY <1>1, <1>2, <1>4 DEF AccountInv, StoredIsRow
<1>8. Len(db'.rows) = Len(db.rows) /\ TypeOK'
  BY <1>1 DEF IInv
<1>9. RowsCounted' /\ SeenCounted'
  BY <1>1, <1>5, <1>6, <1>8, FewerCounted
<1> QED
  BY <1>7, <1>9 DEF AccountInv

\* Storing, at the end of the start or after a change: what was pending becomes a row.
LEMMA StoreAccount ==
  ASSUME IInv, AccountInv, IInv', NEW p \in Process, NEW m \in Named,
         persistSettings(p, m), m.id = memory[p].id,
         phase[p] \in {"announced", "up"},
         phase' = [phase EXCEPT ![p] = "up"], memory' = [memory EXCEPT ![p] = m],
         UNCHANGED <<ready, heard, overlaps, failures, deaths>>
  PROVE  AccountInv'
<1>1. /\ phase \in [Process -> {"off", "loaded", "announced", "up"} \cup Table]
      /\ ready \in [Process -> BOOLEAN] /\ memory \in [Process -> Memory]
      /\ failures \in Nat /\ deaths \in Nat /\ overlaps \in Nat
      /\ db.rows \in Seq(Row) /\ Len(db.rows) \in Nat
  BY BoundAssumption DEF IInv, TypeOK
<1>2. /\ ~starting(p)' /\ memory'[p].id = memory[p].id
      /\ \A q \in Process \ {p} : /\ starting(q)' <=> starting(q)
                                  /\ phase'[q] = phase[q] /\ memory'[q] = memory[q]
  BY <1>1 DEF starting
<1>3. TypeOK'
  BY DEF IInv
<1>4. CASE ~ready[p]
  <2>1. db' = db
    BY <1>4 DEF persistSettings
  <2>2. RowIds' = RowIds /\ Len(db'.rows) = Len(db.rows)
    BY <2>1 DEF RowIds
  <2>3. Fresh' \subseteq Fresh
    BY <1>2, <2>2 DEF Fresh
  <2>4. SeenIds' \subseteq SeenIds
    BY <1>2, <2>2 DEF SeenIds
  <2>5. Pending' <=> Pending
    BY <1>2, <1>4, <2>1 DEF Pending
  <2>6. StoredIsRow'
    BY <1>2, <1>4, <2>2 DEF AccountInv, StoredIsRow
  <2>7. RowsCounted' /\ SeenCounted'
    BY <1>3, <2>2, <2>3, <2>4, <2>5, FewerCounted
  <2> QED
    BY <2>6, <2>7 DEF AccountInv
<1>5. CASE ready[p]
  <2>1. db' = saveState(db, m)
    BY <1>5 DEF persistSettings
  <2>2. rowOf(m) \in Row /\ rowOf(m).id = memory[p].id
    BY DEF rowOf, Row, Named, Memory, Text
  <2>3. db'.rows = replace(db.rows, rowOf(m))
    BY <2>1 DEF saveState
  <2>4. /\ RowIds' = RowIds \cup {memory[p].id}
        /\ Len(db'.rows) = IF memory[p].id \in RowIds THEN Len(db.rows) ELSE Len(db.rows) + 1
    BY <1>1, <2>2, <2>3, ReplaceIds DEF RowIds
  <2>5. Len(db'.rows) \in Nat /\ db'.rows # <<>>
    BY <1>1, <2>2, <2>3, ReplaceEndsWithRow
  <2>6. StoredIsRow'
    BY <1>2, <2>4 DEF AccountInv, StoredIsRow
  <2>7. Fresh' \subseteq Fresh \ {p}
    BY <1>2, <2>4 DEF Fresh
  <2>8. memory[p].id \notin RowIds => p \in Fresh
    BY <1>5 DEF AccountInv, StoredIsRow, Fresh, starting
  <2>9. Pending /\ Pending'
    <3>1. phase[p] = "up" => db.rows # <<>>
      BY <1>5 DEF AccountInv, StoredIsRow, RowIds, IdsOf
    <3> QED
      BY <1>5, <2>5, <3>1 DEF Pending, starting
  <2>10. SeenIds' \subseteq SeenIds
    <3>1. memory[p].id \in SeenIds
      BY <1>5 DEF AccountInv, StoredIsRow, SeenIds, starting
    <3> QED
      BY <1>2, <2>4, <3>1 DEF SeenIds
  <2>11. RowsCounted'
    <3>1. /\ IsFiniteSet(Fresh) /\ Cardinality(Fresh) \in Nat
          /\ Len(db.rows) + Cardinality(Fresh) <= 1 + overlaps
      BY FS_CardinalityType DEF AccountInv, RowsCounted
    <3>2. /\ IsFiniteSet(Fresh \ {p}) /\ Cardinality(Fresh \ {p}) \in Nat
          /\ Cardinality(Fresh \ {p})
               = IF p \in Fresh THEN Cardinality(Fresh) - 1 ELSE Cardinality(Fresh)
      <4>1. /\ IsFiniteSet(Fresh \ {p})
            /\ Cardinality(Fresh \ {p})
                 = IF p \in Fresh THEN Cardinality(Fresh) - 1 ELSE Cardinality(Fresh)
        BY <3>1, FS_RemoveElement
      <4> QED
        BY <4>1, FS_CardinalityType
    <3>3. /\ IsFiniteSet(Fresh') /\ Cardinality(Fresh') <= Cardinality(Fresh \ {p})
      BY <2>7, <3>2, FS_Subset
    <3>4. Cardinality(Fresh') \in Nat
      BY <3>3, FS_CardinalityType
    <3> QED
      BY <1>1, <2>4, <2>5, <2>8, <3>1, <3>2, <3>3, <3>4 DEF RowsCounted
  <2>12. SeenCounted'
    <3>1. /\ IsFiniteSet(SeenIds) /\ Cardinality(SeenIds) \in Nat
          /\ Cardinality(SeenIds) <= failures + deaths + overlaps + 1
      BY <2>9, FS_CardinalityType DEF AccountInv, SeenCounted
    <3>2. IsFiniteSet(SeenIds') /\ Cardinality(SeenIds') <= Cardinality(SeenIds)
      BY <2>10, <3>1, FS_Subset
    <3>3. Cardinality(SeenIds') \in Nat
      BY <3>2, FS_CardinalityType
    <3> QED
      BY <1>1, <2>9, <3>1, <3>2, <3>3 DEF SeenCounted
  <2> QED
    BY <2>6, <2>11, <2>12 DEF AccountInv
<1> QED
  BY <1>4, <1>5

LEMMA InitializedAccount ==
  ASSUME IInv, AccountInv, IInv', NEW p \in Process, initialized(p)
  PROVE  AccountInv'
<1>1. memory[p] \in Named
  BY DEF initialized, IInv, LoadedHasNames
<1>2. memory' = [memory EXCEPT ![p] = memory[p]]
  BY DEF initialized, IInv, TypeOK
<1> QED
  BY <1>1, <1>2, StoreAccount DEF initialized, spent

LEMMA EditAccount ==
  ASSUME IInv, AccountInv, IInv', NEW p \in Process, NEW m \in Named, edit(p, m),
         m.id = memory[p].id
  PROVE  AccountInv'
<1>1. phase' = [phase EXCEPT ![p] = "up"]
  BY DEF edit, IInv, TypeOK
<1> QED
  BY <1>1, StoreAccount DEF edit

LEMMA UpdateAccount ==
  ASSUME IInv, AccountInv, IInv', NEW p \in Process, NEW name \in Text,
         NEW signature \in Signature \cup {NoText},
         updateProfileDetails(p, name, signature)
  PROVE  AccountInv'
<1> DEFINE m == [memory[p] EXCEPT !.name = name, !.displayName = orElse(name, @),
                                  !.signature = signature, !.signatureText = signature]
<1>1. edit(p, m)
  BY DEF updateProfileDetails
<1>2. memory[p] \in Named
  BY <1>1 DEF edit, IInv, LoadedHasNames
<1>3. m \in Named /\ m.id = memory[p].id
  BY <1>2 DEF Named, Memory, Text, orElse
<1> HIDE DEF m
<1> QED
  BY <1>1, <1>3, EditAccount

LEMMA PreferenceAccount ==
  ASSUME IInv, AccountInv, IInv', NEW p \in Process,
         bindGeneralSettings(p) \/ bindHotkeySettings(p) \/ bindMailSettings(p)
  PROVE  AccountInv'
<1>1. memory[p] \in Named
  BY DEF bindGeneralSettings, bindHotkeySettings, bindMailSettings, edit, IInv, LoadedHasNames
<1>2. PICK m \in Named : edit(p, m) /\ m.id = memory[p].id
  <2>1. CASE bindGeneralSettings(p)
    <3>1. PICK option \in Option : edit(p, [memory[p] EXCEPT !.option = option])
      BY <2>1 DEF bindGeneralSettings
    <3>2. /\ [memory[p] EXCEPT !.option = option] \in Named
          /\ [memory[p] EXCEPT !.option = option].id = memory[p].id
      BY <1>1 DEF Named, Memory, Text
    <3> QED
      BY <3>1, <3>2
  <2>2. CASE bindHotkeySettings(p)
    <3>1. PICK text \in Option \cup {NoText} : edit(p, [memory[p] EXCEPT !.shortcut = text])
      BY <2>2 DEF bindHotkeySettings
    <3>2. /\ [memory[p] EXCEPT !.shortcut = text] \in Named
          /\ [memory[p] EXCEPT !.shortcut = text].id = memory[p].id
      BY <1>1 DEF Named, Memory, Text
    <3> QED
      BY <3>1, <3>2
  <2>3. CASE bindMailSettings(p)
    <3>1. PICK text \in Option \cup {NoText} : edit(p, [memory[p] EXCEPT !.address = text])
      BY <2>3 DEF bindMailSettings
    <3>2. /\ [memory[p] EXCEPT !.address = text] \in Named
          /\ [memory[p] EXCEPT !.address = text].id = memory[p].id
      BY <1>1 DEF Named, Memory, Text
    <3> QED
      BY <3>1, <3>2
  <2> QED
    BY <2>1, <2>2, <2>3
<1> QED
  BY <1>2, EditAccount

LEMMA DieAccount ==
  ASSUME IInv, AccountInv, IInv', NEW p \in Process, die(p)
  PROVE  AccountInv'
<1>1. /\ deaths' = IF starting(p) THEN deaths + 1 ELSE deaths
      /\ phase' = [phase EXCEPT ![p] = "off"]
      /\ ready' = [ready EXCEPT ![p] = FALSE] /\ memory' = [memory EXCEPT ![p] = Blank]
      /\ UNCHANGED <<db, heard, overlaps, failures>>
  BY DEF die
<1>2. /\ ~starting(p)'
      /\ \A q \in Process \ {p} : /\ starting(q)' <=> starting(q)
                                  /\ phase'[q] = phase[q]
                                  /\ ready'[q] = ready[q] /\ memory'[q] = memory[q]
  BY <1>1 DEF IInv, TypeOK, starting
<1>3. phase'[p] = "off" /\ RowIds' = RowIds /\ Len(db'.rows) = Len(db.rows) /\ TypeOK'
  BY <1>1 DEF IInv, TypeOK, RowIds
<1>4. Fresh' \subseteq Fresh
  BY <1>2, <1>3 DEF Fresh
<1>5. SeenIds' \subseteq SeenIds
  BY <1>1, <1>2, <1>3 DEF SeenIds
<1>6. ~starting(p) => (Pending' <=> Pending)
  BY <1>1, <1>2 DEF Pending
<1>7. \/ (Pending <=> Pending') /\ deaths' = deaths
      \/ deaths' = deaths + 1
  BY <1>1, <1>6
<1>8. StoredIsRow'
  BY <1>2, <1>3 DEF AccountInv, StoredIsRow
<1>9. RowsCounted' /\ SeenCounted'
  BY <1>1, <1>3, <1>4, <1>5, <1>7, FewerCounted
<1> QED
  BY <1>8, <1>9 DEF AccountInv

LEMMA NextAccount == IInv /\ AccountInv /\ [Next]_vars /\ IInv' => AccountInv'
<1> SUFFICES ASSUME IInv, AccountInv, [Next]_vars, IInv' PROVE AccountInv'
  OBVIOUS
<1>1. CASE UNCHANGED <<phase, ready, memory, db, heard, overlaps, failures, deaths>>
  BY <1>1 DEF AccountInv, StoredIsRow, RowsCounted, SeenCounted, RowIds, Fresh, SeenIds,
              Pending, starting
<1>2. CASE UNCHANGED vars
  BY <1>1, <1>2 DEF vars, process, history, spent
<1>3. CASE \E p \in Process, kind \in {"chat", "file"} : send(p, kind)
  BY <1>1, <1>3 DEF send, process, history, spent
<1>4. CASE Next
  BY <1>3, <1>4, LoadAccount, LoadTableAccount, AnnounceAccount, InitializedAccount, UpdateAccount,
     PreferenceAccount, DieAccount DEF Next, saveProfile
<1> QED
  BY <1>2, <1>4

THEOREM Accounted == Spec => []AccountInv
BY InitAccount, NextAccount, InitInv, NextInv, PTL DEF Spec

(***************************************************************************)
(* The properties.                                                          *)
(***************************************************************************)

\* Memory, tables, announcements and messages stay well formed; a message is never
\* sent under an empty name.
THEOREM SettingsTypeCorrect == Spec => []TypeOK
<1>1. IInv => TypeOK
  BY DEF IInv
<1> QED
  BY <1>1, Inductive, PTL

\* persistSettings after every change: the tables hold what the last process to store
\* shows, after any sequence of changes.
THEOREM EveryChangeIsStored == Spec => []ChangesAreStored
<1>1. IInv => ChangesAreStored
  BY DEF IInv, ChangesAreStored, TablesHoldSaved, SaverShowsSaved
<1> QED
  BY <1>1, Inductive, PTL

\* saveState, loadState and loadSettings: a start shows, part by part, what was stored
\* when it began to load or while it loaded.
THEOREM RestartIsFaithful == Spec => []RestartShowsStoredState
<1>1. IInv => RestartShowsStoredState
  BY DEF IInv, ReadFromStored, Sources, RestartShowsStoredState
<1> QED
  BY <1>1, Inductive, PTL

\* loadSettings and announceOnline: the others know the installation under one id, plus
\* one at most for each start without a database, death before the first store, and
\* start that overlapped another one's.
THEOREM IdentitiesAreCounted == Spec => []IdentitiesAreAccountedFor
<1>1. IInv /\ AccountInv => IdentitiesAreAccountedFor
  <2> SUFFICES ASSUME IInv, AccountInv PROVE IdentitiesAreAccountedFor
    OBVIOUS
  <2>1. {h.id : h \in heard} \in SUBSET SeenIds
    BY DEF SeenIds
  <2>2. /\ IsFiniteSet({h.id : h \in heard})
        /\ Cardinality({h.id : h \in heard}) <= Cardinality(SeenIds)
    BY <2>1, FS_Subset DEF AccountInv, SeenCounted
  <2>3. Cardinality({h.id : h \in heard}) \in Nat /\ Cardinality(SeenIds) \in Nat
    BY <2>2, FS_CardinalityType DEF AccountInv, SeenCounted
  <2>4. failures \in Nat /\ deaths \in Nat /\ overlaps \in Nat
    BY BoundAssumption DEF IInv, TypeOK
  <2>5. Cardinality(SeenIds) <= failures + deaths + overlaps + (IF Pending THEN 1 ELSE 0)
    BY DEF AccountInv, SeenCounted
  <2> QED
    BY <2>2, <2>3, <2>4, <2>5 DEF IdentitiesAreAccountedFor
<1> QED
  BY <1>1, Inductive, Accounted, PTL

\* saveState: app_identity gets a second row, after which restarts alternate between two
\* ids, only when two starts overlapped.
THEOREM RowsNeedOverlap == Spec => []SecondRowNeedsOverlap
<1>1. IInv /\ AccountInv => SecondRowNeedsOverlap
  <2> SUFFICES ASSUME IInv, AccountInv PROVE SecondRowNeedsOverlap
    OBVIOUS
  <2>1. Cardinality(Fresh) \in Nat /\ Len(db.rows) + Cardinality(Fresh) <= 1 + overlaps
    BY FS_CardinalityType DEF AccountInv, RowsCounted
  <2>2. overlaps \in Nat /\ Len(db.rows) \in Nat
    BY DEF IInv, TypeOK
  <2> QED
    BY <2>1, <2>2 DEF SecondRowNeedsOverlap
<1> QED
  BY <1>1, Inductive, Accounted, PTL
=============================================================================
