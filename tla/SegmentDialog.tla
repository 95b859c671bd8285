--------------------------- MODULE SegmentDialog ---------------------------
(***************************************************************************)
(* The two lists of segments in the settings dialog (SettingsDialog.cpp),   *)
(* the lists of the controller they are copies of, and the rows of          *)
(* network_subnets, in one installation.                                    *)
(*                                                                          *)
(* Every change is made to the dialog's copy and handed to the controller   *)
(* whole; the copy is taken again only by the refresh that follows.  Which  *)
(* segments are the machine's own is also looked up by the refresh alone.   *)
(* The dialog is made once and then only shown and hidden, which changes    *)
(* nothing.  A widget without a current row has row 0.                      *)
(***************************************************************************)
EXTENDS Subnets, Order, SequencesExt

CONSTANTS Place,       \* the addresses of the machine's interfaces, in order
          LanPrefix,   \* prefix of every interface
          Typed,       \* what can be typed: an address and perhaps a prefix
          NoPrefix,    \* no prefix was typed
          MaxMoves, MaxStops, MaxChanges

ASSUME PlaceAssumption == Place \subseteq Seq(Address) /\ LanPrefix \in 1..W
ASSUME TypedAssumption ==
  Typed \subseteq [network : Address \cup {V6, NoAddress}, prefix : Int \cup {NoPrefix}]
ASSUME BoundAssumption == MaxMoves \in Nat /\ MaxStops \in Nat /\ MaxChanges \in Nat

VARIABLES running, storageReady,
          place,
          subnets, blockedSubnets,       \* the controller's lists
          storedSubnets, storedBlocked,
          made,                          \* the dialog exists
          items, current,                \* m_subnetList and its current row
          cachedSubnets,
          blockItems, blockRow,          \* m_blockList and its current row
          cachedBlocked,
          moves, stops, changes

lists  == <<subnets, blockedSubnets, storedSubnets, storedBlocked>>
left   == <<items, current, cachedSubnets>>
right  == <<blockItems, blockRow, cachedBlocked>>
spent  == <<moves, stops, changes>>
vars   == <<running, storageReady, place, lists, made, left, right, spent>>

(***************************************************************************)
(* setSubnets and setBlockedSubnets take valid pairs, normalised, the first *)
(* of each token (module Subnets has the same as a set).                    *)
(***************************************************************************)
distinct(list) == select(list, {i \in DOMAIN list : \A j \in 1..i - 1 : list[j] # list[i]})

normalized(r) == [network |-> normalizeNetwork(r.network, r.prefix), prefix |-> r.prefix]

sanitizedList(list) ==
  LET valid == select(list, {i \in DOMAIN list : isValid(list[i])})
  IN  distinct([i \in DOMAIN valid |-> normalized(valid[i])])

(***************************************************************************)
(* The rows of m_subnetList: the interfaces' segments first, which cannot   *)
(* be removed, then the listed ones.                                        *)
(***************************************************************************)
detectLocalSubnets(here) ==
  distinct([i \in DOMAIN here |-> [network |-> masked(here[i], LanPrefix), prefix |-> LanPrefix]])

\* Mutant of rows: a listed segment of the machine's own has a second row.
rows_Twice(list, here) ==
  LET local == detectLocalSubnets(here)
  IN  [i \in DOMAIN local |-> [token |-> local[i], removable |-> FALSE]]
        \o [i \in DOMAIN list |-> [token |-> list[i], removable |-> TRUE]]

rows(list, here) ==
  LET local  == detectLocalSubnets(here)
      others == select(list, {i \in DOMAIN list : ~Contains(local, list[i])})
  IN  [i \in DOMAIN local |-> [token |-> local[i], removable |-> FALSE]]
        \o [i \in DOMAIN others |-> [token |-> others[i], removable |-> TRUE]]

\* The row of the segment that was current before, or else the first.
rowAfter(shown, old, row) ==
  LET same == IF row = 0 THEN 0
              ELSE SelectInSeq(shown, LAMBDA item : item.token = old[row].token)
  IN  IF shown = <<>> THEN 0 ELSE IF same = 0 THEN 1 ELSE same

refreshSubnetList(list, oldItems, oldRow) ==
  LET shown == rows(list, place)
  IN  /\ cachedSubnets' = list
      /\ items' = shown
      /\ current' = rowAfter(shown, oldItems, oldRow)

\* Mutant of refreshBlockedList: the row number stays though its row was removed.
refreshBlockedList_KeepRow(list, oldRow) ==
  /\ cachedBlocked' = list
  /\ blockItems' = list
  /\ blockRow' = IF list = <<>> THEN 0 ELSE Max({1, oldRow})

\* The row number stays, within the new list.
refreshBlockedList(list, oldRow) ==
  /\ cachedBlocked' = list
  /\ blockItems' = list
  /\ blockRow' = IF list = <<>> THEN 0 ELSE Max({1, Min({oldRow, Len(list)})})

(***************************************************************************)
(* The process.                                                             *)
(***************************************************************************)
Init ==
  /\ running = FALSE /\ storageReady = FALSE
  /\ place \in Place
  /\ subnets = <<>> /\ blockedSubnets = <<>>
  /\ storedSubnets = <<>> /\ storedBlocked = <<>>
  /\ made = FALSE
  /\ items = <<>> /\ current = 0 /\ cachedSubnets = <<>>
  /\ blockItems = <<>> /\ blockRow = 0 /\ cachedBlocked = <<>>
  /\ moves = 0 /\ stops = 0 /\ changes = 0

\* loadSettings, with or without a database.
initialize ==
  /\ ~running /\ running' = TRUE
  /\ \E ready \in BOOLEAN :
       /\ storageReady' = ready
       /\ subnets' = IF ready THEN storedSubnets ELSE <<>>
       /\ blockedSubnets' = IF ready THEN storedBlocked ELSE <<>>
  /\ UNCHANGED <<place, storedSubnets, storedBlocked, made, left, right, spent>>

openSettingsDialog ==
  /\ running /\ ~made
  /\ made' = TRUE
  /\ refreshSubnetList(subnets, <<>>, 0)
  /\ refreshBlockedList(blockedSubnets, 0)
  /\ UNCHANGED <<running, storageReady, place, lists, spent>>

exit ==
  /\ running /\ stops < MaxStops
  /\ running' = FALSE /\ storageReady' = FALSE /\ made' = FALSE
  /\ subnets' = <<>> /\ blockedSubnets' = <<>>
  /\ items' = <<>> /\ current' = 0 /\ cachedSubnets' = <<>>
  /\ blockItems' = <<>> /\ blockRow' = 0 /\ cachedBlocked' = <<>>
  /\ stops' = stops + 1
  /\ UNCHANGED <<place, storedSubnets, storedBlocked, moves, changes>>

\* Interfaces come and go; nothing in the program notices.
move ==
  /\ moves < MaxMoves /\ moves' = moves + 1
  /\ \E p \in Place \ {place} : place' = p
  /\ UNCHANGED <<running, storageReady, lists, made, left, right, stops, changes>>

(***************************************************************************)
(* The lists.                                                               *)
(***************************************************************************)
setSubnets(list) ==
  /\ subnets' = sanitizedList(list)
  /\ storedSubnets' = IF storageReady THEN sanitizedList(list) ELSE storedSubnets
  /\ UNCHANGED <<blockedSubnets, storedBlocked>>

setBlockedSubnets(list) ==
  /\ blockedSubnets' = sanitizedList(list)
  /\ storedBlocked' = IF storageReady THEN sanitizedList(list) ELSE storedBlocked
  /\ UNCHANGED <<subnets, storedSubnets>>

\* The segments a text stands for: one, or none with a warning.
parseSubnetInput(t) ==
  LET default == IF t.network = V6 THEN 2 * W ELSE (3 * W) \div 4
      prefix  == IF t.prefix = NoPrefix THEN default ELSE t.prefix
      r       == [network |-> t.network, prefix |-> prefix]
  IN  IF isValid(r) THEN {normalized(r)} ELSE {}

mayChange == made /\ changes < MaxChanges /\ changes' = changes + 1

handleSubnetAdd(t) ==
  /\ mayChange
  /\ \E r \in parseSubnetInput(t) :
       /\ ~Contains(cachedSubnets, r)
       /\ setSubnets(Append(cachedSubnets, r))
  /\ refreshSubnetList(subnets', items, current)
  /\ UNCHANGED <<running, storageReady, place, made, right, moves, stops>>

\* Mutant of targetIndex: the row of the widget.
targetIndex_Row == IF current <= Len(cachedSubnets) THEN current ELSE 0

targetIndex == SelectInSeq(cachedSubnets, LAMBDA r : r = items[current].token)

handleSubnetRemove ==
  /\ mayChange
  /\ current # 0 /\ items[current].removable
  /\ targetIndex # 0
  /\ setSubnets(RemoveAt(cachedSubnets, targetIndex))
  /\ refreshSubnetList(subnets', items, current)
  /\ UNCHANGED <<running, storageReady, place, made, right, moves, stops>>

handleBlockedAdd(t) ==
  /\ mayChange
  /\ \E r \in parseSubnetInput(t) :
       /\ ~Contains(cachedBlocked, r)
       /\ setBlockedSubnets(Append(cachedBlocked, r))
  /\ refreshBlockedList(blockedSubnets', blockRow)
  /\ UNCHANGED <<running, storageReady, place, made, left, moves, stops>>

handleBlockedRemove ==
  /\ mayChange
  /\ blockRow \in 1..Len(cachedBlocked)
  /\ setBlockedSubnets(RemoveAt(cachedBlocked, blockRow))
  /\ refreshBlockedList(blockedSubnets', blockRow)
  /\ UNCHANGED <<running, storageReady, place, made, left, moves, stops>>

\* The user clicks a row.
setCurrentRow ==
  /\ \/ current' \in DOMAIN items \ {current} /\ UNCHANGED blockRow
     \/ blockRow' \in DOMAIN blockItems \ {blockRow} /\ UNCHANGED current
  /\ UNCHANGED <<running, storageReady, place, lists, made, items, cachedSubnets, blockItems,
                 cachedBlocked, spent>>

Next ==
  \/ initialize \/ openSettingsDialog \/ exit \/ move
  \/ handleSubnetRemove \/ handleBlockedRemove \/ setCurrentRow
  \/ \E t \in Typed : handleSubnetAdd(t) \/ handleBlockedAdd(t)

Spec == Init /\ [][Next]_vars

(***************************************************************************)
(* Properties.                                                              *)
(***************************************************************************)
Lists == {subnets, blockedSubnets, storedSubnets, storedBlocked,
          cachedSubnets, blockItems, cachedBlocked}

TypeOK ==
  /\ {running, storageReady, made} \subseteq BOOLEAN
  /\ place \in Place
  /\ \A s \in Lists : s \in Seq(Subnet)
  /\ items \in Seq([token : Subnet, removable : BOOLEAN])
  /\ current \in 0..Len(items) /\ blockRow \in 0..Len(blockItems)
  /\ moves \in 0..MaxMoves /\ stops \in 0..MaxStops /\ changes \in 0..MaxChanges

\* refreshSubnetList: whatever was added, removed or loaded and wherever the machine
\* went, every listed segment has one row, and a row that can be removed is a listed
\* segment; the black list is shown as it is, in its order.
DialogShowsLists ==
  made => /\ \A r \in ToSet(subnets) :
               \E i \in DOMAIN items : \A j \in DOMAIN items : items[j].token = r <=> i = j
          /\ \A i \in DOMAIN items : items[i].removable => Contains(subnets, items[i].token)
          /\ blockItems = blockedSubnets

\* handleSubnetAdd .. handleBlockedRemove hand over a whole list made from a copy: while
\* the process runs no segment is lost but the one whose row is current.
OnlyTheChosenIsLost ==
  [][(running /\ running') =>
       /\ \A r \in ToSet(subnets) \ ToSet(subnets') : current # 0 /\ r = items[current].token
       /\ \A r \in ToSet(blockedSubnets) \ ToSet(blockedSubnets') :
            blockRow # 0 /\ r = blockItems[blockRow]]_vars
=============================================================================
