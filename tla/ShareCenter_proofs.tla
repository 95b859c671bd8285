------------------------- MODULE ShareCenter_proofs -------------------------
(***************************************************************************)
(* Proofs about ShareCenter, for any installations, directories, files and  *)
(* bounds, whoever knows whom.                                              *)
(*                                                                          *)
(* The safety invariants need three facts more: a visible dialog was made   *)
(* (VisibleIsMade), the index holds files of shared directories only        *)
(* (IndexIsShared), and every catalogue, on the wire or kept, holds what    *)
(* the machine of its owner offered to the one who has it (OffersAreKept):  *)
(* who is reached under an id runs on the machine of that id (ProcessOK).   *)
(***************************************************************************)
EXTENDS ShareCenter, TLAPS

Wire    == [Node -> [Node -> Seq(Message)]]
Offered == [Node -> [Node -> SUBSET File]]

VisibleIsMade == \A n \in Node : dialog[n].visible => dialog[n].made

IndexIsShared == \A n \in Node : \A f \in index[n] : DirOf[f] \in dirs[n]

\* A message from n to p names only what its catalogues were allowed to hold.
Fits(n, p, m, given) ==
  /\ m.type = "share_download" => m.file \in given[Home[p]][n]
  /\ m.type = "share_catalog" => m.files \subseteq given[Home[n]][p]

WireFits(w, given) ==
  \A n, p \in Node : \A k \in 1..Len(w[n][p]) : Fits(n, p, w[n][p][k], given)

OffersAreKept ==
  /\ \A n, p \in Node : remote[n][p] \subseteq offered[Home[p]][n]
  /\ WireFits(wire, offered)

IInv == TypeOK /\ VisibleIsMade /\ DialogShowsChosenPeer /\ IndexIsShared /\ OffersAreKept

(***************************************************************************)
(* The wires.                                                               *)
(***************************************************************************)
LEMMA HomeIsNode == \A n \in Node : Home[n] \in Machine /\ Home[n] \in Node
BY HomeAssumption DEF Machine

LEMMA ReachedHome ==
  ASSUME TypeOK, NEW p \in Node
  PROVE  reached(p) \in Node /\ Home[reached(p)] = Home[p]
BY HomeIsNode DEF TypeOK, reached

LEMMA MessageParts ==
  ASSUME NEW m \in Message
  PROVE  /\ m.type = "share_catalog" => m.files \in SUBSET File
         /\ m.type \in {"share_download", "file"} => m.file \in File
BY DEF Message

LEMMA MessageOf ==
  /\ [type |-> "share_request"] \in Message
  /\ \A F \in SUBSET File : [type |-> "share_catalog", files |-> F] \in Message
  /\ \A f \in File : /\ [type |-> "share_download", file |-> f] \in Message
                     /\ [type |-> "file", file |-> f] \in Message
BY DEF Message

LEMMA WriteEffect ==
  ASSUME NEW w \in Wire, NEW n \in Node, NEW p \in Node, NEW m \in Message
  PROVE  /\ write(w, n, p, m) \in Wire
         /\ \A a, b \in Node : write(w, n, p, m)[a][b] =
              IF a = n /\ b = p THEN Append(w[a][b], m) ELSE w[a][b]
<1>1. w \in [Node -> [Node -> Seq(Message)]]
  BY DEF Wire
<1>2. PICK s \in Seq(Message) : s = Append(w[n][p], m)
  <2>1. w[n][p] \in Seq(Message)
    BY <1>1
  <2>2. Append(w[n][p], m) \in Seq(Message)
    BY <2>1
  <2> QED
    BY <2>2
<1>3. write(w, n, p, m) = [w EXCEPT ![n][p] = s]
  BY <1>2 DEF write
<1>4. [w EXCEPT ![n][p] = s] \in [Node -> [Node -> Seq(Message)]]
  BY <1>1
<1>5. \A a, b \in Node : [w EXCEPT ![n][p] = s][a][b] = IF a = n /\ b = p THEN s ELSE w[a][b]
  BY <1>1
<1>6. write(w, n, p, m) \in Wire
  BY <1>3, <1>4 DEF Wire
<1>7. ASSUME NEW a \in Node, NEW b \in Node
      PROVE  write(w, n, p, m)[a][b] = IF a = n /\ b = p THEN Append(w[a][b], m) ELSE w[a][b]
  <2>1. write(w, n, p, m)[a][b] = IF a = n /\ b = p THEN s ELSE w[a][b]
    BY <1>3, <1>5
  <2> QED
    BY <1>2, <2>1
<1> QED
  BY <1>6, <1>7

LEMMA ArrivedEffect ==
  ASSUME wire \in Wire, NEW n \in Node, NEW p \in Node, wire[p][n] # <<>>
  PROVE  /\ arrived(n, p) \in Wire
         /\ \A a, b \in Node : arrived(n, p)[a][b] =
              IF a = p /\ b = n THEN Tail(wire[a][b]) ELSE wire[a][b]
         /\ Head(wire[p][n]) \in Message
         /\ Head(wire[p][n]) = wire[p][n][1] /\ 1 \in 1..Len(wire[p][n])
<1>1. wire[p][n] \in Seq(Message)
  BY DEF Wire
<1>2. Tail(wire[p][n]) \in Seq(Message) /\ Head(wire[p][n]) \in Message
  BY <1>1
<1>3. Head(wire[p][n]) = wire[p][n][1] /\ 1 \in 1..Len(wire[p][n])
  BY <1>1
<1> QED
  BY <1>2, <1>3 DEF arrived, Wire

LEMMA WriteFits ==
  ASSUME NEW w \in Wire, NEW given \in Offered, NEW more \in Offered,
         \A a, b \in Node : given[a][b] \subseteq more[a][b],
         WireFits(w, given),
         NEW n \in Node, NEW p \in Node, NEW m \in Message, Fits(n, p, m, more)
  PROVE  WireFits(write(w, n, p, m), more)
<1> SUFFICES ASSUME NEW a \in Node, NEW b \in Node, NEW k \in 1..Len(write(w, n, p, m)[a][b])
             PROVE  Fits(a, b, write(w, n, p, m)[a][b][k], more)
  BY DEF WireFits
<1>1. write(w, n, p, m)[a][b] = IF a = n /\ b = p THEN Append(w[a][b], m) ELSE w[a][b]
  BY WriteEffect
<1>2. w[a][b] \in Seq(Message)
  BY DEF Wire
<1>3. ASSUME k \in 1..Len(w[a][b]) PROVE Fits(a, b, w[a][b][k], more)
  <2>1. Fits(a, b, w[a][b][k], given)
    BY <1>3 DEF WireFits
  <2>2. given[Home[b]][a] \subseteq more[Home[b]][a] /\ given[Home[a]][b] \subseteq more[Home[a]][b]
    BY HomeIsNode
  <2> QED
    BY <2>1, <2>2 DEF Fits
<1>4. CASE a = n /\ b = p /\ k = Len(w[a][b]) + 1
  <2>1. write(w, n, p, m)[a][b][k] = m
    BY <1>1, <1>2, <1>4
  <2> QED
    BY <2>1, <1>4
<1>5. CASE ~(a = n /\ b = p /\ k = Len(w[a][b]) + 1)
  <2>1. k \in 1..Len(w[a][b]) /\ write(w, n, p, m)[a][b][k] = w[a][b][k]
    BY <1>1, <1>2, <1>5
  <2> QED
    BY <2>1, <1>3
<1> QED
  BY <1>4, <1>5

LEMMA ArrivedFits ==
  ASSUME wire \in Wire, NEW given \in Offered, WireFits(wire, given),
         NEW n \in Node, NEW p \in Node, wire[p][n] # <<>>
  PROVE  WireFits(arrived(n, p), given) /\ Fits(p, n, Head(wire[p][n]), given)
<1>1. ASSUME NEW a \in Node, NEW b \in Node, NEW k \in 1..Len(arrived(n, p)[a][b])
      PROVE  Fits(a, b, arrived(n, p)[a][b][k], given)
  <2>1. wire[a][b] \in Seq(Message)
    BY DEF Wire
  <2>2. arrived(n, p)[a][b] = IF a = p /\ b = n THEN Tail(wire[a][b]) ELSE wire[a][b]
    BY ArrivedEffect
  <2>3. \E j \in 1..Len(wire[a][b]) : arrived(n, p)[a][b][k] = wire[a][b][j]
    <3>1. CASE a = p /\ b = n
      <4>1. k + 1 \in 1..Len(wire[a][b]) /\ Tail(wire[a][b])[k] = wire[a][b][k + 1]
        BY <2>1, <2>2, <3>1
      <4> QED
        BY <4>1, <2>2, <3>1
    <3>2. CASE ~(a = p /\ b = n)
      BY <2>2, <3>2
    <3> QED
      BY <3>1, <3>2
  <2> QED
    BY <2>3 DEF WireFits
<1>2. Fits(p, n, Head(wire[p][n]), given)
  BY ArrivedEffect DEF WireFits
<1> QED
  BY <1>1, <1>2 DEF WireFits

LEMMA SharesAreFiles ==
  ASSUME TypeOK, NEW n \in Node, NEW list
  PROVE  /\ collectLocalShares(n, list) \in SUBSET File
         /\ \A f \in collectLocalShares(n, list) : DirOf[f] \in list
BY HomeIsNode DEF TypeOK, collectLocalShares

LEMMA CatalogueType ==
  ASSUME TypeOK, NEW n \in Node, NEW p \in Node \cup {NoNode}
  PROVE  catalogue(n, p) \in SUBSET File
BY DEF TypeOK, catalogue

\* What an answer to a share_request, or a catalogue sent unasked, changes.
LEMMA CatalogueSent ==
  ASSUME TypeOK, NEW w \in Wire, WireFits(w, offered), NEW n \in Node, NEW p \in Node,
         sendShareCatalogToPeer(w, n, p)
  PROVE  /\ index' \in [Node -> SUBSET File]
         /\ \A a \in Node : index'[a] = IF a = n THEN collectLocalShares(n, dirs[n]) ELSE index[a]
         /\ wire' \in Wire
         /\ offered' \in Offered
         /\ \A a, b \in Node : offered[a][b] \subseteq offered'[a][b]
         /\ WireFits(wire', offered')
<1> DEFINE files == collectLocalShares(n, dirs[n])
           m     == [type |-> "share_catalog", files |-> files]
<1>1. files \in SUBSET File
  BY SharesAreFiles
<1>2. m \in Message
  BY <1>1, MessageOf
<1>3. offered \in Offered /\ index \in [Node -> SUBSET File]
  BY DEF TypeOK, Offered
<1>4. /\ index' = [index EXCEPT ![n] = files]
      /\ wire' = write(w, n, p, m)
      /\ offered' = [offered EXCEPT ![Home[n]][p] = @ \cup files]
  BY DEF sendShareCatalogToPeer
<1> HIDE DEF files
<1>5. offered' \in Offered /\ \A a, b \in Node : offered[a][b] \subseteq offered'[a][b]
  BY <1>1, <1>3, <1>4, HomeIsNode DEF Offered
<1>6. files \subseteq offered'[Home[n]][p]
  BY <1>3, <1>4, HomeIsNode DEF Offered
<1>7. Fits(n, p, m, offered')
  BY <1>6 DEF Fits
<1>8. wire' \in Wire
  BY <1>2, <1>4, WriteEffect
<1>9. WireFits(wire', offered')
  <2> HIDE DEF m
  <2> QED
    BY <1>2, <1>3, <1>4, <1>5, <1>7, WriteFits
<1> QED
  BY <1>1, <1>3, <1>4, <1>5, <1>8, <1>9 DEF files

(***************************************************************************)
(* Types.                                                                   *)
(***************************************************************************)
LEMMA TypeInit == Init => TypeOK
<1> SUFFICES ASSUME Init PROVE TypeOK
  OBVIOUS
<1>1. dirs \in [Node -> SUBSET Dir]
  BY StoredAssumption DEF Init
<1>2. disk \in [Machine -> SUBSET File] /\ index \in [Node -> SUBSET File]
  BY HomeIsNode DEF Init, collectLocalShares
<1>3. process \in [Machine -> Node] /\ \A h \in Machine : Home[process[h]] = h
  BY HomeAssumption DEF Init, Machine
<1> QED
  BY <1>1, <1>2, <1>3 DEF Init, TypeOK, NoDialog

LEMMA SpentType ==
  ASSUME TypeOK, [Next]_vars
  PROVE  sends' \in Nat /\ changes' \in Nat /\ faults' \in Nat
<1>0. sends \in Nat /\ changes \in Nat /\ faults \in Nat
  BY DEF TypeOK
<1>1. CASE \E n \in User :
             \/ openShareCenter(n) \/ closeShareCenter(n)
             \/ sendLocalShare(n) \/ requestRemoteShare(n) \/ downloadSelectedShare(n)
             \/ \E p \in Node : handlePeerSelection(n, p)
             \/ \E d \in Dir : addDirectory(n, d) \/ removeDirectory(n, d)
  <2> PICK n \in User :
             \/ openShareCenter(n) \/ closeShareCenter(n)
             \/ sendLocalShare(n) \/ requestRemoteShare(n) \/ downloadSelectedShare(n)
             \/ \E p \in Node : handlePeerSelection(n, p)
             \/ \E d \in Dir : addDirectory(n, d) \/ removeDirectory(n, d)
    BY <1>1
  <2>1. CASE openShareCenter(n) \/ closeShareCenter(n)
    BY <1>0, <2>1 DEF openShareCenter, closeShareCenter, spent
  <2>2. CASE sendLocalShare(n) \/ requestRemoteShare(n) \/ downloadSelectedShare(n)
    <3>1. sends' = sends + 1 /\ UNCHANGED <<changes, faults>>
      BY <2>2 DEF sendLocalShare, requestRemoteShare, downloadSelectedShare, mayAsk
    <3> QED
      BY <1>0, <3>1
  <2>3. CASE \E p \in Node : handlePeerSelection(n, p)
    BY <1>0, <2>3 DEF handlePeerSelection, spent
  <2>4. CASE \E d \in Dir : addDirectory(n, d) \/ removeDirectory(n, d)
    <3>1. changes' = changes + 1 /\ UNCHANGED <<sends, faults>>
      BY <2>4 DEF addDirectory, removeDirectory
    <3> QED
      BY <1>0, <3>1
  <2> QED
    BY <2>1, <2>2, <2>3, <2>4
<1>2. CASE \E n, p \in Node : handleRouterMessage(n, p) \/ loseSession(n, p)
  BY <1>0, <1>2 DEF handleRouterMessage, handleShareRequest, handleShareCatalog,
     handleShareDownload, handleFileMessage, loseSession, spent
<1>3. CASE (\E n \in Node : restart(n)) \/ \E h \in Machine, f \in File : diskChanges(h, f)
  BY <1>0, <1>3 DEF restart, diskChanges
<1>4. CASE UNCHANGED vars
  BY <1>0, <1>4 DEF vars, spent
<1> QED
  BY <1>1, <1>2, <1>3, <1>4 DEF Next

(***************************************************************************)
(* What no step of the user or of the network touches keeps its invariant.  *)
(***************************************************************************)
ProcessOK == /\ process \in [Machine -> Node] /\ \A h \in Machine : Home[process[h]] = h
             /\ drawn \subseteq Passing

SpentOK == sends \in Nat /\ changes \in Nat /\ faults \in Nat

LocalOK == /\ dirs \in [Node -> SUBSET Dir]
           /\ disk \in [Machine -> SUBSET File] /\ index \in [Node -> SUBSET File]
           /\ IndexIsShared

PanelOK == /\ current \in [Node -> Node \cup {NoNode}]
           /\ dialog \in [Node -> [made : BOOLEAN, visible : BOOLEAN,
                                   peer : Node \cup {NoNode}, entries : SUBSET File]]
           /\ VisibleIsMade /\ DialogShowsChosenPeer

OffersOK == /\ remote \in [Node -> [Node -> SUBSET File]]
            /\ wire \in Wire /\ offered \in Offered
            /\ OffersAreKept

LEMMA IInvParts == IInv <=> ProcessOK /\ SpentOK /\ LocalOK /\ PanelOK /\ OffersOK
BY DEF IInv, TypeOK, ProcessOK, SpentOK, LocalOK, PanelOK, OffersOK, Wire, Offered

LEMMA IInvPartsNext == IInv' <=> (ProcessOK /\ SpentOK /\ LocalOK /\ PanelOK /\ OffersOK)'
BY DEF IInv, TypeOK, ProcessOK, SpentOK, LocalOK, PanelOK, OffersOK, Wire, Offered

LEMMA LocalStays == LocalOK /\ UNCHANGED local => LocalOK'
BY DEF LocalOK, IndexIsShared, local

LEMMA PanelStays == PanelOK /\ UNCHANGED panel => PanelOK'
BY DEF PanelOK, VisibleIsMade, DialogShowsChosenPeer, catalogue, panel

LEMMA OffersStay == OffersOK /\ UNCHANGED <<remote, wire, offered>> => OffersOK'
BY DEF OffersOK, OffersAreKept, WireFits, Fits

(***************************************************************************)
(* The user: the panel.                                                     *)
(***************************************************************************)
LEMMA SelectionStep ==
  ASSUME IInv, NEW n \in Node, NEW p \in Node, handlePeerSelection(n, p)
  PROVE  LocalOK' /\ PanelOK' /\ OffersOK'
<1>1. LocalOK /\ PanelOK /\ OffersOK /\ TypeOK
  BY IInvParts DEF IInv
<1>2. UNCHANGED <<dirs, disk, index, wire, remote, offered>>
  BY DEF handlePeerSelection, local
<1>3. current' = [current EXCEPT ![n] = p]
  BY DEF handlePeerSelection
<1>4. dialog' = [dialog EXCEPT ![n] =
                   IF @.made THEN [@ EXCEPT !.peer = p, !.entries = catalogue(n, p)] ELSE @]
  BY DEF handlePeerSelection, showPeer
<1>5. catalogue(n, p) \in SUBSET File
  BY <1>1, CatalogueType
<1>6. PanelOK'
  <2>1. current' \in [Node -> Node \cup {NoNode}]
    BY <1>1, <1>3 DEF PanelOK
  <2>2. dialog' \in [Node -> [made : BOOLEAN, visible : BOOLEAN,
                              peer : Node \cup {NoNode}, entries : SUBSET File]]
    BY <1>1, <1>4, <1>5 DEF PanelOK
  <2>3. \A a \in Node : a # n => dialog'[a] = dialog[a] /\ current'[a] = current[a]
    BY <1>1, <1>3, <1>4 DEF PanelOK
  <2>4. current'[n] = p
    BY <1>1, <1>3 DEF PanelOK
  <2>5. dialog[n].made => /\ dialog'[n].made = dialog[n].made
                          /\ dialog'[n].visible = dialog[n].visible
                          /\ dialog'[n].peer = p /\ dialog'[n].entries = catalogue(n, p)
    BY <1>1, <1>4 DEF PanelOK
  <2>6. ~dialog[n].made => dialog'[n] = dialog[n]
    BY <1>1, <1>4 DEF PanelOK
  <2>7. VisibleIsMade'
    BY <1>1, <2>3, <2>5, <2>6 DEF PanelOK, VisibleIsMade
  <2>8. DialogShowsChosenPeer'
    BY <1>1, <1>2, <2>3, <2>4, <2>5, <2>6
    DEF PanelOK, VisibleIsMade, DialogShowsChosenPeer, catalogue
  <2> QED
    BY <2>1, <2>2, <2>7, <2>8 DEF PanelOK
<1> QED
  BY <1>1, <1>2, <1>6, LocalStays, OffersStay DEF local

LEMMA OpenStep ==
  ASSUME IInv, NEW n \in Node, openShareCenter(n)
  PROVE  LocalOK' /\ PanelOK' /\ OffersOK'
<1>1. LocalOK /\ PanelOK /\ OffersOK /\ TypeOK
  BY IInvParts DEF IInv
<1>2. UNCHANGED <<dirs, disk, index, wire, current, remote, offered>>
  BY DEF openShareCenter, local
<1>3. dialog' = [dialog EXCEPT ![n] = [made |-> TRUE, visible |-> TRUE, peer |-> current[n],
                                       entries |-> catalogue(n, current[n])]]
  BY DEF openShareCenter
<1>4. catalogue(n, current[n]) \in SUBSET File
  BY <1>1, CatalogueType DEF PanelOK
<1>5. PanelOK'
  <2>1. dialog' \in [Node -> [made : BOOLEAN, visible : BOOLEAN,
                              peer : Node \cup {NoNode}, entries : SUBSET File]]
    BY <1>1, <1>3, <1>4 DEF PanelOK
  <2>2. \A a \in Node : IF a = n THEN /\ dialog'[a].made /\ dialog'[a].peer = current[n]
                                      /\ dialog'[a].entries = catalogue(n, current[n])
                                 ELSE dialog'[a] = dialog[a]
    BY <1>1, <1>3 DEF PanelOK
  <2> QED
    BY <1>1, <1>2, <2>1, <2>2 DEF PanelOK, VisibleIsMade, DialogShowsChosenPeer, catalogue
<1> QED
  BY <1>1, <1>2, <1>5, LocalStays, OffersStay DEF local

LEMMA CloseStep ==
  ASSUME IInv, NEW n \in Node, closeShareCenter(n)
  PROVE  LocalOK' /\ PanelOK' /\ OffersOK'
<1>1. LocalOK /\ PanelOK /\ OffersOK
  BY IInvParts
<1>2. UNCHANGED <<dirs, disk, index, wire, current, remote, offered>>
  BY DEF closeShareCenter, local
<1>3. dialog' = [dialog EXCEPT ![n].visible = FALSE]
  BY DEF closeShareCenter
<1>4. \A a \in Node : IF a = n THEN ~dialog'[a].visible ELSE dialog'[a] = dialog[a]
  BY <1>1, <1>3 DEF PanelOK
<1>5. dialog' \in [Node -> [made : BOOLEAN, visible : BOOLEAN,
                            peer : Node \cup {NoNode}, entries : SUBSET File]]
  BY <1>1, <1>3 DEF PanelOK
<1>6. PanelOK'
  BY <1>1, <1>2, <1>4, <1>5 DEF PanelOK, VisibleIsMade, DialogShowsChosenPeer, catalogue
<1> QED
  BY <1>1, <1>2, <1>6, LocalStays, OffersStay DEF local

(***************************************************************************)
(* The user: the directories; and the disks.                                *)
(***************************************************************************)
LEMMA DirectoriesStep ==
  ASSUME IInv, NEW n \in Node, NEW list \in SUBSET Dir, updateSharedDirectories(n, list),
         UNCHANGED <<disk, wire, panel, offered>>
  PROVE  LocalOK' /\ PanelOK' /\ OffersOK'
<1>1. LocalOK /\ PanelOK /\ OffersOK /\ TypeOK
  BY IInvParts DEF IInv
<1>2. /\ dirs' = [dirs EXCEPT ![n] = list]
      /\ index' = [index EXCEPT ![n] = collectLocalShares(n, list)]
  BY DEF updateSharedDirectories
<1>3. /\ collectLocalShares(n, list) \in SUBSET File
      /\ \A f \in collectLocalShares(n, list) : DirOf[f] \in list
  BY <1>1, SharesAreFiles
<1>4. LocalOK'
  <2> HIDE DEF collectLocalShares
  <2>1. dirs' \in [Node -> SUBSET Dir] /\ index' \in [Node -> SUBSET File]
    BY <1>1, <1>2, <1>3 DEF LocalOK
  <2>2. \A a \in Node : IF a = n THEN dirs'[a] = list /\ index'[a] = collectLocalShares(n, list)
                                 ELSE dirs'[a] = dirs[a] /\ index'[a] = index[a]
    BY <1>1, <1>2 DEF LocalOK
  <2>3. IndexIsShared'
    BY <1>1, <1>3, <2>2 DEF LocalOK, IndexIsShared
  <2> QED
    BY <1>1, <2>1, <2>3 DEF LocalOK
<1> QED
  BY <1>1, <1>4, PanelStays, OffersStay DEF panel

LEMMA AddStep ==
  ASSUME IInv, NEW n \in Node, NEW d \in Dir, addDirectory(n, d) \/ removeDirectory(n, d)
  PROVE  LocalOK' /\ PanelOK' /\ OffersOK'
<1>1. dirs[n] \in SUBSET Dir
  BY DEF IInv, TypeOK
<1>2. UNCHANGED <<disk, wire, panel, offered>>
  BY DEF addDirectory, removeDirectory
<1>3. CASE addDirectory(n, d)
  <2>1. updateSharedDirectories(n, dirs[n] \cup {d}) /\ dirs[n] \cup {d} \in SUBSET Dir
    BY <1>1, <1>3 DEF addDirectory
  <2> QED
    BY <1>2, <2>1, DirectoriesStep
<1>4. CASE removeDirectory(n, d)
  <2>1. updateSharedDirectories(n, dirs[n] \ {d}) /\ dirs[n] \ {d} \in SUBSET Dir
    BY <1>1, <1>4 DEF removeDirectory
  <2> QED
    BY <1>2, <2>1, DirectoriesStep
<1> QED
  BY <1>3, <1>4

LEMMA DiskStep ==
  ASSUME IInv, NEW h \in Machine, NEW f \in File, diskChanges(h, f)
  PROVE  LocalOK' /\ PanelOK' /\ OffersOK'
<1>1. LocalOK /\ PanelOK /\ OffersOK
  BY IInvParts
<1>2. /\ disk' = [disk EXCEPT ![h] = IF f \in @ THEN @ \ {f} ELSE @ \cup {f}]
      /\ UNCHANGED <<dirs, index, wire, panel, offered>>
  BY DEF diskChanges
<1>3. disk' \in [Machine -> SUBSET File]
  BY <1>1, <1>2 DEF LocalOK
<1>4. LocalOK'
  BY <1>1, <1>2, <1>3 DEF LocalOK, IndexIsShared
<1> QED
  BY <1>1, <1>2, <1>4, PanelStays, OffersStay DEF panel

(***************************************************************************)
(* The user: what is sent.                                                  *)
(***************************************************************************)
\* A message to p fits whatever id is reached under the address of p.
LEMMA FitsReached ==
  ASSUME TypeOK, NEW n \in Node, NEW p \in Node, NEW m, NEW given,
         m.type # "share_catalog", Fits(n, p, m, given)
  PROVE  Fits(n, reached(p), m, given)
BY ReachedHome DEF Fits

LEMMA RequestStep ==
  ASSUME IInv, NEW n \in Node, NEW to \in Node, NEW m \in Message, m.type # "share_catalog",
         Fits(n, to, m, offered), sendIfKnown(n, to, m), UNCHANGED <<local, panel, offered>>
  PROVE  LocalOK' /\ PanelOK' /\ OffersOK'
<1>0. PICK p \in Node : p = reached(to)
  BY ReachedHome DEF IInv
<1>1. LocalOK /\ PanelOK /\ OffersOK /\ Fits(n, p, m, offered)
  BY <1>0, IInvParts, FitsReached DEF IInv
<1>2. wire' = write(wire, n, p, m) \/ wire' = wire
  BY <1>0 DEF sendIfKnown
<1>3. wire' \in Wire
  BY <1>1, <1>2, WriteEffect DEF OffersOK
<1>4. WireFits(wire', offered)
  <2>1. CASE wire' = wire
    BY <1>1, <2>1 DEF OffersOK, OffersAreKept
  <2>2. CASE wire' = write(wire, n, p, m)
    <3>1. WireFits(write(wire, n, p, m), offered)
      BY <1>1, WriteFits DEF OffersOK, OffersAreKept
    <3> QED
      BY <2>2, <3>1
  <2> QED
    BY <1>2, <2>1, <2>2
<1>5. OffersOK'
  BY <1>1, <1>3, <1>4 DEF OffersOK, OffersAreKept, panel, WireFits, Fits
<1> QED
  BY <1>1, <1>5, LocalStays, PanelStays

\* What the visible dialog lists was offered by the peer it shows.
LEMMA ListedWasOffered ==
  ASSUME IInv, NEW n \in Node, dialog[n].visible, dialog[n].peer # NoNode,
         NEW f \in dialog[n].entries
  PROVE  /\ dialog[n].peer \in Node
         /\ f \in File /\ f \in offered[Home[dialog[n].peer]][n]
<1>1. /\ dialog[n].peer \in Node \cup {NoNode} /\ dialog[n].entries \in SUBSET File
      /\ dialog[n].peer = current[n]
      /\ dialog[n].entries = catalogue(n, current[n])
  BY DEF IInv, TypeOK, DialogShowsChosenPeer
<1>2. f \in remote[n][dialog[n].peer]
  BY <1>1 DEF catalogue
<1> QED
  BY <1>1, <1>2 DEF IInv, OffersAreKept

LEMMA AskStep ==
  ASSUME IInv, NEW n \in Node, requestRemoteShare(n) \/ downloadSelectedShare(n)
  PROVE  LocalOK' /\ PanelOK' /\ OffersOK'
<1> DEFINE p == dialog[n].peer
<1>1. dialog[n].visible /\ p # NoNode /\ p \in Node /\ UNCHANGED <<local, panel, offered>>
  BY DEF requestRemoteShare, downloadSelectedShare, mayAsk, IInv, TypeOK
<1>2. CASE requestRemoteShare(n)
  <2> DEFINE m == [type |-> "share_request"]
  <2>1. /\ sendIfKnown(n, p, m) /\ m \in Message /\ Fits(n, p, m, offered)
        /\ m.type # "share_catalog"
    BY <1>2, MessageOf DEF requestRemoteShare, Fits
  <2> HIDE DEF m, p
  <2> QED
    BY <1>1, <2>1, RequestStep
<1>3. CASE downloadSelectedShare(n)
  <2> PICK f \in dialog[n].entries :
             sendIfKnown(n, p, [type |-> "share_download", file |-> f])
    BY <1>3 DEF downloadSelectedShare
  <2> DEFINE m == [type |-> "share_download", file |-> f]
  <2>1. f \in File /\ f \in offered[Home[p]][n]
    BY <1>1, ListedWasOffered
  <2>2. /\ sendIfKnown(n, p, m) /\ m \in Message /\ Fits(n, p, m, offered)
        /\ m.type # "share_catalog"
    BY <2>1, MessageOf DEF Fits
  <2> HIDE DEF m, p
  <2> QED
    BY <1>1, <2>2, RequestStep
<1> QED
  BY <1>2, <1>3

LEMMA SendCatalogueStep ==
  ASSUME IInv, NEW w \in Wire, WireFits(w, offered), NEW n \in Node, NEW p \in Node,
         sendShareCatalogToPeer(w, n, p), UNCHANGED <<dirs, disk, panel>>
  PROVE  LocalOK' /\ PanelOK' /\ OffersOK'
<1>1. LocalOK /\ PanelOK /\ OffersOK /\ TypeOK
  BY IInvParts DEF IInv
<1>2. /\ index' \in [Node -> SUBSET File]
      /\ \A a \in Node : index'[a] = IF a = n THEN collectLocalShares(n, dirs[n]) ELSE index[a]
      /\ wire' \in Wire
      /\ offered' \in Offered
      /\ \A a, b \in Node : offered[a][b] \subseteq offered'[a][b]
      /\ WireFits(wire', offered')
  BY <1>1, CatalogueSent
<1>3. \A f \in collectLocalShares(n, dirs[n]) : DirOf[f] \in dirs[n]
  BY <1>1, SharesAreFiles
<1>4. LocalOK'
  BY <1>1, <1>2, <1>3 DEF LocalOK, IndexIsShared
<1>5. \A a, b \in Node : remote[a][b] \subseteq offered'[Home[b]][a]
  BY <1>1, <1>2, HomeIsNode DEF OffersOK, OffersAreKept
<1>6. OffersOK'
  BY <1>1, <1>2, <1>5 DEF OffersOK, OffersAreKept, panel, WireFits, Fits
<1> QED
  BY <1>1, <1>4, <1>6, PanelStays

LEMMA SendLocalStep ==
  ASSUME IInv, NEW n \in Node, sendLocalShare(n)
  PROVE  LocalOK' /\ PanelOK' /\ OffersOK'
<1> DEFINE p == reached(dialog[n].peer)
<1>0. dialog[n].peer \in Node
  BY DEF sendLocalShare, mayAsk, IInv, TypeOK
<1>1. p \in Node /\ UNCHANGED <<dirs, disk, panel>>
  BY <1>0, ReachedHome DEF sendLocalShare, IInv
<1>2. wire \in Wire /\ WireFits(wire, offered)
  BY IInvParts DEF OffersOK, OffersAreKept
<1>3. CASE sendShareCatalogToPeer(wire, n, p)
  <2> HIDE DEF p
  <2> QED
    BY <1>1, <1>2, <1>3, SendCatalogueStep
<1>4. CASE UNCHANGED <<index, wire, offered>>
  <2>1. LocalOK /\ PanelOK /\ OffersOK
    BY IInvParts
  <2> QED
    BY <1>1, <1>4, <2>1, LocalStays, PanelStays, OffersStay DEF local, panel
<1> QED
  BY <1>3, <1>4 DEF sendLocalShare

(***************************************************************************)
(* The handlers.                                                            *)
(***************************************************************************)
LEMMA NextMessage ==
  ASSUME IInv, NEW n \in Node, NEW p \in Node, NEW type, next(n, p, type)
  PROVE  /\ arrived(n, p) \in Wire /\ WireFits(arrived(n, p), offered)
         /\ Head(wire[p][n]) \in Message /\ Head(wire[p][n]).type = type
         /\ Fits(p, n, Head(wire[p][n]), offered)
<1>1. wire \in Wire /\ offered \in Offered /\ WireFits(wire, offered)
  BY IInvParts DEF OffersOK, OffersAreKept
<1>2. wire[p][n] # <<>> /\ Head(wire[p][n]).type = type
  BY DEF next
<1> QED
  BY <1>1, <1>2, ArrivedEffect, ArrivedFits

LEMMA RequestHandled ==
  ASSUME IInv, NEW n \in Node, NEW p \in Node, handleShareRequest(n, p)
  PROVE  LocalOK' /\ PanelOK' /\ OffersOK'
<1> PICK w : w = arrived(n, p)
  OBVIOUS
<1>1. w \in Wire /\ WireFits(w, offered)
  BY NextMessage DEF handleShareRequest
<1>2. sendShareCatalogToPeer(w, n, p) /\ UNCHANGED <<dirs, disk, panel>>
  BY DEF handleShareRequest, sendShareCatalogToPeer
<1> QED
  BY <1>1, <1>2, SendCatalogueStep

LEMMA CatalogueHandled ==
  ASSUME IInv, NEW n \in Node, NEW p \in Node, handleShareCatalog(n, p)
  PROVE  LocalOK' /\ PanelOK' /\ OffersOK'
<1> DEFINE files == Head(wire[p][n]).files
<1>1. LocalOK /\ PanelOK /\ OffersOK
  BY IInvParts
<1>2. /\ remote' = [remote EXCEPT ![n][p] = files]
      /\ dialog' = [dialog EXCEPT ![n].entries = IF shownIn(n, p) THEN files ELSE @]
      /\ wire' = arrived(n, p)
      /\ UNCHANGED <<dirs, disk, index, current, offered>>
  BY DEF handleShareCatalog, local
<1>3. /\ wire' \in Wire /\ WireFits(wire', offered)
      /\ files \in SUBSET File /\ files \subseteq offered[Home[p]][n]
  <2>1. next(n, p, "share_catalog")
    BY DEF handleShareCatalog
  <2> QED
    BY <1>2, <2>1, NextMessage, MessageParts DEF Fits
<1> HIDE DEF files
<1>4. \A a, b \in Node : remote'[a][b] = IF a = n /\ b = p THEN files ELSE remote[a][b]
  BY <1>1, <1>2 DEF OffersOK
<1>5. remote' \in [Node -> [Node -> SUBSET File]]
  BY <1>1, <1>2, <1>3 DEF OffersOK
<1>6. OffersOK'
  <2>1. \A a, b \in Node : remote'[a][b] \subseteq offered'[Home[b]][a]
    BY <1>1, <1>2, <1>3, <1>4 DEF OffersOK, OffersAreKept
  <2> QED
    BY <1>1, <1>2, <1>3, <1>5, <2>1 DEF OffersOK, OffersAreKept, WireFits, Fits
<1>7. PanelOK'
  <2>1. dialog' \in [Node -> [made : BOOLEAN, visible : BOOLEAN,
                              peer : Node \cup {NoNode}, entries : SUBSET File]]
    BY <1>1, <1>2, <1>3 DEF PanelOK
  <2>2. \A a \in Node : /\ dialog'[a].made = dialog[a].made
                        /\ dialog'[a].visible = dialog[a].visible
                        /\ dialog'[a].peer = dialog[a].peer
                        /\ dialog'[a].entries = IF a = n /\ shownIn(n, p) THEN files
                                                ELSE dialog[a].entries
    BY <1>1, <1>2 DEF PanelOK
  <2>3. VisibleIsMade'
    BY <1>1, <2>2 DEF PanelOK, VisibleIsMade
  <2>4. ASSUME NEW a \in Node, dialog'[a].visible
        PROVE  /\ dialog'[a].peer = current'[a]
               /\ dialog'[a].entries = catalogue(a, current[a])'
    <3>1. /\ dialog[a].visible /\ dialog[a].peer = current[a] /\ current'[a] = current[a]
          /\ dialog[a].entries = catalogue(a, current[a])
      BY <1>1, <1>2, <2>2, <2>4 DEF PanelOK, DialogShowsChosenPeer
    <3>2. current[a] \in Node \cup {NoNode}
      BY <1>1 DEF PanelOK
    <3>3. CASE a = n /\ p = current[a]
      BY <1>2, <1>4, <2>2, <3>1, <3>3, NodeAssumption DEF shownIn, catalogue
    <3>4. CASE ~(a = n /\ p = current[a])
      BY <1>2, <1>4, <2>2, <3>1, <3>2, <3>4 DEF shownIn, catalogue
    <3> QED
      BY <2>2, <3>1, <3>3, <3>4
  <2>5. DialogShowsChosenPeer'
    BY <1>2, <2>4 DEF DialogShowsChosenPeer, catalogue
  <2> QED
    BY <1>1, <1>2, <2>1, <2>3, <2>5 DEF PanelOK
<1> QED
  BY <1>1, <1>2, <1>6, <1>7, LocalStays DEF local

LEMMA OthersHandled ==
  ASSUME IInv, NEW n \in Node, NEW p \in Node, handleShareDownload(n, p) \/ handleFileMessage(n, p)
  PROVE  LocalOK' /\ PanelOK' /\ OffersOK'
<1>1. LocalOK /\ PanelOK /\ OffersOK
  BY IInvParts
<1>2. UNCHANGED <<local, panel, offered>>
  BY DEF handleShareDownload, handleFileMessage
<1>3. arrived(n, p) \in Wire /\ WireFits(arrived(n, p), offered) /\ Head(wire[p][n]) \in Message
  BY NextMessage DEF handleShareDownload, handleFileMessage
<1>4. wire' \in Wire /\ WireFits(wire', offered)
  <2>1. CASE wire' = arrived(n, p)
    BY <1>3, <2>1
  <2>2. CASE wire' # arrived(n, p)
    <3> DEFINE f == Head(wire[p][n]).file
               m == [type |-> "file", file |-> f]
    <3>1. next(n, p, "share_download") /\ wire' = write(arrived(n, p), n, p, m)
      BY <2>2 DEF handleShareDownload, handleFileMessage
    <3>2. f \in File
      BY <1>3, <3>1, MessageParts DEF next
    <3>3. m \in Message /\ Fits(n, p, m, offered)
      BY <3>2, MessageOf DEF Fits
    <3> HIDE DEF m, f
    <3>4. /\ write(arrived(n, p), n, p, m) \in Wire
          /\ WireFits(write(arrived(n, p), n, p, m), offered)
      BY <1>1, <1>3, <3>3, WriteEffect, WriteFits DEF OffersOK
    <3> QED
      BY <3>1, <3>4
  <2> QED
    BY <2>1, <2>2
<1>5. OffersOK'
  BY <1>1, <1>2, <1>4 DEF OffersOK, OffersAreKept, panel, WireFits, Fits
<1> QED
  BY <1>1, <1>2, <1>5, LocalStays, PanelStays

(***************************************************************************)
(* The environment.                                                         *)
(***************************************************************************)
LEMMA LoseStep ==
  ASSUME IInv, NEW n \in Node, NEW p \in Node, loseSession(n, p)
  PROVE  LocalOK' /\ PanelOK' /\ OffersOK'
<1>1. LocalOK /\ PanelOK /\ OffersOK
  BY IInvParts
<1>2. wire' = [wire EXCEPT ![n][p] = <<>>] /\ UNCHANGED <<local, panel, offered>>
  BY DEF loseSession
<1>3. \A a, b \in Node : wire'[a][b] = IF a = n /\ b = p THEN <<>> ELSE wire[a][b]
  BY <1>1, <1>2 DEF OffersOK, Wire
<1>4. wire' \in Wire
  BY <1>1, <1>2 DEF OffersOK, Wire
<1>5. OffersOK'
  BY <1>1, <1>2, <1>3, <1>4 DEF OffersOK, OffersAreKept, panel, WireFits, Fits
<1> QED
  BY <1>1, <1>2, <1>5, LocalStays, PanelStays

LEMMA RestartStep ==
  ASSUME IInv, NEW n \in Node, restart(n)
  PROVE  ProcessOK' /\ LocalOK' /\ PanelOK' /\ OffersOK'
<1> DEFINE ended(m) == Home[m] = Home[n]
<1>1. ProcessOK /\ LocalOK /\ PanelOK /\ OffersOK /\ TypeOK
  BY IInvParts DEF IInv
<1>2. /\ collectLocalShares(n, dirs[n]) \in SUBSET File
      /\ \A f \in collectLocalShares(n, dirs[n]) : DirOf[f] \in dirs[n]
  BY <1>1, SharesAreFiles
<1>3. LocalOK'
  <2>1. /\ index' = [index EXCEPT ![n] = collectLocalShares(n, dirs[n])]
        /\ UNCHANGED <<dirs, disk>>
    BY DEF restart
  <2> HIDE DEF collectLocalShares
  <2> QED
    BY <1>1, <1>2, <2>1 DEF LocalOK, IndexIsShared
<1>4. /\ wire' = [m \in Node |-> [p \in Node |->
                    IF ended(m) \/ ended(p) THEN <<>> ELSE wire[m][p]]]
      /\ current' = [m \in Node |-> IF ended(m) THEN NoNode ELSE current[m]]
      /\ remote' = [m \in Node |-> IF ended(m) THEN [p \in Node |-> {}] ELSE remote[m]]
      /\ dialog' = [m \in Node |-> IF ended(m) THEN NoDialog ELSE dialog[m]]
      /\ offered' = offered
  BY DEF restart
<1> HIDE DEF ended
<1>5. PanelOK'
  <2>1. dialog' \in [Node -> [made : BOOLEAN, visible : BOOLEAN,
                              peer : Node \cup {NoNode}, entries : SUBSET File]]
    BY <1>1, <1>4 DEF PanelOK, NoDialog
  <2>2. current' \in [Node -> Node \cup {NoNode}]
    BY <1>1, <1>4 DEF PanelOK
  <2>3. \A a \in Node : IF ended(a) THEN ~dialog'[a].visible
                        ELSE /\ dialog'[a] = dialog[a] /\ current'[a] = current[a]
                             /\ remote'[a] = remote[a]
    BY <1>4 DEF NoDialog
  <2>4. VisibleIsMade' /\ DialogShowsChosenPeer'
    BY <1>1, <2>3 DEF PanelOK, VisibleIsMade, DialogShowsChosenPeer, catalogue
  <2> QED
    BY <2>1, <2>2, <2>4 DEF PanelOK
<1>6. OffersOK'
  <2>1. wire' \in Wire
    BY <1>1, <1>4 DEF OffersOK, Wire
  <2>2. \A a, b \in Node : wire'[a][b] = <<>> \/ wire'[a][b] = wire[a][b]
    BY <1>4
  <2>3. \A a, b \in Node : remote'[a][b] = {} \/ remote'[a][b] = remote[a][b]
    BY <1>4
  <2>4. remote' \in [Node -> [Node -> SUBSET File]]
    BY <1>1, <1>4 DEF OffersOK
  <2>5. WireFits(wire, offered)'
    BY <1>1, <1>4, <2>2 DEF OffersOK, OffersAreKept, WireFits, Fits
  <2> QED
    BY <1>1, <1>4, <2>1, <2>3, <2>4, <2>5 DEF OffersOK, OffersAreKept
<1>7. ProcessOK'
  <2>1. process' = [process EXCEPT ![Home[n]] = n] /\ drawn' = drawn \cup ({n} \cap Passing)
    BY DEF restart
  <2> QED
    BY <1>1, <2>1, HomeIsNode DEF ProcessOK
<1> QED
  BY <1>3, <1>5, <1>6, <1>7

(***************************************************************************)
(* The invariant.                                                           *)
(***************************************************************************)
LEMMA InductiveInit == Init => IInv
<1> SUFFICES ASSUME Init PROVE IInv
  OBVIOUS
<1>1. TypeOK
  BY TypeInit
<1>2. VisibleIsMade /\ DialogShowsChosenPeer
  BY DEF Init, NoDialog, VisibleIsMade, DialogShowsChosenPeer
<1>3. IndexIsShared
  BY DEF Init, IndexIsShared, collectLocalShares
<1>4. OffersAreKept
  BY DEF Init, OffersAreKept, WireFits
<1> QED
  BY <1>1, <1>2, <1>3, <1>4 DEF IInv

LEMMA InductiveStep == IInv /\ [Next]_vars => IInv'
<1> SUFFICES ASSUME IInv, [Next]_vars PROVE IInv'
  OBVIOUS
<1>1. SpentOK'
  BY SpentType DEF IInv, SpentOK
<1>2. LocalOK' /\ PanelOK' /\ OffersOK'
  <2>1. ASSUME NEW n \in User,
               \/ openShareCenter(n) \/ closeShareCenter(n)
               \/ sendLocalShare(n) \/ requestRemoteShare(n) \/ downloadSelectedShare(n)
               \/ \E p \in Node : handlePeerSelection(n, p)
               \/ \E d \in Dir : addDirectory(n, d) \/ removeDirectory(n, d)
        PROVE  LocalOK' /\ PanelOK' /\ OffersOK'
    <3>0. n \in Node
      BY NodeAssumption
    <3>1. CASE openShareCenter(n)
      BY <3>0, <3>1, OpenStep
    <3>2. CASE closeShareCenter(n)
      BY <3>0, <3>2, CloseStep
    <3>3. CASE sendLocalShare(n)
      BY <3>0, <3>3, SendLocalStep
    <3>4. CASE requestRemoteShare(n) \/ downloadSelectedShare(n)
      BY <3>0, <3>4, AskStep
    <3>5. CASE \E p \in Node : handlePeerSelection(n, p)
      BY <3>0, <3>5, SelectionStep
    <3>6. CASE \E d \in Dir : addDirectory(n, d) \/ removeDirectory(n, d)
      BY <3>0, <3>6, AddStep
    <3> QED
      BY <2>1, <3>1, <3>2, <3>3, <3>4, <3>5, <3>6
  <2>2. ASSUME NEW n \in Node, NEW p \in Node, handleRouterMessage(n, p)
        PROVE  LocalOK' /\ PanelOK' /\ OffersOK'
    <3>1. CASE handleShareRequest(n, p)
      BY <3>1, RequestHandled
    <3>2. CASE handleShareCatalog(n, p)
      BY <3>2, CatalogueHandled
    <3>3. CASE handleShareDownload(n, p) \/ handleFileMessage(n, p)
      BY <3>3, OthersHandled
    <3> QED
      BY <2>2, <3>1, <3>2, <3>3 DEF handleRouterMessage
  <2>3. ASSUME NEW n \in Node, NEW p \in Node, loseSession(n, p)
        PROVE  LocalOK' /\ PanelOK' /\ OffersOK'
    BY <2>3, LoseStep
  <2>4. ASSUME (\E n \in Node : restart(n)) \/ \E h \in Machine, f \in File : diskChanges(h, f)
        PROVE  LocalOK' /\ PanelOK' /\ OffersOK'
    BY <2>4, RestartStep, DiskStep
  <2>5. ASSUME UNCHANGED vars
        PROVE  LocalOK' /\ PanelOK' /\ OffersOK'
    <3>1. LocalOK /\ PanelOK /\ OffersOK
      BY IInvParts
    <3>2. UNCHANGED local /\ UNCHANGED panel /\ UNCHANGED <<remote, wire, offered>>
      BY <2>5 DEF vars, local, panel
    <3> QED
      BY <3>1, <3>2, LocalStays, PanelStays, OffersStay
  <2> QED
    BY <2>1, <2>2, <2>3, <2>4, <2>5 DEF Next
<1>3. ProcessOK'
  <2>1. ProcessOK
    BY IInvParts
  <2>2. CASE UNCHANGED ids
    BY <2>1, <2>2 DEF ProcessOK, ids
  <2>3. CASE \E n \in Node : restart(n)
    BY <2>3, RestartStep
  <2>4. UNCHANGED ids \/ \E n \in Node : restart(n)
    BY DEF Next, vars, openShareCenter, closeShareCenter, sendLocalShare, requestRemoteShare,
       downloadSelectedShare, handlePeerSelection, addDirectory, removeDirectory,
       handleRouterMessage, handleShareRequest, handleShareCatalog, handleShareDownload,
       handleFileMessage, loseSession, diskChanges
  <2> QED
    BY <2>2, <2>3, <2>4
<1> QED
  BY <1>1, <1>2, <1>3, IInvPartsNext

(***************************************************************************)
(* Only an answer to a download puts a file on a wire.                      *)
(***************************************************************************)
LEMMA WrittenLast ==
  ASSUME NEW w \in Wire, NEW n \in Node, NEW p \in Node, NEW m \in Message,
         NEW a \in Node, NEW b \in Node,
         Len(write(w, n, p, m)[a][b]) > Len(w[a][b])
  PROVE  /\ a = n /\ b = p
         /\ write(w, n, p, m)[a][b][Len(write(w, n, p, m)[a][b])] = m
<1>1. write(w, n, p, m)[a][b] = IF a = n /\ b = p THEN Append(w[a][b], m) ELSE w[a][b]
  BY WriteEffect
<1>2. w[a][b] \in Seq(Message)
  BY DEF Wire
<1>3. a = n /\ b = p
  BY <1>1, <1>2
<1> QED
  BY <1>1, <1>2, <1>3

LEMMA ArrivedIsShorter ==
  ASSUME wire \in Wire, NEW n \in Node, NEW p \in Node, wire[p][n] # <<>>,
         NEW a \in Node, NEW b \in Node
  PROVE  /\ Len(arrived(n, p)[a][b]) <= Len(wire[a][b])
         /\ Len(arrived(n, p)[a][b]) \in Nat /\ Len(wire[a][b]) \in Nat
<1>1. arrived(n, p)[a][b] = IF a = p /\ b = n THEN Tail(wire[a][b]) ELSE wire[a][b]
  BY ArrivedEffect
<1>2. wire[a][b] \in Seq(Message)
  BY DEF Wire
<1> QED
  BY <1>1, <1>2

Longer(a, b) == Len(wire'[a][b]) > Len(wire[a][b])
Newest(a, b) == wire'[a][b][Len(wire'[a][b])]

LEMMA ServedStep ==
  ASSUME IInv, [Next]_vars, NEW a \in Node, NEW b \in Node, Longer(a, b), Newest(a, b).type = "file"
  PROVE  DirOf[Newest(a, b).file] \in dirs[a]
<1>1. wire \in Wire /\ IndexIsShared
  BY IInvParts DEF OffersOK, LocalOK
<1>2. wire[a][b] \in Seq(Message) /\ Len(wire[a][b]) \in Nat
  BY <1>1 DEF Wire
<1>3. ASSUME NEW n \in Node, NEW p \in Node, NEW m \in Message, m.type # "file",
             wire' = write(wire, n, p, m)
      PROVE  FALSE
  BY <1>1, <1>3, WrittenLast DEF Longer, Newest
<1>4. ASSUME wire' = wire PROVE FALSE
  BY <1>2, <1>4 DEF Longer
<1>5. ASSUME NEW n \in Node, NEW p \in Node, wire[p][n] # <<>>, wire' = arrived(n, p) PROVE FALSE
  BY <1>1, <1>5, ArrivedIsShorter DEF Longer
<1>6. ASSUME NEW n \in Node, NEW p \in Node, wire[p][n] # <<>>, NEW m \in Message,
             wire' = write(arrived(n, p), n, p, m)
      PROVE  a = n /\ Newest(a, b) = m
  <2>1. arrived(n, p) \in Wire /\ Len(wire'[a][b]) > Len(arrived(n, p)[a][b])
    <3>1. /\ Len(arrived(n, p)[a][b]) <= Len(wire[a][b])
          /\ Len(arrived(n, p)[a][b]) \in Nat /\ Len(wire[a][b]) \in Nat
      BY <1>1, <1>6, ArrivedIsShorter
    <3>2. arrived(n, p) \in Wire
      BY <1>1, <1>6, ArrivedEffect
    <3>3. write(arrived(n, p), n, p, m) \in Wire
      BY <3>2, WriteEffect
    <3>4. Len(wire'[a][b]) \in Nat
      BY <1>6, <3>3 DEF Wire
    <3> QED
      BY <3>1, <3>2, <3>4 DEF Longer
  <2> PICK w \in Wire : w = arrived(n, p)
    BY <2>1
  <2>2. wire' = write(w, n, p, m) /\ Len(write(w, n, p, m)[a][b]) > Len(w[a][b])
    BY <1>6, <2>1
  <2> QED
    BY <2>2, WrittenLast DEF Newest
<1>7. ASSUME NEW n \in Node, NEW p \in Node, NEW w \in Wire, sendShareCatalogToPeer(w, n, p)
      PROVE  \E m \in Message : m.type = "share_catalog" /\ wire' = write(w, n, p, m)
  <2>1. collectLocalShares(n, dirs[n]) \in SUBSET File
    BY SharesAreFiles DEF IInv
  <2> DEFINE m == [type |-> "share_catalog", files |-> collectLocalShares(n, dirs[n])]
  <2>2. m \in Message /\ wire' = write(w, n, p, m) /\ m.type = "share_catalog"
    BY <1>7, <2>1, MessageOf DEF sendShareCatalogToPeer
  <2> QED
    BY <2>2
<1>8. CASE \E n \in User :
             \/ openShareCenter(n) \/ closeShareCenter(n)
             \/ \E p \in Node : handlePeerSelection(n, p)
             \/ \E d \in Dir : addDirectory(n, d) \/ removeDirectory(n, d)
  BY <1>4, <1>8 DEF openShareCenter, closeShareCenter, handlePeerSelection, addDirectory,
     removeDirectory
<1>9. CASE \E n \in User : sendLocalShare(n)
  <2> PICK n \in User : sendLocalShare(n)
    BY <1>9
  <2> DEFINE p == reached(dialog[n].peer)
  <2>1. n \in Node /\ p \in Node
    <3>1. n \in Node /\ dialog[n].peer \in Node
      BY NodeAssumption DEF sendLocalShare, mayAsk, IInv, TypeOK
    <3> QED
      BY <3>1, ReachedHome DEF IInv
  <2>2. wire' = wire \/ sendShareCatalogToPeer(wire, n, p)
    BY DEF sendLocalShare
  <2> HIDE DEF p
  <2>3. CASE sendShareCatalogToPeer(wire, n, p)
    <3> PICK m \in Message : m.type = "share_catalog" /\ wire' = write(wire, n, p, m)
      BY <1>1, <1>7, <2>1, <2>3
    <3> QED
      BY <1>3, <2>1
  <2> QED
    BY <1>4, <2>2, <2>3
<1>10. CASE \E n \in User : requestRemoteShare(n) \/ downloadSelectedShare(n)
  <2> PICK n \in User : requestRemoteShare(n) \/ downloadSelectedShare(n)
    BY <1>10
  <2> DEFINE p == dialog[n].peer
  <2>1. n \in Node /\ p \in Node
    BY NodeAssumption DEF requestRemoteShare, downloadSelectedShare, mayAsk, IInv, TypeOK
  <2>2. \E m \in Message : m.type # "file" /\ sendIfKnown(n, p, m)
    <3>1. CASE requestRemoteShare(n)
      BY <3>1, MessageOf DEF requestRemoteShare
    <3>2. CASE downloadSelectedShare(n)
      <4> PICK f \in dialog[n].entries : sendIfKnown(n, p, [type |-> "share_download", file |-> f])
        BY <3>2 DEF downloadSelectedShare
      <4>1. f \in File
        BY <2>1 DEF IInv, TypeOK
      <4> QED
        BY <4>1, MessageOf
    <3> QED
      BY <3>1, <3>2
  <2> PICK m \in Message : m.type # "file" /\ sendIfKnown(n, p, m)
    BY <2>2
  <2> HIDE DEF p
  <2> PICK q \in Node : q = reached(p)
    BY <2>1, ReachedHome DEF IInv
  <2>3. wire' = wire \/ wire' = write(wire, n, q, m)
    BY DEF sendIfKnown
  <2> QED
    BY <1>3, <1>4, <2>1, <2>3
<1>11. CASE \E n, p \in Node : handleShareRequest(n, p)
  <2> PICK n \in Node, p \in Node : handleShareRequest(n, p)
    BY <1>11
  <2>1. wire[p][n] # <<>> /\ arrived(n, p) \in Wire
    BY NextMessage DEF handleShareRequest, next
  <2>2. sendShareCatalogToPeer(arrived(n, p), n, p)
    BY DEF handleShareRequest
  <2> PICK m \in Message : m.type = "share_catalog" /\ wire' = write(arrived(n, p), n, p, m)
    <3> PICK w \in Wire : w = arrived(n, p)
      BY <2>1
    <3>1. sendShareCatalogToPeer(w, n, p)
      BY <2>2 DEF sendShareCatalogToPeer
    <3> QED
      BY <1>7, <3>1
  <2> QED
    BY <1>6, <2>1
<1>12. CASE \E n, p \in Node : handleShareCatalog(n, p) \/ handleFileMessage(n, p)
  BY <1>5, <1>12 DEF handleShareCatalog, handleFileMessage, next
<1>13. CASE \E n, p \in Node : handleShareDownload(n, p)
  <2> PICK n \in Node, p \in Node : handleShareDownload(n, p)
    BY <1>13
  <2> DEFINE f == Head(wire[p][n]).file
             m == [type |-> "file", file |-> f]
  <2>1. wire[p][n] # <<>> /\ f \in File
    BY NextMessage, MessageParts DEF handleShareDownload, next
  <2>2. canServe(n, p, f) /\ wire' = write(arrived(n, p), n, p, m)
    BY <1>5, <2>1 DEF handleShareDownload
  <2>3. m \in Message
    BY <2>1, MessageOf
  <2>4. a = n /\ Newest(a, b) = m
    <3> HIDE DEF m
    <3> QED
      BY <1>6, <2>1, <2>2, <2>3
  <2> QED
    BY <1>1, <2>2, <2>4 DEF canServe, IndexIsShared
<1>14. CASE \E n, p \in Node : loseSession(n, p)
  <2> PICK n \in Node, p \in Node : loseSession(n, p)
    BY <1>14
  <2>1. wire'[a][b] = <<>> \/ wire'[a][b] = wire[a][b]
    BY <1>1 DEF loseSession, Wire
  <2> QED
    BY <1>2, <2>1 DEF Longer
<1>15. CASE \E n \in Node : restart(n)
  <2> PICK n \in Node : restart(n)
    BY <1>15
  <2>1. wire'[a][b] = <<>> \/ wire'[a][b] = wire[a][b]
    BY DEF restart
  <2> QED
    BY <1>2, <2>1 DEF Longer
<1>16. CASE (\E h \in Machine, f \in File : diskChanges(h, f)) \/ UNCHANGED vars
  BY <1>4, <1>16 DEF diskChanges, vars
<1> QED
  BY <1>8, <1>9, <1>10, <1>11, <1>12, <1>13, <1>14, <1>15, <1>16 DEF Next, handleRouterMessage

(***************************************************************************)
(* The theorems.                                                            *)
(***************************************************************************)
THEOREM InvariantHolds == Spec => []IInv
  BY InductiveInit, InductiveStep, PTL DEF Spec

\* The values the catalogues, wires, indexes and dialogs take.
THEOREM TypeCorrect == Spec => []TypeOK
<1>1. IInv => TypeOK
  BY DEF IInv
<1> QED
  BY <1>1, InvariantHolds, PTL

\* handlePeerSelection, handleShareCatalog, openShareCenter: the open dialog lists the
\* latest catalogue of the chosen peer, with any number of peers that send theirs.
THEOREM DialogIsCurrent == Spec => []DialogShowsChosenPeer
<1>1. IInv => DialogShowsChosenPeer
  BY DEF IInv
<1> QED
  BY <1>1, InvariantHolds, PTL

\* downloadSelectedShare: nobody is asked for an entry it did not offer itself.
THEOREM DownloadsWereOffered == Spec => []DownloadWasOffered
<1>1. IInv => DownloadWasOffered
  BY DEF IInv, OffersAreKept, WireFits, Fits, DownloadWasOffered
<1> QED
  BY <1>1, InvariantHolds, PTL

\* handleShareDownload: what leaves the machine is in a directory shared at that moment,
\* however old the index and the catalogue the peer chose from.
THEOREM OnlySharedFilesLeave == Spec => ServedIsShared
<1>1. IInv /\ [Next]_vars =>
        [\A n, p \in Node :
           LET m == wire'[n][p][Len(wire'[n][p])]
           IN  (Len(wire'[n][p]) > Len(wire[n][p]) /\ m.type = "file")
                 => DirOf[m.file] \in dirs[n]]_vars
  BY ServedStep DEF Longer, Newest
<1> QED
  BY <1>1, InvariantHolds, PTL DEF Spec, ServedIsShared
=============================================================================
