---------------------------- MODULE ShareCenter ----------------------------
(***************************************************************************)
(* Shared directories: ShareManager's index of what may be downloaded, the  *)
(* four handlers of ChatController, the catalogues MainWindow keeps and the *)
(* ShareCenterDialog that shows one of them.                                *)
(*                                                                          *)
(* An entry id is the SHA-1 of the absolute path, so a file is its id and   *)
(* the same path on two machines is the same id.  wire[n][p] is the session *)
(* n writes to p on (module MessageRouter): first in, first out, and what   *)
(* is on it is lost with the connection.  The lists are sets: their order   *)
(* decides nothing.                                                         *)
(*                                                                          *)
(* A node is an id.  A start without the database draws an id for this one  *)
(* run (Passing); the others still find the machine under the id it had.    *)
(***************************************************************************)
EXTENDS Integers, SequencesExt

CONSTANTS Node, NoNode,
          Passing,     \* ids drawn by a start without the database
          Home,        \* the machine of each id, named by the id it has stored
          Dir, File,
          DirOf,       \* the directory of each file
          Known,       \* Known[n]: peers in the PeerDirectory of n
          User,        \* nodes with somebody at the keyboard
          StoredDirs,  \* directories the databases can hold at the beginning
          MaxSends,    \* bound on messages users send
          MaxChanges,  \* bound on changes of lists and disks
          MaxFaults    \* bound on lost sessions and restarts

ASSUME NodeAssumption == NoNode \notin Node /\ User \subseteq Node
ASSUME PassingAssumption == Passing \subseteq Node
ASSUME HomeAssumption ==
  Home \in [Node -> Node \ Passing] /\ \A n \in Node \ Passing : Home[n] = n
ASSUME FileAssumption == DirOf \in [File -> Dir]
ASSUME KnownAssumption == Known \in [Node -> SUBSET Node]
ASSUME StoredAssumption == /\ StoredDirs \subseteq [Node -> SUBSET Dir]
                          /\ \A list \in StoredDirs, n \in Passing : list[n] = {}
ASSUME BoundAssumption == MaxSends \in Nat /\ MaxChanges \in Nat /\ MaxFaults \in Nat

VARIABLES process,    \* id each machine runs under
          drawn,      \* ids of Passing a process has run under
          dirs,       \* m_settings.sharedDirectories, persisted except for Passing
          disk,       \* readable files of each machine
          index,      \* m_localShareIndex
          wire,
          current,    \* m_currentPeerId
          remote,     \* m_remoteShares
          dialog,     \* m_shareDialog
          offered,    \* history: offered[h][n], what machine h put in catalogues for n
          sends, changes, faults

local == <<dirs, disk, index>>
panel == <<current, remote, dialog>>
spent == <<sends, changes, faults>>
ids   == <<process, drawn>>
vars  == <<ids, local, wire, panel, offered, spent>>

Machine == Node \ Passing

runs(n) == process[Home[n]] = n

\* Who is reached at the address the directory has for p.
reached(p) == process[Home[p]]

Message == [type : {"share_request"}] \cup [type : {"share_catalog"}, files : SUBSET File]
             \cup [type : {"share_download", "file"}, file : File]

NoDialog == [made |-> FALSE, visible |-> FALSE, peer |-> NoNode, entries |-> {}]

(***************************************************************************)
(* ShareManager.                                                            *)
(***************************************************************************)
\* Mutant of collectLocalShares: the directories are listed with their files.
collectLocalShares_WithDirs(n, list) == list \cup {f \in disk[Home[n]] : DirOf[f] \in list}

\* entryInfoList: the readable files directly in each directory.
collectLocalShares(n, list) == {f \in disk[Home[n]] : DirOf[f] \in list}

\* Mutant of updateSharedDirectories: the index waits for the next catalogue.
updateSharedDirectories_Late(n, list) ==
  /\ dirs' = [dirs EXCEPT ![n] = list]
  /\ UNCHANGED index

\* The index follows the list at once.
updateSharedDirectories(n, list) ==
  /\ dirs' = [dirs EXCEPT ![n] = list]
  /\ index' = [index EXCEPT ![n] = collectLocalShares(n, list)]

(***************************************************************************)
(* Sending.  write is the wire after m was written from n to p, in a state  *)
(* where it was w.                                                          *)
(***************************************************************************)
write(w, n, p, m) == [w EXCEPT ![n][p] = Append(@, m)]

\* requestPeerShareList, requestPeerSharedFile: findPeer first.
sendIfKnown(n, p, m) == wire' = IF p \in Known[n] THEN write(wire, n, reached(p), m) ELSE wire

\* sendShareCatalogToPeer: the index is made anew, and the catalogue from it.
sendShareCatalogToPeer(w, n, p) ==
  LET files == collectLocalShares(n, dirs[n])
  IN  /\ index' = [index EXCEPT ![n] = files]
      /\ wire' = write(w, n, p, [type |-> "share_catalog", files |-> files])
      /\ offered' = [offered EXCEPT ![Home[n]][p] = @ \cup files]

(***************************************************************************)
(* The process starts with the directories it had and an index of them.     *)
(***************************************************************************)
Init ==
  /\ process = [h \in Machine |-> h]
  /\ drawn = {}
  /\ dirs \in StoredDirs
  /\ disk = [h \in Machine |-> File]
  /\ index = [n \in Node |-> collectLocalShares(n, dirs[n])]
  /\ wire = [n \in Node |-> [p \in Node |-> <<>>]]
  /\ current = [n \in Node |-> NoNode]
  /\ remote = [n \in Node |-> [p \in Node |-> {}]]
  /\ dialog = [n \in Node |-> NoDialog]
  /\ offered = [n \in Node |-> [p \in Node |-> {}]]
  /\ sends = 0 /\ changes = 0 /\ faults = 0

(***************************************************************************)
(* The main window.                                                         *)
(***************************************************************************)
catalogue(n, p) == IF p = NoNode THEN {} ELSE remote[n][p]

\* Mutant of showPeer: only the peer of the dialog is set.
showPeer_KeepEntries(n, p) ==
  dialog' = [dialog EXCEPT ![n] = IF @.made THEN [@ EXCEPT !.peer = p] ELSE @]

\* The dialog follows the selection, hidden or not.
showPeer(n, p) ==
  dialog' = [dialog EXCEPT ![n] =
               IF @.made THEN [@ EXCEPT !.peer = p, !.entries = catalogue(n, p)] ELSE @]

handlePeerSelection(n, p) ==
  /\ runs(n)
  /\ p \notin {n} \cup (Passing \ drawn)
  /\ current' = [current EXCEPT ![n] = p]
  /\ showPeer(n, p)
  /\ UNCHANGED <<ids, local, wire, remote, offered, spent>>

openShareCenter(n) ==
  /\ runs(n)
  /\ dialog' = [dialog EXCEPT ![n] = [made |-> TRUE, visible |-> TRUE, peer |-> current[n],
                                      entries |-> catalogue(n, current[n])]]
  /\ UNCHANGED <<ids, local, wire, current, remote, offered, spent>>

closeShareCenter(n) ==
  /\ dialog[n].visible
  /\ dialog' = [dialog EXCEPT ![n].visible = FALSE]
  /\ UNCHANGED <<ids, local, wire, current, remote, offered, spent>>

(***************************************************************************)
(* The dialog.                                                              *)
(***************************************************************************)
addDirectory(n, d) ==
  /\ dialog[n].visible
  /\ changes < MaxChanges
  /\ d \notin dirs[n]
  /\ updateSharedDirectories(n, dirs[n] \cup {d})
  /\ changes' = changes + 1
  /\ UNCHANGED <<ids, disk, wire, panel, offered, sends, faults>>

removeDirectory(n, d) ==
  /\ dialog[n].visible
  /\ changes < MaxChanges
  /\ d \in dirs[n]
  /\ updateSharedDirectories(n, dirs[n] \ {d})
  /\ changes' = changes + 1
  /\ UNCHANGED <<ids, disk, wire, panel, offered, sends, faults>>

\* The buttons: a message is told and nothing done without a peer.
mayAsk(n) == /\ dialog[n].visible /\ dialog[n].peer # NoNode
             /\ sends < MaxSends /\ sends' = sends + 1

sendLocalShare(n) ==
  /\ mayAsk(n)
  /\ IF dialog[n].peer \in Known[n]
     THEN sendShareCatalogToPeer(wire, n, reached(dialog[n].peer))
     ELSE UNCHANGED <<index, wire, offered>>
  /\ UNCHANGED <<ids, dirs, disk, panel, changes, faults>>

requestRemoteShare(n) ==
  /\ mayAsk(n)
  /\ sendIfKnown(n, dialog[n].peer, [type |-> "share_request"])
  /\ UNCHANGED <<ids, local, panel, offered, changes, faults>>

downloadSelectedShare(n) ==
  /\ mayAsk(n)
  /\ \E f \in dialog[n].entries :
       sendIfKnown(n, dialog[n].peer, [type |-> "share_download", file |-> f])
  /\ UNCHANGED <<ids, local, panel, offered, changes, faults>>

(***************************************************************************)
(* handleRouterMessage, in n, for the next message of p.                    *)
(***************************************************************************)
arrived(n, p) == [wire EXCEPT ![p][n] = Tail(@)]

next(n, p, type) == wire[p][n] # <<>> /\ Head(wire[p][n]).type = type

\* Answered on the session the request came from, whether p is known or not.
handleShareRequest(n, p) ==
  /\ next(n, p, "share_request")
  /\ sendShareCatalogToPeer(arrived(n, p), n, p)
  /\ UNCHANGED <<ids, dirs, disk, panel, spent>>

\* Mutant of shownIn: a catalogue is shown whoever sent it.
shownIn_Any(n, p) == dialog[n].visible

shownIn(n, p) == dialog[n].visible /\ p = current[n]

handleShareCatalog(n, p) ==
  /\ next(n, p, "share_catalog")
  /\ LET files == Head(wire[p][n]).files
     IN  /\ remote' = [remote EXCEPT ![n][p] = files]
         /\ dialog' = [dialog EXCEPT ![n].entries = IF shownIn(n, p) THEN files ELSE @]
  /\ wire' = arrived(n, p)
  /\ UNCHANGED <<ids, local, current, offered, spent>>

\* Mutant of canServe: the entry is looked up in the catalogue of the peer that asks.
canServe_Remote(n, p, f) == f \in remote[n][p] /\ p \in Known[n] /\ f \in disk[Home[n]]

\* The index knows the entry, the directory the peer, and the file can be read.
canServe(n, p, f) == f \in index[n] /\ p \in Known[n] /\ f \in disk[Home[n]]

handleShareDownload(n, p) ==
  /\ next(n, p, "share_download")
  /\ LET f == Head(wire[p][n]).file
     IN  wire' = IF canServe(n, p, f)
                 THEN write(arrived(n, p), n, p, [type |-> "file", file |-> f])
                 ELSE arrived(n, p)
  /\ UNCHANGED <<ids, local, panel, offered, spent>>

\* Saved and shown: module Conversation.
handleFileMessage(n, p) ==
  /\ next(n, p, "file")
  /\ wire' = arrived(n, p)
  /\ UNCHANGED <<ids, local, panel, offered, spent>>

handleRouterMessage(n, p) ==
  \/ handleShareRequest(n, p) \/ handleShareCatalog(n, p)
  \/ handleShareDownload(n, p) \/ handleFileMessage(n, p)

(***************************************************************************)
(* The environment.                                                         *)
(***************************************************************************)
diskChanges(h, f) ==
  /\ changes < MaxChanges
  /\ changes' = changes + 1
  /\ disk' = [disk EXCEPT ![h] = IF f \in @ THEN @ \ {f} ELSE @ \cup {f}]
  /\ UNCHANGED <<ids, dirs, index, wire, panel, offered, sends, faults>>

loseSession(n, p) ==
  /\ wire[n][p] # <<>>
  /\ faults < MaxFaults
  /\ faults' = faults + 1
  /\ wire' = [wire EXCEPT ![n][p] = <<>>]
  /\ UNCHANGED <<ids, local, panel, offered, sends, changes>>

\* The process of a machine is replaced, by one that has its database and the list
\* stored in it, or by one that has an id never drawn before and no list.
restart(n) ==
  /\ faults < MaxFaults
  /\ faults' = faults + 1
  /\ n \notin drawn
  /\ drawn' = drawn \cup ({n} \cap Passing)
  /\ process' = [process EXCEPT ![Home[n]] = n]
  /\ index' = [index EXCEPT ![n] = collectLocalShares(n, dirs[n])]
  /\ LET ended(m) == Home[m] = Home[n]
     IN  /\ wire' = [m \in Node |-> [p \in Node |->
                       IF ended(m) \/ ended(p) THEN <<>> ELSE wire[m][p]]]
         /\ current' = [m \in Node |-> IF ended(m) THEN NoNode ELSE current[m]]
         /\ remote' = [m \in Node |-> IF ended(m) THEN [p \in Node |-> {}] ELSE remote[m]]
         /\ dialog' = [m \in Node |-> IF ended(m) THEN NoDialog ELSE dialog[m]]
  /\ UNCHANGED <<dirs, disk, offered, sends, changes>>

Next ==
  \/ \E n \in User :
       \/ openShareCenter(n) \/ closeShareCenter(n)
       \/ sendLocalShare(n) \/ requestRemoteShare(n) \/ downloadSelectedShare(n)
       \/ \E p \in Node : handlePeerSelection(n, p)
       \/ \E d \in Dir : addDirectory(n, d) \/ removeDirectory(n, d)
  \/ \E n, p \in Node : handleRouterMessage(n, p) \/ loseSession(n, p)
  \/ \E n \in Node : restart(n)
  \/ \E h \in Machine, f \in File : diskChanges(h, f)

Spec == Init /\ [][Next]_vars

\* Sockets deliver, and the event loop of n does not rest while a message waits for it.
\* Nobody has to click, and no file has to change.
FairSpec == Spec /\ \A n \in Node :
  WF_wire(\E p \in {q \in Node : wire[q][n] # <<>>} : handleRouterMessage(n, p))

(***************************************************************************)
(* Properties.                                                              *)
(***************************************************************************)
TypeOK ==
  /\ process \in [Machine -> Node] /\ \A h \in Machine : Home[process[h]] = h
  /\ drawn \subseteq Passing
  /\ dirs \in [Node -> SUBSET Dir]
  /\ disk \in [Machine -> SUBSET File] /\ index \in [Node -> SUBSET File]
  /\ wire \in [Node -> [Node -> Seq(Message)]]
  /\ current \in [Node -> Node \cup {NoNode}]
  /\ remote \in [Node -> [Node -> SUBSET File]]
  /\ dialog \in [Node -> [made : BOOLEAN, visible : BOOLEAN, peer : Node \cup {NoNode},
                          entries : SUBSET File]]
  /\ offered \in [Node -> [Node -> SUBSET File]]
  /\ sends \in Nat /\ changes \in Nat /\ faults \in Nat

\* handlePeerSelection, handleShareCatalog and openShareCenter: what the open dialog
\* lists is the latest catalogue of the peer chosen in the main window, although
\* catalogues come at any time, from anybody, also while it is closed.
DialogShowsChosenPeer ==
  \A n \in Node :
    dialog[n].visible => /\ dialog[n].peer = current[n]
                         /\ dialog[n].entries = catalogue(n, current[n])

\* downloadSelectedShare: a machine is only asked for what it offered to this
\* installation itself, never for an entry of another one's catalogue, also when
\* it answers under an id that is not the one asked for.
DownloadWasOffered ==
  \A n, p \in Node : \A k \in 1..Len(wire[n][p]) :
    wire[n][p][k].type = "share_download" => wire[n][p][k].file \in offered[Home[p]][n]

\* handleShareDownload answers from the index of an earlier moment: even so nothing
\* leaves the machine from a directory that is not shared when it is sent.
ServedIsShared ==
  [][\A n, p \in Node :
       LET m == wire'[n][p][Len(wire'[n][p])]
       IN  (Len(wire'[n][p]) > Len(wire[n][p]) /\ m.type = "file") => DirOf[m.file] \in dirs[n]]_vars

\* handleShareRequest answers anybody, handleShareDownload a peer it knows: once no
\* session is lost any more, whoever asks for a catalogue gets one, and whoever asks for
\* a file gets it unless the peer does not know it, unshares the file or cannot read it.
onWire(n, p, type, files) ==
  \E i \in DOMAIN wire[n][p] : /\ wire[n][p][i].type = type
                               /\ files # {} => wire[n][p][i].file \in files

AsksAreAnswered ==
  \A n \in User : \A p \in Known[n] :
    /\ (faults = MaxFaults /\ onWire(n, p, "share_request", {})) ~> onWire(p, n, "share_catalog", {})
    /\ \A f \in File :
         (faults = MaxFaults /\ n \in Known[p] /\ onWire(n, p, "share_download", {f}))
           ~> (onWire(p, n, "file", {f}) \/ f \notin index[p] \cap disk[Home[p]])
=============================================================================
