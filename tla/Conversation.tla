---------------------------- MODULE Conversation ----------------------------
(***************************************************************************)
(* The conversations of one installation: the table chat_messages           *)
(* (StorageManager), what ChatController records in it, and what MainWindow *)
(* shows: the open conversation in the chat panel and the list of recent    *)
(* chats (RecentChatListModel).                                             *)
(*                                                                          *)
(* A row's id is its place in table.  The clock counts the seconds of       *)
(* QDateTime::currentSecsSinceEpoch, so several rows can share a stamp.     *)
(* Peers are numbers in the order of their ids as text, and a file name is  *)
(* the numbers it ends with: <<>> is name.txt, <<1>> is name_1.txt.         *)
(***************************************************************************)
EXTENDS Order, SequencesExt

CONSTANTS Peer,          \* ids of other installations
          NoPeer,        \* the empty id
          HistoryLimit,  \* rows loadConversation asks for, 200 in the program
          RecentLimit,   \* peers refresh asks for, 100 in the program
          FileName,      \* names of the files that are received
          MaxMessages,   \* bound on messages sent and received
          MaxClock,      \* bound on the seconds that pass
          MaxStops       \* bound on ends of the process and files removed

ASSUME PeerAssumption == Peer \subseteq Nat /\ NoPeer \notin Peer
ASSUME LimitAssumption == HistoryLimit \in Nat \ {0} /\ RecentLimit \in Nat \ {0}
ASSUME NameAssumption == FileName \subseteq Seq(Nat)
ASSUME BoundAssumption == MaxMessages \in Nat /\ MaxClock \in Nat /\ MaxStops \in Nat

VARIABLES running, storageReady,
          table,         \* chat_messages
          knownPeers,    \* ids in known_peers
          downloads,     \* files in the download folder: the row each belongs to, or 0
          contacts,      \* ids in the PeerDirectory of the running process
          tab,           \* the list beside the chat panel
          recent,        \* m_entries of RecentChatListModel
          current,       \* m_currentPeerId
          timeline,      \* entries in the chat panel
          clock,
          sent,          \* history: what this process handed to the router
          began, opened, \* history: rows when the process started, when current was chosen
          messages, stops

view  == <<tab, recent, current, timeline>>
ghost == <<sent, began, opened>>
vars  == <<running, storageReady, table, knownPeers, downloads, contacts, view, clock,
           ghost, messages, stops>>

\* path: where a file that was received is.
Row   == [peer : Peer, kind : {"chat", "file"}, out : BOOLEAN, at : Nat, path : Seq(Nat)]
\* row 0: nothing in the table stands behind the entry.
Entry == [peer : Peer, out : BOOLEAN, at : Nat, row : Nat]

(***************************************************************************)
(* Queries.                                                                 *)
(***************************************************************************)
rowsOf(t, p) == {i \in 1..Len(t) : t[i].peer = p}

take(s, limit) == SubSeq(s, 1, IF Len(s) < limit THEN Len(s) ELSE limit)

\* Mutant of newestFirst: no DESC.
newestFirst_Ascending(t, S) ==
  {pair \in S \X S : LET i == pair[1]  j == pair[2]
                     IN  t[i].at < t[j].at \/ (t[i].at = t[j].at /\ i < j)}

\* ORDER BY created_at DESC, answered from idx_chat_messages_peer: rows of one
\* second come out in the order of the index, the older first.
newestFirst(t, S) ==
  {pair \in S \X S : LET i == pair[1]  j == pair[2]
                     IN  t[i].at > t[j].at \/ (t[i].at = t[j].at /\ i < j)}

recentMessages(t, p, limit) ==
  take(inOrder(rowsOf(t, p), newestFirst(t, rowsOf(t, p))), limit)

\* MAX(created_at).
lastTs(t, p) == Max({t[i].at : i \in rowsOf(t, p)})

\* GROUP BY peer_id ORDER BY last_ts DESC: the groups are met in the order of the ids.
latestFirst(t, S) ==
  {pair \in S \X S : LET p == pair[1]  q == pair[2]
                     IN  lastTs(t, p) > lastTs(t, q) \/ (lastTs(t, p) = lastTs(t, q) /\ p < q)}

recentPeerIds(t, limit) ==
  LET written == {p \in Peer : rowsOf(t, p) # {}}
  IN  take(inOrder(written, latestFirst(t, written)), limit)

\* RecentChatListModel::refresh.
refresh(t) == IF storageReady THEN recentPeerIds(t, RecentLimit) ELSE <<>>

(***************************************************************************)
(* Files.                                                                   *)
(***************************************************************************)
\* Mutant of saveIncomingFile: the name is tested once.
saveIncomingFile_Once(name) ==
  IF name \in DOMAIN downloads THEN Append(name, 1) ELSE name

\* The name the sender gave, or else that name with the first suffix that is free.
saveIncomingFile(name) ==
  IF name \notin DOMAIN downloads THEN name
  ELSE Append(name, Min({k \in 1..Cardinality(DOMAIN downloads) + 1 :
                           Append(name, k) \notin DOMAIN downloads}))

(***************************************************************************)
(* Recording.                                                               *)
(***************************************************************************)

\* The table after recordChatHistory.
recordChatHistory(p, kind, out, path) ==
  IF storageReady
  THEN Append(table, [peer |-> p, kind |-> kind, out |-> out, at |-> clock, path |-> path])
  ELSE table

\* The entry a message gets in the panel; t is the table when it was recorded.
entry(p, out, t) == [peer |-> p, out |-> out, at |-> clock,
                     row |-> IF Len(t) > Len(table) THEN Len(t) ELSE 0]

\* Mutant of sendToPeer: recorded before the peer is looked up.
sendToPeer_RecordFirst(p, kind) ==
  /\ sent' = IF p \in contacts THEN Append(sent, [peer |-> p, kind |-> kind]) ELSE sent
  /\ table' = recordChatHistory(p, kind, TRUE, <<>>)

\* sendMessageToPeer, and sendFileToPeer with a file that can be read: a peer the
\* directory does not know gets nothing and leaves no row.
sendToPeer(p, kind) ==
  IF p \in contacts
  THEN /\ sent' = Append(sent, [peer |-> p, kind |-> kind])
       /\ table' = recordChatHistory(p, kind, TRUE, <<>>)
  ELSE UNCHANGED <<sent, table>>

(***************************************************************************)
(* The process starts: nothing is chosen and the panel is empty.  The list  *)
(* of recent chats is made from the database.                               *)
(***************************************************************************)
Init ==
  /\ running = FALSE /\ storageReady = FALSE
  /\ table = <<>> /\ downloads = <<>>
  /\ knownPeers = {} /\ contacts = {}
  /\ tab = "recent" /\ recent = <<>> /\ current = NoPeer /\ timeline = <<>>
  /\ clock = 0
  /\ sent = <<>> /\ began = 0 /\ opened = 0
  /\ messages = 0 /\ stops = 0

start ==
  /\ ~running
  /\ running' = TRUE
  /\ \E ready \in BOOLEAN :
       /\ storageReady' = ready
       /\ contacts' = IF ready THEN knownPeers ELSE {}
       /\ recent' = IF ready THEN recentPeerIds(table, RecentLimit) ELSE <<>>
  /\ began' = Len(table)
  /\ UNCHANGED <<downloads, table, knownPeers, tab, current, timeline, clock, sent, opened,
                 messages, stops>>

stop ==
  /\ running
  /\ stops < MaxStops
  /\ stops' = stops + 1
  /\ running' = FALSE /\ storageReady' = FALSE
  /\ contacts' = {}
  /\ tab' = "recent" /\ recent' = <<>> /\ current' = NoPeer /\ timeline' = <<>>
  /\ sent' = <<>> /\ opened' = 0
  /\ UNCHANGED <<downloads, table, knownPeers, clock, began, messages>>

(***************************************************************************)
(* The user.                                                                *)
(***************************************************************************)
handleSidebarTabChanged(t) ==
  /\ running
  /\ tab' = t
  /\ recent' = IF t = "recent" THEN refresh(table) ELSE recent
  /\ UNCHANGED <<downloads, running, storageReady, table, knownPeers, contacts, current,
                 timeline, clock, ghost, messages, stops>>

\* What can be clicked; no group is ever listed.
listed == CASE tab = "recent"   -> {recent[i] : i \in 1..Len(recent)}
            [] tab = "contacts" -> contacts
            [] tab = "groups"   -> {}

loaded(p) ==
  LET ids == Reverse(recentMessages(table, p, HistoryLimit))
  IN  [k \in 1..Len(ids) |-> [peer |-> p, out |-> table[ids[k]].out,
                              at |-> table[ids[k]].at, row |-> ids[k]]]

\* Mutant of loadConversation: the rows are shown as the query gives them.
loadConversation_NoReverse(p) == IF storageReady THEN Reverse(loaded(p)) ELSE <<>>

loadConversation(p) == IF storageReady THEN loaded(p) ELSE <<>>

handlePeerSelection(p) ==
  /\ running
  /\ p \in listed
  /\ current' = p
  /\ timeline' = loadConversation(p)
  /\ opened' = Len(table)
  /\ UNCHANGED <<downloads, running, storageReady, table, knownPeers, contacts, tab, recent,
                 clock, sent, began, messages, stops>>

\* Mutant of mayWrite: no test of m_currentPeerId.
mayWrite_Always == running

mayWrite == running /\ current # NoPeer

\* The bubble appears whether or not the controller found the peer.
handleSend ==
  /\ mayWrite
  /\ messages < MaxMessages
  /\ messages' = messages + 1
  /\ sendToPeer(current, "chat")
  /\ timeline' = Append(timeline, entry(current, TRUE, table'))
  /\ recent' = refresh(table')
  /\ UNCHANGED <<downloads, running, storageReady, knownPeers, contacts, tab, current, clock,
                 began, opened, stops>>

\* handleSendFile, or handleShareDownload for a peer that asked for a shared file:
\* the panel and the list stay as they are.
sendFileToPeer(p) ==
  /\ running
  /\ messages < MaxMessages
  /\ messages' = messages + 1
  /\ sendToPeer(p, "file")
  /\ UNCHANGED <<downloads, running, storageReady, knownPeers, contacts, view, clock, began,
                 opened, stops>>

(***************************************************************************)
(* The router and the discovery.                                            *)
(***************************************************************************)

\* Mutant of appendMessage: the list is refreshed from the rows before the message.
appendMessage_Early(p, t) ==
  /\ timeline' = Append(timeline, entry(p, FALSE, t))
  /\ recent' = refresh(table)

\* A message is shown whoever wrote it, then the list is refreshed.
appendMessage(p, t) ==
  /\ timeline' = Append(timeline, entry(p, FALSE, t))
  /\ recent' = refresh(t)

chatReceived(p) ==
  /\ running
  /\ messages < MaxMessages
  /\ messages' = messages + 1
  /\ table' = recordChatHistory(p, "chat", FALSE, <<>>)
  /\ appendMessage(p, table')
  /\ UNCHANGED <<downloads, running, storageReady, knownPeers, contacts, tab, current, clock,
                 ghost, stops>>

\* A file that is not empty and could be saved: shown first, then recorded; the list
\* stays as it is.
handleFileMessage(p, name) ==
  /\ running
  /\ messages < MaxMessages
  /\ messages' = messages + 1
  /\ LET path == saveIncomingFile(name)
     IN  /\ table' = recordChatHistory(p, "file", FALSE, path)
         /\ downloads' = [q \in DOMAIN downloads \cup {path} |->
                            IF q # path THEN downloads[q]
                            ELSE IF storageReady THEN Len(table') ELSE 0]
  /\ timeline' = Append(timeline, entry(p, FALSE, table'))
  /\ UNCHANGED <<running, storageReady, knownPeers, contacts, tab, recent, current, clock,
                 ghost, stops>>

\* Somebody tidies the folder.
removeDownload(path) ==
  /\ stops < MaxStops
  /\ stops' = stops + 1
  /\ downloads' = [q \in DOMAIN downloads \ {path} |-> downloads[q]]
  /\ UNCHANGED <<running, storageReady, table, knownPeers, contacts, view, clock, ghost,
                 messages>>

peerDiscovered(p) ==
  /\ running
  /\ contacts' = contacts \cup {p}
  /\ knownPeers' = IF storageReady THEN knownPeers \cup {p} ELSE knownPeers
  /\ UNCHANGED <<downloads, running, storageReady, table, view, clock, ghost, messages, stops>>

tick ==
  /\ clock < MaxClock
  /\ clock' = clock + 1
  /\ UNCHANGED <<downloads, running, storageReady, table, knownPeers, contacts, view, ghost,
                 messages, stops>>

Next ==
  \/ start \/ stop \/ handleSend \/ tick
  \/ \E t \in {"recent", "contacts", "groups"} : handleSidebarTabChanged(t)
  \/ \E p \in Peer : \/ handlePeerSelection(p) \/ sendFileToPeer(p) \/ chatReceived(p)
                     \/ peerDiscovered(p)
                     \/ \E name \in FileName : handleFileMessage(p, name)
  \/ \E path \in DOMAIN downloads : removeDownload(path)

Spec == Init /\ [][Next]_vars

(***************************************************************************)
(* Properties.                                                              *)
(***************************************************************************)
TypeOK ==
  /\ running \in BOOLEAN /\ storageReady \in BOOLEAN
  /\ table \in Seq(Row)
  /\ \A path \in DOMAIN downloads : path \in Seq(Nat) /\ downloads[path] \in Nat
  /\ knownPeers \subseteq Peer /\ contacts \subseteq Peer
  /\ tab \in {"recent", "contacts", "groups"}
  /\ recent \in Seq(Peer)
  /\ current \in Peer \cup {NoPeer}
  /\ timeline \in Seq(Entry)
  /\ clock \in Nat
  /\ sent \in Seq([peer : Peer, kind : {"chat", "file"}])
  /\ began \in Nat /\ opened \in Nat /\ messages \in Nat /\ stops \in Nat

\* loadConversation and the appends after it: the open conversation shows each of its
\* rows at most once; of those from before it was opened as many as there are, or as the
\* limit allows, and none of a second later than one it shows is left out (within one
\* second the limit keeps the rows written first); of those that came since all but the
\* files sent, which get no bubble.
ConversationIsWhole ==
  (storageReady /\ current # NoPeer) =>
    LET mine  == {k \in 1..Len(timeline) : timeline[k].peer = current /\ timeline[k].row # 0}
        shown == {timeline[k].row : k \in mine}
        old   == {i \in rowsOf(table, current) : i <= opened}
        new   == {i \in rowsOf(table, current) :
                    i > opened /\ ~(table[i].out /\ table[i].kind = "file")}
    IN  /\ \A j, k \in mine : timeline[j].row = timeline[k].row => j = k
        /\ new \subseteq shown /\ shown \subseteq old \cup new
        /\ Cardinality(old \cap shown) = IF Cardinality(old) < HistoryLimit
                                         THEN Cardinality(old) ELSE HistoryLimit
        /\ \A i \in old \ shown, j \in old \cap shown : table[i].at <= table[j].at

\* loadConversation and the appends after it: what is shown never goes back to an
\* earlier second, whichever part was loaded and whichever came while it was open.
ShownInOrder ==
  \A j, k \in 1..Len(timeline) : j < k => timeline[j].at <= timeline[k].at

\* sendMessageToPeer and sendFileToPeer: what the history claims was sent by this
\* process is what was handed to the router, in the same order.
HistoryMatchesSent ==
  storageReady =>
    LET rows == select(table, {i \in began + 1..Len(table) : table[i].out})
    IN  sent = [k \in 1..Len(rows) |-> [peer |-> rows[k].peer, kind |-> rows[k].kind]]

\* refresh is called on every chat message, after it was recorded: unless the newest
\* row is a file the list of recent chats is what the database says.
RecentIsFreshAfterChat ==
  (running /\ Len(table) > 0 /\ table[Len(table)].kind = "chat") => recent = refresh(table)

\* RecentChatListModel.h: one row for every contact there were messages with, and
\* refresh makes the list follow at once what is sent and received.
RecentIsFresh ==
  running => recent = refresh(table)

\* saveIncomingFile: the path in the row of a received file leads to that very file,
\* however many files of that name arrive and whatever is tidied away, until somebody
\* removes it; a file that comes later never takes its place.
FileRowsKeepTheirFile ==
  [][\A i \in DOMAIN table' :
       LET q == table'[i].path
           isFile == table'[i].kind = "file" /\ ~table'[i].out
           held   == i > Len(table) \/ (q \in DOMAIN downloads /\ downloads[q] = i)
       IN  (isFile /\ held /\ q \in DOMAIN downloads') => downloads'[q] = i]_vars
=============================================================================
