# A TLA+ verification project for nwt

nwt is a chat program for local networks, written in C++ with Qt. Installations
find each other by UDP broadcasts, exchange chat messages, files and lists of
shared files over TCP, and keep their history, contacts and settings in a SQLite
database. There is no server. This directory holds TLA+ specifications of the
parts of the program that carry state, TLC configurations that check them on small
instances, and TLAPS proofs of the properties that matter most.

Paths such as `core/MessageRouter.cpp` are relative to `src/src/`. `PROJECT.json`
lists, for every definition of a module, the lines of the source it stands for, and
for every property a mutation of the model that breaks it.

## 1. The system

Everything runs in the main thread of one process, under one Qt event loop. There
are no threads of the program's own; what interleaves are the events of the loop
(sockets, timers, the user), the other installations, the network, and other
processes that work on the same database.

| Component | State | Operations | Interacts with |
|---|---|---|---|
| `MessageRouter` (`core/MessageRouter.cpp`) | `m_peerSessions` (id to socket), `m_socketToPeer`, `m_pendingBuffers`, the TCP server | `startListening`, `sendChatMessage`, `sendFilePayload`, `sendSharePayload`, `ensureSession`, `handleNewConnection`, `readSocket`, `cleanupSocket`, `stop` | called by the controller; `messageReceived` calls back into it within `readSocket` |
| `DiscoveryService` (`core/DiscoveryService.cpp`) | UDP socket, two lists of segments, heartbeat timer | `start`, `announceOnline`, `sendHeartbeat`, `setSubnets`, `setBlockedSubnets`, `probeSubnet`, `processPacket`, `stop` | `peerDiscovered` goes to the directory and to the controller |
| `PeerDirectory` (`core/PeerDirectory.cpp`) | `m_peers`, a list keyed by id and address | `upsertPeer`, `indexOf`; `ChatController::findPeer` takes the first entry of an id | discovery, `loadKnownPeers` |
| `ChatController` (`core/ChatController.cpp`) | identity, settings, segments, ready flag of the database | `initialize`, `send...ToPeer`, `handleRouterMessage`, the share handlers, `setSubnets`, `setBlockedSubnets`, the `update...` functions, `persistSettings`, `loadSettings` | everything |
| `StorageManager` (`core/StorageManager.cpp`) | `app_identity`, tables of settings, `network_subnets`, `shared_directories`, `known_peers`, `chat_messages` | `loadState`, `saveState`, `storeMessage`, `recentMessages`, `recentPeerIds`, `upsertKnownPeer`, `knownPeers` | the controller, `RecentChatListModel` |
| `ShareManager` (`core/ShareManager.cpp`) | index of the files that may be downloaded | `collectLocalShares`, `localEntry`, `saveIncomingFile` | the controller |
| `MainWindow`, `ChatPanel`, `RecentChatListModel`, `PeerListModel` | chosen peer, tab, bubbles on screen, recent chats, catalogues received | selection, sending, receiving, loading a conversation, `refresh` | the controller, the share dialog |
| `ShareCenterDialog`, `SettingsDialog`, `ProfileDialog` | peer and entries shown; copies of the lists of segments; a draft | add, remove, ask, download; the handlers of each preference; save | the controller |
| `LanguageManager` | texts of the chosen language | `switchLanguage`, lookups | called once from `main` |

Style sheets, the emotion picker, avatars, `ContactsSidebar`, `RoleSelectionDialog`
(nothing opens it) and the build have no state that outlives a call.

### What is hard

* **Sessions.** The same two installations may dial each other at once, a dial may
  fail without any signal the router listens to, the address of a contact may belong
  to somebody else, and the tables are keyed by raw pointers of sockets that are
  deleted. Bytes arrive in any pieces, and `readSocket` calls the controller, which
  may write and dial, in the middle of its loop.
* **Discovery.** Datagrams are lost, delayed, doubled and reordered; machines change
  address while others hold the old one in two places, a list and a table, with
  opposite rules (the list keeps the first address, the table the newest).
* **History.** What was sent, what the table holds, what the open conversation shows
  and what the list of recent chats shows are four copies, changed by different
  handlers; stamps are seconds.
* **Shares.** A request, a catalogue and a download are three messages, between which
  lists, disks, the choice of a peer and the process itself change.
* **Identity.** The id is announced before it is stored, the database may not open, in
  which case the run has a fresh id and none of the rows, and nothing prevents a second
  process on the same database, which may store between two reads of the first.

### What makes each part correct

* Router: one own dial per peer; no key survives its socket; no complete line is left
  in a buffer; what is emitted is what was written, in order; a session does not move
  while it lives; a written line arrives unless the connection is lost.
* Discovery: no process lists the id it runs under; list and table agree; blocked
  segments yield no contacts; an announced neighbour is found in spite of losses.
* History: an open conversation shows each row that came since it was opened once, and
  of the older ones as many as the limit allows, the newest seconds, in order; the
  history claims no message that was not handed to the router.
* Shares: the dialog shows the chosen peer; one asks a peer only for what it offered;
  only what is shared at that moment leaves the machine.
* Chats: what a history says was received is in the history of the one it names, if that
  one keeps a history, and was received once.
* Files: the path in the row of a received file leads to that file.
* Segments: the dialog shows the lists that are in force, and a change of one segment
  costs no other.
* Settings: every change is stored; a restart shows, part by part, what was stored when
  it began to read or while it read; the number of identities the network sees of one
  installation is accounted for.

The hazards behind these, each at its line, with the properties that watch it or
the reason why none does, are listed in `PROJECT.json`.

## 2. The modules

| Module | Models | Main variables and the code's state |
|---|---|---|
| `Delivery` | what the router promises: an abstract service of connections that carry messages in order while their ends last | `end` is new, open or lost; `written` and `emitted` are the messages |
| `MessageRouter` | routers of several installations and the TCP connections between them; implements `Delivery` | `peerSessions`, `socketToPeer`, `pendingBuffers` are the three tables; `sock[n][c]` is the state of n's socket for connection c; `out` the bytes on the way; `busy[n]` the socket whose `readSocket` runs |
| `LanChat` | routers, contacts and histories of several installations in one system: extends `MessageRouter` by addresses that decide whom a dial reaches | `addr[n]` where the machine is, `contact` what `findPeer` answers, `knownPeers` and `table` the rows of the two tables, `drawn` the ids that starts without a database have used |
| `Subnets` | arithmetic of network segments: masks, broadcast addresses, black list, sanitising of lists | operators only, for addresses of `W` bits |
| `Discovery` | discovery service, peer directory, `known_peers`, segments, over lossy UDP | `localId[n]` the id the process of n runs under; `directory[n][i]` the addresses of the entries of id i in order; `knownPeers` the table; `wire` the datagrams that can still arrive |
| `Conversation` | history, conversation on screen, recent chats and received files of one installation | `table` is `chat_messages`, `timeline` the bubbles, `recent` the entries of `RecentChatListModel`, `downloads` the folder |
| `ShareCenter` | share index, the four share handlers, catalogues, dialog | `process[h]` the id machine h runs under; `index` is `m_localShareIndex`, `remote` is `m_remoteShares`, `dialog` the `ShareCenterDialog` |
| `SegmentDialog` | the two lists of segments of the settings dialog, the controller's lists and `network_subnets` | `cachedSubnets`, `cachedBlocked` and the items of the two widgets are the dialog's, `subnets` and `blockedSubnets` the controller's, `storedSubnets` and `storedBlocked` the rows |
| `Settings` | identity, profile and preferences of the processes of one installation | `memory` is the controller's copy, `db` the tables, `wireName` the name handed to the router and the discovery |
| `MC...` | instances for TLC | constants only |
| `Order` | what `ORDER BY` makes of the rows a query finds, and what a loop that skips some elements makes of a list; used by `Conversation` and `SegmentDialog` | operators only; an order is a set of pairs, because the provers cannot expand `SortSeq` and `SelectSeq` |
| `..._proofs` | theorems and lemmas about the module of that name | invariants |

`MessageRouter` shows `Delivery` with the refinement mapping `Promise`: `written` and
`emitted` are the histories `sent` and `got`, `link` is who dialled whom, and an end is
new, open or lost as `endOf` reads it from the state of the socket. The buffers, the
units on the way, the sessions and the loop of `readSocket` have no counterpart there: a
step that changes only them is a stutter. `LanChat` is composed by extension: each of its
actions is an action of `MessageRouter` with the effect on contacts and rows added, or
changes nothing of the router, so it inherits what is proved of `MessageRouter`
(`LanIsRouter`). `Discovery`, `ShareCenter`, `SegmentDialog` and `Settings` are composed
with the rest only through constants, as the next section says.

Actions bear the names of the functions they model and contain everything these do.
Three conventions are used throughout:

* A handler of the event loop is one action, because nothing interrupts it, with one
  exception: `readSocket` is a step that takes bytes from the wire and then one step
  `readLine` for each line, and while `busy[n]` is set no other handler of node n is
  enabled; its process may end, and the network may settle a dial. (A Qt socket learns
  of the latter only between handlers; the model lets it happen between two lines as
  well, which allows more than the code does.) The split shows the other nodes, which
  do run meanwhile, every state between two lines.
* Variables called history in the modules (`sent`, `got`, `heard`, `offered`,
  `saved`, `saver`, `sources`, `began`, `opened`) are read by no action; they record what the
  properties speak of.
* An operator whose comment says "mutant of f" is what f would be with a plausible
  mistake. Nothing uses it; it exists so that one can check that a property would
  notice the mistake.

### Starts without a database

`initialize` goes on when the database cannot be opened. Such a process draws a fresh id
(`loadSettings`), reads no `known_peers` and no `shared_directories`, and writes no row.
The modules differ in how they name it:

* `Discovery`: a node is an installation, which is also the id its database holds;
  `localId[n]` is the id of the running process, and `Passing` the ids that can be drawn.
  `drawn` keeps each from being drawn twice. The machine keeps its address and the port,
  so it hears the late broadcasts of its run before.
* `LanChat`, `ShareCenter`: a node is an id, and those of `Passing` are drawn ones. A
  machine has several ids, one of them running at a time: in `LanChat` the ids of one
  address (`machine`), in `ShareCenter` those with one `Home`. A dial goes to an address
  or a machine, so it reaches whatever process runs there (`holders`, `reached`), also
  under another id than the one it was meant for.
* `Conversation`, `SegmentDialog`, `Settings`: `storageReady` or `ready` of the process.

### What was abstracted

* A line on TCP is two units, its beginning and its end with the newline, so that it
  can arrive in two reads, together with other lines or apart. The content of a chat
  line or a file is a number.
* `MessageRouter` has chat lines, requests and catalogues. File lines and
  share_download lines are handled by the router like chat lines; the answer to a
  download, which goes through `findPeer`, is in `ShareCenter`.
* In `MessageRouter` the address dialled for a peer leads to one of `Goals[p]`: the peer,
  another installation that took over the address, or nobody. `LanChat` leaves `Goals`
  free and computes the goal from the addresses. An answer that needs a dial goes to
  `endpoint`: the address and port the request came from. On a connection this node
  dialled that is where the other end listens; on any other it is the port the other end
  dialled from, where nobody does.
* In `LanChat` packets of the discovery arrive at once and undamaged (`Discovery` has
  their losses), rows are those of chats, an installation does not write to an address
  that has become its own, and a machine moves only when its connections are over. A dial
  that was under way when the process at its address was replaced under another id fails.
* hello, probe and heartbeat packets are handled alike, and are one datagram.
* Addresses have `W` bits instead of 32. Addresses of the other family are one value,
  invalid ones another.
* In `ShareCenter` the session between two installations is a first-in, first-out
  queue that may be lost; that it is one is what `MessageRouter` shows for a
  connection. A session ends with the process at either end. That crossing dials give two connections, and so no order between
  the messages of different ones, is not visible there. Which installations know
  each other is the constant `Known`.
* Three fields stand for the preferences: one that is picked and never empty, one
  that is typed and has a default where nothing is stored, one that is typed and has
  none. All others are read, changed and written in one of these ways.
* Texts are model values. Layout, colours, status texts, avatars and translated
  strings are left out.
* Names of received files are the suffixes they end with: `<<>>` is name.txt and `<<1>>`
  name_1.txt, which may also be the name another sender gave.
* A statement of SQLite is atomic, and so is a transaction. `saveState` is one;
  `loadState` is not, and in `Settings` it is a step for each SELECT, between which other
  processes act. A database that cannot be opened is modelled; a single statement that
  fails in an open one is not.
* The clock does not run backwards.

### Order of rows

Two facts about SQLite that the code relies on without saying so were checked
against the library and are part of the models. `recentMessages` is answered from
the index on `(peer_id, created_at)` and gives rows of one second in the order they
were written, although the order of seconds is descending. `app_identity` is read
with `LIMIT 1` and no order, which returns the row written longest ago, while
`REPLACE` deletes a row and appends the new one: as soon as the table has two rows,
every start reads the one that the last start did not write.

## 3. The runs

All runs are exhaustive. Deadlock is not checked, because each model stops when its
budgets are spent and nobody is obliged to act: users need not type, machines need
not start.

| Run | Checks | Instance |
|---|---|---|
| `router` | `TypeOK`, `OwnDialIsSession`, `NoKeyForGoneSocket`, `NoLineLeftBehind`, `EmittedIsPrefixOfWritten`, `SessionIsSticky`, `ImplementsDelivery` | 2 installations, 3 connections, 2 messages each, 1 fault |
| `lan` | `LanTypeOK`, `GoneSessionWasMisdialled`, `ReceivedWasWritten`, `ReceivedOnce`, `OvertakenAfterLoss`, `AnswerIsDialledAfterBadDial` | 2 machines, 3 ids, 3 addresses, 3 connections, 2 messages of n1 and 1 of each other id, 1 fault, 1 packet or move |
| `router_live` | `WrittenIsEmitted` | 2 installations, 3 connections, 1 message each, 1 fault, with fairness |
| `discovery` | `TypeOK`, `NotOwnContact`, `TablesAgree`, `ContactKeepsFirstAddress`, `RestartFindsNewestAddress`, `BlockedIsNotAdded`, `HeartbeatIsHeard` | 2 machines, 1 drawn id, 3 addresses in 2 segments, 1 move, 1 stop, 1 change of lists, with fairness |
| `discovery_current` | `CurrentSegmentIsAnnounced` (violated) | no move, no stop, 1 change |
| `discovery_blocked` | `BlockedIsNotBroadcast` (violated) | no move, no stop, 1 change |
| `conversation` | `TypeOK`, `ConversationIsWhole`, `ShownInOrder`, `HistoryMatchesSent`, `RecentIsFreshAfterChat`, `FileRowsKeepTheirFile` | 2 peers, 2 file names, 3 messages, 2 seconds, 1 stop or removed file, history of 2 rows, list of 1 peer |
| `recent_stale` | `RecentIsFresh` (violated) | the same |
| `share` | `TypeOK`, `DialogShowsChosenPeer`, `DownloadWasOffered`, `ServedIsShared`, `AsksAreAnswered` | 3 machines, one of them with a drawn id as well, 2 users, 2 directories, 2 messages, 1 change, 1 fault, with fairness |
| `segments` | `TypeOK`, `DialogShowsLists`, `OnlyTheChosenIsLost` | 4 bits, 4 sets of interfaces, 6 inputs, 1 move, 1 stop, 4 changes |
| `settings` | `TypeOK`, `IdentitiesAreAccountedFor`, `SecondRowNeedsOverlap`, `ChangesAreStored`, `RestartShowsStoredState` | 2 processes, 3 starts, 2 edits, 1 failure of the database, 1 death |
| `settings_name` | `SentUnderProfile` (violated) | 1 process, 2 starts, 1 edit |

### Why the bounds are enough

* **Router.** Three connections let two installations dial each other at once and one
  of them dial again after a failure, or answer on a new dial. Two messages of each
  side make two lines on one connection, which can arrive split, joined, or with the
  second cut. One fault is a lost connection, a failed dial or an exit, each at every
  moment. Connections are interchangeable; the nodes are not permuted.
* **LAN.** n1 and n2 know each other. The machine of n2 may start without its database
  and is n3 then, at the same address, so a dial for n2 reaches n3; n3 learns of n1 by
  the one packet, or answers on the connection n1 made. Two messages of n1 can go on one
  connection, on two after a loss, or to two ids and one reader. The third connection is
  needed for a dialled answer after a bad dial: the bad dial, the one the peer made, and
  the answer. One fault is a lost connection, a failed dial or an exit; the packet may
  be replaced by a move to the free address, so that nobody answers a dial.
* **Discovery.** Four bits give four segments of four addresses. The addresses are two
  in one segment and one in another, so a machine can move within its segment and out
  of it. The inputs of the lists are a segment given twice, by a host and by its
  network; a range of the other family; the empty list; a blocked segment that is a
  whole interface segment; and one that is a part of it, beside an invalid prefix. One
  drawn id and one stop give a run without the database before or after one with it, on
  either machine, which is what `NotOwnContact` and `TablesAgree` need; a contact with two
  addresses and a restart, which `RestartFindsNewestAddress` needs, takes all three: new
  lists, a move and an end. The machines begin in one segment or in two.
* **Conversation.** A history of two rows is full, and cuts, with three messages; a
  list of one peer is full with two. Two seconds make rows of one second and of
  different ones. The second file name is the one the first gets when it is taken, so
  three files can collide with a name that was given and with one that was made up.
* **Share.** n1 shares nothing, n2 one directory, n3 both, so an entry can be one
  that only the wrong peer offers; x2 is the machine of n2 without its database. The
  fault is a lost session or a restart, of any machine and under either id. n1 has heard all others, n2
  and x2 only n1, n3 only n2: a
  request of n1 is answered by both, because it is answered on its session, but a
  download by n2 alone, because `findPeer` of n3 does not know n1. Two messages are a
  request and the download of what it brought.
* **Segments.** Two segments of four addresses are typed by a host, by a network, with a
  prefix out of range and without one; a range of the other family and no address at
  all complete the inputs. A machine has one interface, two in one segment, two in two
  segments, or none. Four changes add two segments and remove two, or mix both lists.
* **Settings.** Two processes and three starts let two first starts overlap and a third
  read what they left; two edits can clear a name and change something else, or be stored between two
  reads of a process that starts.

### Fairness

* `router_live`: a dial succeeds or fails in the end; a Qt event loop serves a server
  with a waiting connection and a socket with unread bytes, and the loop of
  `readSocket` goes on. These are weak fairness conditions on `connectSucceeds` or
  `connectFails`, `handleNewConnection`, `readSocket` and `readLine`. Nothing is
  assumed of users, of faults, of starts, or of the moment a lost connection is noticed.
* `discovery`: the heartbeat timer of a running service fires again and again
  (weak fairness), and a datagram that a machine sends again and again from the
  address it has does arrive in the end (strong fairness: each single copy may be
  lost). Nothing is assumed of users, moves or delayed datagrams. The safety properties
  of the run do not depend on it.
* `share`: a line that has arrived is read in the end, because the event loop of a
  running process serves its sockets: weak fairness, per process, on handling one of the
  messages that wait for it. Nothing is assumed of the order among peers or of users, and
  the property speaks of what happens after the last fault.

### What the four violated properties show

* `CurrentSegmentIsAnnounced`: the settings dialog refuses to remove the current
  segment because it "keeps the online state". The interfaces, however, are consulted
  only while the list of segments is empty. Once another segment is added, nothing is
  sent to the own one any more. The hint that changes need a restart to take full effect
  does not settle it: the list that is read back has the same effect, here and below.
* `BlockedIsNotBroadcast`: the dialog says that nothing is broadcast to a blocked
  segment. A range is compared by its network address alone, and when every interface
  is blocked the broadcast goes to 255.255.255.255.
* `RecentIsFresh`: `RecentChatListModel.h` says that the list follows at once what is
  sent and received. Files, which are recorded like texts, do not refresh it.
* `SentUnderProfile`: the change log says that messages are sent under the profile.
  A file is still sent under the name of a role, which nobody can choose any more.

### What some of the others say

* `ImplementsDelivery`: every step of the routers is a step of the service, or none: no
  message is invented, doubled, or emitted by an end that is lost, and the answer to a
  request is written in the step that emits the request.
* `AnswerIsDialledAfterBadDial`: a dial that failed, or that reached somebody else,
  leaves its socket in `m_peerSessions`. A request the peer then makes on a connection of
  its own is answered on a new dial, to the port the peer dialled from, where nobody
  listens. (If the request came on a connection this node dialled for another id, the
  answer is dialled to where the peer does listen, and arrives.) The property
  says that this is the only case in which an answer leaves the connection of its request.
* `GoneSessionWasMisdialled`: `cleanupSocket` clears the session of the id that
  `m_socketToPeer` names last. If the dialled machine turned out to be another, the
  id it was dialled for keeps a pointer to a deleted socket. The property says that
  nothing else leaves one.
* `ReceivedWasWritten`: a line names its writer but not whom it is for. Whoever reads it
  records it under the writer's id, and the writer, if its process has a database, has a
  row for it, though perhaps for another peer: then the writer had dialled the reader's
  address for that peer. What a process without a database writes is in the reader's
  history only.
* `NotOwnContact`: `processPacket` drops packets with the process's own id, which is not
  the id of the run before if one of the two had no database. Late broadcasts of that run
  make the installation a contact of its own under its other id. Under the id it runs
  under it is not one, and that needs the history of several runs: a run without the
  database may list the stored id, but leaves no row of it, and what it announced under a
  drawn id is never an own id again. The mutant writes that row.
* `ConversationIsWhole`: what the panel shows of the open conversation, said by counting
  rows and comparing seconds, without the query that filled it. `recentMessages` takes
  the newest seconds but, within the second where the limit cuts, the rows written first,
  and `loadConversation` reverses these; the property permits it, because nothing in the
  repository promises an order within a second.
* `RestartShowsStoredState`: `loadState` is a series of SELECTs, and another process may
  store between two of them. The process that starts may then show an old name with a new
  signature. The property says that each part is from what was stored last when it began
  to read, or was stored since, with the defaults that belong to it.
* `ReceivedOnce` and `OvertakenAfterLoss`: the router never writes a message again, so
  none is received twice, and a chat overtakes an earlier one to the same peer only if
  the writer lost a socket or a dial of its own.
* `AsksAreAnswered`: once nothing fails any more, a request brings a catalogue and a
  download its file, with three exceptions, which the property names: the owner does not
  know the asker, the file is no longer in the index, or it is not on the disk.
* `FileRowsKeepTheirFile`: a file that arrives never takes the place of one an earlier
  row points to, whatever names are given and whatever is removed in between.
* `OnlyTheChosenIsLost`: the dialog hands its whole copy over at each change. The property
  says that this costs no segment but the one chosen, whatever the interfaces did since
  the copy was taken.
* `ContactKeepsFirstAddress` and `RestartFindsNewestAddress` pin down the opposite
  rules of directory and table: a contact that moved is written to at its old address
  until the program is restarted. Newest is the address of the packet processed last;
  a delayed one brings an old address back.
* `DownloadWasOffered` speaks of machines: a download asked of an id reaches the process
  that runs there, and what it names was offered by that machine, if under another id.
* `IdentitiesAreAccountedFor`: an installation is known under one id, plus at most one
  for each start without a database, each death before the first store, and each
  start that overlaps another one's.

## 4. The proofs

TLAPS proves the following for all values of the constants that satisfy the
assumptions of the modules: any number of installations, connections, processes,
addresses and bits, and any bounds.

| Theorem | Property |
|---|---|
| `MessageRouter_proofs!TypeCorrect` | `TypeOK` |
| `MessageRouter_proofs!OneDialPerPeer` | `OwnDialIsSession` |
| `MessageRouter_proofs!NoDanglingKey` | `NoKeyForGoneSocket` |
| `MessageRouter_proofs!StickySessions` | `SessionIsSticky` |
| `MessageRouter_proofs!EveryLineIsRead` | `NoLineLeftBehind` |
| `MessageRouter_proofs!InOrderDelivery` | `EmittedIsPrefixOfWritten` |
| `MessageRouter_proofs!RouterDelivers` | `ImplementsDelivery`: the refinement |
| `LanChat_proofs!DeadSessionsWereMisdialled` | `GoneSessionWasMisdialled` |
| `LanChat_proofs!AnswersStayOnTheirConnection` | `AnswerIsDialledAfterBadDial` |
| `LanChat_proofs!LanIsRouter` | `Spec` of `MessageRouter` |
| `LanChat_proofs!LanTypeCorrect` | `LanTypeOK` |
| `LanChat_proofs!LanDeadSessionsWereMisdialled` | `GoneSessionWasMisdialled` |
| `LanChat_proofs!LanAnswersStayOnTheirConnection` | `AnswerIsDialledAfterBadDial` |
| `LanChat_proofs!ChatsAreAuthentic` | `ReceivedWasWritten` |
| `LanChat_proofs!ChatsArriveOnce` | `ReceivedOnce` |
| `LanChat_proofs!ChatsKeepTheirOrder` | `OvertakenAfterLoss` |
| `Discovery_proofs!DiscoveryTypeCorrect` | `TypeOK` |
| `Discovery_proofs!NeverOwnContact` | `NotOwnContact` |
| `Discovery_proofs!ContactTablesAgree` | `TablesAgree` |
| `Discovery_proofs!FirstAddressIsKept` | `ContactKeepsFirstAddress` |
| `Discovery_proofs!RestartTakesNewest` | `RestartFindsNewestAddress` |
| `Discovery_proofs!BlockedStaysOut` | `BlockedIsNotAdded` |
| `Discovery_proofs!BlockedIsMembership` | on every list in use, `isBlockedAddress` is membership in `AddressesOf` one of its segments |
| `Discovery_proofs!BroadcastIsLast` | `broadcastFor` is the last of `AddressesOf` the segment |
| `Conversation_proofs!ConversationTypeCorrect` | `TypeOK` |
| `Conversation_proofs!FilesAreKept` | `FileRowsKeepTheirFile` |
| `Conversation_proofs!PanelIsInOrder` | `ShownInOrder` |
| `Conversation_proofs!RecentIsFreshAfterChats` | `RecentIsFreshAfterChat` |
| `Conversation_proofs!HistoryIsWhatWasSent` | `HistoryMatchesSent` |
| `Conversation_proofs!OpenConversationIsWhole` | `ConversationIsWhole` |
| `SegmentDialog_proofs!SegmentsTypeCorrect` | `TypeOK` |
| `SegmentDialog_proofs!DialogShowsTheLists` | `DialogShowsLists` |
| `SegmentDialog_proofs!OnlyTheChosenSegmentIsLost` | `OnlyTheChosenIsLost` |
| `ShareCenter_proofs!TypeCorrect` | `TypeOK` |
| `ShareCenter_proofs!DialogIsCurrent` | `DialogShowsChosenPeer` |
| `ShareCenter_proofs!DownloadsWereOffered` | `DownloadWasOffered` |
| `ShareCenter_proofs!OnlySharedFilesLeave` | `ServedIsShared` |
| `Settings_proofs!SettingsTypeCorrect` | `TypeOK` |
| `Settings_proofs!EveryChangeIsStored` | `ChangesAreStored` |
| `Settings_proofs!RestartIsFaithful` | `RestartShowsStoredState` |
| `Settings_proofs!IdentitiesAreCounted` | `IdentitiesAreAccountedFor` |
| `Settings_proofs!RowsNeedOverlap` | `SecondRowNeedsOverlap` |

**Router.** Type correctness is not inductive alone. The id in a line that is read must
be the id of an installation. `Wiring` states which states the two sockets of a connection can
have and that a connected one has an installation at each end, and `BusyOnConnected`
that a loop runs only on a connected socket. `TablesInv` states, per node, that a live dial
of its own is the session of the peer it was opened for, and that a socket without a
connection has no key and no bytes; it is preserved by `sendTo` (dial or reuse),
`register`, `cleanupSocket` and the end of the process, one lemma each. `NoLineLeftBehind`
is inductive with the types. `SessionIsSticky` is proved step by step from the same invariant.

**Delivery.** What an end emitted is a beginning of what the other end wrote, and as long
as it reads, its buffer and the units on the way are the rest of that, two units for a
line (`DeliveryInv`). From it follow the order of what is emitted, and that the line `readLine` takes is the one the service hands out next; every other
step of the routers maps to `Send`, `Open`, `Lose` or a stutter.

**Sessions.** `OriginInv` says that every line names its writer, and where the session of
a peer can come from: its socket was dialled for that peer, or the peer is at its other
end; and unless it was dialled and ended at somebody else, the socket is the peer's in
`m_socketToPeer` too, so that both go together. Only such a dial leaves a dead session.

**LAN.** `LanIsRouter` makes every theorem of the router a theorem of the composition.
Beyond that the invariant is `ChatInv`: a chat written on a connection has a row with its
number at the writer, unless its id is a drawn one (`HasRow`), and is on no other
connection (`SentInv`); a drawn id has no rows at all (`NoRows`), so a step that writes or
reads keeps its lemmas with the table unchanged; a row of a received chat
has a message that was emitted behind it (`RowsInv`); nothing was emitted on a connection
that does not have two ends (`EndsInv`). With `EmittedIsPrefixOfWritten` a row leads from
reader to connection to writer.
`ReceivedOnce` is a conjunct of `ChatInv` itself.

The order of chats needs `OrderInv` on top of it: numbers ascend along every connection
(`SentAscend`) and along the rows a writer has of his own (`OwnAscend`); rows a reader
wrote for lines of one connection are in the order of the lines (`ReadAscend`); and an
installation that has neither lost a socket nor given one up has all its chats to a peer
on the connection that is still the peer's session (`SessionsCarryAll`). So for two chats
that were received in the wrong order either the writer has lost a socket, or both were
on one connection and that connection would contradict the order of its own numbers.
A step keeps `SessionsCarryAll` because a live session is never replaced
(`SessionIsSticky`) and a dead socket never comes back (`SocketGoesOn`).

**Discovery.** The type of `wire` rests on the ranges of the address arithmetic
(`MaskedNat`, `BroadcastForNat`), and these on one assumption about exponents,
`PowerAssumption` in `Subnets`: powers of 2 are positive numbers and each is twice the
one before. The provers do not know this; TLC evaluates it in every run. `ContactsInv`
joins the two tables: the row of a contact is an entry of the running list, entries are
not doubled, a process that does not run has no list, a process with the database runs
under the stored id, and `heard` is the row. `NotOwnContact` is part of it: a row of the
stored id could only be written by a run with the database, which runs under that id and
drops its own packets; and the list of a run that starts holds rows or nothing.
`ContactSteps` divides the next-state relation by what one machine does to its contacts:
it idles, starts, ends, or hears a datagram. `AgreeStep`, `OwnStep` and `HistoryStep` go
through these four. Two of the action properties, `ContactKeepsFirstAddress` and
`RestartFindsNewestAddress`, follow.

`BlockedIsNotAdded` compares the code's masks with a definition that knows nothing of
masks: `AddressesOf` compares bit by bit. Addresses that agree on the first k + 1 bits
have, by the equation that halves a quotient (`HalfQuotient`), the same quotient by the
power of 2 below those bits (`AgreeMasked`), and conversely (`MaskedAgree`). Both are
inductions on the number of bits, and they apply to what is in force because every black
list, set or read from the database, went through `sanitized` (`ListsInv`). With both,
`isBlockedAddress` is membership, not only on what was typed but on every list that can
be in use, and `broadcastFor` is the last address of the segment.

**Order.** The rank of an element is how many elements come before it. In a finite set
with a total order ranks are different, so they are all numbers below the cardinality;
hence the sequence `inOrder` picks by rank exists (`InOrder`) and is the only one in that
order (`InOrderUnique`). What is selected from a list keeps its order, and appending to
the list appends to the selection or leaves it alone (`SelectAppend`). The proofs about
`Conversation` and `SegmentDialog` use nothing else of either.

**Conversation.** The folder has finitely many files (`FilesInv`). Among one more suffixes
than there are files one is free (`FreeSuffix`, the pigeonhole principle), a set of
numbers has a least one (`LeastNumber`), so `saveIncomingFile` finds a path where nothing
is. `Inv` adds the types and `ViewInv`: no stamp is later than the clock, the panel and
the rows it was filled from are not longer than the table. `Steps` divides the next-state
relation by what a step does to rows and panel, and `Writes` says what sending and
receiving do to both: at most one row, and at most one bubble, with the same stamp.
The four properties are inductive with `Inv`, one case of `Steps` at a time. For
`ConversationIsWhole` the panel is cut where it was opened (`PanelRows`): what
`loadConversation` filled it with (`Opened`: the newest rows in descending order,
reversed), and the rows since, for which `SelectAppend` says that a new row extends the
selection or leaves it alone. That `PanelRows` implies the property is a fact about the
query, not part of the statement: `QueryFinds` shows that the first rows of the order are
rows of the peer, as many as there are or as the limit, and that no row left out is of a
later second than one that is there, because the order by rank (`InOrder`) has no row
before one of a later second.

**Segments.** What a list goes through when it is set, masks, the test for equal tokens,
is idempotent: a list that was set once loses nothing and gains nothing when it is set
again. `DialogInv` says that all lists that are stored, in force or cached were set once
(`Tidy`) and that an open dialog has the controller's lists. `ItemRows` relates the items
of a widget to the list behind them: each of its segments has an item, no token has two,
and what can be removed is in the list. So handing the whole copy over with one segment
less costs that segment and no other.

**Shares.** `IInv` adds that a visible dialog was made, that the index holds files of
shared directories only, and `OffersAreKept`: every catalogue, on the wire or kept, and
every download that was asked for, names what the machine it concerns had offered to the
one who has it. The process of a machine always has one of its ids (`ProcessOK`), so what
is sent to an id reaches the machine the offer came from (`ReachedHome`, `FitsReached`).

**Settings.** `IInv` adds to the types that a process that has loaded has an id and a
name and no older signature behind an empty one (`LoadedHasNames`), that the tables
hold what was stored last (`TablesHoldSaved`), and that the process which stored it
still shows it (`SaverShowsSaved`). `ReadFromStored` says of each process that is reading
that what the tables hold now is among its `sources`, and that every part it has read so
far is from one of them; a store by another process adds to the sources and takes none
away. What a restart shows follows from the parts once the last one is read. `AccountInv` counts: the rows together with the starting
processes that will add one, and the ids in rows, announcements and starting processes,
of which one needs no excuse, that of the first row, stored or pending.

**Induction.** The induction theorems of the library take an operator as a parameter and
cannot be instantiated by the provers. Where induction is needed, over bits, ranks or
places, it is by the least element of a set of counterexamples: `WFMin` and
`NatLessThanWellFounded` of `WellFoundedInduction` speak of sets (`NatSet`, `LeastOf`).

**Checked by TLC only.** The three liveness properties `WrittenIsEmitted`,
`HeartbeatIsHeard` and `AsksAreAnswered`, because fairness and `ENABLED` are beyond the
prover, and the four statements the runs refute. Every invariant and every action
property that a passing run checks is a theorem.

## 5. Not modelled

* The race between `saveIncomingFile`'s search for a free name and other programs that
  create files, a write that fails half-way and whose result the code ignores, and empty
  files, which are sent and dropped by the receiver.
* Statements of `saveState` that fail one by one, and errors in the middle of a query.
  The code ignores their results and commits; a model of it would say which half of the
  settings is new, and no property of the program depends on that.
* `LanguageManager`: `switchLanguage` is called once, from `main`, before any other
  object exists; afterwards it only looks texts up.
* Functions nothing calls: `removePeer`, `setActiveRoleId`, `updateSignatureText`,
  `ChatController::addSubnet`, the JSON form of the settings; `m_remoteCatalogs`, which
  nothing reads; and the check box of `restrictToListedSubnets`, which is stored like the
  other preferences and read by nothing.
* Fields of the profile that are only displayed, and the files behind avatars.
* Composition of `Discovery` with `LanChat`: `LanChat` has the two tables and the rule
  that a contact keeps its first address, but not lost and delayed packets; those act
  on the tables alone and are in `Discovery`.
* Presentation: layout, drawing, styles, emotions, images, avatars, status texts,
  `ContactsSidebar`, `RoleSelectionDialog`.
* Build and packaging.

## 6. How the project is ordered

The modules were written from what can lose or misdirect a message towards what is
shown of it: router and delivery, discovery, their composition, conversations and files,
shares, then dialogs and settings. A change of a source file starts at `PROJECT.json`,
whose map names the definitions that stand for its lines; the runs of their module and
the proof modules that extend it are the ones to repeat. What would come next is a
composition of two installations in which packets of the discovery are lost between
`LanChat`'s tables.
