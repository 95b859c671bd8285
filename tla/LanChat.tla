------------------------------ MODULE LanChat ------------------------------
(***************************************************************************)
(* Chats between installations: the sessions of module MessageRouter, the   *)
(* addresses findPeer answers (module Discovery) and the rows both ends     *)
(* keep in chat_messages (module Conversation), in one system.              *)
(*                                                                          *)
(* A line names its writer, never its addressee.  Who reads it is decided   *)
(* by the address the writer had for the addressee when it dialled: the one *)
(* it heard first, or found in known_peers when it started, which another   *)
(* machine may hold by now.                                                 *)
(*                                                                          *)
(* A node is a peer id.  A process that could not open its database runs    *)
(* under an id it has just drawn, reads no known_peers and writes no row;   *)
(* its machine can run under other ids before and after.                    *)
(***************************************************************************)
EXTENDS MessageRouter

CONSTANTS Address, NoAddress,
          Passing,    \* ids drawn by a start without the database
          Books,      \* rows known_peers can hold at the beginning
          Homes,      \* where the machines can be at the beginning
          Quota,      \* Quota[n]: bound on what the user of n sends
          MaxNews     \* bound on packets heard and changes of address

ASSUME AddressAssumption == NoAddress \notin Address
ASSUME PassingAssumption == Passing \subseteq Node
ASSUME BooksAssumption ==
  /\ Books \subseteq [Node -> [Node -> Address \cup {NoAddress}]]
  /\ \A kept \in Books : \A n, p \in Node :
       n \in Passing \/ p \in Passing => kept[n][p] = NoAddress
ASSUME GoalsAreFree == \A p \in Node : Goals[p] = Node \cup {NoNode}
ASSUME HomesAssumption ==
  /\ Homes \subseteq [Node -> Address]
  /\ \A home \in Homes : \A n, p \in Node \ Passing : n # p => home[n] # home[p]
ASSUME QuotaAssumption == Quota \in [Node -> 0..MaxSends] /\ MaxNews \in Nat

VARIABLES addr,        \* address of the machine
          drawn,       \* ids of Passing a process has run under
          knownPeers,  \* address in the row known_peers has for a peer
          contact,     \* address of the PeerInfo findPeer answers
          table,       \* chat_messages, chats only
          news

book    == <<addr, drawn, knownPeers, contact, news>>
lanVars == <<vars, book, table>>

Row == [peer : Node, own : BOOLEAN, num : 0..MaxSends]

\* The ids of one machine.
machine(n) == {q \in Node : addr[q] = addr[n]}

\* Who is reached at the address n has for p: the process that runs there.
holders(n, p) ==
  LET there == {q \in Node : addr[q] = contact[n][p]}
      up    == {q \in there : running[q]}
  IN  IF up # {} THEN up ELSE IF there # {} THEN there ELSE {NoNode}

recordChatHistory(n, p, own, num) ==
  IF n \in Passing THEN UNCHANGED table
  ELSE table' = [table EXCEPT ![n] = Append(@, [peer |-> p, own |-> own, num |-> num])]

LanInit ==
  /\ Init
  /\ addr \in Homes
  /\ drawn = {}
  /\ knownPeers \in Books
  /\ contact = [n \in Node |-> [p \in Node |-> NoAddress]]
  /\ table = [n \in Node |-> <<>>]
  /\ news = 0

(***************************************************************************)
(* ChatController::initialize: loadKnownPeers, then the router listens.  A  *)
(* machine runs one process, and no id is drawn twice.                      *)
(***************************************************************************)
loadKnownPeers(n) == IF n \in Passing THEN [p \in Node |-> NoAddress] ELSE knownPeers[n]

initialize(n) ==
  /\ \A q \in machine(n) : ~running[q]
  /\ n \notin drawn
  /\ drawn' = drawn \cup ({n} \cap Passing)
  /\ startListening(n)
  /\ contact' = [contact EXCEPT ![n] = loadKnownPeers(n)]
  /\ UNCHANGED <<addr, knownPeers, table, news>>

shutDown(n) ==
  /\ stop(n)
  /\ contact' = [contact EXCEPT ![n] = [p \in Node |-> NoAddress]]
  /\ UNCHANGED <<addr, drawn, knownPeers, table, news>>

\* A packet of p: findPeer goes on answering the address it has.
peerDiscovered(n, p) ==
  contact' = [contact EXCEPT ![n][p] = IF @ = NoAddress THEN addr[p] ELSE @]

processPacket(n, p) ==
  /\ Idle(n) /\ running[p] /\ p # n
  /\ news < MaxNews /\ news' = news + 1
  /\ peerDiscovered(n, p)
  /\ knownPeers' = IF n \in Passing THEN knownPeers
                   ELSE [knownPeers EXCEPT ![n][p] = addr[p]]
  /\ UNCHANGED <<vars, addr, drawn, table>>

(***************************************************************************)
(* The user writes to a contact: the router first, then the row, in the     *)
(* same call.  An address that has become the machine's own is left out.    *)
(***************************************************************************)
mayWrite(n, p) == sends[n] < Quota[n] /\ contact[n][p] \notin {NoAddress, addr[n]}

sendMessageToPeer(n, p) ==
  /\ mayWrite(n, p)
  /\ \E goal \in holders(n, p) : sendPayload(n, p, goal, "chat")
  /\ recordChatHistory(n, p, TRUE, sends[n])
  /\ UNCHANGED book

requestPeerShareList(n, p) ==
  /\ mayWrite(n, p)
  /\ \E goal \in holders(n, p) : sendPayload(n, p, goal, "share_request")
  /\ UNCHANGED <<book, table>>

(***************************************************************************)
(* readSocket and handleRouterMessage: a chat is a row under the id the     *)
(* line names.                                                              *)
(***************************************************************************)
\* Mutant of author: whom the socket was dialled for.
author_BySocket(n, m) == IF socketToPeer[n][busy[n]] = NoNode THEN m.id
                                                             ELSE socketToPeer[n][busy[n]]

author(n, m) == m.id

handleRouterMessage(n) ==
  /\ readLine(n)
  /\ LET before == got[n][busy[n]]  after == got'[n][busy[n]]
         m      == after[Len(after)]
     IN  IF Len(after) > Len(before) /\ m.type = "chat"
         THEN recordChatHistory(n, author(n, m), FALSE, m.num)
         ELSE UNCHANGED table
  /\ UNCHANGED book

(***************************************************************************)
(* The network: what it does to sockets, and a machine that moves.  Its    *)
(* connections are over by then, and no dial is on its way to it.           *)
(***************************************************************************)
network ==
  /\ \/ \E c \in Conn : connectSucceeds(c) \/ connectFails(c)
     \/ \E n \in Node : handleNewConnection(n)
     \/ \E n \in Node, c \in Conn : readSocket(n, c) \/ disconnected(n, c)
  /\ UNCHANGED <<book, table>>

move(n) ==
  /\ news < MaxNews
  /\ \A q \in machine(n), c \in Conn :
       /\ sock[q][c] \in {"none", "unconnected", "gone"}
       /\ dial[c].to = q => sock[dial[c].from][c] # "connecting"
  /\ news' = news + 1
  /\ \E a \in Address \ {addr[p] : p \in Node} :
       addr' = [q \in Node |-> IF q \in machine(n) THEN a ELSE addr[q]]
  /\ UNCHANGED <<vars, drawn, knownPeers, contact, table>>

LanNext ==
  \/ network
  \/ \E n \in Node : initialize(n) \/ shutDown(n) \/ handleRouterMessage(n) \/ move(n)
  \/ \E n, p \in Node : \/ processPacket(n, p) \/ sendMessageToPeer(n, p)
                        \/ requestPeerShareList(n, p)

LanSpec == LanInit /\ [][LanNext]_lanVars

(***************************************************************************)
(* Properties.                                                              *)
(***************************************************************************)
LanTypeOK ==
  /\ TypeOK
  /\ addr \in [Node -> Address]
  /\ drawn \subseteq Passing
  /\ knownPeers \in [Node -> [Node -> Address \cup {NoAddress}]]
  /\ contact \in [Node -> [Node -> Address \cup {NoAddress}]]
  /\ table \in [Node -> Seq(Row)]
  /\ news \in 0..MaxNews

Received(q) == {i \in 1..Len(table[q]) : ~table[q][i].own}

\* The row n has of the chat q received as number num.
IsRowOf(row, n, q, num) ==
  /\ row.own /\ row.num = num
  /\ \/ row.peer = q
     \/ \E c \in Conn : dial[c] = [from |-> n, peer |-> row.peer, to |-> q]

\* sendMessageToPeer and handleRouterMessage, with a router and a network between
\* them: what a history says was received is in the history of the one it names, if that
\* one keeps a history, as written to the reader, or to a peer for whom the writer had
\* dialled the reader's address.
ReceivedWasWritten ==
  \A q \in Node : \A i \in Received(q) :
    LET n == table[q][i].peer
    IN  n \notin Passing =>
          \E j \in 1..Len(table[n]) : IsRowOf(table[n][j], n, q, table[q][i].num)

\* No chat is in the histories of two readers, or twice in one: a router that dials
\* anew writes nothing again.
ReceivedOnce ==
  \A p, q \in Node : \A i \in Received(p), j \in Received(q) :
    (table[p][i].peer = table[q][j].peer /\ table[p][i].num = table[q][j].num)
      => p = q /\ i = j

\* ensureSession: a chat overtakes an earlier one written to the same peer only when
\* the writer had to give up a socket in between.
OvertakenAfterLoss ==
  LET lossless == {n \in Node : \A c \in Conn : sock[n][c] \notin {"unconnected", "gone"}}
  IN  \A n \in lossless, q \in Node : \A i, j \in Received(q) :
        (i < j /\ table[q][i].peer = n /\ table[q][j].peer = n) =>
          ~ \E k, l \in 1..Len(table[n]) :
              /\ l < k /\ table[n][k].peer = table[n][l].peer
              /\ IsRowOf(table[n][k], n, q, table[q][i].num)
              /\ IsRowOf(table[n][l], n, q, table[q][j].num)
=============================================================================
