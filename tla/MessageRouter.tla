--------------------------- MODULE MessageRouter ---------------------------
(***************************************************************************)
(* The TCP sessions of MessageRouter (src/core/MessageRouter.cpp), one      *)
(* router per installation, together with the sockets they share.           *)
(*                                                                          *)
(* A connection c has a dialling end, opened by ensureSession, and an       *)
(* accepting end, which handleNewConnection takes over.  The QTcpSocket of  *)
(* node n for connection c is the pair (n, c).  Each router keeps           *)
(*   m_peerSessions    peer id  -> socket      peerSessions[n][p]           *)
(*   m_socketToPeer    socket   -> peer id     socketToPeer[n][c]           *)
(*   m_pendingBuffers  socket   -> bytes       pendingBuffers[n][c]         *)
(* A missing key reads as NoConn, NoNode or the empty buffer.               *)
(*                                                                          *)
(* A line of the protocol is two units, its first bytes and its last bytes  *)
(* with the newline, so that a line can arrive in two pieces.  The event    *)
(* loop of a node is one thread: busy[n] is the socket whose readSocket is  *)
(* running, and nothing else of n runs until its loop is over.              *)
(***************************************************************************)
EXTENDS Integers, Sequences

CONSTANTS Node,      \* peer ids; a node stands for the process that runs under the id
          Conn,      \* connections that can ever be opened (a bound)
          NoNode,    \* no peer; as an address, one where nobody listens
          NoConn,    \* no socket
          Goals,     \* Goals[p]: who may be found at the address kept for p
          MaxSends,  \* bound on the messages a host hands to its router
          MaxFaults  \* bound on lost connections, failed dials and exits

ASSUME NodeAssumption == NoNode \notin Node
ASSUME ConnAssumption == NoConn \notin Conn
ASSUME GoalsAssumption == Goals \in [Node -> SUBSET (Node \cup {NoNode})]
ASSUME BoundAssumption == MaxSends \in Nat /\ MaxFaults \in Nat

VARIABLES running,        \* the process exists
          listening,      \* its QTcpServer listens
          dial,           \* per connection: who dials, for which peer, whom it reaches
          sock,           \* state of the socket of a node for a connection
          out,            \* units written on a socket and not yet read by the other end
          peerSessions, socketToPeer, pendingBuffers,
          busy,           \* the socket whose lines are being handled
          sends, faults,  \* spent budgets
          sent, got       \* history: messages written, messages emitted

wires  == <<dial, sock, out>>
tables == <<peerSessions, socketToPeer, pendingBuffers>>
vars   == <<running, listening, dial, sock, out, peerSessions, socketToPeer,
            pendingBuffers, busy, sends, faults, sent, got>>

(***************************************************************************)
(* Messages, lines and sockets.                                             *)
(***************************************************************************)
MsgType == {"chat", "share_request", "share_catalog"}
Message == [type : MsgType, id : Node, num : 0..MaxSends]
Unit    == [msg : Message, end : BOOLEAN]

\* Mutant of Line: the object is written without its type member.
Line_NoType(m) == LET o == [id |-> m.id, num |-> m.num]
                  IN  <<[msg |-> o, end |-> FALSE], [msg |-> o, end |-> TRUE]>>

Line(m) == <<[msg |-> m, end |-> FALSE], [msg |-> m, end |-> TRUE]>>

HasLine(b) == \E i \in 1..Len(b) : b[i].end

\* Mutant of IsNewline: lastIndexOf instead of indexOf.
IsNewline_Last(b, i) == b[i].end /\ \A j \in (i + 1)..Len(b) : ~b[j].end

\* buffer.indexOf finds the newline at i.
IsNewline(b, i) == b[i].end /\ \A j \in 1..(i - 1) : ~b[j].end

\* The text before the newline parses as one JSON object.
IsObject(l) == Len(l) = 2 /\ ~l[1].end /\ l[2].end /\ l[1].msg = l[2].msg

SockState == {"none", "connecting", "backlog", "connected", "unconnected", "gone"}

\* Mutant of Live: any socket that is not deleted is taken.
Live_Any(n, c) == c # NoConn /\ sock[n][c] \in {"connecting", "connected", "unconnected"}

\* existing is not null and its state is not UnconnectedState.
Live(n, c) == c # NoConn /\ sock[n][c] \in {"connecting", "connected"}

Fresh(c) == dial[c].from = NoNode

OtherEnd(n, c) == IF dial[c].from = n THEN dial[c].to ELSE dial[c].from

Idle(n) == running[n] /\ busy[n] = NoConn

(***************************************************************************)
(* Initial state: no process runs.                                          *)
(***************************************************************************)
Init ==
  /\ running = [n \in Node |-> FALSE]
  /\ listening = [n \in Node |-> FALSE]
  /\ dial = [c \in Conn |-> [from |-> NoNode, peer |-> NoNode, to |-> NoNode]]
  /\ sock = [n \in Node |-> [c \in Conn |-> "none"]]
  /\ out = [n \in Node |-> [c \in Conn |-> <<>>]]
  /\ peerSessions = [n \in Node |-> [p \in Node |-> NoConn]]
  /\ socketToPeer = [n \in Node |-> [c \in Conn |-> NoNode]]
  /\ pendingBuffers = [n \in Node |-> [c \in Conn |-> <<>>]]
  /\ busy = [n \in Node |-> NoConn]
  /\ sends = [n \in Node |-> 0]
  /\ faults = 0
  /\ sent = [n \in Node |-> [c \in Conn |-> <<>>]]
  /\ got = [n \in Node |-> [c \in Conn |-> <<>>]]

(***************************************************************************)
(* startListening: the program goes on when the port is taken.              *)
(***************************************************************************)
startListening(n) ==
  /\ ~running[n]
  /\ running' = [running EXCEPT ![n] = TRUE]
  /\ \E ok \in BOOLEAN : listening' = [listening EXCEPT ![n] = ok]
  /\ UNCHANGED <<wires, tables, busy, sends, faults, sent, got>>

(***************************************************************************)
(* sendJson writes one line on a socket; on a connecting socket it is kept  *)
(* in the socket's own buffer, which out also stands for.                   *)
(***************************************************************************)
\* Mutant of sendJson: on a new socket the message before is tried again.
sendJson_Retry(n, c, m) ==
  /\ out' = [out EXCEPT ![n][c] = (IF sent[n][c] = <<>> /\ m.num > 0
                                   THEN Line([m EXCEPT !.num = @ - 1]) ELSE @) \o Line(m)]
  /\ sent' = [sent EXCEPT ![n][c] = Append(@, m)]

sendJson(n, c, m) ==
  /\ out' = [out EXCEPT ![n][c] = @ \o Line(m)]
  /\ sent' = [sent EXCEPT ![n][c] = Append(@, m)]

\* ensureSession followed by sendJson, in the tables of n as the caller has them:
\* sessions and owners are m_peerSessions and m_socketToPeer at the call.  The
\* address in peer leads to goal.
sendTo(n, peer, goal, sessions, owners, m) ==
  \/ /\ Live(n, sessions[peer])
     /\ sendJson(n, sessions[peer], m)
     /\ peerSessions' = [peerSessions EXCEPT ![n] = sessions]
     /\ socketToPeer' = [socketToPeer EXCEPT ![n] = owners]
     /\ UNCHANGED <<dial, sock>>
  \/ /\ ~Live(n, sessions[peer])
     /\ \E c \in Conn :
          /\ Fresh(c)
          /\ dial' = [dial EXCEPT ![c] = [from |-> n, peer |-> peer, to |-> goal]]
          /\ sock' = [sock EXCEPT ![n][c] = "connecting"]
          /\ peerSessions' = [peerSessions EXCEPT ![n] = [sessions EXCEPT ![peer] = c]]
          /\ socketToPeer' = [socketToPeer EXCEPT ![n] = [owners EXCEPT ![c] = peer]]
          /\ sendJson(n, c, m)

(***************************************************************************)
(* A call of the controller: sendChatMessage and sendFilePayload ("chat"),  *)
(* or sendSharePayload with a request.  The peer and its address come from  *)
(* the directory; the address may be out of date.  A machine does not dial  *)
(* its own address.                                                         *)
(***************************************************************************)
sendPayload(n, p, goal, type) ==
  /\ Idle(n)
  /\ p # n /\ goal # n
  /\ sends[n] < MaxSends
  /\ sendTo(n, p, goal, peerSessions[n], socketToPeer[n],
            [type |-> type, id |-> n, num |-> sends[n]])
  /\ sends' = [sends EXCEPT ![n] = @ + 1]
  /\ UNCHANGED <<running, listening, pendingBuffers, busy, faults, got>>

send(n, p) == \E goal \in Goals[p], type \in {"chat", "share_request"} :
                sendPayload(n, p, goal, type)

(***************************************************************************)
(* The network answers a dial.  A failed dial only emits errorOccurred,     *)
(* which nothing is connected to: no table changes.                         *)
(***************************************************************************)
connectSucceeds(c) ==
  LET n == dial[c].from  q == dial[c].to
  IN  /\ n # NoNode /\ q # NoNode
      /\ sock[n][c] = "connecting"
      /\ listening[q]
      /\ sock' = [sock EXCEPT ![n][c] = "connected", ![q][c] = "backlog"]
      /\ UNCHANGED <<running, listening, dial, out, tables, busy, sends, faults, sent, got>>

connectFails(c) ==
  LET n == dial[c].from  q == dial[c].to
  IN  /\ n # NoNode
      /\ sock[n][c] = "connecting"
      /\ \/ /\ IF q = NoNode THEN TRUE ELSE ~listening[q]
            /\ UNCHANGED faults
         \/ /\ faults < MaxFaults
            /\ faults' = faults + 1
      /\ sock' = [sock EXCEPT ![n][c] = "unconnected"]
      /\ UNCHANGED <<running, listening, dial, out, tables, busy, sends, sent, got>>

(***************************************************************************)
(* handleNewConnection takes every connection the kernel has accepted.      *)
(***************************************************************************)
handleNewConnection(n) ==
  /\ Idle(n)
  /\ \E c \in Conn : sock[n][c] = "backlog"
  /\ sock' = [sock EXCEPT ![n] =
                [c \in Conn |-> IF @[c] = "backlog" THEN "connected" ELSE @[c]]]
  /\ UNCHANGED <<running, listening, dial, out, tables, busy, sends, faults, sent, got>>

(***************************************************************************)
(* readSocket.  Some of the bytes on the way are there: they join the       *)
(* buffer of the socket.  If it then holds a newline the loop begins.       *)
(***************************************************************************)
readSocket(n, c) ==
  LET m == OtherEnd(n, c)
  IN  /\ Idle(n)
      /\ sock[n][c] = "connected"
      /\ \E k \in 1..Len(out[m][c]) :
           LET bytes == pendingBuffers[n][c] \o SubSeq(out[m][c], 1, k)
           IN  /\ pendingBuffers' = [pendingBuffers EXCEPT ![n][c] = bytes]
               /\ out' = [out EXCEPT ![m][c] = SubSeq(@, k + 1, Len(@))]
               /\ busy' = [busy EXCEPT ![n] = IF HasLine(bytes) THEN c ELSE NoConn]
      /\ UNCHANGED <<running, listening, dial, sock, peerSessions, socketToPeer,
                     sends, faults, sent, got>>

\* Mutant of register: no test whether the peer has a session.
register_Always(sessions, p, c) == [sessions EXCEPT ![p] = c]

\* Mutant of register: only m_socketToPeer is kept.
register_Never(sessions, p, c) == sessions

\* m_peerSessions after the sender of a line is registered.
register(sessions, p, c) == IF sessions[p] = NoConn THEN [sessions EXCEPT ![p] = c]
                                                    ELSE sessions

\* Who is found at peerAddress() and peerPort(): on a socket this node dialled that is
\* where the other end listens, on any other the port it dialled from, where nobody does.
endpoint(n, c) == IF dial[c].from = n THEN dial[c].to ELSE NoNode

\* What messageReceived leads to: handleRouterMessage answers a share_request at
\* once, in the same call, with the PeerInfo readSocket made of the socket.
messageReceived(n, c, m) ==
  LET sessions == register(peerSessions[n], m.id, c)
      owners   == [socketToPeer[n] EXCEPT ![c] = m.id]
  IN  /\ got' = [got EXCEPT ![n][c] = Append(@, m)]
      /\ \/ /\ m.type = "share_request"
            /\ sendTo(n, m.id, endpoint(n, c), sessions, owners,
                      [type |-> "share_catalog", id |-> n, num |-> m.num])
         \/ /\ m.type # "share_request"
            /\ peerSessions' = [peerSessions EXCEPT ![n] = sessions]
            /\ socketToPeer' = [socketToPeer EXCEPT ![n] = owners]
            /\ UNCHANGED <<dial, sock, out, sent>>

\* Mutant of again: one line per readyRead.
again_Once(n, rest) == NoConn

\* newline = buffer.indexOf(...): the socket whose lines go on being handled.
again(n, rest) == IF HasLine(rest) THEN busy[n] ELSE NoConn

\* One round of the loop of readSocket: a line that is no object is skipped.
readLine(n) ==
  LET c == busy[n]
      b == pendingBuffers[n][c]
  IN  /\ c # NoConn
      /\ \E i \in 1..Len(b) :
           LET line == SubSeq(b, 1, i)
               rest == SubSeq(b, i + 1, Len(b))
           IN  /\ IsNewline(b, i)
               /\ pendingBuffers' = [pendingBuffers EXCEPT ![n][c] = rest]
               /\ busy' = [busy EXCEPT ![n] = again(n, rest)]
               /\ IF IsObject(line)
                  THEN messageReceived(n, c, line[1].msg)
                  ELSE UNCHANGED <<dial, sock, out, peerSessions, socketToPeer, sent, got>>
      /\ UNCHANGED <<running, listening, sends, faults>>

(***************************************************************************)
(* disconnected: the other end is gone or the network dropped the           *)
(* connection.  cleanupSocket, then deleteLater: a deleted socket reads as  *)
(* null through the QPointers of m_peerSessions.                            *)
(***************************************************************************)

\* Mutant of cleanupSocket: the buffer stays.
cleanupSocket_KeepBuffer(n, c) ==
  LET p == socketToPeer[n][c]
  IN  /\ socketToPeer' = [socketToPeer EXCEPT ![n][c] = NoNode]
      /\ peerSessions' = [peerSessions EXCEPT ![n] =
            [q \in Node |-> IF q = p /\ @[q] = c THEN NoConn ELSE @[q]]]
      /\ UNCHANGED pendingBuffers

\* Mutant of cleanupSocket: the session of the peer goes, whatever its socket.
cleanupSocket_AnySocket(n, c) ==
  LET p == socketToPeer[n][c]
  IN  /\ socketToPeer' = [socketToPeer EXCEPT ![n][c] = NoNode]
      /\ peerSessions' = [peerSessions EXCEPT ![n] =
            [q \in Node |-> IF q = p THEN NoConn ELSE @[q]]]
      /\ pendingBuffers' = [pendingBuffers EXCEPT ![n][c] = <<>>]

\* Mutant of cleanupSocket: the session stays.
cleanupSocket_KeepSession(n, c) ==
  /\ socketToPeer' = [socketToPeer EXCEPT ![n][c] = NoNode]
  /\ pendingBuffers' = [pendingBuffers EXCEPT ![n][c] = <<>>]
  /\ UNCHANGED peerSessions

cleanupSocket(n, c) ==
  LET p == socketToPeer[n][c]
  IN  /\ socketToPeer' = [socketToPeer EXCEPT ![n][c] = NoNode]
      /\ peerSessions' = [peerSessions EXCEPT ![n] =
            [q \in Node |-> IF q = p /\ @[q] = c THEN NoConn ELSE @[q]]]
      /\ pendingBuffers' = [pendingBuffers EXCEPT ![n][c] = <<>>]

disconnected(n, c) ==
  /\ Idle(n)
  /\ sock[n][c] = "connected"
  /\ \/ sock[OtherEnd(n, c)][c] = "gone" /\ UNCHANGED faults
     \/ faults < MaxFaults /\ faults' = faults + 1
  /\ sock' = [sock EXCEPT ![n][c] = "gone"]
  /\ cleanupSocket(n, c)
  /\ UNCHANGED <<running, listening, dial, out, busy, sends, sent, got>>

(***************************************************************************)
(* The process ends: stop() from the controller's destructor, or a crash.   *)
(* Every socket of the process dies with it, and the tables with them.      *)
(***************************************************************************)
stop(n) ==
  /\ running[n]
  /\ faults < MaxFaults
  /\ faults' = faults + 1
  /\ running' = [running EXCEPT ![n] = FALSE]
  /\ listening' = [listening EXCEPT ![n] = FALSE]
  /\ busy' = [busy EXCEPT ![n] = NoConn]
  /\ sock' = [sock EXCEPT ![n] =
                [c \in Conn |-> IF @[c] = "none" THEN "none" ELSE "gone"]]
  /\ peerSessions' = [peerSessions EXCEPT ![n] = [p \in Node |-> NoConn]]
  /\ socketToPeer' = [socketToPeer EXCEPT ![n] = [c \in Conn |-> NoNode]]
  /\ pendingBuffers' = [pendingBuffers EXCEPT ![n] = [c \in Conn |-> <<>>]]
  /\ UNCHANGED <<dial, out, sends, sent, got>>

Next ==
  \/ \E n \in Node : startListening(n) \/ handleNewConnection(n) \/ readLine(n) \/ stop(n)
  \/ \E n, p \in Node : send(n, p)
  \/ \E c \in Conn : connectSucceeds(c) \/ connectFails(c)
  \/ \E n \in Node, c \in Conn : readSocket(n, c) \/ disconnected(n, c)

Spec == Init /\ [][Next]_vars

(***************************************************************************)
(* Scheduling.  TCP settles every dial; a Qt event loop serves each ready   *)
(* socket notifier in turn and runs readSocket's loop to its end.           *)
(***************************************************************************)
Fairness ==
  /\ \A c \in Conn : WF_vars(connectSucceeds(c) \/ connectFails(c))
  /\ \A n \in Node : WF_vars(handleNewConnection(n)) /\ WF_vars(readLine(n))
  /\ \A n \in Node, c \in Conn : WF_vars(readSocket(n, c))

FairSpec == Spec /\ Fairness

(***************************************************************************)
(* The promise of the router: module Delivery.  The states of a socket are  *)
(* the states of an end, what is in buffers and on the way is not seen.     *)
(***************************************************************************)
endOf(s) == IF s = "none" THEN "new"
            ELSE IF s \in {"connecting", "backlog", "connected"} THEN "open" ELSE "lost"

Promise == INSTANCE Delivery WITH
  link    <- [c \in Conn |-> [from |-> dial[c].from, to |-> dial[c].to]],
  end     <- [n \in Node |-> [c \in Conn |-> endOf(sock[n][c])]],
  written <- sent,
  emitted <- got

(***************************************************************************)
(* Properties.                                                              *)
(***************************************************************************)
TypeOK ==
  /\ running \in [Node -> BOOLEAN]
  /\ listening \in [Node -> BOOLEAN]
  /\ dial \in [Conn -> [from : Node \cup {NoNode}, peer : Node \cup {NoNode},
                        to : Node \cup {NoNode}]]
  /\ sock \in [Node -> [Conn -> SockState]]
  /\ out \in [Node -> [Conn -> Seq(Unit)]]
  /\ peerSessions \in [Node -> [Node -> Conn \cup {NoConn}]]
  /\ socketToPeer \in [Node -> [Conn -> Node \cup {NoNode}]]
  /\ pendingBuffers \in [Node -> [Conn -> Seq(Unit)]]
  /\ busy \in [Node -> Conn \cup {NoConn}]
  /\ sends \in [Node -> 0..MaxSends]
  /\ faults \in Nat
  /\ sent \in [Node -> [Conn -> Seq(Message)]]
  /\ got \in [Node -> [Conn -> Seq(Message)]]

\* ensureSession keeps one dial per peer: a socket the node opened itself and
\* that still lives is the session of the peer it was opened for, so no sequence
\* of sends, failures and incoming lines leaves two of them or loses one.
OwnDialIsSession ==
  \A n \in Node, c \in Conn :
    (dial[c].from = n /\ Live(n, c)) => peerSessions[n][dial[c].peer] = c

\* cleanupSocket: the tables are keyed by raw QTcpSocket pointers, so a socket
\* that is deleted, or that the router has not met, has neither a peer nor
\* pending bytes that a later socket at the same address could inherit.
NoKeyForGoneSocket ==
  \A n \in Node, c \in Conn :
    sock[n][c] \in {"none", "backlog", "gone"} =>
      socketToPeer[n][c] = NoNode /\ pendingBuffers[n][c] = <<>>

\* A session whose socket was deleted is a dead QPointer that hides every later
\* connection of that peer.  cleanupSocket leaves one only for a socket that
\* reached somebody else than the peer it was dialled for.
GoneSessionWasMisdialled ==
  \A n, p \in Node, c \in Conn :
    (peerSessions[n][p] = c /\ sock[n][c] = "gone")
      => dial[c].from = n /\ dial[c].to \in Node \ {p}

\* readSocket stops only when no complete line is left: nothing would wake it for
\* a line that is already in the buffer.
NoLineLeftBehind ==
  \A n \in Node, c \in Conn : busy[n] # c => ~HasLine(pendingBuffers[n][c])

\* What readSocket emits on a socket is a prefix of what the other end wrote
\* there: no line is lost, doubled, merged or reordered however the bytes arrive.
EmittedIsPrefixOfWritten ==
  \A n \in Node, c \in Conn :
    LET m == OtherEnd(n, c)
    IN  IF m \in Node
        THEN /\ Len(got[n][c]) <= Len(sent[m][c])
             /\ got[n][c] = SubSeq(sent[m][c], 1, Len(got[n][c]))
        ELSE got[n][c] = <<>>

\* The tables, the dials, the pieces a line arrives in and the answer given inside
\* readSocket implement module Delivery: whatever happens to the sockets, a message
\* is emitted once, in its turn, only by an end that lasts, and a request is
\* answered in the step that emits it.
ImplementsDelivery == Promise!Spec

\* A peer keeps its session while the socket lives: neither an incoming line nor
\* a send moves the traffic to another connection, which could overtake it.
SessionIsSticky ==
  [][\A n, p \in Node, c \in Conn :
       (peerSessions[n][p] = c /\ Live(n, c) /\ Live(n, c)')
         => peerSessions'[n][p] = c]_vars

\* The answer to a share_request is dialled, and then mostly to a port where nobody
\* listens, only when an earlier dial of the same peer failed or ended at somebody else:
\* the socket it left in m_peerSessions hides the connection the request came on.
AnswerIsDialledAfterBadDial ==
  [][\A n \in Node, c \in Conn :
       (busy[n] # NoConn /\ dial[c].from = NoNode /\ dial'[c].from = n) =>
         \E d \in Conn : /\ dial[d].from = n /\ dial[d].peer = dial'[c].peer
                         /\ \/ sock[n][d] = "unconnected"
                            \/ sock[n][d] = "gone" /\ dial[d].to # dial[d].peer]_vars

\* A line written on a connection is emitted at the other end, unless a dial
\* failed or one of the two ends was lost.
WrittenIsEmitted ==
  \A n \in Node, c \in Conn : \A k \in 1..(2 * MaxSends) :
    (Len(sent[n][c]) >= k) ~>
      \/ sock[n][c] \in {"unconnected", "gone"}
      \/ /\ OtherEnd(n, c) \in Node
         /\ \/ Len(got[OtherEnd(n, c)][c]) >= k
            \/ sock[OtherEnd(n, c)][c] = "gone"

=============================================================================
