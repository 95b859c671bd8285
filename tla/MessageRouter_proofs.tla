------------------------ MODULE MessageRouter_proofs ------------------------
(***************************************************************************)
(* Proofs about MessageRouter, for any set of installations and             *)
(* connections, any addresses and any bounds: what a single router keeps,   *)
(* and then that the routers together implement Delivery, what one emits on *)
(* a socket being a prefix of what was written there.                       *)
(***************************************************************************)
EXTENDS MessageRouter, SequenceTheorems, TLAPS

(***************************************************************************)
(* Lines and buffers.                                                       *)
(***************************************************************************)

\* A line written by node w carries the id of w.
UnitOf(w) == [msg : [type : MsgType, id : {w}, num : 0..MaxSends], end : BOOLEAN]

LEMMA LineType ==
  ASSUME NEW m \in Message
  PROVE  Line(m) \in Seq(Unit) /\ Line(m) \in Seq(UnitOf(m.id))
BY DEF Line, Unit, UnitOf, Message

LEMMA AppendLine ==
  ASSUME NEW S, NEW s \in Seq(S), NEW l \in Seq(S)
  PROVE  s \o l \in Seq(S)
BY ConcatProperties

LEMMA PieceType ==
  ASSUME NEW S, NEW s \in Seq(S), NEW k \in 1..Len(s)
  PROVE  SubSeq(s, 1, k) \in Seq(S) /\ SubSeq(s, k + 1, Len(s)) \in Seq(S)
<1>1. Len(s) \in Nat /\ \A i \in 1..Len(s) : s[i] \in S
  BY LenProperties, ElementOfSeq
<1>2. SubSeq(s, 1, k) \in Seq(S)
  BY <1>1, SubSeqProperties
<1>3. SubSeq(s, k + 1, Len(s)) \in Seq(S)
  BY <1>1, SubSeqProperties
<1> QED
  BY <1>2, <1>3

(***************************************************************************)
(* Type correctness.  The far end of a connected socket is an installation, *)
(* and the socket whose lines are handled holds a line.                     *)
(***************************************************************************)
Wiring ==
  \A c \in Conn :
    /\ dial[c].from = NoNode => \A n \in Node : sock[n][c] = "none"
    /\ dial[c].from # NoNode => dial[c].to # dial[c].from /\ dial[c].peer \in Node
    /\ \A n \in Node :
         /\ sock[n][c] \in {"connecting", "unconnected"} => dial[c].from = n
         /\ sock[n][c] = "backlog" => dial[c].to = n /\ dial[c].from \in Node
         /\ sock[n][c] = "connected" => /\ n \in {dial[c].from, dial[c].to}
                                        /\ dial[c].from \in Node
                                        /\ dial[c].to \in Node
         /\ sock[n][c] = "connecting" => \A q \in Node \ {n} : sock[q][c] = "none"

BusyOnConnected ==
  \A n \in Node : busy[n] # NoConn => sock[n][busy[n]] = "connected"

TypeInv == TypeOK /\ Wiring /\ BusyOnConnected

ConnVars == <<dial, sock, out, peerSessions, socketToPeer, sent>>

\* ensureSession followed by sendJson keeps the types and the wiring.
LEMMA SendToTyped ==
  ASSUME TypeInv,
         NEW n \in Node, NEW peer \in Node, NEW goal \in Node \cup {NoNode}, goal # n,
         NEW sessions \in [Node -> Conn \cup {NoConn}],
         NEW owners \in [Conn -> Node \cup {NoNode}],
         NEW m \in Message, sendTo(n, peer, goal, sessions, owners, m)
  PROVE  /\ dial' \in [Conn -> [from : Node \cup {NoNode}, peer : Node \cup {NoNode},
                                to : Node \cup {NoNode}]]
         /\ sock' \in [Node -> [Conn -> SockState]]
         /\ out' \in [Node -> [Conn -> Seq(Unit)]]
         /\ peerSessions' \in [Node -> [Node -> Conn \cup {NoConn}]]
         /\ socketToPeer' \in [Node -> [Conn -> Node \cup {NoNode}]]
         /\ sent' \in [Node -> [Conn -> Seq(Message)]]
         /\ Wiring'
         /\ \A q \in Node, c \in Conn : sock[q][c] = "connected" => sock'[q][c] = "connected"
<1>1. ASSUME NEW c \in Conn, sendJson(n, c, m)
      PROVE  out' \in [Node -> [Conn -> Seq(Unit)]] /\ sent' \in [Node -> [Conn -> Seq(Message)]]
  <2>1. out[n][c] \o Line(m) \in Seq(Unit)
    BY LineType, AppendLine DEF TypeInv, TypeOK
  <2>2. Append(sent[n][c], m) \in Seq(Message)
    BY DEF TypeInv, TypeOK
  <2> QED
    BY <1>1, <2>1, <2>2 DEF sendJson, TypeInv, TypeOK
<1>2. CASE Live(n, sessions[peer])
  <2>1. sessions[peer] \in Conn
    BY <1>2 DEF Live
  <2>2. sendJson(n, sessions[peer], m) /\ UNCHANGED <<dial, sock>>
        /\ peerSessions' = [peerSessions EXCEPT ![n] = sessions]
        /\ socketToPeer' = [socketToPeer EXCEPT ![n] = owners]
    BY <1>2 DEF sendTo
  <2>3. out' \in [Node -> [Conn -> Seq(Unit)]] /\ sent' \in [Node -> [Conn -> Seq(Message)]]
    BY <1>1, <2>1, <2>2
  <2>4. Wiring'
    BY <2>2 DEF TypeInv, Wiring
  <2>5. /\ peerSessions' \in [Node -> [Node -> Conn \cup {NoConn}]]
        /\ socketToPeer' \in [Node -> [Conn -> Node \cup {NoNode}]]
    BY <2>2 DEF TypeInv, TypeOK
  <2> QED
    BY <2>2, <2>3, <2>4, <2>5 DEF TypeInv, TypeOK
<1>3. CASE ~Live(n, sessions[peer])
  <2>1. PICK c \in Conn :
          /\ Fresh(c)
          /\ dial' = [dial EXCEPT ![c] = [from |-> n, peer |-> peer, to |-> goal]]
          /\ sock' = [sock EXCEPT ![n][c] = "connecting"]
          /\ peerSessions' = [peerSessions EXCEPT ![n] = [sessions EXCEPT ![peer] = c]]
          /\ socketToPeer' = [socketToPeer EXCEPT ![n] = [owners EXCEPT ![c] = peer]]
          /\ sendJson(n, c, m)
    BY <1>3 DEF sendTo
  <2>2. \A q \in Node : sock[q][c] = "none"
    BY <2>1 DEF Fresh, TypeInv, Wiring
  <2>3. Wiring'
    <3> SUFFICES ASSUME NEW d \in Conn
                 PROVE  /\ dial'[d].from = NoNode => \A q \in Node : sock'[q][d] = "none"
                        /\ dial'[d].from # NoNode => dial'[d].to # dial'[d].from /\ dial'[d].peer \in Node
                        /\ \A q \in Node :
                             /\ sock'[q][d] \in {"connecting", "unconnected"} => dial'[d].from = q
                             /\ sock'[q][d] = "backlog" => dial'[d].to = q /\ dial'[d].from \in Node
                             /\ sock'[q][d] = "connected" => /\ q \in {dial'[d].from, dial'[d].to}
                                                             /\ dial'[d].from \in Node
                                                             /\ dial'[d].to \in Node
                             /\ sock'[q][d] = "connecting" =>
                                  \A r \in Node \ {q} : sock'[r][d] = "none"
      BY DEF Wiring
    <3>1. CASE d = c
      <4>1. /\ dial'[d] = [from |-> n, peer |-> peer, to |-> goal]
            /\ \A q \in Node : sock'[q][d] = IF q = n THEN "connecting" ELSE "none"
        BY <2>1, <2>2, <3>1 DEF TypeInv, TypeOK
      <4> QED
        BY <4>1, NodeAssumption
    <3>2. CASE d # c
      <4>1. dial'[d] = dial[d] /\ \A q \in Node : sock'[q][d] = sock[q][d]
        BY <2>1, <3>2 DEF TypeInv, TypeOK
      <4> QED
        BY <4>1 DEF TypeInv, Wiring
    <3> QED
      BY <3>1, <3>2
  <2>4. sock' \in [Node -> [Conn -> SockState]]
    BY <2>1 DEF SockState, TypeInv, TypeOK
  <2>5. out' \in [Node -> [Conn -> Seq(Unit)]] /\ sent' \in [Node -> [Conn -> Seq(Message)]]
    BY <1>1, <2>1
  <2>6. /\ peerSessions' \in [Node -> [Node -> Conn \cup {NoConn}]]
        /\ socketToPeer' \in [Node -> [Conn -> Node \cup {NoNode}]]
    BY <2>1 DEF TypeInv, TypeOK
  <2>7. dial' \in [Conn -> [from : Node \cup {NoNode}, peer : Node \cup {NoNode},
                            to : Node \cup {NoNode}]]
    BY <2>1 DEF TypeInv, TypeOK
  <2>8. \A q \in Node, d \in Conn : sock[q][d] = "connected" => sock'[q][d] = "connected"
    BY <2>1, <2>2 DEF TypeInv, TypeOK
  <2> QED
    BY <2>3, <2>4, <2>5, <2>6, <2>7, <2>8
<1> QED
  BY <1>2, <1>3

(***************************************************************************)
(* What the steps do to the sockets, point by point.                        *)
(***************************************************************************)
LEMMA OneSocketEffect ==
  ASSUME TypeInv, NEW n \in Node, NEW c \in Conn, NEW v \in SockState, sock' = [sock EXCEPT ![n][c] = v]
  PROVE  \A r \in Node, d \in Conn : sock'[r][d] = IF d = c /\ r = n THEN v ELSE sock[r][d]
<1>1. sock \in [Node -> [Conn -> SockState]]
  BY DEF TypeInv, TypeOK
<1> QED
  BY <1>1

LEMMA ConnectEffect ==
  ASSUME TypeInv, NEW c \in Conn, connectSucceeds(c)
  PROVE  \E n, q \in Node :
           /\ n # q /\ dial[c].from = n /\ dial[c].to = q
           /\ sock[n][c] = "connecting" /\ sock[q][c] = "none"
           /\ \A r \in Node, d \in Conn :
                sock'[r][d] = IF d # c \/ r \notin {n, q} THEN sock[r][d]
                              ELSE IF r = n THEN "connected" ELSE "backlog"
<1>1. PICK n \in Node, q \in Node : dial[c].from = n /\ dial[c].to = q
  BY DEF connectSucceeds, TypeInv, TypeOK
<1>2. /\ n # q
      /\ sock[n][c] = "connecting" /\ sock[q][c] = "none"
  BY <1>1, NodeAssumption DEF connectSucceeds, TypeInv, Wiring
<1>3. sock' = [[sock EXCEPT ![n][c] = "connected"] EXCEPT ![q][c] = "backlog"]
  BY <1>1, Zenon DEF connectSucceeds
<1>4. \A r \in Node, d \in Conn :
        sock'[r][d] = IF d # c \/ r \notin {n, q} THEN sock[r][d]
                      ELSE IF r = n THEN "connected" ELSE "backlog"
  <2> DEFINE half == [sock EXCEPT ![n][c] = "connected"]
  <2>1. /\ half \in [Node -> [Conn -> SockState]]
        /\ \A r \in Node, d \in Conn :
             half[r][d] = IF r = n /\ d = c THEN "connected" ELSE sock[r][d]
    BY DEF TypeInv, TypeOK, SockState
  <2>2. sock' = [half EXCEPT ![q][c] = "backlog"]
    BY <1>3
  <2> HIDE DEF half
  <2>3. \A r \in Node, d \in Conn :
          sock'[r][d] = IF r = q /\ d = c THEN "backlog" ELSE half[r][d]
    BY <2>1, <2>2
  <2> QED
    BY <1>2, <2>1, <2>3
<1> QED
  BY <1>1, <1>2, <1>4

LEMMA TypeInvInit == Init => TypeInv
BY NodeAssumption, ConnAssumption, BoundAssumption
   DEF Init, TypeInv, TypeOK, Wiring, BusyOnConnected, SockState

\* The bytes that arrive on a connected socket were written by the other end.
LEMMA ReadTyped ==
  ASSUME TypeInv, NEW n \in Node, NEW c \in Conn, sock[n][c] = "connected"
  PROVE  OtherEnd(n, c) \in Node /\ OtherEnd(n, c) # n
BY NodeAssumption DEF TypeInv, TypeOK, Wiring, OtherEnd

\* The line taken from a buffer that parses is a message.
LEMMA LineMessage ==
  ASSUME NEW W, NEW b \in Seq(W), NEW i \in 1..Len(b), IsObject(SubSeq(b, 1, i))
  PROVE  SubSeq(b, 1, i)[1] \in W
BY PieceType, ElementOfSeq DEF IsObject

\* The node at peerAddress() and peerPort() is not the one that reads.
LEMMA EndpointType ==
  ASSUME TypeInv, NEW n \in Node, NEW c \in Conn
  PROVE  endpoint(n, c) \in Node \cup {NoNode} /\ endpoint(n, c) # n
<1>1. dial[c].to \in Node \cup {NoNode}
  BY DEF TypeInv, TypeOK
<1>2. dial[c].from = n => dial[c].to # n
  BY NodeAssumption DEF TypeInv, Wiring
<1>3. NoNode # n
  BY NodeAssumption
<1> QED
  BY <1>1, <1>2, <1>3 DEF endpoint

\* What a round of the loop does with a message keeps the types and the wiring.
LEMMA MessageTyped ==
  ASSUME TypeInv, NEW n \in Node, NEW c \in Conn, NEW m \in Message,
         messageReceived(n, c, m)
  PROVE  /\ dial' \in [Conn -> [from : Node \cup {NoNode}, peer : Node \cup {NoNode},
                                to : Node \cup {NoNode}]]
         /\ sock' \in [Node -> [Conn -> SockState]]
         /\ out' \in [Node -> [Conn -> Seq(Unit)]]
         /\ peerSessions' \in [Node -> [Node -> Conn \cup {NoConn}]]
         /\ socketToPeer' \in [Node -> [Conn -> Node \cup {NoNode}]]
         /\ sent' \in [Node -> [Conn -> Seq(Message)]]
         /\ got' \in [Node -> [Conn -> Seq(Message)]]
         /\ Wiring'
         /\ \A q \in Node, d \in Conn : sock[q][d] = "connected" => sock'[q][d] = "connected"
<1> DEFINE sessions == register(peerSessions[n], m.id, c)
           owners   == [socketToPeer[n] EXCEPT ![c] = m.id]
           answer   == [type |-> "share_catalog", id |-> n, num |-> m.num]
<1>1. /\ sessions \in [Node -> Conn \cup {NoConn}]
      /\ owners \in [Conn -> Node \cup {NoNode}]
  BY DEF TypeInv, TypeOK, register, Message
<1>2. got' \in [Node -> [Conn -> Seq(Message)]]
  <2>1. Append(got[n][c], m) \in Seq(Message)
    BY DEF TypeInv, TypeOK
  <2>2. got' = [got EXCEPT ![n][c] = Append(@, m)]
    BY DEF messageReceived
  <2> QED
    BY <2>1, <2>2 DEF TypeInv, TypeOK
<1>3. CASE sendTo(n, m.id, endpoint(n, c), sessions, owners, answer)
  <2>1. /\ answer \in Message /\ m.id \in Node
        /\ endpoint(n, c) \in Node \cup {NoNode} /\ endpoint(n, c) # n
    BY EndpointType DEF Message, MsgType
  <2> HIDE DEF sessions, owners, answer
  <2> QED
    BY <1>1, <1>2, <1>3, <2>1, SendToTyped
<1>4. CASE /\ peerSessions' = [peerSessions EXCEPT ![n] = sessions]
           /\ socketToPeer' = [socketToPeer EXCEPT ![n] = owners]
           /\ UNCHANGED <<dial, sock, out, sent>>
  <2> HIDE DEF sessions, owners
  <2>1. Wiring'
    BY <1>4 DEF TypeInv, Wiring
  <2> QED
    BY <1>1, <1>2, <1>4, <2>1 DEF TypeInv, TypeOK
<1> QED
  BY <1>3, <1>4 DEF messageReceived

LEMMA TypeInvNext == TypeInv /\ [Next]_vars => TypeInv'
<1> SUFFICES ASSUME TypeInv, [Next]_vars
             PROVE  TypeInv'
  OBVIOUS
<1>1. CASE UNCHANGED vars
  <2>1. TypeOK'
    BY <1>1 DEF TypeInv, TypeOK, vars
  <2>2. Wiring' /\ BusyOnConnected'
    BY <1>1 DEF TypeInv, Wiring, BusyOnConnected, vars
  <2> QED
    BY <2>1, <2>2 DEF TypeInv
<1>2. ASSUME NEW n \in Node, startListening(n)
      PROVE  TypeInv'
  <2>1. TypeOK'
    BY <1>2 DEF TypeInv, TypeOK, startListening, wires, tables
  <2>2. Wiring' /\ BusyOnConnected'
    BY <1>2 DEF TypeInv, Wiring, BusyOnConnected, startListening, wires
  <2> QED
    BY <2>1, <2>2 DEF TypeInv
<1>3. ASSUME NEW n \in Node, handleNewConnection(n)
      PROVE  TypeInv'
  <2>1. /\ sock' = [sock EXCEPT ![n] =
                     [c \in Conn |-> IF sock[n][c] = "backlog" THEN "connected" ELSE sock[n][c]]]
        /\ UNCHANGED <<running, listening, dial, out, tables, busy, sends, faults, sent, got>>
    BY <1>3 DEF handleNewConnection, TypeInv, TypeOK
  <2>2. \A q \in Node, c \in Conn :
          sock'[q][c] = IF q = n /\ sock[q][c] = "backlog" THEN "connected" ELSE sock[q][c]
    BY <2>1 DEF TypeInv, TypeOK
  <2>3. TypeOK'
    BY <2>1 DEF TypeInv, TypeOK, tables, SockState
  <2>4. Wiring'
    BY <2>1, <2>2, NodeAssumption DEF TypeInv, Wiring
  <2>5. BusyOnConnected'
    BY <2>1, <2>2 DEF TypeInv, TypeOK, BusyOnConnected
  <2> QED
    BY <2>3, <2>4, <2>5 DEF TypeInv
<1>4. ASSUME NEW n \in Node, readLine(n)
      PROVE  TypeInv'
  <2> DEFINE c == busy[n]
             b == pendingBuffers[n][c]
  <2>1. c \in Conn /\ b \in Seq(Unit) /\ sock[n][c] = "connected"
    BY <1>4 DEF readLine, TypeInv, TypeOK, BusyOnConnected
  <2>2. PICK i \in 1..Len(b) :
          /\ pendingBuffers' = [pendingBuffers EXCEPT ![n][c] = SubSeq(b, i + 1, Len(b))]
          /\ busy' = [busy EXCEPT ![n] = again(n, SubSeq(b, i + 1, Len(b)))]
          /\ IF IsObject(SubSeq(b, 1, i))
             THEN messageReceived(n, c, SubSeq(b, 1, i)[1].msg)
             ELSE UNCHANGED <<dial, sock, out, peerSessions, socketToPeer, sent, got>>
    BY <1>4 DEF readLine
  <2>3. UNCHANGED <<running, listening, sends, faults>>
    BY <1>4 DEF readLine
  <2>4. pendingBuffers' \in [Node -> [Conn -> Seq(Unit)]]
    BY <2>1, <2>2, PieceType DEF TypeInv, TypeOK
  <2>5. /\ busy' \in [Node -> Conn \cup {NoConn}]
        /\ \A q \in Node : busy'[q] \in {busy[q], NoConn}
    BY <2>1, <2>2 DEF TypeInv, TypeOK, again
  <2>6. /\ dial' \in [Conn -> [from : Node \cup {NoNode}, peer : Node \cup {NoNode},
                               to : Node \cup {NoNode}]]
        /\ sock' \in [Node -> [Conn -> SockState]]
        /\ out' \in [Node -> [Conn -> Seq(Unit)]]
        /\ peerSessions' \in [Node -> [Node -> Conn \cup {NoConn}]]
        /\ socketToPeer' \in [Node -> [Conn -> Node \cup {NoNode}]]
        /\ sent' \in [Node -> [Conn -> Seq(Message)]]
        /\ got' \in [Node -> [Conn -> Seq(Message)]]
        /\ Wiring'
        /\ \A q \in Node, d \in Conn : sock[q][d] = "connected" => sock'[q][d] = "connected"
    <3>1. CASE IsObject(SubSeq(b, 1, i))
      <4>1. SubSeq(b, 1, i)[1].msg \in Message
        <5>1. SubSeq(b, 1, i)[1] \in Unit
          <6> HIDE DEF c, b
          <6> QED
            BY <2>1, <3>1, LineMessage
        <5> QED
          BY <5>1 DEF Unit
      <4>2. messageReceived(n, c, SubSeq(b, 1, i)[1].msg)
        BY <2>2, <3>1
      <4> HIDE DEF c, b
      <4> QED
        BY <2>1, <4>1, <4>2, MessageTyped
    <3>2. CASE ~IsObject(SubSeq(b, 1, i))
      <4>1. UNCHANGED <<dial, sock, out, peerSessions, socketToPeer, sent, got>>
        BY <2>2, <3>2
      <4>2. Wiring'
        BY <4>1 DEF TypeInv, Wiring
      <4> QED
        BY <4>1, <4>2 DEF TypeInv, TypeOK
    <3> QED
      BY <3>1, <3>2
  <2>7. TypeOK'
    BY <2>3, <2>4, <2>5, <2>6 DEF TypeInv, TypeOK
  <2>8. BusyOnConnected'
    BY <2>5, <2>6, ConnAssumption DEF TypeInv, TypeOK, BusyOnConnected
  <2> QED
    BY <2>6, <2>7, <2>8 DEF TypeInv
<1>5. ASSUME NEW n \in Node, stop(n)
      PROVE  TypeInv'
  <2>1. \A q \in Node, c \in Conn :
          sock'[q][c] = IF q # n THEN sock[q][c] ELSE IF sock[n][c] = "none" THEN "none" ELSE "gone"
    BY <1>5 DEF stop, TypeInv, TypeOK
  <2>2. TypeOK'
    BY <1>5 DEF stop, TypeInv, TypeOK, SockState
  <2>3. Wiring'
    BY <1>5, <2>1 DEF stop, TypeInv, Wiring
  <2>4. BusyOnConnected'
    BY <1>5, <2>1 DEF stop, TypeInv, TypeOK, BusyOnConnected
  <2> QED
    BY <2>2, <2>3, <2>4 DEF TypeInv
<1>6. ASSUME NEW n \in Node, NEW p \in Node, send(n, p)
      PROVE  TypeInv'
  <2>1. PICK goal \in Goals[p] \ {n}, type \in {"chat", "share_request"} :
          sendTo(n, p, goal, peerSessions[n], socketToPeer[n],
                 [type |-> type, id |-> n, num |-> sends[n]])
    BY <1>6 DEF send, sendPayload
  <2>2. /\ [type |-> type, id |-> n, num |-> sends[n]] \in Message
        /\ goal \in Node \cup {NoNode} /\ goal # n
        /\ peerSessions[n] \in [Node -> Conn \cup {NoConn}]
        /\ socketToPeer[n] \in [Conn -> Node \cup {NoNode}]
    BY GoalsAssumption DEF TypeInv, TypeOK, Message, MsgType
  <2>3. /\ sends' = [sends EXCEPT ![n] = @ + 1]
        /\ UNCHANGED <<running, listening, pendingBuffers, busy, faults, got>>
    BY <1>6 DEF send, sendPayload
  <2>4. /\ dial' \in [Conn -> [from : Node \cup {NoNode}, peer : Node \cup {NoNode},
                               to : Node \cup {NoNode}]]
        /\ sock' \in [Node -> [Conn -> SockState]]
        /\ out' \in [Node -> [Conn -> Seq(Unit)]]
        /\ peerSessions' \in [Node -> [Node -> Conn \cup {NoConn}]]
        /\ socketToPeer' \in [Node -> [Conn -> Node \cup {NoNode}]]
        /\ sent' \in [Node -> [Conn -> Seq(Message)]]
        /\ Wiring'
        /\ \A q \in Node, c \in Conn : sock[q][c] = "connected" => sock'[q][c] = "connected"
    BY <2>1, <2>2, SendToTyped
  <2>5. TypeOK'
    <3>1. sends' \in [Node -> 0..MaxSends]
      BY <1>6, <2>3, BoundAssumption DEF send, sendPayload, TypeInv, TypeOK
    <3> QED
      BY <2>3, <2>4, <3>1 DEF TypeInv, TypeOK
  <2>6. BusyOnConnected'
    BY <2>3, <2>4 DEF TypeInv, TypeOK, BusyOnConnected
  <2> QED
    BY <2>4, <2>5, <2>6 DEF TypeInv
<1>7. ASSUME NEW c \in Conn, connectSucceeds(c)
      PROVE  TypeInv'
  <2>1. PICK n \in Node, q \in Node :
          /\ n # q /\ dial[c].from = n /\ dial[c].to = q
          /\ sock[n][c] = "connecting" /\ sock[q][c] = "none"
          /\ \A r \in Node, d \in Conn :
               sock'[r][d] = IF d # c \/ r \notin {n, q} THEN sock[r][d]
                             ELSE IF r = n THEN "connected" ELSE "backlog"
    BY <1>7, ConnectEffect
  <2>2. UNCHANGED <<running, listening, dial, out, tables, busy, sends, faults, sent, got>>
    BY <1>7 DEF connectSucceeds
  <2>3. sock' \in [Node -> [Conn -> SockState]]
    BY <1>7 DEF connectSucceeds, TypeInv, TypeOK, SockState
  <2>4. TypeOK'
    BY <2>2, <2>3 DEF TypeInv, TypeOK, tables
  <2>5. Wiring'
    <3> SUFFICES ASSUME NEW d \in Conn
                 PROVE  /\ dial'[d].from = NoNode => \A r \in Node : sock'[r][d] = "none"
                        /\ dial'[d].from # NoNode => dial'[d].to # dial'[d].from /\ dial'[d].peer \in Node
                        /\ \A r \in Node :
                             /\ sock'[r][d] \in {"connecting", "unconnected"} => dial'[d].from = r
                             /\ sock'[r][d] = "backlog" => dial'[d].to = r /\ dial'[d].from \in Node
                             /\ sock'[r][d] = "connected" => /\ r \in {dial'[d].from, dial'[d].to}
                                                             /\ dial'[d].from \in Node
                                                             /\ dial'[d].to \in Node
                             /\ sock'[r][d] = "connecting" =>
                                  \A s \in Node \ {r} : sock'[s][d] = "none"
      BY DEF Wiring
    <3>1. CASE d = c
      <4>1. \A r \in Node : sock[r][c] = "connecting" => r = n
        BY <2>1 DEF TypeInv, Wiring
      <4> QED
        BY <2>1, <2>2, <3>1, <4>1, NodeAssumption DEF TypeInv, Wiring
    <3>2. CASE d # c
      <4>1. dial'[d] = dial[d] /\ \A r \in Node : sock'[r][d] = sock[r][d]
        BY <2>1, <2>2, <3>2
      <4> QED
        BY <4>1 DEF TypeInv, Wiring
    <3> QED
      BY <3>1, <3>2
  <2>6. BusyOnConnected'
    <3>1. \A r \in Node, d \in Conn : sock[r][d] = "connected" => sock'[r][d] = "connected"
      BY <2>1
    <3> QED
      BY <2>2, <3>1 DEF TypeInv, TypeOK, BusyOnConnected
  <2> QED
    BY <2>4, <2>5, <2>6 DEF TypeInv
<1>8. ASSUME NEW c \in Conn, connectFails(c)
      PROVE  TypeInv'
  <2> DEFINE n == dial[c].from
  <2>1. /\ n \in Node
        /\ sock[n][c] = "connecting"
        /\ sock' = [sock EXCEPT ![n][c] = "unconnected"]
        /\ faults' \in Nat
        /\ UNCHANGED <<running, listening, dial, out, tables, busy, sends, sent, got>>
    BY <1>8, SMTT(30) DEF connectFails, TypeInv, TypeOK, Wiring
  <2>2. \A r \in Node, d \in Conn :
          sock'[r][d] = IF d = c /\ r = n THEN "unconnected" ELSE sock[r][d]
    BY <2>1 DEF TypeInv, TypeOK
  <2>3. TypeOK'
    BY <2>1 DEF TypeInv, TypeOK, tables, SockState
  <2>4. Wiring'
    BY <2>1, <2>2, NodeAssumption DEF TypeInv, Wiring
  <2>5. BusyOnConnected'
    BY <2>1, <2>2 DEF TypeInv, TypeOK, BusyOnConnected
  <2> QED
    BY <2>3, <2>4, <2>5 DEF TypeInv
<1>9. ASSUME NEW n \in Node, NEW c \in Conn, readSocket(n, c)
      PROVE  TypeInv'
  <2> DEFINE m == OtherEnd(n, c)
  <2>1. m \in Node /\ sock[n][c] = "connected"
    BY <1>9, ReadTyped DEF readSocket
  <2>2. PICK k \in 1..Len(out[m][c]) :
          LET bytes == pendingBuffers[n][c] \o SubSeq(out[m][c], 1, k)
          IN  /\ pendingBuffers' = [pendingBuffers EXCEPT ![n][c] = bytes]
              /\ out' = [out EXCEPT ![m][c] = SubSeq(@, k + 1, Len(@))]
              /\ busy' = [busy EXCEPT ![n] = IF HasLine(bytes) THEN c ELSE NoConn]
    BY <1>9 DEF readSocket
  <2>3. UNCHANGED <<running, listening, dial, sock, peerSessions, socketToPeer,
                    sends, faults, sent, got>>
    BY <1>9 DEF readSocket
  <2> HIDE DEF m
  <2>4. /\ SubSeq(out[m][c], 1, k) \in Seq(Unit)
        /\ SubSeq(out[m][c], k + 1, Len(out[m][c])) \in Seq(Unit)
    BY <2>1, PieceType DEF TypeInv, TypeOK
  <2>5. pendingBuffers[n][c] \o SubSeq(out[m][c], 1, k) \in Seq(Unit)
    BY <2>4, AppendLine DEF TypeInv, TypeOK
  <2>6. pendingBuffers' \in [Node -> [Conn -> Seq(Unit)]] /\ out' \in [Node -> [Conn -> Seq(Unit)]]
    BY <2>1, <2>2, <2>4, <2>5 DEF TypeInv, TypeOK
  <2>7. /\ busy' \in [Node -> Conn \cup {NoConn}]
        /\ \A q \in Node : busy'[q] = busy[q] \/ (q = n /\ busy'[q] \in {c, NoConn})
    BY <2>2 DEF TypeInv, TypeOK
  <2>8. TypeOK'
    BY <2>3, <2>6, <2>7 DEF TypeInv, TypeOK
  <2>9. Wiring'
    BY <2>3 DEF TypeInv, Wiring
  <2>10. BusyOnConnected'
    BY <2>1, <2>3, <2>7 DEF TypeInv, BusyOnConnected
  <2> QED
    BY <2>8, <2>9, <2>10 DEF TypeInv
<1>10. ASSUME NEW n \in Node, NEW c \in Conn, disconnected(n, c)
       PROVE  TypeInv'
  <2>1. /\ sock' = [sock EXCEPT ![n][c] = "gone"]
        /\ faults' \in Nat
        /\ UNCHANGED <<running, listening, dial, out, busy, sends, sent, got>>
        /\ busy[n] = NoConn
    BY <1>10 DEF disconnected, Idle, TypeInv, TypeOK
  <2>2. /\ peerSessions' \in [Node -> [Node -> Conn \cup {NoConn}]]
        /\ socketToPeer' \in [Node -> [Conn -> Node \cup {NoNode}]]
        /\ pendingBuffers' \in [Node -> [Conn -> Seq(Unit)]]
    BY <1>10 DEF disconnected, cleanupSocket, TypeInv, TypeOK
  <2>3. \A r \in Node, d \in Conn :
          sock'[r][d] = IF d = c /\ r = n THEN "gone" ELSE sock[r][d]
    BY <2>1 DEF TypeInv, TypeOK
  <2>4. TypeOK'
    BY <2>1, <2>2 DEF TypeInv, TypeOK, SockState
  <2>5. Wiring'
    BY <1>10, <2>1, <2>3 DEF TypeInv, Wiring, disconnected
  <2>6. BusyOnConnected'
    BY <2>1, <2>3 DEF TypeInv, TypeOK, BusyOnConnected
  <2> QED
    BY <2>4, <2>5, <2>6 DEF TypeInv
<1> QED
  BY <1>1, <1>2, <1>3, <1>4, <1>5, <1>6, <1>7, <1>8, <1>9, <1>10 DEF Next

\* Every variable keeps its type, whatever the interleaving.
THEOREM TypeCorrect == Spec => []TypeOK
<1>1. TypeInv => TypeOK
  BY DEF TypeInv
<1> QED
  BY <1>1, TypeInvInit, TypeInvNext, PTL DEF Spec

LEMMA SendToEffect ==
  ASSUME TypeInv,
         NEW n \in Node, NEW peer \in Node, NEW goal \in Node \cup {NoNode},
         NEW sessions \in [Node -> Conn \cup {NoConn}],
         NEW owners \in [Conn -> Node \cup {NoNode}],
         NEW m, sendTo(n, peer, goal, sessions, owners, m)
  PROVE  /\ \A q \in Node \ {n} : /\ peerSessions'[q] = peerSessions[q]
                                  /\ socketToPeer'[q] = socketToPeer[q]
         /\ \/ /\ Live(n, sessions[peer])
               /\ UNCHANGED <<dial, sock>>
               /\ peerSessions'[n] = sessions /\ socketToPeer'[n] = owners
            \/ /\ ~Live(n, sessions[peer])
               /\ \E c \in Conn :
                    /\ Fresh(c)
                    /\ \A q \in Node : sock[q][c] = "none"
                    /\ \A d \in Conn : dial'[d] = IF d = c
                         THEN [from |-> n, peer |-> peer, to |-> goal] ELSE dial[d]
                    /\ \A q \in Node, d \in Conn :
                         sock'[q][d] = IF q = n /\ d = c THEN "connecting" ELSE sock[q][d]
                    /\ \A p \in Node :
                         peerSessions'[n][p] = IF p = peer THEN c ELSE sessions[p]
                    /\ \A d \in Conn :
                         socketToPeer'[n][d] = IF d = c THEN peer ELSE owners[d]
<1>1. CASE Live(n, sessions[peer])
  BY <1>1 DEF sendTo, TypeInv, TypeOK
<1>2. CASE ~Live(n, sessions[peer])
  <2>1. PICK c \in Conn :
          /\ Fresh(c)
          /\ dial' = [dial EXCEPT ![c] = [from |-> n, peer |-> peer, to |-> goal]]
          /\ sock' = [sock EXCEPT ![n][c] = "connecting"]
          /\ peerSessions' = [peerSessions EXCEPT ![n] = [sessions EXCEPT ![peer] = c]]
          /\ socketToPeer' = [socketToPeer EXCEPT ![n] = [owners EXCEPT ![c] = peer]]
    BY <1>2 DEF sendTo
  <2>2. \A q \in Node : sock[q][c] = "none"
    BY <2>1 DEF Fresh, TypeInv, Wiring
  <2>3. \A q \in Node \ {n} : /\ peerSessions'[q] = peerSessions[q]
                              /\ socketToPeer'[q] = socketToPeer[q]
    BY <2>1 DEF TypeInv, TypeOK
  <2>4. /\ \A d \in Conn : dial'[d] = IF d = c
             THEN [from |-> n, peer |-> peer, to |-> goal] ELSE dial[d]
        /\ \A q \in Node, d \in Conn :
             sock'[q][d] = IF q = n /\ d = c THEN "connecting" ELSE sock[q][d]
    BY <2>1 DEF TypeInv, TypeOK
  <2>5. /\ \A p \in Node : peerSessions'[n][p] = IF p = peer THEN c ELSE sessions[p]
        /\ \A d \in Conn : socketToPeer'[n][d] = IF d = c THEN peer ELSE owners[d]
    BY <2>1 DEF TypeInv, TypeOK
  <2> QED
    BY <1>2, <2>1, <2>2, <2>3, <2>4, <2>5
<1> QED
  BY <1>1, <1>2

(***************************************************************************)
(* The tables of a router.  TablesOK is about the tables of one node as     *)
(* they stand in the middle of a handler, too.                              *)
(***************************************************************************)
TablesOK(n, sessions, owners) ==
  /\ \A c \in Conn : sock[n][c] \in {"none", "backlog", "gone"} => owners[c] = NoNode
  /\ \A p \in Node : sessions[p] # NoConn => sock[n][sessions[p]] \notin {"none", "backlog"}
  /\ \A c \in Conn : (dial[c].from = n /\ Live(n, c)) => sessions[dial[c].peer] = c

BuffersOK ==
  \A n \in Node, c \in Conn :
    sock[n][c] \in {"none", "backlog", "gone"} => pendingBuffers[n][c] = <<>>

TablesInv == BuffersOK /\ \A n \in Node : TablesOK(n, peerSessions[n], socketToPeer[n])

\* ensureSession keeps the tables in order when its caller has them in order.
LEMMA SendToTables ==
  ASSUME TypeInv,
         NEW n \in Node, NEW peer \in Node, NEW goal \in Node \cup {NoNode},
         NEW sessions \in [Node -> Conn \cup {NoConn}],
         NEW owners \in [Conn -> Node \cup {NoNode}],
         NEW m, sendTo(n, peer, goal, sessions, owners, m),
         TablesOK(n, sessions, owners),
         \A q \in Node \ {n} : TablesOK(q, peerSessions[q], socketToPeer[q])
  PROVE  /\ \A q \in Node : TablesOK(q, peerSessions[q], socketToPeer[q])'
         /\ \A q \in Node, c \in Conn :
              sock'[q][c] \in {"none", "backlog", "gone"} => sock'[q][c] = sock[q][c]
<1>1. CASE Live(n, sessions[peer])
  <2>1. /\ dial' = dial /\ sock' = sock
        /\ peerSessions'[n] = sessions /\ socketToPeer'[n] = owners
        /\ \A q \in Node \ {n} : /\ peerSessions'[q] = peerSessions[q]
                                  /\ socketToPeer'[q] = socketToPeer[q]
    BY <1>1, SendToEffect, Zenon
  <2> QED
    BY <2>1 DEF TablesOK, Live
<1>2. CASE ~Live(n, sessions[peer])
  <2>1. PICK c \in Conn :
          /\ Fresh(c)
          /\ \A q \in Node : sock[q][c] = "none"
          /\ \A d \in Conn : dial'[d] = IF d = c
               THEN [from |-> n, peer |-> peer, to |-> goal] ELSE dial[d]
          /\ \A q \in Node, d \in Conn :
               sock'[q][d] = IF q = n /\ d = c THEN "connecting" ELSE sock[q][d]
          /\ \A p \in Node : peerSessions'[n][p] = IF p = peer THEN c ELSE sessions[p]
          /\ \A d \in Conn : socketToPeer'[n][d] = IF d = c THEN peer ELSE owners[d]
    BY <1>2, SendToEffect, SMTT(60)
  <2>2. \A q \in Node \ {n} : /\ peerSessions'[q] = peerSessions[q]
                              /\ socketToPeer'[q] = socketToPeer[q]
    BY SendToEffect
  <2>3. TablesOK(n, peerSessions[n], socketToPeer[n])'
    <3>1. \A d \in Conn : sock'[n][d] \in {"none", "backlog", "gone"} => socketToPeer'[n][d] = NoNode
      BY <2>1 DEF TablesOK
    <3>2. \A p \in Node : peerSessions'[n][p] # NoConn =>
                             sock'[n][peerSessions'[n][p]] \notin {"none", "backlog"}
      <4> SUFFICES ASSUME NEW p \in Node, peerSessions'[n][p] # NoConn
                   PROVE  sock'[n][peerSessions'[n][p]] \notin {"none", "backlog"}
        OBVIOUS
      <4>1. CASE p = peer
        BY <2>1, <4>1
      <4>2. CASE p # peer
        <5>1. peerSessions'[n][p] = sessions[p] /\ sessions[p] \in Conn
          BY <2>1, <4>2
        <5> QED
          BY <2>1, <5>1 DEF TablesOK
      <4> QED
        BY <4>1, <4>2
    <3>3. \A d \in Conn : (dial'[d].from = n /\ sock'[n][d] \in {"connecting", "connected"})
                             => peerSessions'[n][dial'[d].peer] = d
      <4> SUFFICES ASSUME NEW d \in Conn, dial'[d].from = n,
                          sock'[n][d] \in {"connecting", "connected"}
                   PROVE  peerSessions'[n][dial'[d].peer] = d
        OBVIOUS
      <4>1. CASE d = c
        BY <2>1, <4>1
      <4>2. CASE d # c
        <5>1. dial'[d] = dial[d] /\ sock'[n][d] = sock[n][d] /\ d # NoConn
          BY <2>1, <4>2, ConnAssumption
        <5>2. Live(n, d) /\ sessions[dial[d].peer] = d
          BY <5>1 DEF TablesOK, Live
        <5>3. dial[d].peer # peer
          BY <1>2, <5>2
        <5>4. dial[d].peer \in Node
          BY <5>1, <5>2, NodeAssumption DEF TypeInv, TypeOK, Wiring
        <5> QED
          BY <2>1, <5>1, <5>2, <5>3, <5>4
      <4> QED
        BY <4>1, <4>2
    <3> QED
      BY <3>1, <3>2, <3>3 DEF TablesOK, Live
  <2>4. ASSUME NEW q \in Node \ {n}
        PROVE  TablesOK(q, peerSessions[q], socketToPeer[q])'
    <3>1. TablesOK(q, peerSessions[q], socketToPeer[q])
      OBVIOUS
    <3>2. \A p \in Node : peerSessions[q][p] \in Conn \cup {NoConn}
      BY DEF TypeInv, TypeOK
    <3> QED
      BY <2>1, <2>2, <3>1, <3>2 DEF TablesOK, Live
  <2> QED
    BY <2>1, <2>3, <2>4
<1> QED
  BY <1>1, <1>2

LEMMA TablesInit == Init => TablesInv
BY NodeAssumption, ConnAssumption DEF Init, TablesInv, TablesOK, BuffersOK, Live

\* A sender is registered on the socket its line came on.
LEMMA RegisterTables ==
  ASSUME TypeInv, NEW n \in Node, NEW c \in Conn, sock[n][c] = "connected",
         NEW p \in Node, TablesOK(n, peerSessions[n], socketToPeer[n])
  PROVE  /\ register(peerSessions[n], p, c) \in [Node -> Conn \cup {NoConn}]
         /\ [socketToPeer[n] EXCEPT ![c] = p] \in [Conn -> Node \cup {NoNode}]
         /\ TablesOK(n, register(peerSessions[n], p, c), [socketToPeer[n] EXCEPT ![c] = p])
<1> DEFINE sessions == register(peerSessions[n], p, c)
           owners   == [socketToPeer[n] EXCEPT ![c] = p]
<1>1. /\ sessions \in [Node -> Conn \cup {NoConn}]
      /\ owners \in [Conn -> Node \cup {NoNode}]
      /\ \A r \in Node : sessions[r] = IF r = p /\ peerSessions[n][p] = NoConn THEN c
                                       ELSE peerSessions[n][r]
      /\ \A d \in Conn : owners[d] = IF d = c THEN p ELSE socketToPeer[n][d]
  BY DEF register, TypeInv, TypeOK
<1> HIDE DEF sessions, owners
<1>2. \A d \in Conn : sock[n][d] \in {"none", "backlog", "gone"} => owners[d] = NoNode
  BY <1>1 DEF TablesOK
<1>3. \A r \in Node : sessions[r] # NoConn => sock[n][sessions[r]] \notin {"none", "backlog"}
  BY <1>1 DEF TablesOK
<1>4. \A d \in Conn : (dial[d].from = n /\ Live(n, d)) => sessions[dial[d].peer] = d
  <2> SUFFICES ASSUME NEW d \in Conn, dial[d].from = n, Live(n, d)
               PROVE  sessions[dial[d].peer] = d
    OBVIOUS
  <2>1. peerSessions[n][dial[d].peer] = d
    BY DEF TablesOK
  <2>2. dial[d].peer \in Node
    BY NodeAssumption DEF TypeInv, Wiring
  <2> QED
    BY <1>1, <2>1, <2>2, ConnAssumption
<1>5. TablesOK(n, sessions, owners)
  BY <1>2, <1>3, <1>4 DEF TablesOK
<1> QED
  BY <1>1, <1>5 DEF sessions, owners

LEMMA TablesNext == TypeInv /\ TypeInv' /\ TablesInv /\ [Next]_vars => TablesInv'
<1> SUFFICES ASSUME TypeInv, TypeInv', TablesInv, [Next]_vars
             PROVE  TablesInv'
  OBVIOUS
<1>1. ASSUME UNCHANGED dial, UNCHANGED sock, UNCHANGED peerSessions,
             UNCHANGED socketToPeer, UNCHANGED pendingBuffers
      PROVE  TablesInv'
  BY <1>1 DEF TablesInv, TablesOK, BuffersOK, Live
<1>2. CASE UNCHANGED vars
  BY <1>1, <1>2 DEF vars
<1>3. ASSUME NEW n \in Node, startListening(n)
      PROVE  TablesInv'
  BY <1>1, <1>3 DEF startListening, wires, tables
<1>4. ASSUME NEW n \in Node, handleNewConnection(n)
      PROVE  TablesInv'
  <2>1. /\ \A q \in Node, c \in Conn :
             sock'[q][c] = IF q = n /\ sock[q][c] = "backlog" THEN "connected" ELSE sock[q][c]
        /\ UNCHANGED <<dial, peerSessions, socketToPeer, pendingBuffers>>
    BY <1>4 DEF handleNewConnection, TypeInv, TypeOK, tables
  <2>2. \A c \in Conn : sock[n][c] = "backlog" => dial[c].from # n
    BY DEF TypeInv, Wiring
  <2>3. BuffersOK'
    BY <2>1 DEF TablesInv, BuffersOK
  <2>4. ASSUME NEW q \in Node
        PROVE  TablesOK(q, peerSessions[q], socketToPeer[q])'
    <3>1. \A p \in Node : peerSessions[q][p] \in Conn \cup {NoConn}
      BY DEF TypeInv, TypeOK
    <3> QED
      BY <2>1, <2>2, <3>1 DEF TablesInv, TablesOK, Live
  <2> QED
    BY <2>3, <2>4 DEF TablesInv
<1>5. ASSUME NEW n \in Node, readLine(n)
      PROVE  TablesInv'
  <2> DEFINE c == busy[n]
             b == pendingBuffers[n][c]
  <2>1. c \in Conn /\ b \in Seq(Unit) /\ sock[n][c] = "connected"
    BY <1>5 DEF readLine, TypeInv, TypeOK, BusyOnConnected
  <2>2. PICK i \in 1..Len(b) :
          /\ pendingBuffers' = [pendingBuffers EXCEPT ![n][c] = SubSeq(b, i + 1, Len(b))]
          /\ IF IsObject(SubSeq(b, 1, i))
             THEN messageReceived(n, c, SubSeq(b, 1, i)[1].msg)
             ELSE UNCHANGED <<dial, sock, out, peerSessions, socketToPeer, sent, got>>
    BY <1>5 DEF readLine
  <2>3. /\ \A q \in Node : TablesOK(q, peerSessions[q], socketToPeer[q])'
        /\ \A q \in Node, d \in Conn :
             sock'[q][d] \in {"none", "backlog", "gone"} => sock'[q][d] = sock[q][d]
    <3>1. CASE ~IsObject(SubSeq(b, 1, i))
      BY <2>2, <3>1 DEF TablesInv, TablesOK, Live
    <3>2. CASE IsObject(SubSeq(b, 1, i))
      <4> DEFINE m == SubSeq(b, 1, i)[1].msg
                 sessions == register(peerSessions[n], m.id, c)
                 owners == [socketToPeer[n] EXCEPT ![c] = m.id]
      <4>1. SubSeq(b, 1, i)[1] \in Unit
        <5> HIDE DEF c, b
        <5> QED
          BY <2>1, <3>2, LineMessage
      <4>2. m \in Message /\ m.id \in Node
        BY <4>1 DEF Unit, Message
      <4>3. messageReceived(n, c, m)
        BY <2>2, <3>2
      <4> HIDE DEF m, c, b
      <4>4. /\ sessions \in [Node -> Conn \cup {NoConn}]
            /\ owners \in [Conn -> Node \cup {NoNode}]
            /\ TablesOK(n, sessions, owners)
        BY <2>1, <4>2, RegisterTables DEF TablesInv
      <4>5. CASE sendTo(n, m.id, endpoint(n, c), sessions, owners,
                        [type |-> "share_catalog", id |-> n, num |-> m.num])
        <5> HIDE DEF sessions, owners
        <5> QED
          BY <2>1, <4>2, <4>4, <4>5, EndpointType, SendToTables DEF TablesInv
      <4>6. CASE /\ peerSessions' = [peerSessions EXCEPT ![n] = sessions]
                 /\ socketToPeer' = [socketToPeer EXCEPT ![n] = owners]
                 /\ UNCHANGED <<dial, sock, out, sent>>
        <5> HIDE DEF sessions, owners
        <5>1. \A q \in Node : /\ peerSessions'[q] = IF q = n THEN sessions ELSE peerSessions[q]
                              /\ socketToPeer'[q] = IF q = n THEN owners ELSE socketToPeer[q]
          BY <4>6 DEF TypeInv, TypeOK
        <5> QED
          BY <4>4, <4>6, <5>1 DEF TablesInv, TablesOK, Live
      <4> QED
        BY <4>3, <4>5, <4>6 DEF messageReceived
    <3> QED
      BY <3>1, <3>2
  <2>4. BuffersOK'
    <3>1. \A q \in Node, d \in Conn : sock[q][d] \in {"none", "backlog", "gone"} =>
                                        pendingBuffers'[q][d] = pendingBuffers[q][d]
      BY <2>1, <2>2 DEF TypeInv, TypeOK
    <3> QED
      BY <2>3, <3>1 DEF TablesInv, BuffersOK
  <2> QED
    BY <2>3, <2>4 DEF TablesInv
<1>6. ASSUME NEW n \in Node, stop(n)
      PROVE  TablesInv'
  <2>1. /\ \A q \in Node, c \in Conn :
             sock'[q][c] = IF q # n THEN sock[q][c]
                           ELSE IF sock[n][c] = "none" THEN "none" ELSE "gone"
        /\ \A p \in Node : peerSessions'[n][p] = NoConn
        /\ \A c \in Conn : socketToPeer'[n][c] = NoNode /\ pendingBuffers'[n][c] = <<>>
        /\ \A q \in Node \ {n} : /\ peerSessions'[q] = peerSessions[q]
                                 /\ socketToPeer'[q] = socketToPeer[q]
                                 /\ pendingBuffers'[q] = pendingBuffers[q]
        /\ dial' = dial
    BY <1>6 DEF stop, TypeInv, TypeOK
  <2>2. BuffersOK'
    BY <2>1 DEF TablesInv, BuffersOK
  <2>3. ASSUME NEW q \in Node
        PROVE  TablesOK(q, peerSessions[q], socketToPeer[q])'
    <3>1. \A p \in Node : peerSessions[q][p] \in Conn \cup {NoConn}
      BY DEF TypeInv, TypeOK
    <3>2. CASE q = n
      BY <2>1, <3>2 DEF TablesOK, Live
    <3>3. CASE q # n
      BY <2>1, <3>1, <3>3 DEF TablesInv, TablesOK, Live
    <3> QED
      BY <3>2, <3>3
  <2> QED
    BY <2>2, <2>3 DEF TablesInv
<1>7. ASSUME NEW n \in Node, NEW p \in Node, send(n, p)
      PROVE  TablesInv'
  <2>1. PICK goal \in Goals[p] \ {n}, type \in {"chat", "share_request"} :
          sendTo(n, p, goal, peerSessions[n], socketToPeer[n],
                 [type |-> type, id |-> n, num |-> sends[n]])
    BY <1>7 DEF send, sendPayload
  <2>2. /\ goal \in Node \cup {NoNode}
        /\ peerSessions[n] \in [Node -> Conn \cup {NoConn}]
        /\ socketToPeer[n] \in [Conn -> Node \cup {NoNode}]
    BY GoalsAssumption DEF TypeInv, TypeOK
  <2>3. /\ \A q \in Node : TablesOK(q, peerSessions[q], socketToPeer[q])'
        /\ \A q \in Node, c \in Conn :
             sock'[q][c] \in {"none", "backlog", "gone"} => sock'[q][c] = sock[q][c]
    BY <2>1, <2>2, SendToTables DEF TablesInv
  <2>4. pendingBuffers' = pendingBuffers
    BY <1>7 DEF send, sendPayload
  <2> QED
    BY <2>3, <2>4 DEF TablesInv, BuffersOK
<1>8. ASSUME NEW c \in Conn, connectSucceeds(c)
      PROVE  TablesInv'
  <2>1. PICK n \in Node, q \in Node :
          /\ n # q /\ dial[c].from = n /\ dial[c].to = q
          /\ sock[n][c] = "connecting" /\ sock[q][c] = "none"
          /\ \A r \in Node, d \in Conn :
               sock'[r][d] = IF d # c \/ r \notin {n, q} THEN sock[r][d]
                             ELSE IF r = n THEN "connected" ELSE "backlog"
    BY <1>8, ConnectEffect
  <2>2. UNCHANGED <<dial, peerSessions, socketToPeer, pendingBuffers>>
    BY <1>8 DEF connectSucceeds, tables
  <2>3. BuffersOK'
    BY <2>1, <2>2 DEF TablesInv, BuffersOK
  <2>4. ASSUME NEW r \in Node
        PROVE  TablesOK(r, peerSessions[r], socketToPeer[r])'
    <3>1. TablesOK(r, peerSessions[r], socketToPeer[r])
      BY DEF TablesInv
    <3>2. \A d \in Conn : sock'[r][d] \in {"none", "backlog", "gone"} => socketToPeer'[r][d] = NoNode
      BY <2>1, <2>2, <3>1 DEF TablesOK
    <3>3. \A p \in Node : peerSessions'[r][p] # NoConn =>
                             sock'[r][peerSessions'[r][p]] \notin {"none", "backlog"}
      <4>1. \A p \in Node : peerSessions[r][p] \in Conn \cup {NoConn}
        BY DEF TypeInv, TypeOK
      <4> QED
        BY <2>1, <2>2, <3>1, <4>1 DEF TablesOK
    <3>4. \A d \in Conn : (dial'[d].from = r /\ Live(r, d)') => peerSessions'[r][dial'[d].peer] = d
      BY <2>1, <2>2, <3>1 DEF TablesOK, Live
    <3> QED
      BY <3>2, <3>3, <3>4 DEF TablesOK
  <2> QED
    BY <2>3, <2>4 DEF TablesInv
<1>9. ASSUME NEW c \in Conn, connectFails(c)
      PROVE  TablesInv'
  <2>1. PICK n \in Node : dial[c].from = n /\ sock' = [sock EXCEPT ![n][c] = "unconnected"]
    BY <1>9 DEF connectFails, TypeInv, TypeOK
  <2>2. \A r \in Node, d \in Conn :
          sock'[r][d] = IF d = c /\ r = n THEN "unconnected" ELSE sock[r][d]
    <3>1. sock \in [Node -> [Conn -> SockState]]
      BY DEF TypeInv, TypeOK
    <3> QED
      BY <2>1, <3>1
  <2>3. UNCHANGED <<dial, peerSessions, socketToPeer, pendingBuffers>>
    BY <1>9 DEF connectFails, tables
  <2>4. BuffersOK'
    BY <2>2, <2>3 DEF TablesInv, BuffersOK
  <2>5. ASSUME NEW q \in Node
        PROVE  TablesOK(q, peerSessions[q], socketToPeer[q])'
    <3>1. \A p \in Node : peerSessions[q][p] \in Conn \cup {NoConn}
      BY DEF TypeInv, TypeOK
    <3> QED
      BY <2>2, <2>3, <3>1 DEF TablesInv, TablesOK, Live
  <2> QED
    BY <2>4, <2>5 DEF TablesInv
<1>10. ASSUME NEW n \in Node, NEW c \in Conn, readSocket(n, c)
       PROVE  TablesInv'
  <2>1. /\ UNCHANGED <<dial, sock, peerSessions, socketToPeer>>
        /\ sock[n][c] = "connected"
    BY <1>10 DEF readSocket
  <2>2. PICK bytes : pendingBuffers' = [pendingBuffers EXCEPT ![n][c] = bytes]
    BY <1>10 DEF readSocket
  <2>3. \A q \in Node, d \in Conn : sock[q][d] \in {"none", "backlog", "gone"} =>
                                      pendingBuffers'[q][d] = pendingBuffers[q][d]
    BY <2>1, <2>2 DEF TypeInv, TypeOK
  <2>4. BuffersOK'
    BY <2>1, <2>3 DEF TablesInv, BuffersOK
  <2> QED
    BY <2>1, <2>4 DEF TablesInv, TablesOK, Live
<1>11. ASSUME NEW n \in Node, NEW c \in Conn, disconnected(n, c)
       PROVE  TablesInv'
  <2>1. /\ \A q \in Node, d \in Conn :
             sock'[q][d] = IF d = c /\ q = n THEN "gone" ELSE sock[q][d]
        /\ dial' = dial
    <3>1. /\ "gone" \in SockState /\ sock' = [sock EXCEPT ![n][c] = "gone"]
          /\ dial' = dial
      BY <1>11 DEF disconnected, SockState
    <3> QED
      BY <3>1, OneSocketEffect
  <2>2. /\ \A d \in Conn : /\ socketToPeer'[n][d] = IF d = c THEN NoNode ELSE socketToPeer[n][d]
                           /\ pendingBuffers'[n][d] = IF d = c THEN <<>> ELSE pendingBuffers[n][d]
        /\ \A p \in Node : peerSessions'[n][p] =
             IF p = socketToPeer[n][c] /\ peerSessions[n][p] = c THEN NoConn ELSE peerSessions[n][p]
        /\ \A q \in Node \ {n} : /\ peerSessions'[q] = peerSessions[q]
                                 /\ socketToPeer'[q] = socketToPeer[q]
                                 /\ pendingBuffers'[q] = pendingBuffers[q]
    BY <1>11 DEF disconnected, cleanupSocket, TypeInv, TypeOK
  <2>3. BuffersOK'
    BY <2>1, <2>2 DEF TablesInv, BuffersOK
  <2>4. ASSUME NEW q \in Node
        PROVE  TablesOK(q, peerSessions[q], socketToPeer[q])'
    <3>1. /\ TablesOK(q, peerSessions[q], socketToPeer[q])
          /\ \A p \in Node : peerSessions[q][p] \in Conn \cup {NoConn}
      BY DEF TypeInv, TypeOK, TablesInv
    <3>2. CASE q # n
      BY <2>1, <2>2, <3>1, <3>2 DEF TablesOK, Live
    <3>3. CASE q = n
      <4>1. \A d \in Conn : sock'[n][d] \in {"none", "backlog", "gone"} => socketToPeer'[n][d] = NoNode
        BY <2>1, <2>2, <3>1, <3>3 DEF TablesOK
      <4>2. \A p \in Node : peerSessions'[n][p] # NoConn =>
                               sock'[n][peerSessions'[n][p]] \notin {"none", "backlog"}
        BY <2>1, <2>2, <3>1, <3>3 DEF TablesOK
      <4>3. \A d \in Conn : (dial'[d].from = n /\ Live(n, d)') => peerSessions'[n][dial'[d].peer] = d
        <5> SUFFICES ASSUME NEW d \in Conn, dial'[d].from = n, Live(n, d)'
                     PROVE  peerSessions'[n][dial'[d].peer] = d
          OBVIOUS
        <5>1. d # c /\ Live(n, d) /\ dial'[d] = dial[d]
          BY <2>1 DEF Live
        <5>2. peerSessions[n][dial[d].peer] = d /\ dial[d].peer \in Node
          BY <3>1, <3>3, <5>1, NodeAssumption DEF TablesOK, TypeInv, Wiring
        <5> QED
          BY <2>2, <5>1, <5>2
      <4> QED
        BY <3>3, <4>1, <4>2, <4>3 DEF TablesOK
    <3> QED
      BY <3>2, <3>3
  <2> QED
    BY <2>3, <2>4 DEF TablesInv
<1> QED
  BY <1>2, <1>3, <1>4, <1>5, <1>6, <1>7, <1>8, <1>9, <1>10, <1>11 DEF Next

\* One dial per peer, for any schedule: a living socket the node opened itself is
\* the session of the peer it was opened for.
THEOREM OneDialPerPeer == Spec => []OwnDialIsSession
<1>1. TypeInv /\ TablesInv => OwnDialIsSession
  BY DEF TablesInv, TablesOK, OwnDialIsSession
<1> QED
  BY <1>1, TypeInvInit, TypeInvNext, TablesInit, TablesNext, PTL DEF Spec

\* A deleted socket leaves no key behind.
THEOREM NoDanglingKey == Spec => []NoKeyForGoneSocket
<1>1. TypeInv /\ TablesInv => NoKeyForGoneSocket
  BY DEF TablesInv, TablesOK, BuffersOK, NoKeyForGoneSocket
<1> QED
  BY <1>1, TypeInvInit, TypeInvNext, TablesInit, TablesNext, PTL DEF Spec

(***************************************************************************)
(* The action of a step on the session of one peer.                         *)
(***************************************************************************)
LEMMA SendToSticky ==
  ASSUME TypeInv,
         NEW n \in Node, NEW peer \in Node, NEW goal \in Node \cup {NoNode},
         NEW sessions \in [Node -> Conn \cup {NoConn}],
         NEW owners \in [Conn -> Node \cup {NoNode}],
         NEW m, sendTo(n, peer, goal, sessions, owners, m)
  PROVE  /\ \A q \in Node \ {n} : peerSessions'[q] = peerSessions[q]
         /\ \A p \in Node : Live(n, sessions[p]) => peerSessions'[n][p] = sessions[p]
<1>1. CASE Live(n, sessions[peer])
  BY <1>1 DEF sendTo, TypeInv, TypeOK
<1>2. CASE ~Live(n, sessions[peer])
  <2>1. PICK c \in Conn :
          peerSessions' = [peerSessions EXCEPT ![n] = [sessions EXCEPT ![peer] = c]]
    BY <1>2 DEF sendTo
  <2> QED
    BY <1>2, <2>1 DEF TypeInv, TypeOK
<1> QED
  BY <1>1, <1>2

LEMMA StickyStep ==
  ASSUME TypeInv, TablesInv, [Next]_vars,
         NEW n \in Node, NEW p \in Node, NEW c \in Conn,
         peerSessions[n][p] = c, Live(n, c), Live(n, c)'
  PROVE  peerSessions'[n][p] = c
<1>1. CASE UNCHANGED peerSessions
  BY <1>1
<1>2. ASSUME NEW q \in Node, readLine(q)
      PROVE  peerSessions'[n][p] = c
  <2> DEFINE e == busy[q]
             b == pendingBuffers[q][e]
  <2>1. e \in Conn /\ b \in Seq(Unit) /\ sock[q][e] = "connected"
    BY <1>2 DEF readLine, TypeInv, TypeOK, BusyOnConnected
  <2>2. PICK i \in 1..Len(b) :
          IF IsObject(SubSeq(b, 1, i))
          THEN messageReceived(q, e, SubSeq(b, 1, i)[1].msg)
          ELSE UNCHANGED <<dial, sock, out, peerSessions, socketToPeer, sent, got>>
    BY <1>2 DEF readLine
  <2>3. CASE ~IsObject(SubSeq(b, 1, i))
    BY <2>2, <2>3
  <2>4. CASE IsObject(SubSeq(b, 1, i))
    <3> DEFINE m == SubSeq(b, 1, i)[1].msg
               sessions == register(peerSessions[q], m.id, e)
               owners == [socketToPeer[q] EXCEPT ![e] = m.id]
    <3>1. SubSeq(b, 1, i)[1] \in Unit
      <4> HIDE DEF e, b
      <4> QED
        BY <2>1, <2>4, LineMessage
    <3>2. m \in Message /\ m.id \in Node
      BY <3>1 DEF Unit, Message
    <3>3. messageReceived(q, e, m)
      BY <2>2, <2>4
    <3> HIDE DEF m, e, b
    <3>4. /\ sessions \in [Node -> Conn \cup {NoConn}]
          /\ owners \in [Conn -> Node \cup {NoNode}]
      BY <2>1, <3>2, RegisterTables DEF TablesInv
    <3>5. q = n => sessions[p] = c
      BY <3>2, ConnAssumption DEF register, TypeInv, TypeOK
    <3>6. CASE sendTo(q, m.id, endpoint(q, e), sessions, owners,
                      [type |-> "share_catalog", id |-> q, num |-> m.num])
      <4> HIDE DEF sessions, owners
      <4> QED
        <5>1. /\ \A r \in Node \ {q} : peerSessions'[r] = peerSessions[r]
              /\ \A r \in Node : Live(q, sessions[r]) => peerSessions'[q][r] = sessions[r]
          <6>1. endpoint(q, e) \in Node \cup {NoNode} /\ endpoint(q, e) # q
            BY <2>1, EndpointType
          <6>2. PICK goal \in Node \cup {NoNode} : goal = endpoint(q, e) /\ goal # q
            BY <6>1
          <6>3. PICK answer : answer = [type |-> "share_catalog", id |-> q, num |-> m.num]
            OBVIOUS
          <6>4. PICK peer \in Node : peer = m.id
            BY <3>2
          <6>5. PICK ours \in [Node -> Conn \cup {NoConn}],
                     theirs \in [Conn -> Node \cup {NoNode}] :
                  ours = sessions /\ theirs = owners
            BY <3>4
          <6>6. sendTo(q, peer, goal, ours, theirs, answer)
            BY <3>6, <6>2, <6>3, <6>4, <6>5
          <6>7. /\ \A r \in Node \ {q} : peerSessions'[r] = peerSessions[r]
                /\ \A r \in Node : Live(q, ours[r]) => peerSessions'[q][r] = ours[r]
            BY <6>6, SendToSticky, ZenonT(120)
          <6> QED
            BY <6>5, <6>7
        <5> QED
          BY <3>5, <5>1
    <3>7. CASE peerSessions' = [peerSessions EXCEPT ![q] = sessions]
      <4> HIDE DEF sessions, owners
      <4> QED
        BY <3>4, <3>5, <3>7 DEF TypeInv, TypeOK
    <3> QED
      BY <3>3, <3>6, <3>7 DEF messageReceived
  <2> QED
    BY <2>3, <2>4
<1>3. ASSUME NEW q \in Node, stop(q)
      PROVE  peerSessions'[n][p] = c
  <2>1. q # n
    BY <1>3 DEF stop, Live, TypeInv, TypeOK
  <2> QED
    BY <1>3, <2>1 DEF stop, TypeInv, TypeOK
<1>4. ASSUME NEW q \in Node, NEW r \in Node, send(q, r)
      PROVE  peerSessions'[n][p] = c
  <2>1. \/ UNCHANGED peerSessions
        \/ ~Live(q, peerSessions[q][r])
             /\ \E d \in Conn : peerSessions' = [peerSessions EXCEPT ![q][r] = d]
    <3>1. PICK goal, m : sendTo(q, r, goal, peerSessions[q], socketToPeer[q], m)
      BY <1>4 DEF send, sendPayload
    <3>2. CASE Live(q, peerSessions[q][r])
      BY <3>1, <3>2 DEF sendTo, TypeInv, TypeOK
    <3>3. CASE ~Live(q, peerSessions[q][r])
      <4>1. PICK d \in Conn :
              peerSessions' = [peerSessions EXCEPT ![q] = [peerSessions[q] EXCEPT ![r] = d]]
        BY <3>1, <3>3 DEF sendTo
      <4> QED
        BY <3>3, <4>1
    <3> QED
      BY <3>2, <3>3
  <2>2. CASE \E d \in Conn :
               ~Live(q, peerSessions[q][r]) /\ peerSessions' = [peerSessions EXCEPT ![q][r] = d]
    <3>1. ~(q = n /\ r = p)
      BY <2>2, Zenon
    <3> QED
      BY <2>2, <3>1 DEF TypeInv, TypeOK
  <2> QED
    BY <2>1, <2>2
<1>5. ASSUME NEW q \in Node, NEW d \in Conn, disconnected(q, d)
      PROVE  peerSessions'[n][p] = c
  <2>1. ~(q = n /\ d = c)
    BY <1>5 DEF disconnected, Live, TypeInv, TypeOK
  <2> QED
    BY <1>5, <2>1 DEF disconnected, cleanupSocket, TypeInv, TypeOK
<1>6. \/ UNCHANGED peerSessions
      \/ \E q \in Node : readLine(q) \/ stop(q)
      \/ \E q, r \in Node : send(q, r)
      \/ \E q \in Node, d \in Conn : disconnected(q, d)
  BY DEF Next, vars, startListening, handleNewConnection, connectSucceeds, connectFails,
         readSocket, tables
<1> QED
  BY <1>1, <1>2, <1>3, <1>4, <1>5, <1>6

\* Traffic with a peer stays on one connection while that connection lives.
THEOREM StickySessions == Spec => SessionIsSticky
<1>1. TypeInv /\ TablesInv /\ [Next]_vars =>
        [\A n, p \in Node, c \in Conn :
           (peerSessions[n][p] = c /\ Live(n, c) /\ Live(n, c)')
             => peerSessions'[n][p] = c]_vars
  BY StickyStep
<1> QED
  BY <1>1, TypeInvInit, TypeInvNext, TablesInit, TablesNext, PTL DEF Spec, SessionIsSticky

(***************************************************************************)
(* No complete line is left in a buffer nobody is reading.                  *)
(***************************************************************************)
LEMMA NoLineNext == TypeInv /\ NoLineLeftBehind /\ [Next]_vars => NoLineLeftBehind'
<1> SUFFICES ASSUME TypeInv, NoLineLeftBehind, [Next]_vars
             PROVE  NoLineLeftBehind'
  OBVIOUS
<1>1. CASE UNCHANGED pendingBuffers /\ UNCHANGED busy
  BY <1>1 DEF NoLineLeftBehind
<1>2. ASSUME NEW n \in Node, readLine(n)
      PROVE  NoLineLeftBehind'
  <2>1. PICK rest : /\ pendingBuffers' = [pendingBuffers EXCEPT ![n][busy[n]] = rest]
                    /\ busy' = [busy EXCEPT ![n] = again(n, rest)]
    BY <1>2 DEF readLine
  <2>2. ASSUME NEW q \in Node, NEW d \in Conn, busy'[q] # d
        PROVE  ~HasLine(pendingBuffers'[q][d])
    <3>1. CASE q = n /\ d = busy[n]
      BY <2>1, <2>2, <3>1 DEF again, TypeInv, TypeOK
    <3>2. CASE q = n /\ d # busy[n]
      BY <2>1, <3>2 DEF NoLineLeftBehind, TypeInv, TypeOK
    <3>3. CASE q # n
      BY <2>1, <2>2, <3>3 DEF NoLineLeftBehind, TypeInv, TypeOK
    <3> QED
      BY <3>1, <3>2, <3>3
  <2> QED
    BY <2>2 DEF NoLineLeftBehind
<1>3. ASSUME NEW n \in Node, stop(n)
      PROVE  NoLineLeftBehind'
  <2>1. \A q \in Node, d \in Conn :
          /\ pendingBuffers'[q][d] = IF q = n THEN <<>> ELSE pendingBuffers[q][d]
          /\ q # n => busy'[q] = busy[q]
    BY <1>3 DEF stop, TypeInv, TypeOK
  <2>2. ~HasLine(<<>>)
    BY DEF HasLine
  <2> QED
    BY <2>1, <2>2 DEF NoLineLeftBehind
<1>4. ASSUME NEW n \in Node, NEW c \in Conn, readSocket(n, c)
      PROVE  NoLineLeftBehind'
  <2>1. PICK bytes :
          /\ pendingBuffers' = [pendingBuffers EXCEPT ![n][c] = bytes]
          /\ busy' = [busy EXCEPT ![n] = IF HasLine(bytes) THEN c ELSE NoConn]
    BY <1>4 DEF readSocket
  <2>2. busy[n] = NoConn
    BY <1>4 DEF readSocket, Idle
  <2>3. \A q \in Node, d \in Conn :
          /\ pendingBuffers'[q][d] = IF q = n /\ d = c THEN bytes ELSE pendingBuffers[q][d]
          /\ busy'[q] = IF q # n THEN busy[q] ELSE IF HasLine(bytes) THEN c ELSE NoConn
    BY <2>1 DEF TypeInv, TypeOK
  <2> QED
    BY <2>2, <2>3, ConnAssumption DEF NoLineLeftBehind
<1>5. ASSUME NEW n \in Node, NEW c \in Conn, disconnected(n, c)
      PROVE  NoLineLeftBehind'
  <2>1. /\ \A q \in Node, d \in Conn :
             pendingBuffers'[q][d] = IF q = n /\ d = c THEN <<>> ELSE pendingBuffers[q][d]
        /\ busy' = busy
    BY <1>5 DEF disconnected, cleanupSocket, TypeInv, TypeOK
  <2>2. ~HasLine(<<>>)
    BY DEF HasLine
  <2> QED
    BY <2>1, <2>2 DEF NoLineLeftBehind
<1>6. \/ UNCHANGED pendingBuffers /\ UNCHANGED busy
      \/ \E q \in Node : readLine(q) \/ stop(q)
      \/ \E q \in Node, d \in Conn : readSocket(q, d) \/ disconnected(q, d)
  BY DEF Next, vars, startListening, handleNewConnection, connectSucceeds, connectFails,
         send, sendPayload, tables
<1> QED
  BY <1>1, <1>2, <1>3, <1>4, <1>5, <1>6

\* readSocket never leaves a complete line unread, however the bytes are split.
THEOREM EveryLineIsRead == Spec => []NoLineLeftBehind
<1>1. Init => NoLineLeftBehind
  BY DEF Init, NoLineLeftBehind, HasLine
<1> QED
  BY <1>1, TypeInvInit, TypeInvNext, NoLineNext, PTL DEF Spec

(***************************************************************************)
(* The bytes between two ends.  After the first g of the messages s were    *)
(* emitted, what is in the buffer b and then what is still on the way, o,   *)
(* are the lines of the others: the first half of a message is odd, the     *)
(* second, with the newline, is even.                                       *)
(***************************************************************************)
UnitAt(s, i) == [msg |-> s[(i + 1) \div 2], end |-> i % 2 = 0]

Framed(s, g, b, o) ==
  /\ 2 * g + Len(b) + Len(o) = 2 * Len(s)
  /\ \A i \in 1..Len(b) : b[i] = UnitAt(s, 2 * g + i)
  /\ \A i \in 1..Len(o) : o[i] = UnitAt(s, 2 * g + Len(b) + i)

\* The two halves of message g + 1.
LEMMA UnitHalves ==
  ASSUME NEW s, NEW g \in Nat
  PROVE  /\ UnitAt(s, 2 * g + 1) = [msg |-> s[g + 1], end |-> FALSE]
         /\ UnitAt(s, 2 * g + 2) = [msg |-> s[g + 1], end |-> TRUE]
<1>1. (2 * g + 1 + 1) \div 2 = g + 1 /\ ((2 * g + 1) % 2 = 0) = FALSE
  OBVIOUS
<1>2. (2 * g + 2 + 1) \div 2 = g + 1 /\ ((2 * g + 2) % 2 = 0) = TRUE
  OBVIOUS
<1> QED
  BY <1>1, <1>2, Zenon DEF UnitAt

LEMMA ConcatParts ==
  ASSUME NEW U, NEW a \in Seq(U), NEW c \in Seq(U)
  PROVE  /\ Len(a) \in Nat /\ Len(c) \in Nat /\ Len(a \o c) = Len(a) + Len(c)
         /\ \A i \in 1..Len(a) : (a \o c)[i] = a[i]
         /\ \A i \in 1..Len(c) : (a \o c)[Len(a) + i] = c[i]
<1>1. Len(a) \in Nat /\ Len(c) \in Nat
  BY LenProperties
<1>2. /\ Len(a \o c) = Len(a) + Len(c)
      /\ \A i \in 1..(Len(a) + Len(c)) : (a \o c)[i] = IF i <= Len(a) THEN a[i] ELSE c[i - Len(a)]
  BY ConcatProperties
<1> QED
  BY <1>1, <1>2

LEMMA SubSeqParts ==
  ASSUME NEW U, NEW a \in Seq(U), NEW k \in 1..Len(a)
  PROVE  /\ Len(a) \in Nat
         /\ Len(SubSeq(a, 1, k)) = k
         /\ \A i \in 1..k : SubSeq(a, 1, k)[i] = a[i]
         /\ Len(SubSeq(a, k + 1, Len(a))) = Len(a) - k
         /\ \A i \in 1..(Len(a) - k) : SubSeq(a, k + 1, Len(a))[i] = a[i + k]
<1>1. Len(a) \in Nat /\ \A i \in 1..Len(a) : a[i] \in U
  BY LenProperties, ElementOfSeq
<1>2. /\ Len(SubSeq(a, 1, k)) = k
      /\ \A i \in 1..k : SubSeq(a, 1, k)[i] = a[i]
  BY <1>1, SubSeqProperties
<1>3. /\ Len(SubSeq(a, k + 1, Len(a))) = Len(a) - k
      /\ \A i \in 1..(Len(a) - k) : SubSeq(a, k + 1, Len(a))[i] = a[i + k]
  BY <1>1, SubSeqProperties
<1> QED
  BY <1>1, <1>2, <1>3

\* A line joins what is on the way.
LEMMA FramedWrite ==
  ASSUME NEW s \in Seq(Message), NEW g \in Nat, NEW b \in Seq(Unit), NEW o \in Seq(Unit),
         NEW m \in Message, Framed(s, g, b, o)
  PROVE  Framed(Append(s, m), g, b, o \o Line(m))
<1> DEFINE t == Append(s, m)
           l == Line(m)
<1>1. /\ Len(t) = Len(s) + 1 /\ t[Len(s) + 1] = m
      /\ \A i \in 1..Len(s) : t[i] = s[i]
  OBVIOUS
<1>a. l \in Seq(Unit)
  BY LineType
<1>2. /\ Len(l) = 2
      /\ l[1] = [msg |-> m, end |-> FALSE] /\ l[2] = [msg |-> m, end |-> TRUE]
  BY DEF Line
<1>3. /\ Len(o \o l) = Len(o) + 2
      /\ \A i \in 1..Len(o) : (o \o l)[i] = o[i]
      /\ (o \o l)[Len(o) + 1] = l[1] /\ (o \o l)[Len(o) + 2] = l[2]
  <2> HIDE DEF l
  <2>1. /\ Len(o \o l) = Len(o) + Len(l)
        /\ \A i \in 1..Len(o) : (o \o l)[i] = o[i]
        /\ \A i \in 1..Len(l) : (o \o l)[Len(o) + i] = l[i]
    BY <1>a, ConcatParts
  <2>2. Len(l) = 2 /\ 1 \in 1..Len(l) /\ 2 \in 1..Len(l)
    BY <1>2
  <2> QED
    BY <2>1, <2>2
<1>4. Len(s) \in Nat /\ Len(b) \in Nat /\ Len(o) \in Nat
      /\ 2 * g + Len(b) + Len(o) = 2 * Len(s)
  BY LenProperties DEF Framed
<1>5. \A i \in 1..(2 * Len(s)) : UnitAt(t, i) = UnitAt(s, i)
  <2> SUFFICES ASSUME NEW i \in 1..(2 * Len(s)) PROVE UnitAt(t, i) = UnitAt(s, i)
    OBVIOUS
  <2>1. (i + 1) \div 2 \in 1..Len(s)
    BY <1>4
  <2> QED
    BY <1>1, <2>1 DEF UnitAt
<1>6. \A i \in 1..Len(b) : b[i] = UnitAt(t, 2 * g + i)
  <2> SUFFICES ASSUME NEW i \in 1..Len(b) PROVE b[i] = UnitAt(t, 2 * g + i)
    OBVIOUS
  <2>1. 2 * g + i \in 1..(2 * Len(s))
    BY <1>4 DEF Framed
  <2>2. b[i] = UnitAt(s, 2 * g + i)
    BY DEF Framed
  <2> HIDE DEF t
  <2> QED
    BY <1>5, <2>1, <2>2
<1>7. \A i \in 1..Len(o \o l) : (o \o l)[i] = UnitAt(t, 2 * g + Len(b) + i)
  <2> SUFFICES ASSUME NEW i \in 1..(Len(o) + 2)
               PROVE  (o \o l)[i] = UnitAt(t, 2 * g + Len(b) + i)
    BY <1>3
  <2>1. CASE i \in 1..Len(o)
    <3>1. 2 * g + Len(b) + i \in 1..(2 * Len(s))
      BY <1>4, <2>1 DEF Framed
    <3>2. (o \o l)[i] = UnitAt(s, 2 * g + Len(b) + i)
      BY <1>3, <2>1 DEF Framed
    <3> HIDE DEF t, l
    <3> QED
      BY <1>5, <3>1, <3>2
  <2>2. CASE i = Len(o) + 1
    <3>1. 2 * g + Len(b) + i = 2 * Len(s) + 1
      <4> HIDE DEF t, l
      <4> QED
        BY <1>4, <2>2, SMTT(60)
    <3>3. UnitAt(t, 2 * Len(s) + 1) = [msg |-> m, end |-> FALSE]
      BY <1>1, <1>4, UnitHalves
    <3> HIDE DEF t, l
    <3> QED
      BY <1>2, <1>3, <2>2, <3>1, <3>3
  <2>3. CASE i = Len(o) + 2
    <3>1. 2 * g + Len(b) + i = 2 * Len(s) + 2
      BY <1>4, <2>3 DEF Framed
    <3>3. UnitAt(t, 2 * Len(s) + 2) = [msg |-> m, end |-> TRUE]
      BY <1>1, <1>4, UnitHalves
    <3> HIDE DEF t, l
    <3> QED
      BY <1>2, <1>3, <2>3, <3>1, <3>3
  <2>4. i \in 1..Len(o) \/ i = Len(o) + 1 \/ i = Len(o) + 2
    BY <1>4
  <2> QED
    BY <2>1, <2>2, <2>3, <2>4
<1>8. 2 * g + Len(b) + Len(o \o l) = 2 * Len(t)
  <2> HIDE DEF t, l
  <2> QED
    BY <1>1, <1>3, <1>4
<1> QED
  BY <1>6, <1>7, <1>8 DEF Framed

\* Bytes move from the way into the buffer.
LEMMA FramedRead ==
  ASSUME NEW s \in Seq(Message), NEW g \in Nat, NEW b \in Seq(Unit), NEW o \in Seq(Unit),
         NEW k \in 1..Len(o), Framed(s, g, b, o)
  PROVE  Framed(s, g, b \o SubSeq(o, 1, k), SubSeq(o, k + 1, Len(o)))
<1> DEFINE p == SubSeq(o, 1, k)
           r == SubSeq(o, k + 1, Len(o))
<1>1. Len(s) \in Nat /\ Len(b) \in Nat /\ Len(o) \in Nat
      /\ 2 * g + Len(b) + Len(o) = 2 * Len(s)
  BY LenProperties DEF Framed
<1>a. p \in Seq(Unit) /\ Len(p) = k /\ Len(r) = Len(o) - k
  BY PieceType, SubSeqParts
<1>2. /\ p \in Seq(Unit) /\ Len(p) = k /\ \A i \in 1..k : p[i] = o[i]
      /\ r \in Seq(Unit) /\ Len(r) = Len(o) - k /\ \A i \in 1..Len(r) : r[i] = o[k + i]
  BY <1>1, PieceType, SubSeqParts
<1> HIDE DEF p, r
<1>3. /\ Len(b \o p) = Len(b) + k
      /\ \A i \in 1..Len(b) : (b \o p)[i] = b[i]
      /\ \A i \in 1..k : (b \o p)[Len(b) + i] = p[i]
  BY <1>a, ConcatParts
<1>4. ASSUME NEW i \in 1..Len(b \o p)
      PROVE  (b \o p)[i] = UnitAt(s, 2 * g + i)
  <2>1. CASE i <= Len(b)
    BY <1>1, <1>3, <2>1 DEF Framed
  <2>2. CASE i > Len(b)
    <3>1. i - Len(b) \in 1..k /\ i - Len(b) \in 1..Len(o)
      BY <1>1, <1>3, <2>2
    <3>2. (b \o p)[Len(b) + (i - Len(b))] = o[i - Len(b)]
      BY <1>2, <1>3, <3>1
    <3>3. o[i - Len(b)] = UnitAt(s, 2 * g + Len(b) + (i - Len(b)))
      BY <3>1 DEF Framed
    <3>4. 2 * g + Len(b) + (i - Len(b)) = 2 * g + i /\ Len(b) + (i - Len(b)) = i
      BY <1>1
    <3> QED
      BY <3>2, <3>3, <3>4
  <2> QED
    BY <1>1, <2>1, <2>2
<1>5. ASSUME NEW i \in 1..Len(r)
      PROVE  r[i] = UnitAt(s, 2 * g + Len(b \o p) + i)
  <2>1. k + i \in 1..Len(o)
    BY <1>1, <1>2
  <2>2. o[k + i] = UnitAt(s, 2 * g + Len(b) + (k + i))
    BY <2>1 DEF Framed
  <2>3. 2 * g + Len(b) + (k + i) = 2 * g + Len(b \o p) + i
    BY <1>1, <1>3
  <2> QED
    BY <1>2, <2>2, <2>3
<1>6. 2 * g + Len(b \o p) + Len(r) = 2 * Len(s)
  <2>1. PICK lb \in Nat, lo \in Nat, ls \in Nat : lb = Len(b) /\ lo = Len(o) /\ ls = Len(s)
    BY <1>1
  <2>2. Len(b \o p) = lb + k /\ Len(r) = lo - k
    BY <1>3, <1>a, <2>1
  <2>3. k \in Nat /\ 2 * g + lb + lo = 2 * ls
    BY <1>1, <2>1
  <2>4. 2 * g + (lb + k) + (lo - k) = 2 * ls
    BY <2>3
  <2> QED
    BY <2>1, <2>2, <2>4
<1>7. Framed(s, g, b \o p, r)
  BY <1>4, <1>5, <1>6 DEF Framed
<1> QED
  BY <1>7 DEF p, r

\* The first newline ends the first line, which is the next message.
LEMMA FramedLine ==
  ASSUME NEW s \in Seq(Message), NEW g \in Nat, NEW b \in Seq(Unit), NEW o \in Seq(Unit),
         NEW i \in 1..Len(b), IsNewline(b, i), Framed(s, g, b, o)
  PROVE  /\ g < Len(s)
         /\ IsObject(SubSeq(b, 1, i))
         /\ SubSeq(b, 1, i)[1].msg = s[g + 1]
         /\ Framed(s, g + 1, SubSeq(b, i + 1, Len(b)), o)
<1>1. Len(s) \in Nat /\ Len(b) \in Nat /\ Len(o) \in Nat
      /\ 2 * g + Len(b) + Len(o) = 2 * Len(s)
  BY LenProperties DEF Framed
<1>2. b[1] = UnitAt(s, 2 * g + 1) /\ b[1].end = FALSE /\ b[1].msg = s[g + 1]
  <2>2. b[1] = UnitAt(s, 2 * g + 1)
    BY <1>1 DEF Framed
  <2>3. b[1] = [msg |-> s[g + 1], end |-> FALSE]
    BY <2>2, UnitHalves
  <2> QED
    BY <2>2, <2>3
<1>3. i # 1 /\ Len(b) >= 2
  BY <1>1, <1>2, SMTT(30) DEF IsNewline
<1>4. b[2].end = TRUE /\ b[2].msg = s[g + 1]
  <2>2. b[2] = UnitAt(s, 2 * g + 2)
    BY <1>1, <1>3 DEF Framed
  <2>3. b[2] = [msg |-> s[g + 1], end |-> TRUE]
    BY <2>2, UnitHalves
  <2> QED
    BY <2>2, <2>3
<1>5. i = 2
  BY <1>1, <1>3, <1>4 DEF IsNewline
<1> DEFINE l == SubSeq(b, 1, i)
           r == SubSeq(b, i + 1, Len(b))
<1>6. /\ Len(l) = 2 /\ l[1] = b[1] /\ l[2] = b[2]
      /\ r \in Seq(Unit) /\ Len(r) = Len(b) - 2 /\ \A j \in 1..Len(r) : r[j] = b[j + 2]
  <2>1. /\ r \in Seq(Unit)
        /\ Len(l) = i /\ \A j \in 1..i : l[j] = b[j]
        /\ Len(r) = Len(b) - i /\ \A j \in 1..(Len(b) - i) : r[j] = b[j + i]
    BY PieceType, SubSeqParts
  <2> QED
    BY <1>5, <2>1
<1>7. IsObject(l) /\ l[1].msg = s[g + 1]
  BY <1>2, <1>4, <1>6 DEF IsObject
<1> HIDE DEF l, r
<1>8. ASSUME NEW j \in 1..Len(r)
      PROVE  r[j] = UnitAt(s, 2 * (g + 1) + j)
  <2>1. j + 2 \in 1..Len(b) /\ 2 * g + (j + 2) = 2 * (g + 1) + j
    BY <1>1, <1>6
  <2>2. b[j + 2] = UnitAt(s, 2 * g + (j + 2))
    BY <2>1 DEF Framed
  <2> QED
    BY <1>6, <2>1, <2>2
<1>9. ASSUME NEW j \in 1..Len(o)
      PROVE  o[j] = UnitAt(s, 2 * (g + 1) + Len(r) + j)
  <2>1. 2 * g + Len(b) + j = 2 * (g + 1) + Len(r) + j
    BY <1>1, <1>6
  <2>2. o[j] = UnitAt(s, 2 * g + Len(b) + j)
    BY DEF Framed
  <2> QED
    BY <2>1, <2>2
<1>10. 2 * (g + 1) + Len(r) + Len(o) = 2 * Len(s) /\ g < Len(s)
  <2>1. Len(r) = Len(b) - 2
    BY <1>6
  <2> QED
    BY <1>1, <1>3, <2>1, SMTT(60)
<1>11. Framed(s, g + 1, r, o)
  BY <1>8, <1>9, <1>10 DEF Framed
<1> QED
  BY <1>7, <1>10, <1>11 DEF l, r

(***************************************************************************)
(* The invariant.  DeliveryOK takes what was emitted and what is buffered   *)
(* as arguments: in the middle of readSocket the line is out of the buffer  *)
(* and emitted, and the answer is not yet written.                          *)
(***************************************************************************)
IsStart(g, s) == Len(g) <= Len(s) /\ g = SubSeq(s, 1, Len(g))

\* n is an end of c that can still read what the other end writes.
Reads(n, c) == /\ OtherEnd(n, c) \in Node
               /\ n \in {dial[c].from, dial[c].to}
               /\ sock[n][c] # "gone"

PairOK(g, b, n, c) ==
  /\ sock[n][c] \in {"none", "backlog"} => /\ g[n][c] = <<>> /\ b[n][c] = <<>>
                                           /\ sent[n][c] = <<>> /\ out[n][c] = <<>>
  /\ IF OtherEnd(n, c) \in Node THEN IsStart(g[n][c], sent[OtherEnd(n, c)][c]) ELSE g[n][c] = <<>>
  /\ Reads(n, c) => Framed(sent[OtherEnd(n, c)][c], Len(g[n][c]), b[n][c], out[OtherEnd(n, c)][c])

DeliveryOK(g, b) == \A n \in Node, c \in Conn : PairOK(g, b, n, c)

DeliveryInv == DeliveryOK(got, pendingBuffers)

LEMMA StartEmit ==
  ASSUME NEW s \in Seq(Message), NEW g \in Seq(Message), IsStart(g, s), Len(g) < Len(s)
  PROVE  IsStart(Append(g, s[Len(g) + 1]), s)
<1>1. Len(s) \in Nat /\ Len(g) \in Nat
  BY LenProperties
<1> DEFINE h == Append(g, s[Len(g) + 1])
<1>2. h \in Seq(Message) /\ Len(h) = Len(g) + 1
  BY <1>1, ElementOfSeq
<1>3. \A i \in 1..Len(g) : h[i] = s[i]
  BY <1>1 DEF IsStart
<1>4. h[Len(g) + 1] = s[Len(g) + 1]
  BY <1>1
<1> HIDE DEF h
<1>5. \A i \in 1..Len(h) : h[i] = s[i]
  BY <1>1, <1>2, <1>3, <1>4
<1>6. /\ SubSeq(s, 1, Len(h)) \in Seq(Message) /\ Len(SubSeq(s, 1, Len(h))) = Len(h)
      /\ \A i \in 1..Len(h) : SubSeq(s, 1, Len(h))[i] = s[i]
  BY <1>1, <1>2, PieceType, SubSeqParts
<1>7. h = SubSeq(s, 1, Len(h))
  BY <1>2, <1>5, <1>6, SeqEqual
<1> QED
  BY <1>1, <1>2, <1>7 DEF IsStart, h

LEMMA StartWrite ==
  ASSUME NEW s \in Seq(Message), NEW g, NEW m \in Message, IsStart(g, s), Len(g) \in Nat
  PROVE  IsStart(g, Append(s, m))
<1>1. Len(s) \in Nat /\ Len(g) \in 0..Len(s)
  BY LenProperties DEF IsStart
<1>2. SubSeq(Append(s, m), 1, Len(g)) = SubSeq(s, 1, Len(g))
  BY <1>1
<1> QED
  BY <1>1, <1>2 DEF IsStart

LEMMA NothingFramed == Framed(<<>>, 0, <<>>, <<>>)
BY DEF Framed

LEMMA DeliveryInit == Init => DeliveryInv
<1> SUFFICES ASSUME Init, NEW n \in Node, NEW c \in Conn
             PROVE  PairOK(got, pendingBuffers, n, c)
  BY DEF DeliveryInv, DeliveryOK
<1>1. /\ got[n][c] = <<>> /\ pendingBuffers[n][c] = <<>>
      /\ sent[n][c] = <<>> /\ out[n][c] = <<>>
  BY DEF Init
<1>2. OtherEnd(n, c) = NoNode
  BY NodeAssumption DEF Init, OtherEnd
<1> QED
  BY <1>1, <1>2, NodeAssumption DEF PairOK, Reads

(***************************************************************************)
(* Writing: ensureSession finds a session or dials, then sendJson.          *)
(***************************************************************************)
Written(n, e, m) ==
  /\ out' = [out EXCEPT ![n][e] = @ \o Line(m)]
  /\ sent' = [sent EXCEPT ![n][e] = Append(@, m)]
  /\ \/ /\ sock[n][e] \in {"connecting", "connected"}
        /\ UNCHANGED <<dial, sock>>
     \/ /\ Fresh(e)
        /\ \A r \in Node : sock[r][e] = "none"
        /\ \E p \in Node, q \in (Node \cup {NoNode}) \ {n} :
             dial' = [dial EXCEPT ![e] = [from |-> n, peer |-> p, to |-> q]]
        /\ sock' = [sock EXCEPT ![n][e] = "connecting"]

LEMMA SendToWrites ==
  ASSUME TypeInv,
         NEW n \in Node, NEW peer \in Node, NEW goal \in Node \cup {NoNode}, goal # n,
         NEW sessions \in [Node -> Conn \cup {NoConn}],
         NEW owners, NEW m, sendTo(n, peer, goal, sessions, owners, m)
  PROVE  \E e \in Conn : Written(n, e, m) /\ peerSessions'[n][peer] = e
<1>1. CASE Live(n, sessions[peer])
  <2>1. sessions[peer] \in Conn /\ sock[n][sessions[peer]] \in {"connecting", "connected"}
    BY <1>1 DEF Live
  <2>2. Written(n, sessions[peer], m)
    BY <1>1, <2>1 DEF sendTo, sendJson, Written
  <2>3. peerSessions'[n][peer] = sessions[peer]
    BY <1>1 DEF sendTo, TypeInv, TypeOK
  <2> QED
    BY <2>1, <2>2, <2>3
<1>2. CASE ~Live(n, sessions[peer])
  <2>1. PICK e \in Conn :
          /\ Fresh(e)
          /\ dial' = [dial EXCEPT ![e] = [from |-> n, peer |-> peer, to |-> goal]]
          /\ sock' = [sock EXCEPT ![n][e] = "connecting"]
          /\ peerSessions' = [peerSessions EXCEPT ![n] = [sessions EXCEPT ![peer] = e]]
          /\ sendJson(n, e, m)
    BY <1>2 DEF sendTo
  <2>2. \A r \in Node : sock[r][e] = "none"
    BY <2>1 DEF Fresh, TypeInv, Wiring
  <2>3. Written(n, e, m)
    BY <2>1, <2>2 DEF sendJson, Written
  <2>4. peerSessions'[n][peer] = e
    BY <2>1 DEF TypeInv, TypeOK
  <2> QED
    BY <2>3, <2>4
<1> QED
  BY <1>1, <1>2

\* What a written message does at one end q of a connection d.
LEMMA WriteDelivers ==
  ASSUME TypeInv, TypeInv', NEW n \in Node, NEW e \in Conn, NEW m \in Message,
         Written(n, e, m), DeliveryOK(got', pendingBuffers')
  PROVE  DeliveryInv'
<1> SUFFICES ASSUME NEW q \in Node, NEW d \in Conn
             PROVE  PairOK(got, pendingBuffers, q, d)'
  BY DEF DeliveryInv, DeliveryOK
<1> DEFINE g == got'[q][d]
           b == pendingBuffers'[q][d]
           f == OtherEnd(q, d)
<1>1. PairOK(got', pendingBuffers', q, d)
  BY DEF DeliveryOK
<1>2. /\ g \in Seq(Message) /\ b \in Seq(Unit) /\ Len(g) \in Nat
      /\ sent \in [Node -> [Conn -> Seq(Message)]] /\ out \in [Node -> [Conn -> Seq(Unit)]]
  <2>1. got' \in [Node -> [Conn -> Seq(Message)]] /\ pendingBuffers' \in [Node -> [Conn -> Seq(Unit)]]
    BY DEF TypeInv, TypeOK
  <2>2. g \in Seq(Message) /\ b \in Seq(Unit)
    BY <2>1
  <2> HIDE DEF g, b
  <2> QED
    BY <2>2, LenProperties DEF TypeInv, TypeOK
<1>3. \A r \in Node : /\ sent'[r][d] = IF r = n /\ d = e THEN Append(sent[n][e], m) ELSE sent[r][d]
                      /\ out'[r][d] = IF r = n /\ d = e THEN out[n][e] \o Line(m) ELSE out[r][d]
  BY <1>2 DEF Written
<1>4. CASE /\ sock[n][e] \in {"connecting", "connected"}
           /\ UNCHANGED <<dial, sock>>
  <2>1. /\ sock'[q][d] = sock[q][d] /\ OtherEnd(q, d)' = f
        /\ Reads(q, d)' = Reads(q, d)
    BY <1>4 DEF OtherEnd, Reads
  <2>2. sock[q][d] \in {"none", "backlog"} => /\ g = <<>> /\ b = <<>>
                                               /\ sent'[q][d] = <<>> /\ out'[q][d] = <<>>
    BY <1>1, <1>3, <1>4 DEF PairOK
  <2>3. IF f \in Node THEN IsStart(g, sent'[f][d]) ELSE g = <<>>
    <3>1. CASE f = n /\ d = e
      <4>1. IsStart(g, sent[n][e])
        BY <1>1, <3>1 DEF PairOK
      <4>2. IsStart(g, Append(sent[n][e], m))
        BY <1>2, <4>1, StartWrite
      <4> QED
        BY <1>3, <3>1, <4>2
    <3>2. CASE ~(f = n /\ d = e)
      BY <1>1, <1>3, <3>2 DEF PairOK
    <3> QED
      BY <3>1, <3>2
  <2>4. ASSUME Reads(q, d)
        PROVE  Framed(sent'[f][d], Len(g), b, out'[f][d])
    <3>1. Framed(sent[f][d], Len(g), b, out[f][d]) /\ f \in Node
      BY <1>1, <2>4 DEF PairOK, Reads
    <3>2. CASE f = n /\ d = e
      <4>1. Framed(Append(sent[n][e], m), Len(g), b, out[n][e] \o Line(m))
        <5>1. sent[n][e] \in Seq(Message) /\ out[n][e] \in Seq(Unit)
              /\ Framed(sent[n][e], Len(g), b, out[n][e])
          BY <1>2, <3>1, <3>2
        <5> HIDE DEF g, b, f
        <5> QED
          BY <1>2, <5>1, FramedWrite
      <4> QED
        BY <1>3, <3>2, <4>1
    <3>3. CASE ~(f = n /\ d = e)
      BY <1>3, <3>1, <3>3
    <3> QED
      BY <3>2, <3>3
  <2> QED
    BY <2>1, <2>2, <2>3, <2>4 DEF PairOK
<1>5. CASE /\ Fresh(e)
           /\ \A r \in Node : sock[r][e] = "none"
           /\ \E p \in Node, t \in (Node \cup {NoNode}) \ {n} :
                dial' = [dial EXCEPT ![e] = [from |-> n, peer |-> p, to |-> t]]
           /\ sock' = [sock EXCEPT ![n][e] = "connecting"]
  <2>1. PICK p \in Node, t \in (Node \cup {NoNode}) \ {n} :
               dial' = [dial EXCEPT ![e] = [from |-> n, peer |-> p, to |-> t]]
    BY <1>5
  <2>2. /\ dial'[d] = IF d = e THEN [from |-> n, peer |-> p, to |-> t] ELSE dial[d]
        /\ sock'[q][d] = IF q = n /\ d = e THEN "connecting" ELSE sock[q][d]
    <3>1. /\ dial \in [Conn -> [from : Node \cup {NoNode}, peer : Node \cup {NoNode},
                               to : Node \cup {NoNode}]]
          /\ sock \in [Node -> [Conn -> SockState]]
      BY DEF TypeInv, TypeOK
    <3>2. sock' = [sock EXCEPT ![n][e] = "connecting"]
      BY <1>5
    <3>3. sock'[q][d] = IF q = n /\ d = e THEN "connecting" ELSE sock[q][d]
      BY <3>1, <3>2
    <3> QED
      BY <2>1, <3>1, <3>3
  <2>3. CASE d # e
    <3>1. /\ sock'[q][d] = sock[q][d] /\ OtherEnd(q, d)' = f
          /\ Reads(q, d)' = Reads(q, d)
      BY <2>2, <2>3 DEF OtherEnd, Reads
    <3>2. \A r \in Node : sent'[r][d] = sent[r][d] /\ out'[r][d] = out[r][d]
      BY <1>3, <2>3
    <3>3. f \in Node => sent'[f][d] = sent[f][d] /\ out'[f][d] = out[f][d]
      BY <3>2
    <3> HIDE DEF f
    <3> QED
      BY <1>1, <3>1, <3>2, <3>3 DEF PairOK, Reads, f
  <2>4. CASE d = e
    <3>1. /\ g = <<>> /\ b = <<>>
          /\ \A r \in Node : sent[r][e] = <<>> /\ out[r][e] = <<>>
      BY <1>5, <2>4 DEF DeliveryOK, PairOK
    <3>2. CASE q = n
      <4>1. OtherEnd(n, e)' = t /\ sock'[n][e] = "connecting"
        BY <2>2, <2>4, <3>2 DEF OtherEnd
      <4>2. t \in Node => sent'[t][e] = <<>> /\ out'[t][e] = <<>>
        BY <1>3, <2>4, <3>1
      <4>3. IsStart(<<>>, <<>>) /\ Len(<<>>) = 0
        BY DEF IsStart
      <4> QED
        BY <2>4, <3>1, <3>2, <4>1, <4>2, <4>3, NothingFramed DEF PairOK, Reads
    <3>3. CASE q # n
      <4>1. OtherEnd(q, e)' = n /\ sock'[q][e] = "none"
        BY <1>5, <2>2, <2>4, <3>3 DEF OtherEnd
      <4>2. sent'[q][e] = <<>> /\ out'[q][e] = <<>>
        BY <1>3, <2>4, <3>1, <3>3
      <4>3. sent'[n][e] = Append(<<>>, m) /\ out'[n][e] = <<>> \o Line(m)
        BY <1>3, <2>4, <3>1
      <4>4. /\ IsStart(<<>>, Append(<<>>, m)) /\ Len(<<>>) = 0
            /\ Framed(Append(<<>>, m), 0, <<>>, <<>> \o Line(m))
        <5>1. <<>> \in Seq(Message) /\ <<>> \in Seq(Unit) /\ Len(<<>>) = 0 /\ IsStart(<<>>, <<>>)
          BY DEF IsStart
        <5> QED
          BY <5>1, NothingFramed, FramedWrite, StartWrite
      <4> QED
        BY <2>4, <3>1, <4>1, <4>2, <4>3, <4>4 DEF PairOK, Reads
    <3> QED
      BY <3>2, <3>3
  <2> QED
    BY <2>3, <2>4
<1> QED
  BY <1>4, <1>5 DEF Written

(***************************************************************************)
(* A round of the loop of readSocket takes the next message of the other    *)
(* end, and writes nothing but the answer to a request.                     *)
(***************************************************************************)
LEMMA ReadLineEffect ==
  ASSUME TypeInv, DeliveryInv, NEW n \in Node, readLine(n)
  PROVE  \E c \in Conn : LET m == OtherEnd(n, c)
                             k == Len(got[n][c]) + 1
                             x == sent[m][c][k]
                         IN  /\ c = busy[n]
                             /\ sock[n][c] = "connected" /\ m \in Node
                             /\ messageReceived(n, c, x)
                             /\ k <= Len(sent[m][c]) /\ x \in Message
                             /\ got' = [got EXCEPT ![n][c] = Append(@, x)]
                             /\ DeliveryOK(got', pendingBuffers')
                             /\ IF x.type = "share_request"
                                THEN \E e \in Conn : Written(n, e,
                                       [type |-> "share_catalog", id |-> n, num |-> x.num])
                                ELSE UNCHANGED <<dial, sock, out, sent>>
<1> DEFINE c == busy[n]
           m == OtherEnd(n, c)
           g == got[n][c]
           b == pendingBuffers[n][c]
           x == sent[m][c][Len(g) + 1]
<1>1. /\ c \in Conn /\ sock[n][c] = "connected" /\ m \in Node
      /\ b \in Seq(Unit) /\ g \in Seq(Message) /\ Len(g) \in Nat
      /\ sent[m][c] \in Seq(Message) /\ out[m][c] \in Seq(Unit)
  <2>1. c \in Conn /\ sock[n][c] = "connected"
    BY DEF readLine, TypeInv, TypeOK, BusyOnConnected
  <2>2. m \in Node
    BY <2>1, ReadTyped
  <2>3. b \in Seq(Unit) /\ g \in Seq(Message)
    BY <2>1 DEF TypeInv, TypeOK
  <2> HIDE DEF c, m, b, g
  <2> QED
    BY <2>1, <2>2, <2>3, LenProperties DEF TypeInv, TypeOK
<1>2. PICK i \in 1..Len(b) :
        /\ IsNewline(b, i)
        /\ pendingBuffers' = [pendingBuffers EXCEPT ![n][c] = SubSeq(b, i + 1, Len(b))]
        /\ IF IsObject(SubSeq(b, 1, i))
           THEN messageReceived(n, c, SubSeq(b, 1, i)[1].msg)
           ELSE UNCHANGED <<dial, sock, out, peerSessions, socketToPeer, sent, got>>
  BY DEF readLine
<1>3. PairOK(got, pendingBuffers, n, c)
  BY <1>1 DEF DeliveryInv, DeliveryOK
<1>4. Framed(sent[m][c], Len(g), b, out[m][c]) /\ IsStart(g, sent[m][c])
  BY <1>1, <1>3 DEF PairOK, Reads, TypeInv, Wiring
<1>5. /\ Len(g) < Len(sent[m][c])
      /\ IsObject(SubSeq(b, 1, i))
      /\ SubSeq(b, 1, i)[1].msg = x
      /\ Framed(sent[m][c], Len(g) + 1, SubSeq(b, i + 1, Len(b)), out[m][c])
  <2> HIDE DEF c, m, g, b
  <2> QED
    BY <1>1, <1>2, <1>4, FramedLine DEF x
<1>6. x \in Message /\ Len(g) + 1 <= Len(sent[m][c])
  <2>1. Len(sent[m][c]) \in Nat /\ Len(g) + 1 \in 1..Len(sent[m][c])
    <3> HIDE DEF c, m, g
    <3> QED
      BY <1>1, <1>5, LenProperties
  <2> HIDE DEF c, m, g
  <2> QED
    BY <1>1, <2>1, ElementOfSeq DEF x
<1>7. messageReceived(n, c, x)
  BY <1>2, <1>5
<1>8. got' = [got EXCEPT ![n][c] = Append(@, x)]
  BY <1>7 DEF messageReceived
<1>9. DeliveryOK(got', pendingBuffers')
  <2> SUFFICES ASSUME NEW q \in Node, NEW d \in Conn
               PROVE  PairOK(got', pendingBuffers', q, d)
    BY DEF DeliveryOK
  <2>1. PairOK(got, pendingBuffers, q, d)
    BY DEF DeliveryInv, DeliveryOK
  <2>2. CASE q = n /\ d = c
    <3>1. /\ got'[n][c] = Append(g, x)
          /\ pendingBuffers'[n][c] = SubSeq(b, i + 1, Len(b))
      BY <1>1, <1>2, <1>8 DEF TypeInv, TypeOK
    <3>2. Len(Append(g, x)) = Len(g) + 1
      BY <1>1
    <3>3. IsStart(Append(g, x), sent[m][c])
      <4> HIDE DEF c, m, g
      <4> QED
        BY <1>1, <1>4, <1>5, StartEmit DEF x
    <3> HIDE DEF b, g, x, m, c
    <3> QED
      BY <1>1, <1>5, <2>2, <3>1, <3>2, <3>3 DEF PairOK, Reads, m
  <2>3. CASE ~(q = n /\ d = c)
    <3>1. got'[q][d] = got[q][d] /\ pendingBuffers'[q][d] = pendingBuffers[q][d]
      BY <1>2, <1>8, <2>3 DEF TypeInv, TypeOK
    <3> QED
      BY <2>1, <3>1 DEF PairOK
  <2> QED
    BY <2>2, <2>3
<1>10. IF x.type = "share_request"
       THEN \E e \in Conn : Written(n, e, [type |-> "share_catalog", id |-> n, num |-> x.num])
       ELSE UNCHANGED <<dial, sock, out, sent>>
  <2> HIDE DEF c, x
  <2> DEFINE sessions == register(peerSessions[n], x.id, c)
             owners   == [socketToPeer[n] EXCEPT ![c] = x.id]
             answer   == [type |-> "share_catalog", id |-> n, num |-> x.num]
  <2>1. \/ x.type = "share_request" /\ sendTo(n, x.id, endpoint(n, c), sessions, owners, answer)
        \/ x.type # "share_request" /\ UNCHANGED <<dial, sock, out, sent>>
    BY <1>7 DEF messageReceived
  <2>2. /\ x.id \in Node /\ sessions \in [Node -> Conn \cup {NoConn}]
        /\ endpoint(n, c) \in Node \cup {NoNode} /\ endpoint(n, c) # n
    BY <1>1, <1>6, EndpointType DEF Message, register, TypeInv, TypeOK
  <2>3. ASSUME sendTo(n, x.id, endpoint(n, c), sessions, owners, answer)
        PROVE  \E e \in Conn : Written(n, e, answer)
    <3> HIDE DEF sessions, owners, answer
    <3> QED
      BY <2>2, <2>3, SendToWrites
  <2> QED
    BY <2>1, <2>3
<1>11. c = busy[n]
  OBVIOUS
<1> QED
  <2> HIDE DEF c, DeliveryOK
  <2> QED
    BY <1>1, <1>6, <1>7, <1>8, <1>9, <1>10, <1>11

\* The call of the controller.
LEMMA SendEffect ==
  ASSUME TypeInv, NEW n \in Node, NEW p \in Node, send(n, p)
  PROVE  \E e \in Conn, type \in {"chat", "share_request"} :
           /\ sends[n] \in 0..MaxSends
           /\ Written(n, e, [type |-> type, id |-> n, num |-> sends[n]])
           /\ peerSessions'[n][p] = e
<1>1. PICK goal \in Goals[p] \ {n}, type \in {"chat", "share_request"} :
        sendTo(n, p, goal, peerSessions[n], socketToPeer[n],
               [type |-> type, id |-> n, num |-> sends[n]])
  BY DEF send, sendPayload
<1>2. /\ goal \in Node \cup {NoNode} /\ goal # n
      /\ peerSessions[n] \in [Node -> Conn \cup {NoConn}]
      /\ sends[n] \in 0..MaxSends
  BY GoalsAssumption DEF TypeInv, TypeOK
<1>3. \E e \in Conn : /\ Written(n, e, [type |-> type, id |-> n, num |-> sends[n]])
                     /\ peerSessions'[n][p] = e
  BY <1>1, <1>2, SendToWrites
<1> QED
  BY <1>2, <1>3

\* Steps that write and emit nothing leave a pair of ends in order when each end keeps
\* its buffer or is gone.
LEMMA SilentStep ==
  ASSUME DeliveryInv, UNCHANGED <<dial, out, sent, got>>,
         NEW q \in Node, NEW d \in Conn,
         sock'[q][d] \in {"none", "backlog"} => sock[q][d] \in {"none", "backlog"},
         sock'[q][d] # "gone" => sock[q][d] # "gone",
         \/ pendingBuffers'[q][d] = pendingBuffers[q][d]
         \/ pendingBuffers'[q][d] = <<>> /\ sock'[q][d] \in {"none", "gone"}
  PROVE  PairOK(got, pendingBuffers, q, d)'
<1>1. PairOK(got, pendingBuffers, q, d)
  BY DEF DeliveryInv, DeliveryOK
<1>2. OtherEnd(q, d)' = OtherEnd(q, d) /\ (Reads(q, d)' => Reads(q, d))
  BY DEF OtherEnd, Reads
<1>3. Reads(q, d)' => pendingBuffers'[q][d] = pendingBuffers[q][d]
  BY <1>1 DEF PairOK, Reads
<1> QED
  BY <1>1, <1>2, <1>3 DEF PairOK

LEMMA DeliveryNext == TypeInv /\ TypeInv' /\ DeliveryInv /\ [Next]_vars => DeliveryInv'
<1> SUFFICES ASSUME TypeInv, TypeInv', DeliveryInv, [Next]_vars
             PROVE  DeliveryInv'
  OBVIOUS
<1>1. ASSUME UNCHANGED <<dial, sock, out, pendingBuffers, sent, got>>
      PROVE  DeliveryInv'
  <2> SUFFICES ASSUME NEW q \in Node, NEW d \in Conn
               PROVE  PairOK(got, pendingBuffers, q, d)'
    BY DEF DeliveryInv, DeliveryOK
  <2> QED
    BY <1>1, SilentStep
<1>2. CASE UNCHANGED vars
  BY <1>1, <1>2 DEF vars
<1>3. ASSUME NEW n \in Node, startListening(n)
      PROVE  DeliveryInv'
  BY <1>1, <1>3 DEF startListening, wires, tables
<1>4. ASSUME NEW n \in Node, handleNewConnection(n)
      PROVE  DeliveryInv'
  <2> SUFFICES ASSUME NEW q \in Node, NEW d \in Conn
               PROVE  PairOK(got, pendingBuffers, q, d)'
    BY DEF DeliveryInv, DeliveryOK
  <2>1. sock'[q][d] = IF q = n /\ sock[q][d] = "backlog" THEN "connected" ELSE sock[q][d]
    BY <1>4 DEF handleNewConnection, TypeInv, TypeOK
  <2>2. UNCHANGED <<dial, out, sent, got, pendingBuffers>>
    BY <1>4 DEF handleNewConnection, tables
  <2> QED
    BY <2>1, <2>2, SilentStep
<1>5. ASSUME NEW n \in Node, readLine(n)
      PROVE  DeliveryInv'
  <2>1. DeliveryOK(got', pendingBuffers')
    BY <1>5, ReadLineEffect
  <2>2. \/ UNCHANGED <<dial, sock, out, sent>>
        \/ \E e \in Conn, m \in Message : Written(n, e, m)
    <3>1. PICK c \in Conn, x \in Message :
            IF x.type = "share_request"
            THEN \E e \in Conn : Written(n, e, [type |-> "share_catalog", id |-> n, num |-> x.num])
            ELSE UNCHANGED <<dial, sock, out, sent>>
      BY <1>5, ReadLineEffect
    <3>2. [type |-> "share_catalog", id |-> n, num |-> x.num] \in Message
      BY DEF Message, MsgType
    <3> QED
      BY <3>1, <3>2
  <2>3. CASE UNCHANGED <<dial, sock, out, sent>>
    BY <2>1, <2>3 DEF DeliveryInv, DeliveryOK, PairOK, Reads, OtherEnd
  <2>4. CASE \E e \in Conn, m \in Message : Written(n, e, m)
    BY <2>1, <2>4, WriteDelivers
  <2> QED
    BY <2>2, <2>3, <2>4
<1>6. ASSUME NEW n \in Node, stop(n)
      PROVE  DeliveryInv'
  <2> SUFFICES ASSUME NEW q \in Node, NEW d \in Conn
               PROVE  PairOK(got, pendingBuffers, q, d)'
    BY DEF DeliveryInv, DeliveryOK
  <2>1. /\ sock'[q][d] = IF q # n THEN sock[q][d]
                         ELSE IF sock[q][d] = "none" THEN "none" ELSE "gone"
        /\ pendingBuffers'[q][d] = IF q = n THEN <<>> ELSE pendingBuffers[q][d]
    BY <1>6 DEF stop, TypeInv, TypeOK
  <2>2. UNCHANGED <<dial, out, sent, got>>
    BY <1>6 DEF stop
  <2>3. CASE q # n
    BY <2>1, <2>2, <2>3, SilentStep
  <2>4. CASE q = n
    <3>1. /\ pendingBuffers'[q][d] = <<>> /\ sock'[q][d] \in {"none", "gone"}
          /\ sock'[q][d] \in {"none", "backlog"} => sock[q][d] \in {"none", "backlog"}
          /\ sock'[q][d] # "gone" => sock[q][d] # "gone"
      BY <2>1, <2>4
    <3> QED
      BY <2>2, <3>1, SilentStep
  <2> QED
    BY <2>3, <2>4
<1>7. ASSUME NEW n \in Node, NEW p \in Node, send(n, p)
      PROVE  DeliveryInv'
  <2>1. PICK e \in Conn, type \in {"chat", "share_request"} :
          /\ sends[n] \in 0..MaxSends
          /\ Written(n, e, [type |-> type, id |-> n, num |-> sends[n]])
    BY <1>7, SendEffect
  <2>2. [type |-> type, id |-> n, num |-> sends[n]] \in Message
    BY <2>1 DEF Message, MsgType
  <2>3. got' = got /\ pendingBuffers' = pendingBuffers
    BY <1>7 DEF send, sendPayload
  <2>4. DeliveryOK(got', pendingBuffers')
    BY <2>3 DEF DeliveryInv, DeliveryOK
  <2> QED
    BY <2>1, <2>2, <2>4, WriteDelivers
<1>8. ASSUME NEW c \in Conn, connectSucceeds(c)
      PROVE  DeliveryInv'
  <2>1. PICK n \in Node, r \in Node :
          /\ n # r /\ dial[c].from = n /\ dial[c].to = r
          /\ sock[n][c] = "connecting" /\ sock[r][c] = "none"
          /\ \A s \in Node, d \in Conn :
               sock'[s][d] = IF d # c \/ s \notin {n, r} THEN sock[s][d]
                             ELSE IF s = n THEN "connected" ELSE "backlog"
    BY <1>8, ConnectEffect
  <2>2. UNCHANGED <<dial, out, sent, got, pendingBuffers>>
    BY <1>8 DEF connectSucceeds, tables
  <2> SUFFICES ASSUME NEW q \in Node, NEW d \in Conn
               PROVE  PairOK(got, pendingBuffers, q, d)'
    BY DEF DeliveryInv, DeliveryOK
  <2>3. sock'[q][d] = IF d # c \/ q \notin {n, r} THEN sock[q][d]
                      ELSE IF q = n THEN "connected" ELSE "backlog"
    BY <2>1
  <2> QED
    BY <2>1, <2>2, <2>3, SilentStep
<1>9. ASSUME NEW c \in Conn, connectFails(c)
      PROVE  DeliveryInv'
  <2>1. PICK n \in Node : sock' = [sock EXCEPT ![n][c] = "unconnected"] /\ sock[n][c] = "connecting"
    BY <1>9 DEF connectFails, TypeInv, TypeOK
  <2>2. UNCHANGED <<dial, out, sent, got, pendingBuffers>>
    BY <1>9 DEF connectFails, tables
  <2> SUFFICES ASSUME NEW q \in Node, NEW d \in Conn
               PROVE  PairOK(got, pendingBuffers, q, d)'
    BY DEF DeliveryInv, DeliveryOK
  <2>3. sock'[q][d] = IF d = c /\ q = n THEN "unconnected" ELSE sock[q][d]
    <3>1. sock \in [Node -> [Conn -> SockState]]
      BY DEF TypeInv, TypeOK
    <3>2. sock' = [sock EXCEPT ![n][c] = "unconnected"]
      BY <2>1
    <3> QED
      BY <3>1, <3>2
  <2> QED
    BY <2>1, <2>2, <2>3, SilentStep
<1>10. ASSUME NEW n \in Node, NEW c \in Conn, readSocket(n, c)
       PROVE  DeliveryInv'
  <2> DEFINE m == OtherEnd(n, c)
             g == got[n][c]
             b == pendingBuffers[n][c]
             o == out[m][c]
  <2>1. m \in Node /\ m # n /\ sock[n][c] = "connected"
    BY <1>10, ReadTyped DEF readSocket
  <2>2. PICK k \in 1..Len(o) :
          /\ pendingBuffers' = [pendingBuffers EXCEPT ![n][c] = b \o SubSeq(o, 1, k)]
          /\ out' = [out EXCEPT ![m][c] = SubSeq(o, k + 1, Len(o))]
    BY <1>10, <2>1 DEF readSocket, TypeInv, TypeOK
  <2>3. UNCHANGED <<dial, sock, sent, got>>
    BY <1>10 DEF readSocket
  <2>4. /\ g \in Seq(Message) /\ Len(g) \in Nat /\ b \in Seq(Unit) /\ o \in Seq(Unit)
        /\ sent[m][c] \in Seq(Message)
    <3>1. g \in Seq(Message) /\ b \in Seq(Unit)
      BY DEF TypeInv, TypeOK
    <3> HIDE DEF g, b, m
    <3> QED
      BY <2>1, <3>1, LenProperties DEF TypeInv, TypeOK
  <2>5. /\ \A q \in Node, d \in Conn : pendingBuffers'[q][d] =
             IF q = n /\ d = c THEN b \o SubSeq(o, 1, k) ELSE pendingBuffers[q][d]
        /\ \A q \in Node, d \in Conn : out'[q][d] =
             IF q = m /\ d = c THEN SubSeq(o, k + 1, Len(o)) ELSE out[q][d]
    <3>1. /\ out \in [Node -> [Conn -> Seq(Unit)]]
          /\ pendingBuffers \in [Node -> [Conn -> Seq(Unit)]]
      BY DEF TypeInv, TypeOK
    <3> HIDE DEF o, b, m
    <3> QED
      BY <2>1, <2>2, <3>1
  <2>6. Framed(sent[m][c], Len(g), b, o)
    <3>1. PairOK(got, pendingBuffers, n, c) /\ Reads(n, c)
      BY <2>1 DEF DeliveryInv, DeliveryOK, Reads, TypeInv, Wiring
    <3> QED
      BY <3>1 DEF PairOK
  <2>7. Framed(sent[m][c], Len(g), b \o SubSeq(o, 1, k), SubSeq(o, k + 1, Len(o)))
    <3> HIDE DEF g, o, b, m
    <3> QED
      BY <2>4, <2>6, FramedRead
  <2>8. o # <<>>
    BY <2>4
  <2> SUFFICES ASSUME NEW q \in Node, NEW d \in Conn
               PROVE  PairOK(got, pendingBuffers, q, d)'
    BY DEF DeliveryInv, DeliveryOK
  <2>9. PairOK(got, pendingBuffers, q, d)
    BY DEF DeliveryInv, DeliveryOK
  <2>10. OtherEnd(q, d)' = OtherEnd(q, d) /\ Reads(q, d)' = Reads(q, d)
    BY <2>3 DEF OtherEnd, Reads
  <2>11. CASE q = n /\ d = c
    <3>1. OtherEnd(q, d) = m /\ Reads(q, d)
      BY <2>1, <2>11 DEF Reads, TypeInv, Wiring
    <3>2. pendingBuffers'[q][d] = b \o SubSeq(o, 1, k) /\ out'[m][c] = SubSeq(o, k + 1, Len(o))
      BY <2>1, <2>5, <2>11
    <3> HIDE DEF o, b, g, m
    <3> QED
      BY <2>1, <2>3, <2>7, <2>9, <2>10, <2>11, <3>1, <3>2 DEF PairOK, g
  <2>12. CASE ~(q = n /\ d = c)
    <3>1. pendingBuffers'[q][d] = pendingBuffers[q][d]
      BY <2>5, <2>12
    <3>2. sock[q][d] \in {"none", "backlog"} => out'[q][d] = out[q][d]
      BY <2>5, <2>8, <2>9 DEF PairOK
    <3>3. Reads(q, d) => out'[OtherEnd(q, d)][d] = out[OtherEnd(q, d)][d]
      <4>1. ASSUME d = c, q # n, Reads(q, c)
            PROVE  OtherEnd(q, c) # m
        BY <2>1, <4>1, NodeAssumption DEF Reads, OtherEnd, TypeInv, Wiring
      <4> HIDE DEF o, m
      <4> QED
        BY <2>5, <2>12, <4>1 DEF Reads
    <3> QED
      BY <2>3, <2>9, <2>10, <3>1, <3>2, <3>3 DEF PairOK
  <2> QED
    BY <2>11, <2>12
<1>11. ASSUME NEW n \in Node, NEW c \in Conn, disconnected(n, c)
       PROVE  DeliveryInv'
  <2>1. sock' = [sock EXCEPT ![n][c] = "gone"] /\ UNCHANGED <<dial, out, sent, got>>
    BY <1>11 DEF disconnected
  <2>2. pendingBuffers' = [pendingBuffers EXCEPT ![n][c] = <<>>]
    BY <1>11 DEF disconnected, cleanupSocket
  <2> SUFFICES ASSUME NEW q \in Node, NEW d \in Conn
               PROVE  PairOK(got, pendingBuffers, q, d)'
    BY DEF DeliveryInv, DeliveryOK
  <2>3. sock'[q][d] = IF d = c /\ q = n THEN "gone" ELSE sock[q][d]
    <3>1. sock \in [Node -> [Conn -> SockState]]
      BY DEF TypeInv, TypeOK
    <3>2. sock' = [sock EXCEPT ![n][c] = "gone"]
      BY <2>1
    <3> QED
      BY <3>1, <3>2
  <2>4. pendingBuffers'[q][d] = IF d = c /\ q = n THEN <<>> ELSE pendingBuffers[q][d]
    <3>1. pendingBuffers \in [Node -> [Conn -> Seq(Unit)]]
      BY DEF TypeInv, TypeOK
    <3> QED
      BY <2>2, <3>1
  <2> QED
    BY <2>1, <2>3, <2>4, SilentStep
<1> QED
  BY <1>2, <1>3, <1>4, <1>5, <1>6, <1>7, <1>8, <1>9, <1>10, <1>11 DEF Next

\* However the bytes arrive and whatever dies, what readSocket emits on a socket is
\* a prefix of what the other end wrote there.
THEOREM InOrderDelivery == Spec => []EmittedIsPrefixOfWritten
<1>1. DeliveryInv => EmittedIsPrefixOfWritten
  BY DEF DeliveryInv, DeliveryOK, PairOK, IsStart, EmittedIsPrefixOfWritten
<1> QED
  BY <1>1, TypeInvInit, TypeInvNext, DeliveryInit, DeliveryNext, PTL DEF Spec

(***************************************************************************)
(* The refinement.  links and ends are what Promise puts for link and end.  *)
(***************************************************************************)
links == [c \in Conn |-> [from |-> dial[c].from, to |-> dial[c].to]]
ends  == [n \in Node |-> [c \in Conn |-> endOf(sock[n][c])]]

LEMMA EndsAt ==
  ASSUME NEW n \in Node, NEW c \in Conn
  PROVE  ends[n][c] = endOf(sock[n][c]) /\ links[c] = [from |-> dial[c].from, to |-> dial[c].to]
BY DEF ends, links

LEMMA OtherIsOtherEnd ==
  ASSUME NEW n \in Node, NEW c \in Conn
  PROVE  Promise!Other(n, c) = OtherEnd(n, c)
BY DEF Promise!Other, OtherEnd

\* Two functions that agree everywhere, but at one point or on one row.
LEMMA PointChanged ==
  ASSUME NEW A, NEW B, NEW V, NEW f \in [A -> [B -> V]], NEW h \in [A -> [B -> V]],
         NEW a \in A, NEW b \in B, NEW v,
         \A x \in A, y \in B : h[x][y] = IF x = a /\ y = b THEN v ELSE f[x][y]
  PROVE  h = [f EXCEPT ![a][b] = v]
OBVIOUS

LEMMA RowChanged ==
  ASSUME NEW A, NEW B, NEW V, NEW f \in [A -> [B -> V]], NEW h \in [A -> [B -> V]],
         NEW a \in A, NEW r \in [B -> V],
         \A x \in A, y \in B : h[x][y] = IF x = a THEN r[y] ELSE f[x][y]
  PROVE  h = [f EXCEPT ![a] = r]
OBVIOUS

LEMMA EndsType == ends \in [Node -> [Conn -> {"new", "open", "lost"}]]
BY DEF ends, endOf

LEMMA WrittenIsWrite ==
  ASSUME TypeInv, NEW n \in Node, NEW e \in Conn, NEW m, Written(n, e, m)
  PROVE  Promise!Write(n, e, m)
<1>1. sent' = [sent EXCEPT ![n][e] = Append(@, m)]
  BY DEF Written
<1>2. CASE /\ sock[n][e] \in {"connecting", "connected"}
           /\ UNCHANGED <<dial, sock>>
  <2>1. ends[n][e] = "open" /\ ends' = ends /\ links' = links
    BY <1>2 DEF ends, links, endOf
  <2> QED
    BY <1>1, <2>1 DEF Promise!Write, ends, links
<1>3. CASE /\ Fresh(e)
           /\ \A r \in Node : sock[r][e] = "none"
           /\ \E p \in Node, q \in (Node \cup {NoNode}) \ {n} :
                dial' = [dial EXCEPT ![e] = [from |-> n, peer |-> p, to |-> q]]
           /\ sock' = [sock EXCEPT ![n][e] = "connecting"]
  <2>1. PICK p \in Node, q \in (Node \cup {NoNode}) \ {n} :
                dial' = [dial EXCEPT ![e] = [from |-> n, peer |-> p, to |-> q]]
    BY <1>3
  <2>2. links' = [links EXCEPT ![e] = [from |-> n, to |-> q]]
    BY <2>1 DEF links, TypeInv, TypeOK
  <2>3. ends' = [ends EXCEPT ![n][e] = "open"]
    <3>1. sock \in [Node -> [Conn -> SockState]] /\ sock' = [sock EXCEPT ![n][e] = "connecting"]
      BY <1>3 DEF TypeInv, TypeOK
    <3>2. \A r \in Node, d \in Conn :
            ends'[r][d] = IF r = n /\ d = e THEN "open" ELSE ends[r][d]
      BY <3>1 DEF ends, endOf
    <3>3. ends' \in [Node -> [Conn -> {"new", "open", "lost"}]]
      BY DEF ends, endOf
    <3> QED
      BY <3>2, <3>3, EndsType, PointChanged
  <2>4. links[e].from = NoNode
    BY <1>3 DEF links, Fresh
  <2> QED
    BY <1>1, <2>2, <2>3, <2>4 DEF Promise!Write, ends, links
<1> QED
  BY <1>2, <1>3 DEF Written

LEMMA PromiseInit == Init => Promise!Init
BY DEF Init, Promise!Init, endOf

LEMMA LoseStep ==
  ASSUME TypeInv, NEW n \in Node, UNCHANGED <<dial, sent, got>>,
         \A q \in Node, c \in Conn : sock'[q][c] # sock[q][c] =>
           /\ q = n
           /\ \/ sock[q][c] \in {"connecting", "backlog", "connected"}
              \/ sock[q][c] = "unconnected" /\ sock'[q][c] = "gone"
           /\ sock'[q][c] \in {"unconnected", "gone"}
  PROVE  Promise!Lose(n)
<1> DEFINE lost == {c \in Conn : ends[n][c] = "open" /\ ends'[n][c] = "lost"}
<1>1. lost \in SUBSET {c \in Conn : ends[n][c] = "open"}
  OBVIOUS
<1>2. links' = links
  BY DEF links
<1>3. ends' = [ends EXCEPT ![n] = [c \in Conn |-> IF c \in lost THEN "lost" ELSE ends[n][c]]]
  <2>1. \A q \in Node, c \in Conn :
          ends'[q][c] = IF q = n /\ c \in lost THEN "lost" ELSE ends[q][c]
    <3> SUFFICES ASSUME NEW q \in Node, NEW c \in Conn
                 PROVE  ends'[q][c] = IF q = n /\ c \in lost THEN "lost" ELSE ends[q][c]
      OBVIOUS
    <3>1. ends[q][c] = endOf(sock[q][c]) /\ ends'[q][c] = endOf(sock'[q][c])
      BY DEF ends
    <3>2. CASE sock'[q][c] = sock[q][c]
      <4>1. ends'[q][c] = ends[q][c]
        BY <3>1, <3>2
      <4> QED
        BY <4>1
    <3>3. CASE sock'[q][c] # sock[q][c]
      BY <3>1, <3>3 DEF endOf
    <3> QED
      BY <3>2, <3>3
  <2>2. /\ ends' \in [Node -> [Conn -> {"new", "open", "lost"}]]
        /\ ends \in [Node -> [Conn -> {"new", "open", "lost"}]]
    BY DEF ends, endOf
  <2> HIDE DEF lost
  <2> DEFINE row == [c \in Conn |-> IF c \in lost THEN "lost" ELSE ends[n][c]]
  <2>3. row \in [Conn -> {"new", "open", "lost"}]
    BY <2>2
  <2>4. \A q \in Node, c \in Conn : ends'[q][c] = IF q = n THEN row[c] ELSE ends[q][c]
    BY <2>1
  <2> HIDE DEF row
  <2>5. ends' = [ends EXCEPT ![n] = row]
    BY <2>2, <2>3, <2>4, RowChanged
  <2> QED
    BY <2>5 DEF row
<1> HIDE DEF lost
<1> QED
  BY <1>1, <1>2, <1>3 DEF Promise!Lose, ends, links

\* Every step of the router is a step of Delivery or none of its business.
LEMMA PromiseNext ==
  TypeInv /\ DeliveryInv /\ [Next]_vars => [Promise!Next]_(Promise!vars)
<1> SUFFICES ASSUME TypeInv, DeliveryInv, [Next]_vars
             PROVE  Promise!Next \/ UNCHANGED Promise!vars
  OBVIOUS
<1>1. ASSUME UNCHANGED <<dial, sent, got>>,
             \A n \in Node, c \in Conn : endOf(sock[n][c])' = endOf(sock[n][c])
      PROVE  UNCHANGED Promise!vars
  <2>1. links' = links /\ ends' = ends
    BY <1>1 DEF links, ends
  <2> QED
    BY <1>1, <2>1 DEF Promise!vars, links, ends
<1>2. CASE UNCHANGED vars
  BY <1>1, <1>2 DEF vars
<1>3. ASSUME NEW n \in Node, startListening(n)
      PROVE  UNCHANGED Promise!vars
  BY <1>1, <1>3 DEF startListening, wires
<1>4. ASSUME NEW n \in Node, handleNewConnection(n)
      PROVE  UNCHANGED Promise!vars
  <2>1. \A q \in Node, c \in Conn :
          sock'[q][c] = IF q = n /\ sock[q][c] = "backlog" THEN "connected" ELSE sock[q][c]
    BY <1>4 DEF handleNewConnection, TypeInv, TypeOK
  <2>2. \A q \in Node, c \in Conn : endOf(sock[q][c])' = endOf(sock[q][c])
    BY <2>1 DEF endOf
  <2> QED
    BY <1>1, <1>4, <2>2 DEF handleNewConnection
<1>5. ASSUME NEW n \in Node, readLine(n)
      PROVE  \E c \in Conn : Promise!Emit(n, c)
  <2>1. PICK c \in Conn :
          LET m == OtherEnd(n, c)
              k == Len(got[n][c]) + 1
              x == sent[m][c][k]
          IN  /\ sock[n][c] = "connected" /\ m \in Node
              /\ k <= Len(sent[m][c]) /\ x \in Message
              /\ got' = [got EXCEPT ![n][c] = Append(@, x)]
              /\ IF x.type = "share_request"
                 THEN \E e \in Conn : Written(n, e,
                        [type |-> "share_catalog", id |-> n, num |-> x.num])
                 ELSE UNCHANGED <<dial, sock, out, sent>>
    BY <1>5, ReadLineEffect
  <2> DEFINE m == OtherEnd(n, c)
             x == sent[m][c][Len(got[n][c]) + 1]
             answer == [type |-> "share_catalog", id |-> n, num |-> x.num]
  <2>2. ends[n][c] = "open" /\ Promise!Other(n, c) = m /\ m \in Node
    BY <2>1, EndsAt, OtherIsOtherEnd DEF endOf
  <2>3. Len(got[n][c]) < Len(sent[m][c])
    <3>1. got[n][c] \in Seq(Message) /\ sent[m][c] \in Seq(Message)
          /\ Len(got[n][c]) + 1 <= Len(sent[m][c])
      BY <2>1 DEF TypeInv, TypeOK
    <3> HIDE DEF m
    <3> QED
      BY <3>1, LenProperties
  <2>4. got' = [got EXCEPT ![n][c] = Append(@, x)]
    BY <2>1
  <2>5. CASE x.type = "share_request"
    <3>1. PICK e \in Conn : Written(n, e, answer)
      BY <2>1, <2>5
    <3>2. PICK a : a = answer
      OBVIOUS
    <3>3. Written(n, e, a)
      BY <3>1, <3>2 DEF Written, Line
    <3>4. Promise!Write(n, e, a)
      BY <3>3, WrittenIsWrite
    <3>5. Promise!Write(n, e, answer)
      BY <3>2, <3>4 DEF Promise!Write
    <3>6. Promise!Emit(n, c)
      BY <2>2, <2>3, <2>4, <2>5, <3>5 DEF Promise!Emit, Promise!Write, ends
    <3> QED
      BY <3>6
  <2>6. CASE x.type # "share_request"
    <3>1. links' = links /\ ends' = ends /\ sent' = sent
      BY <2>1, <2>6 DEF links, ends
    <3>2. Promise!Emit(n, c)
      BY <2>2, <2>3, <2>4, <2>6, <3>1, Zenon DEF Promise!Emit, ends, links
    <3> QED
      BY <3>2
  <2> QED
    BY <2>5, <2>6
<1>6. ASSUME NEW n \in Node, stop(n)
      PROVE  Promise!Lose(n)
  <2>1. /\ \A q \in Node, c \in Conn :
             sock'[q][c] = IF q # n THEN sock[q][c]
                           ELSE IF sock[n][c] = "none" THEN "none" ELSE "gone"
        /\ UNCHANGED <<dial, sent, got>>
        /\ \A q \in Node, c \in Conn : sock[q][c] \in SockState
    BY <1>6 DEF stop, TypeInv, TypeOK
  <2> QED
    BY <2>1, LoseStep DEF SockState
<1>7. ASSUME NEW n \in Node, NEW p \in Node, send(n, p)
      PROVE  \E c \in Conn : Promise!Send(n, c)
  <2>1. PICK e \in Conn, type \in {"chat", "share_request"} :
          /\ sends[n] \in 0..MaxSends
          /\ Written(n, e, [type |-> type, id |-> n, num |-> sends[n]])
    BY <1>7, SendEffect
  <2>2. PICK m \in Message : m = [type |-> type, id |-> n, num |-> sends[n]]
    BY <2>1 DEF Message, MsgType
  <2>a. m.type # "share_catalog" /\ m.id = n
    BY <2>2
  <2>3. Written(n, e, m) /\ got' = got
    BY <1>7, <2>1, <2>2 DEF send, sendPayload, Written, Line
  <2>4. Promise!Write(n, e, m)
    BY <2>3, WrittenIsWrite
  <2>5. Promise!Send(n, e)
    BY <2>2, <2>a, <2>3, <2>4, Zenon DEF Promise!Send
  <2> QED
    BY <2>5
<1>8. ASSUME NEW c \in Conn, connectSucceeds(c)
      PROVE  \E n \in Node : Promise!Open(n, c)
  <2>1. PICK n \in Node, q \in Node :
          /\ n # q /\ dial[c].from = n /\ dial[c].to = q
          /\ sock[n][c] = "connecting" /\ sock[q][c] = "none"
          /\ \A s \in Node, d \in Conn :
               sock'[s][d] = IF d # c \/ s \notin {n, q} THEN sock[s][d]
                             ELSE IF s = n THEN "connected" ELSE "backlog"
    BY <1>8, ConnectEffect
  <2>2. UNCHANGED <<dial, sent, got>>
    BY <1>8 DEF connectSucceeds
  <2>3. /\ ends[q][c] = "new" /\ ends[n][c] = "open"
        /\ links[c].from = n /\ links[c].to = q /\ links' = links
    BY <2>1, <2>2 DEF ends, links, endOf
  <2>4. ends' = [ends EXCEPT ![q][c] = "open"]
    <3>1. \A s \in Node, d \in Conn :
            ends'[s][d] = IF s = q /\ d = c THEN "open" ELSE ends[s][d]
      BY <2>1 DEF ends, endOf
    <3>2. ends' \in [Node -> [Conn -> {"new", "open", "lost"}]]
      BY DEF ends, endOf
    <3> QED
      BY <3>1, <3>2, EndsType, PointChanged
  <2>5. Promise!Open(q, c)
    BY <2>2, <2>3, <2>4, Zenon DEF Promise!Open, ends, links
  <2> QED
    BY <2>5
<1>9. ASSUME NEW c \in Conn, connectFails(c)
      PROVE  \E n \in Node : Promise!Lose(n)
  <2>1. PICK n \in Node : /\ sock' = [sock EXCEPT ![n][c] = "unconnected"]
                          /\ sock[n][c] = "connecting"
                          /\ UNCHANGED <<dial, sent, got>>
    BY <1>9 DEF connectFails, TypeInv, TypeOK
  <2>2. \A q \in Node, d \in Conn :
          sock'[q][d] = IF d = c /\ q = n THEN "unconnected" ELSE sock[q][d]
    BY <2>1 DEF TypeInv, TypeOK
  <2>3. Promise!Lose(n)
    BY <2>1, <2>2, LoseStep
  <2> QED
    BY <2>3
<1>10. ASSUME NEW n \in Node, NEW c \in Conn, readSocket(n, c)
       PROVE  UNCHANGED Promise!vars
  BY <1>1, <1>10 DEF readSocket
<1>11. ASSUME NEW n \in Node, NEW c \in Conn, disconnected(n, c)
       PROVE  Promise!Lose(n)
  <2>1. /\ sock' = [sock EXCEPT ![n][c] = "gone"] /\ UNCHANGED <<dial, sent, got>>
        /\ sock[n][c] = "connected"
    BY <1>11 DEF disconnected
  <2>2. \A q \in Node, d \in Conn :
          sock'[q][d] = IF d = c /\ q = n THEN "gone" ELSE sock[q][d]
    BY <2>1 DEF TypeInv, TypeOK
  <2> QED
    BY <2>1, <2>2, LoseStep
<1> QED
  BY <1>2, <1>3, <1>4, <1>5, <1>6, <1>7, <1>8, <1>9, <1>10, <1>11 DEF Next, Promise!Next

\* MessageRouter implements Delivery.
THEOREM RouterDelivers == Spec => ImplementsDelivery
<1>1. TypeInv /\ DeliveryInv /\ [Next]_vars => [Promise!Next]_(Promise!vars)
  BY PromiseNext
<1> QED
  BY <1>1, PromiseInit, TypeInvInit, TypeInvNext, DeliveryInit, DeliveryNext, PTL
     DEF Spec, ImplementsDelivery, Promise!Spec
=============================================================================
