--------------------------- MODULE LanChat_proofs ---------------------------
(***************************************************************************)
(* Where the sessions of the routers come from, and the chats between       *)
(* installations, for any installations, connections, addresses, moves and  *)
(* bounds: which sessions can hide a peer, when the answer to a request is  *)
(* dialled, that the composition keeps what the routers guarantee, that     *)
(* what a history says was received was written once, by the one it names,  *)
(* and that chats are recorded in the order they were written in while      *)
(* their writer loses no socket.                                            *)
(***************************************************************************)
EXTENDS LanChat, MessageRouter_proofs

(***************************************************************************)
(* A session was dialled for its peer, or the peer wrote on it.  Unless it  *)
(* was dialled and ended at somebody else, its socket belongs to the peer   *)
(* and goes together with it.                                               *)
(***************************************************************************)
OriginOK(n, sessions, owners) ==
  \A p \in Node, c \in Conn : sessions[p] = c =>
    /\ \/ dial[c].from = n /\ dial[c].peer = p
       \/ OtherEnd(n, c) = p /\ sock[n][c] \in {"connected", "gone"}
    /\ \/ sock[n][c] # "gone" /\ owners[c] = p
       \/ dial[c].from = n /\ dial[c].to \in Node \ {p}

WriterOK == \A n \in Node, c \in Conn : \A k \in 1..Len(sent[n][c]) : sent[n][c][k].id = n

OriginInv == WriterOK /\ \A n \in Node : OriginOK(n, peerSessions[n], socketToPeer[n])

\* Every line names its writer.
LEMMA WrittenNames ==
  ASSUME TypeInv, WriterOK, NEW n \in Node, NEW e \in Conn, NEW m \in Message, m.id = n,
         Written(n, e, m)
  PROVE  WriterOK'
<1>1. \A q \in Node, d \in Conn :
        sent'[q][d] = IF q = n /\ d = e THEN Append(sent[n][e], m) ELSE sent[q][d]
  <2>1. sent \in [Node -> [Conn -> Seq(Message)]]
    BY DEF TypeInv, TypeOK
  <2>2. sent' = [sent EXCEPT ![n][e] = Append(@, m)]
    BY DEF Written
  <2> QED
    BY <2>1, <2>2
<1>2. \A k \in 1..Len(Append(sent[n][e], m)) : Append(sent[n][e], m)[k].id = n
  <2>1. sent[n][e] \in Seq(Message)
    BY DEF TypeInv, TypeOK
  <2>2. \A k \in 1..(Len(sent[n][e]) + 1) :
          Append(sent[n][e], m)[k] = IF k = Len(sent[n][e]) + 1 THEN m ELSE sent[n][e][k]
    BY <2>1, AppendProperties
  <2> QED
    BY <2>1, <2>2, AppendProperties, LenProperties DEF WriterOK
<1> SUFFICES ASSUME NEW q \in Node, NEW d \in Conn
             PROVE  \A k \in 1..Len(sent'[q][d]) : sent'[q][d][k].id = q
  BY DEF WriterOK
<1>3. CASE q = n /\ d = e
  <2>1. sent'[q][d] = Append(sent[n][e], m)
    BY <1>1, <1>3
  <2> QED
    BY <1>2, <1>3, <2>1
<1>4. CASE ~(q = n /\ d = e)
  <2>1. sent'[q][d] = sent[q][d]
    BY <1>1, <1>4
  <2> QED
    BY <2>1 DEF WriterOK
<1> QED
  BY <1>3, <1>4

\* ensureSession keeps the origins its caller has.
LEMMA SendToOrigin ==
  ASSUME TypeInv,
         NEW n \in Node, NEW peer \in Node, NEW goal \in Node \cup {NoNode},
         NEW sessions \in [Node -> Conn \cup {NoConn}],
         NEW owners \in [Conn -> Node \cup {NoNode}],
         NEW m, sendTo(n, peer, goal, sessions, owners, m),
         TablesOK(n, sessions, owners),
         \A q \in Node \ {n} : TablesOK(q, peerSessions[q], socketToPeer[q]),
         OriginOK(n, sessions, owners),
         \A q \in Node \ {n} : OriginOK(q, peerSessions[q], socketToPeer[q])
  PROVE  \A q \in Node : OriginOK(q, peerSessions[q], socketToPeer[q])'
<1>1. CASE Live(n, sessions[peer])
  <2>1. /\ dial' = dial /\ sock' = sock
        /\ peerSessions'[n] = sessions /\ socketToPeer'[n] = owners
        /\ \A q \in Node \ {n} : /\ peerSessions'[q] = peerSessions[q]
                                  /\ socketToPeer'[q] = socketToPeer[q]
    BY <1>1, SendToEffect, Zenon
  <2> QED
    BY <2>1 DEF OriginOK, OtherEnd
<1>2. CASE ~Live(n, sessions[peer])
  <2>1. PICK c \in Conn :
          /\ Fresh(c)
          /\ \A q \in Node : sock[q][c] = "none"
          /\ \A d \in Conn : dial'[d] = IF d = c
               THEN [from |-> n, peer |-> peer, to |-> goal] ELSE dial[d]
          /\ \A q \in Node, d \in Conn :
               sock'[q][d] = IF q = n /\ d = c THEN "connecting" ELSE sock[q][d]
          /\ \A p \in Node : peerSessions'[n][p] = IF p = peer THEN c ELSE sessions[p]
          /\ \A d \in Conn : socketToPeer'[n][d] = IF d = c THEN peer ELSE owners[d]
    BY <1>2, SendToEffect, SMTT(60)
  <2>2. \A q \in Node \ {n} : /\ peerSessions'[q] = peerSessions[q]
                              /\ socketToPeer'[q] = socketToPeer[q]
    BY SendToEffect
  <2>3. \A q \in Node, d \in Conn \ {c} :
          dial'[d] = dial[d] /\ sock'[q][d] = sock[q][d] /\ OtherEnd(q, d)' = OtherEnd(q, d)
    BY <2>1 DEF OtherEnd
  <2>4. OriginOK(n, peerSessions[n], socketToPeer[n])'
    <3> SUFFICES ASSUME NEW p \in Node, NEW d \in Conn, peerSessions'[n][p] = d
                 PROVE  /\ \/ dial'[d].from = n /\ dial'[d].peer = p
                           \/ OtherEnd(n, d)' = p /\ sock'[n][d] \in {"connected", "gone"}
                        /\ \/ sock'[n][d] # "gone" /\ socketToPeer'[n][d] = p
                           \/ dial'[d].from = n /\ dial'[d].to \in Node \ {p}
      BY DEF OriginOK
    <3>1. CASE p = peer
      <4>1. d = c
        BY <2>1, <3>1
      <4> QED
        BY <2>1, <3>1, <4>1
    <3>2. CASE p # peer
      <4>1. sessions[p] = d
        BY <2>1, <3>2
      <4>2. d # c
        BY <2>1, <4>1, ConnAssumption DEF TablesOK
      <4> QED
        BY <2>1, <2>3, <4>1, <4>2 DEF OriginOK
    <3> QED
      BY <3>1, <3>2
  <2>5. ASSUME NEW q \in Node \ {n}
        PROVE  OriginOK(q, peerSessions[q], socketToPeer[q])'
    <3>1. /\ TablesOK(q, peerSessions[q], socketToPeer[q])
          /\ OriginOK(q, peerSessions[q], socketToPeer[q])
      OBVIOUS
    <3>2. \A p \in Node : peerSessions[q][p] # c
      BY <2>1, <3>1, ConnAssumption DEF TablesOK
    <3> QED
      BY <2>2, <2>3, <3>1, <3>2 DEF OriginOK
  <2> QED
    BY <2>4, <2>5
<1> QED
  BY <1>1, <1>2

\* The sender of a line is the other end of the connection it came on.
LEMMA RegisterOrigin ==
  ASSUME TypeInv, NEW n \in Node, NEW c \in Conn, sock[n][c] = "connected",
         NEW p \in Node, OtherEnd(n, c) = p,
         OriginOK(n, peerSessions[n], socketToPeer[n])
  PROVE  OriginOK(n, register(peerSessions[n], p, c), [socketToPeer[n] EXCEPT ![c] = p])
<1> DEFINE sessions == register(peerSessions[n], p, c)
           owners   == [socketToPeer[n] EXCEPT ![c] = p]
<1>1. /\ \A r \in Node : sessions[r] = IF r = p /\ peerSessions[n][p] = NoConn THEN c
                                       ELSE peerSessions[n][r]
      /\ \A d \in Conn : owners[d] = IF d = c THEN p ELSE socketToPeer[n][d]
  BY DEF register, TypeInv, TypeOK
<1> HIDE DEF sessions, owners
<1>2. ASSUME NEW r \in Node, NEW d \in Conn, sessions[r] = d
      PROVE  /\ \/ dial[d].from = n /\ dial[d].peer = r
                \/ OtherEnd(n, d) = r /\ sock[n][d] \in {"connected", "gone"}
             /\ \/ sock[n][d] # "gone" /\ owners[d] = r
                \/ dial[d].from = n /\ dial[d].to \in Node \ {r}
  <2>1. CASE r = p /\ peerSessions[n][p] = NoConn
    BY <1>1, <1>2, <2>1
  <2>2. CASE ~(r = p /\ peerSessions[n][p] = NoConn)
    <3>1. peerSessions[n][r] = d
      BY <1>1, <1>2, <2>2
    <3>2. CASE d # c
      BY <1>1, <3>1, <3>2 DEF OriginOK
    <3>3. CASE d = c
      <4>1. CASE r = p
        BY <1>1, <3>3, <4>1
      <4>2. CASE r # p
        <5>1. dial[c].from = n /\ dial[c].peer = r
          BY <3>1, <3>3, <4>2 DEF OriginOK
        <5> QED
          BY <3>3, <4>2, <5>1 DEF OtherEnd
      <4> QED
        BY <4>1, <4>2
    <3> QED
      BY <3>2, <3>3
  <2> QED
    BY <2>1, <2>2
<1> QED
  BY <1>2 DEF OriginOK, sessions, owners

LEMMA OriginInit == Init => OriginInv
BY NodeAssumption, ConnAssumption DEF Init, OriginInv, OriginOK, WriterOK

LEMMA OriginNext ==
  TypeInv /\ TypeInv' /\ TablesInv /\ DeliveryInv /\ OriginInv /\ [Next]_vars => OriginInv'
<1> SUFFICES ASSUME TypeInv, TypeInv', TablesInv, DeliveryInv, OriginInv, [Next]_vars
             PROVE  OriginInv'
  OBVIOUS
<1>0. /\ WriterOK
      /\ \A n \in Node : /\ OriginOK(n, peerSessions[n], socketToPeer[n])
                        /\ TablesOK(n, peerSessions[n], socketToPeer[n])
  BY DEF OriginInv, TablesInv
<1>1. ASSUME UNCHANGED <<dial, sent, peerSessions, socketToPeer>>,
             \A n \in Node, c \in Conn :
               \/ sock'[n][c] = sock[n][c]
               \/ sock'[n][c] # "gone" /\ sock[n][c] \notin {"connected", "gone"}
      PROVE  OriginInv'
  <2>1. WriterOK'
    BY <1>0, <1>1 DEF WriterOK
  <2>2. ASSUME NEW n \in Node
        PROVE  OriginOK(n, peerSessions[n], socketToPeer[n])'
    BY <1>0, <1>1 DEF OriginOK, OtherEnd
  <2> QED
    BY <2>1, <2>2 DEF OriginInv
<1>2. CASE UNCHANGED vars
  BY <1>1, <1>2 DEF vars
<1>3. ASSUME NEW n \in Node, startListening(n)
      PROVE  OriginInv'
  BY <1>1, <1>3 DEF startListening, wires, tables
<1>4. ASSUME NEW n \in Node, handleNewConnection(n)
      PROVE  OriginInv'
  <2>1. /\ UNCHANGED <<dial, sent, peerSessions, socketToPeer>>
        /\ \A q \in Node, c \in Conn :
             sock'[q][c] = IF q = n /\ sock[q][c] = "backlog" THEN "connected" ELSE sock[q][c]
    BY <1>4 DEF handleNewConnection, TypeInv, TypeOK, tables
  <2> QED
    BY <1>1, <2>1
<1>5. ASSUME NEW n \in Node, readLine(n)
      PROVE  OriginInv'
  <2>1. PICK c \in Conn :
          LET p == OtherEnd(n, c)
              x == sent[p][c][Len(got[n][c]) + 1]
          IN  /\ sock[n][c] = "connected" /\ p \in Node
              /\ messageReceived(n, c, x)
              /\ Len(got[n][c]) + 1 <= Len(sent[p][c]) /\ x \in Message
              /\ IF x.type = "share_request"
                 THEN \E e \in Conn : Written(n, e,
                        [type |-> "share_catalog", id |-> n, num |-> x.num])
                 ELSE UNCHANGED <<dial, sock, out, sent>>
    BY <1>5, ReadLineEffect
  <2> DEFINE p == OtherEnd(n, c)
             x == sent[p][c][Len(got[n][c]) + 1]
             sessions == register(peerSessions[n], p, c)
             owners == [socketToPeer[n] EXCEPT ![c] = p]
             answer == [type |-> "share_catalog", id |-> n, num |-> x.num]
  <2>2. p \in Node /\ x \in Message
    BY <2>1
  <2>3. x.id = p
    <3>1. got[n][c] \in Seq(Message) /\ sent[p][c] \in Seq(Message)
      BY <2>2 DEF TypeInv, TypeOK
    <3>2. Len(got[n][c]) + 1 \in 1..Len(sent[p][c])
      BY <2>1, <3>1, LenProperties
    <3> QED
      BY <1>0, <2>2, <3>2 DEF WriterOK
  <2>4. answer \in Message /\ answer.id = n
    BY <2>2 DEF Message, MsgType
  <2>5. WriterOK'
    <3>1. CASE \E e \in Conn : Written(n, e, answer)
      <4> HIDE DEF answer
      <4> QED
        BY <1>0, <2>4, <3>1, WrittenNames
    <3>2. CASE UNCHANGED sent
      BY <1>0, <3>2 DEF WriterOK
    <3> QED
      BY <2>1, <3>1, <3>2
  <2>6. /\ sessions \in [Node -> Conn \cup {NoConn}]
        /\ owners \in [Conn -> Node \cup {NoNode}]
        /\ TablesOK(n, sessions, owners)
        /\ OriginOK(n, sessions, owners)
    BY <1>0, <2>1, <2>2, RegisterTables, RegisterOrigin
  <2>7. \/ sendTo(n, p, endpoint(n, c), sessions, owners, answer)
        \/ /\ peerSessions' = [peerSessions EXCEPT ![n] = sessions]
           /\ socketToPeer' = [socketToPeer EXCEPT ![n] = owners]
           /\ UNCHANGED <<dial, sock>>
    BY <2>1, <2>3 DEF messageReceived
  <2> HIDE DEF p, x, sessions, owners, answer
  <2>8. CASE sendTo(n, p, endpoint(n, c), sessions, owners, answer)
    <3>1. \A q \in Node : OriginOK(q, peerSessions[q], socketToPeer[q])'
      <4>1. endpoint(n, c) \in Node \cup {NoNode} /\ endpoint(n, c) # n
        BY <1>0, EndpointType
      <4> QED
        BY <1>0, <2>2, <2>6, <2>8, <4>1, SendToOrigin
    <3> QED
      BY <2>5, <3>1 DEF OriginInv
  <2>9. CASE /\ peerSessions' = [peerSessions EXCEPT ![n] = sessions]
             /\ socketToPeer' = [socketToPeer EXCEPT ![n] = owners]
             /\ UNCHANGED <<dial, sock>>
    <3>1. \A q \in Node : /\ peerSessions'[q] = IF q = n THEN sessions ELSE peerSessions[q]
                          /\ socketToPeer'[q] = IF q = n THEN owners ELSE socketToPeer[q]
      BY <2>9 DEF TypeInv, TypeOK
    <3>2. \A q \in Node : OriginOK(q, peerSessions[q], socketToPeer[q])'
      BY <1>0, <2>6, <2>9, <3>1 DEF OriginOK, OtherEnd
    <3> QED
      BY <2>5, <3>2 DEF OriginInv
  <2> QED
    BY <2>7, <2>8, <2>9
<1>6. ASSUME NEW n \in Node, stop(n)
      PROVE  OriginInv'
  <2>1. /\ \A q \in Node \ {n} : /\ peerSessions'[q] = peerSessions[q]
                                 /\ socketToPeer'[q] = socketToPeer[q]
                                 /\ sock'[q] = sock[q]
        /\ \A p \in Node : peerSessions'[n][p] = NoConn
        /\ UNCHANGED <<dial, sent>>
    BY <1>6 DEF stop, TypeInv, TypeOK
  <2>2. WriterOK'
    BY <1>0, <2>1 DEF WriterOK
  <2>3. ASSUME NEW q \in Node
        PROVE  OriginOK(q, peerSessions[q], socketToPeer[q])'
    <3>1. CASE q = n
      BY <2>1, <3>1, ConnAssumption DEF OriginOK
    <3>2. CASE q # n
      BY <1>0, <2>1, <3>2 DEF OriginOK, OtherEnd
    <3> QED
      BY <3>1, <3>2
  <2> QED
    BY <2>2, <2>3 DEF OriginInv
<1>7. ASSUME NEW n \in Node, NEW p \in Node, send(n, p)
      PROVE  OriginInv'
  <2>1. PICK goal \in Goals[p] \ {n}, type \in {"chat", "share_request"} :
          sendTo(n, p, goal, peerSessions[n], socketToPeer[n],
                 [type |-> type, id |-> n, num |-> sends[n]])
    BY <1>7 DEF send, sendPayload
  <2>2. /\ goal \in Node \cup {NoNode}
        /\ peerSessions[n] \in [Node -> Conn \cup {NoConn}]
        /\ socketToPeer[n] \in [Conn -> Node \cup {NoNode}]
    BY GoalsAssumption DEF TypeInv, TypeOK
  <2>3. \A q \in Node : OriginOK(q, peerSessions[q], socketToPeer[q])'
    BY <1>0, <2>1, <2>2, SendToOrigin
  <2>4. PICK e \in Conn, kind \in {"chat", "share_request"} :
          /\ sends[n] \in 0..MaxSends
          /\ Written(n, e, [type |-> kind, id |-> n, num |-> sends[n]])
    BY <1>7, SendEffect
  <2>5. WriterOK'
    <3> DEFINE m == [type |-> kind, id |-> n, num |-> sends[n]]
    <3>1. m \in Message /\ m.id = n
      BY <2>4 DEF Message, MsgType
    <3>2. Written(n, e, m)
      BY <2>4
    <3> HIDE DEF m
    <3> QED
      BY <1>0, <3>1, <3>2, WrittenNames
  <2> QED
    BY <2>3, <2>5 DEF OriginInv
<1>8. ASSUME NEW c \in Conn, connectSucceeds(c)
      PROVE  OriginInv'
  <2>1. UNCHANGED <<dial, sent, peerSessions, socketToPeer>>
    BY <1>8 DEF connectSucceeds, tables
  <2>2. PICK n \in Node, q \in Node :
          /\ sock[n][c] = "connecting" /\ sock[q][c] = "none"
          /\ \A r \in Node, d \in Conn :
               sock'[r][d] = IF d # c \/ r \notin {n, q} THEN sock[r][d]
                             ELSE IF r = n THEN "connected" ELSE "backlog"
    BY <1>8, ConnectEffect
  <2> QED
    BY <1>1, <2>1, <2>2
<1>9. ASSUME NEW c \in Conn, connectFails(c)
      PROVE  OriginInv'
  <2>1. /\ UNCHANGED <<dial, sent, peerSessions, socketToPeer>>
        /\ dial[c].from \in Node
        /\ sock[dial[c].from][c] = "connecting"
        /\ sock' = [sock EXCEPT ![dial[c].from][c] = "unconnected"]
    BY <1>9 DEF connectFails, tables, TypeInv, TypeOK
  <2>2. \A r \in Node, d \in Conn :
          sock'[r][d] = IF d = c /\ r = dial[c].from THEN "unconnected" ELSE sock[r][d]
    <3>1. sock \in [Node -> [Conn -> SockState]]
      BY DEF TypeInv, TypeOK
    <3>2. PICK n \in Node : n = dial[c].from
      BY <2>1
    <3> QED
      BY <2>1, <3>1, <3>2
  <2> QED
    BY <1>1, <2>1, <2>2
<1>10. ASSUME NEW n \in Node, NEW c \in Conn, readSocket(n, c)
       PROVE  OriginInv'
  BY <1>1, <1>10 DEF readSocket
<1>11. ASSUME NEW n \in Node, NEW c \in Conn, disconnected(n, c)
       PROVE  OriginInv'
  <2>1. /\ \A q \in Node, d \in Conn :
             sock'[q][d] = IF d = c /\ q = n THEN "gone" ELSE sock[q][d]
        /\ sock[n][c] = "connected"
        /\ UNCHANGED <<dial, sent>>
    <3>1. /\ sock \in [Node -> [Conn -> SockState]] /\ sock' = [sock EXCEPT ![n][c] = "gone"]
          /\ sock[n][c] = "connected" /\ UNCHANGED <<dial, sent>>
      BY <1>11 DEF disconnected, TypeInv, TypeOK
    <3>2. \A q \in Node, d \in Conn :
            sock'[q][d] = IF d = c /\ q = n THEN "gone" ELSE sock[q][d]
      BY <3>1
    <3> QED
      BY <3>1, <3>2
  <2>2. /\ \A d \in Conn : socketToPeer'[n][d] = IF d = c THEN NoNode ELSE socketToPeer[n][d]
        /\ \A p \in Node : peerSessions'[n][p] =
             IF p = socketToPeer[n][c] /\ peerSessions[n][p] = c THEN NoConn ELSE peerSessions[n][p]
        /\ \A q \in Node \ {n} : /\ peerSessions'[q] = peerSessions[q]
                                 /\ socketToPeer'[q] = socketToPeer[q]
    BY <1>11 DEF disconnected, cleanupSocket, TypeInv, TypeOK
  <2>3. WriterOK'
    BY <1>0, <2>1 DEF WriterOK
  <2>4. ASSUME NEW q \in Node
        PROVE  OriginOK(q, peerSessions[q], socketToPeer[q])'
    <3>1. CASE q # n
      BY <1>0, <2>1, <2>2, <3>1 DEF OriginOK, OtherEnd
    <3>2. CASE q = n
      <4> SUFFICES ASSUME NEW p \in Node, NEW d \in Conn, peerSessions'[n][p] = d
                   PROVE  /\ \/ dial'[d].from = n /\ dial'[d].peer = p
                             \/ OtherEnd(n, d)' = p /\ sock'[n][d] \in {"connected", "gone"}
                          /\ \/ sock'[n][d] # "gone" /\ socketToPeer'[n][d] = p
                             \/ dial'[d].from = n /\ dial'[d].to \in Node \ {p}
        BY <3>2 DEF OriginOK
      <4>1. peerSessions[n][p] = d /\ ~(p = socketToPeer[n][c] /\ d = c)
        BY <2>2, ConnAssumption
      <4>2. OtherEnd(n, d)' = OtherEnd(n, d)
        BY <2>1 DEF OtherEnd
      <4> QED
        BY <1>0, <2>1, <2>2, <4>1, <4>2 DEF OriginOK
    <3> QED
      BY <3>1, <3>2
  <2> QED
    BY <2>3, <2>4 DEF OriginInv
<1> QED
  BY <1>2, <1>3, <1>4, <1>5, <1>6, <1>7, <1>8, <1>9, <1>10, <1>11 DEF Next

\* A session whose socket is gone ended at somebody else than its peer.
THEOREM DeadSessionsWereMisdialled == Spec => []GoneSessionWasMisdialled
<1>1. OriginInv => GoneSessionWasMisdialled
  BY DEF OriginInv, OriginOK, GoneSessionWasMisdialled
<1> QED
  BY <1>1, TypeInvInit, TypeInvNext, TablesInit, TablesNext, DeliveryInit, DeliveryNext,
     OriginInit, OriginNext, PTL DEF Spec

(***************************************************************************)
(* The answer to a request.                                                 *)
(***************************************************************************)
BadDial(n, p) == \E d \in Conn : /\ dial[d].from = n /\ dial[d].peer = p
                                 /\ \/ sock[n][d] = "unconnected"
                                    \/ sock[n][d] = "gone" /\ dial[d].to # dial[d].peer

\* A session that does not live is a dial of the peer that went wrong.
LEMMA DeadSessionIsBadDial ==
  ASSUME TypeInv, TablesInv, OriginInv, NEW n \in Node, NEW p \in Node,
         peerSessions[n][p] # NoConn, ~Live(n, peerSessions[n][p])
  PROVE  BadDial(n, p)
<1> DEFINE d == peerSessions[n][p]
<1>1. d \in Conn
  BY DEF TypeInv, TypeOK
<1>2. sock[n][d] \in {"unconnected", "gone"}
  <2>1. sock[n][d] \in SockState /\ sock[n][d] \notin {"none", "backlog"}
    BY <1>1 DEF TypeInv, TypeOK, TablesInv, TablesOK
  <2> QED
    BY <1>1, <2>1, ConnAssumption DEF Live, SockState
<1>3. /\ \/ dial[d].from = n /\ dial[d].peer = p
         \/ OtherEnd(n, d) = p /\ sock[n][d] \in {"connected", "gone"}
      /\ \/ sock[n][d] # "gone" /\ socketToPeer[n][d] = p
         \/ dial[d].from = n /\ dial[d].to \in Node \ {p}
  BY <1>1 DEF OriginInv, OriginOK
<1>4. dial[d].from = n /\ dial[d].peer = p
  BY <1>2, <1>3 DEF OtherEnd
<1>5. sock[n][d] = "gone" => dial[d].to # dial[d].peer
  BY <1>3, <1>4
<1> HIDE DEF d
<1> QED
  BY <1>1, <1>2, <1>4, <1>5 DEF BadDial

LEMMA AnswerStep ==
  ASSUME TypeInv, TablesInv, DeliveryInv, OriginInv, [Next]_vars,
         NEW n \in Node, NEW c \in Conn,
         busy[n] # NoConn, dial[c].from = NoNode, dial'[c].from = n
  PROVE  BadDial(n, dial'[c].peer)
<1>1. dial'[c] # dial[c]
  BY NodeAssumption
<1>2. \/ \E q \in Node : readLine(q)
      \/ \E q, p \in Node : send(q, p)
  BY <1>1 DEF Next, vars, wires, startListening, handleNewConnection, stop, connectSucceeds,
              connectFails, readSocket, disconnected
<1>3. ASSUME NEW q \in Node, NEW p \in Node, send(q, p)
      PROVE  FALSE
  <2>1. busy[q] = NoConn
    BY <1>3 DEF send, sendPayload, Idle
  <2>2. PICK e \in Conn, kind \in {"chat", "share_request"} :
          Written(q, e, [type |-> kind, id |-> q, num |-> sends[q]])
    BY <1>3, SendEffect
  <2>3. dial'[c].from = q
    <3>1. PICK r \in Node, t \in (Node \cup {NoNode}) \ {q} :
            dial' = [dial EXCEPT ![e] = [from |-> q, peer |-> r, to |-> t]]
      BY <1>1, <2>2 DEF Written
    <3> QED
      BY <1>1, <3>1 DEF TypeInv, TypeOK
  <2> QED
    BY <2>1, <2>3
<1>4. ASSUME NEW q \in Node, readLine(q)
      PROVE  BadDial(n, dial'[c].peer)
  <2>1. PICK e \in Conn :
          LET p == OtherEnd(q, e)
              x == sent[p][e][Len(got[q][e]) + 1]
          IN  /\ sock[q][e] = "connected" /\ p \in Node
              /\ messageReceived(q, e, x)
              /\ Len(got[q][e]) + 1 <= Len(sent[p][e]) /\ x \in Message
    BY <1>4, ReadLineEffect
  <2> DEFINE x == sent[OtherEnd(q, e)][e][Len(got[q][e]) + 1]
             sessions == register(peerSessions[q], x.id, e)
             owners == [socketToPeer[q] EXCEPT ![e] = x.id]
             answer == [type |-> "share_catalog", id |-> q, num |-> x.num]
  <2>2. x.id \in Node
    BY <2>1 DEF Message
  <2>3. sendTo(q, x.id, endpoint(q, e), sessions, owners, answer)
    BY <1>1, <2>1 DEF messageReceived
  <2>4. /\ sessions \in [Node -> Conn \cup {NoConn}]
        /\ owners \in [Conn -> Node \cup {NoNode}]
    BY <2>1, <2>2, RegisterTables DEF TablesInv
  <2> HIDE DEF x, owners, answer
  <2>5. sessions[x.id] = IF peerSessions[q][x.id] = NoConn THEN e ELSE peerSessions[q][x.id]
    BY <2>2 DEF register, TypeInv, TypeOK
  <2>9. PICK goal \in Node \cup {NoNode} : goal = endpoint(q, e) /\ goal # q
    BY EndpointType
  <2> HIDE DEF sessions
  <2>6. /\ ~Live(q, sessions[x.id])
        /\ dial'[c] = [from |-> q, peer |-> x.id, to |-> goal]
    BY <1>1, <2>2, <2>3, <2>4, <2>9, SendToEffect, SMTT(60)
  <2>7. q = n /\ dial'[c].peer = x.id
    BY <2>6
  <2>8. peerSessions[q][x.id] # NoConn /\ ~Live(q, peerSessions[q][x.id])
    BY <2>1, <2>5, <2>6, ConnAssumption DEF Live
  <2> QED
    BY <2>2, <2>7, <2>8, DeadSessionIsBadDial
<1> QED
  BY <1>2, <1>3, <1>4

\* Wherever the addresses lead, an answer leaves the connection its request came on
\* only after a dial of that peer that failed or ended at somebody else.
THEOREM AnswersStayOnTheirConnection == Spec => AnswerIsDialledAfterBadDial
<1>1. TypeInv /\ TablesInv /\ DeliveryInv /\ OriginInv /\ [Next]_vars =>
        [\A n \in Node, c \in Conn :
           (busy[n] # NoConn /\ dial[c].from = NoNode /\ dial'[c].from = n) =>
             \E d \in Conn : /\ dial[d].from = n /\ dial[d].peer = dial'[c].peer
                             /\ \/ sock[n][d] = "unconnected"
                                \/ sock[n][d] = "gone" /\ dial[d].to # dial[d].peer]_vars
  BY AnswerStep DEF BadDial
<1> QED
  BY <1>1, TypeInvInit, TypeInvNext, TablesInit, TablesNext, DeliveryInit, DeliveryNext,
     OriginInit, OriginNext, PTL DEF Spec, AnswerIsDialledAfterBadDial

(***************************************************************************)
(* Every step of the composition is a step of the routers or none.          *)
(***************************************************************************)
LEMMA HoldersAreFree ==
  ASSUME NEW n \in Node, NEW p \in Node
  PROVE  holders(n, p) \subseteq Goals[p]
BY GoalsAreFree DEF holders

LEMMA LanStepIsRouterStep == [LanNext]_lanVars => [Next]_vars
<1> SUFFICES ASSUME [LanNext]_lanVars
             PROVE  [Next]_vars
  OBVIOUS
<1>1. CASE UNCHANGED lanVars
  BY <1>1 DEF lanVars
<1>2. CASE network
  BY <1>2 DEF network, Next
<1>3. ASSUME NEW n \in Node, initialize(n) \/ shutDown(n) \/ handleRouterMessage(n) \/ move(n)
      PROVE  [Next]_vars
  BY <1>3 DEF initialize, shutDown, handleRouterMessage, move, Next
<1>4. ASSUME NEW n \in Node, NEW p \in Node,
             sendMessageToPeer(n, p) \/ requestPeerShareList(n, p)
      PROVE  [Next]_vars
  <2>1. PICK goal \in holders(n, p), type \in {"chat", "share_request"} :
          sendPayload(n, p, goal, type)
    BY <1>4 DEF sendMessageToPeer, requestPeerShareList
  <2>2. send(n, p)
    BY <2>1, HoldersAreFree DEF send
  <2> QED
    BY <2>2 DEF Next
<1>5. ASSUME NEW n \in Node, NEW p \in Node, processPacket(n, p)
      PROVE  [Next]_vars
  BY <1>5 DEF processPacket
<1> QED
  BY <1>1, <1>2, <1>3, <1>4, <1>5 DEF LanNext

\* The chats of a LAN are a behaviour of the routers.
THEOREM LanIsRouter == LanSpec => Spec
<1>1. LanInit => Init
  BY DEF LanInit
<1> QED
  BY <1>1, LanStepIsRouterStep, PTL DEF LanSpec, Spec

\* So what holds of the sessions holds wherever machines move.
THEOREM LanDeadSessionsWereMisdialled == LanSpec => []GoneSessionWasMisdialled
BY LanIsRouter, DeadSessionsWereMisdialled, PTL

THEOREM LanAnswersStayOnTheirConnection == LanSpec => AnswerIsDialledAfterBadDial
BY LanIsRouter, AnswersStayOnTheirConnection, PTL

(***************************************************************************)
(* The invariant.  A chat written on a connection has a row at its writer,  *)
(* and is the only one with its number; a row received is a chat that was   *)
(* emitted.                                                                 *)
(***************************************************************************)
RouterInv == TypeInv /\ TablesInv /\ DeliveryInv /\ OriginInv

ChatSent(n, c, k, num) ==
  /\ k \in 1..Len(sent[n][c])
  /\ sent[n][c][k].type = "chat" /\ sent[n][c][k].num = num

ChatGot(q, c, k, n, num) ==
  /\ k \in 1..Len(got[q][c])
  /\ got[q][c][k].type = "chat" /\ got[q][c][k].id = n /\ got[q][c][k].num = num

\* n's own row of chat num, which leads to the other end of c.
LeadsTo(row, n, c, num) ==
  /\ row.own /\ row.num = num
  /\ \/ dial[c].from = n /\ dial[c].peer = row.peer
     \/ OtherEnd(n, c) = row.peer

HasRow(n, c, num) == n \in Passing \/ \E j \in 1..Len(table[n]) : LeadsTo(table[n][j], n, c, num)

EndsInv == \A q \in Node, c \in Conn : got[q][c] # <<>> =>
             dial[c].from \in Node /\ dial[c].to \in Node /\ q \in {dial[c].from, dial[c].to}

SentInv == \A n \in Node, c \in Conn : \A k, num : ChatSent(n, c, k, num) =>
             /\ num \in Nat /\ num < sends[n]
             /\ HasRow(n, c, num)
             /\ \A d \in Conn : \A l : ChatSent(n, d, l, num) => d = c /\ l = k

RowsInv == \A q \in Node : \A i \in Received(q) :
             \E c \in Conn : \E k : ChatGot(q, c, k, table[q][i].peer, table[q][i].num)

\* Without a database there is no row.
NoRows == \A n \in Passing : table[n] = <<>>

BookInv == /\ NoRows
           /\ addr \in [Node -> Address]
           /\ drawn \subseteq Passing
           /\ knownPeers \in [Node -> [Node -> Address \cup {NoAddress}]]
           /\ contact \in [Node -> [Node -> Address \cup {NoAddress}]]
           /\ table \in [Node -> Seq(Row)]
           /\ news \in 0..MaxNews

ChatInv == EndsInv /\ SentInv /\ RowsInv /\ ReceivedOnce

LEMMA Grown ==
  ASSUME NEW S, NEW s \in Seq(S), NEW x \in S
  PROVE  /\ Len(s) \in Nat /\ Len(Append(s, x)) = Len(s) + 1
         /\ \A k \in 1..Len(s) : k \in 1..Len(Append(s, x)) /\ Append(s, x)[k] = s[k]
         /\ Len(s) + 1 \in 1..Len(Append(s, x)) /\ Append(s, x)[Len(s) + 1] = x
         /\ \A k \in 1..Len(Append(s, x)) : k \in 1..Len(s) \/ k = Len(s) + 1
BY AppendProperties, LenProperties

(***************************************************************************)
(* What was emitted on a connection was written at its other end, which has *)
(* the reader as its own.                                                   *)
(***************************************************************************)
LEMMA GotWasSent ==
  ASSUME RouterInv, EndsInv, NEW q \in Node, NEW c \in Conn, NEW k, NEW n, NEW num,
         ChatGot(q, c, k, n, num)
  PROVE  /\ n \in Node /\ n = OtherEnd(q, c) /\ q = OtherEnd(n, c)
         /\ dial[c].from = n => dial[c].to = q
         /\ ChatSent(n, c, k, num)
<1> DEFINE p == OtherEnd(q, c)
<1>1. got[q][c] \in Seq(Message) /\ got[q][c] # <<>>
  <2>1. got[q][c] \in Seq(Message)
    BY DEF RouterInv, TypeInv, TypeOK
  <2>2. got[q][c] # <<>>
    BY DEF ChatGot
  <2> QED
    BY <2>1, <2>2
<1>2. dial[c].from \in Node /\ dial[c].to \in Node /\ q \in {dial[c].from, dial[c].to}
  BY <1>1 DEF EndsInv
<1>3. dial[c].from # dial[c].to
  BY <1>2, NodeAssumption DEF RouterInv, TypeInv, Wiring
<1>4. p \in Node /\ OtherEnd(p, c) = q /\ (dial[c].from = p => dial[c].to = q)
  BY <1>2, <1>3 DEF OtherEnd
<1>5. IsStart(got[q][c], sent[p][c])
  BY <1>4 DEF RouterInv, DeliveryInv, DeliveryOK, PairOK
<1>6. k \in 1..Len(sent[p][c]) /\ sent[p][c][k] = got[q][c][k]
  <2>1. sent[p][c] \in Seq(Message)
    BY <1>4 DEF RouterInv, TypeInv, TypeOK
  <2> DEFINE g == got[q][c]
             s == sent[p][c]
  <2>2. Len(g) \in Nat /\ Len(s) \in Nat /\ k \in 1..Len(g) /\ Len(g) <= Len(s)
    BY <1>1, <1>5, <2>1, LenProperties DEF IsStart, ChatGot
  <2>3. g = SubSeq(s, 1, Len(g))
    BY <1>5 DEF IsStart
  <2> HIDE DEF g, s
  <2>4. SubSeq(s, 1, Len(g))[k] = s[k]
    BY <2>1, <2>2 DEF s
  <2> QED
    BY <2>2, <2>3, <2>4 DEF g, s
<1>7. p = n
  <2>1. sent[p][c][k].id = p
    BY <1>4, <1>6 DEF RouterInv, OriginInv, WriterOK
  <2> QED
    BY <1>6, <2>1 DEF ChatGot
<1> QED
  BY <1>4, <1>6, <1>7 DEF ChatSent, ChatGot

LEMMA ChatsWereWritten == RouterInv /\ ChatInv => ReceivedWasWritten
<1> SUFFICES ASSUME RouterInv, ChatInv, NEW q \in Node, NEW i \in Received(q),
                    table[q][i].peer \notin Passing
             PROVE  \E j \in 1..Len(table[table[q][i].peer]) :
                      IsRowOf(table[table[q][i].peer][j], table[q][i].peer, q, table[q][i].num)
  BY DEF ReceivedWasWritten
<1> DEFINE n == table[q][i].peer
           num == table[q][i].num
<1>1. PICK c \in Conn : \E k : ChatGot(q, c, k, n, num)
  BY DEF ChatInv, RowsInv
<1>2. PICK k : ChatGot(q, c, k, n, num)
  BY <1>1
<1>0. n \notin Passing
  OBVIOUS
<1> HIDE DEF n, num
<1>3. /\ n \in Node /\ q = OtherEnd(n, c) /\ (dial[c].from = n => dial[c].to = q)
      /\ ChatSent(n, c, k, num)
  BY <1>2, GotWasSent DEF ChatInv
<1>4. PICK j \in 1..Len(table[n]) : LeadsTo(table[n][j], n, c, num)
  BY <1>0, <1>3 DEF ChatInv, SentInv, HasRow
<1>5. dial[c].from = n /\ dial[c].peer = table[n][j].peer
        => dial[c] = [from |-> n, peer |-> table[n][j].peer, to |-> q]
  BY <1>3 DEF RouterInv, TypeInv, TypeOK
<1>6. IsRowOf(table[n][j], n, q, num)
  BY <1>3, <1>4, <1>5 DEF LeadsTo, IsRowOf
<1> QED
  BY <1>6 DEF n, num

(***************************************************************************)
(* What a step leaves: the dial of every connection that carries something, *)
(* the rows, the numbers given.                                             *)
(***************************************************************************)
LEMMA RouterInvNext == RouterInv /\ [Next]_vars => RouterInv'
BY TypeInvNext, TablesNext, DeliveryNext, OriginNext DEF RouterInv

LEMMA BookNext == BookInv /\ TypeInv /\ TypeInv' /\ [LanNext]_lanVars => BookInv'
<1> SUFFICES ASSUME BookInv, TypeInv, TypeInv', [LanNext]_lanVars
             PROVE  BookInv'
  OBVIOUS
<1>1. ASSUME NEW n \in Node, NEW p \in Node, NEW own \in BOOLEAN, NEW num,
             recordChatHistory(n, p, own, num), [peer |-> p, own |-> own, num |-> num] \in Row
      PROVE  table' \in [Node -> Seq(Row)] /\ NoRows'
  <2>1. CASE n \in Passing
    BY <1>1, <2>1 DEF recordChatHistory, BookInv, NoRows
  <2>2. CASE n \notin Passing
    <3> DEFINE row == [peer |-> p, own |-> own, num |-> num]
    <3>1. table' = [table EXCEPT ![n] = Append(@, row)] /\ row \in Row
      BY <1>1, <2>2 DEF recordChatHistory
    <3> HIDE DEF row
    <3>2. Append(table[n], row) \in Seq(Row)
      BY <3>1, AppendProperties DEF BookInv
    <3> QED
      BY <2>2, <3>1, <3>2 DEF BookInv, NoRows
  <2> QED
    BY <2>1, <2>2
<1>2. CASE UNCHANGED lanVars
  BY <1>2 DEF lanVars, book, BookInv, NoRows
<1>3. CASE network
  BY <1>3 DEF network, book, BookInv, NoRows
<1>4. ASSUME NEW n \in Node, initialize(n) \/ shutDown(n)
      PROVE  BookInv'
  <2>1. CASE initialize(n)
    <3>1. loadKnownPeers(n) \in [Node -> Address \cup {NoAddress}]
      BY DEF loadKnownPeers, BookInv
    <3>2. contact' = [contact EXCEPT ![n] = loadKnownPeers(n)]
      BY <2>1 DEF initialize
    <3>3. contact' \in [Node -> [Node -> Address \cup {NoAddress}]]
      BY <3>1, <3>2 DEF BookInv
    <3> QED
      BY <2>1, <3>3 DEF initialize, BookInv, NoRows
  <2>2. CASE shutDown(n)
    BY <2>2 DEF shutDown, BookInv, NoRows
  <2> QED
    BY <1>4, <2>1, <2>2
<1>5. ASSUME NEW n \in Node, NEW p \in Node, processPacket(n, p)
      PROVE  BookInv'
  <2>1. contact' \in [Node -> [Node -> Address \cup {NoAddress}]]
    BY <1>5 DEF processPacket, peerDiscovered, BookInv
  <2>2. knownPeers' \in [Node -> [Node -> Address \cup {NoAddress}]]
    BY <1>5 DEF processPacket, BookInv
  <2>3. news' \in 0..MaxNews
    BY <1>5, QuotaAssumption DEF processPacket, BookInv
  <2> QED
    BY <1>5, <2>1, <2>2, <2>3 DEF processPacket, BookInv, NoRows
<1>6. ASSUME NEW n \in Node, move(n)
      PROVE  BookInv'
  <2>1. PICK a \in Address :
          addr' = [q \in Node |-> IF q \in machine(n) THEN a ELSE addr[q]]
    BY <1>6 DEF move
  <2>2. addr' \in [Node -> Address]
    BY <2>1 DEF BookInv
  <2> QED
    BY <1>6, <2>2, QuotaAssumption DEF move, BookInv, NoRows
<1>7. ASSUME NEW n \in Node, NEW p \in Node, requestPeerShareList(n, p)
      PROVE  BookInv'
  BY <1>7 DEF requestPeerShareList, book, BookInv, NoRows
<1>8. ASSUME NEW n \in Node, NEW p \in Node, sendMessageToPeer(n, p)
      PROVE  BookInv'
  <2>1. [peer |-> p, own |-> TRUE, num |-> sends[n]] \in Row
    BY DEF Row, TypeInv, TypeOK
  <2>2. recordChatHistory(n, p, TRUE, sends[n]) /\ UNCHANGED book
    BY <1>8 DEF sendMessageToPeer
  <2>3. table' \in [Node -> Seq(Row)] /\ NoRows'
    BY <1>1, <2>1, <2>2
  <2> QED
    BY <2>2, <2>3 DEF book, BookInv
<1>9. ASSUME NEW n \in Node, handleRouterMessage(n)
      PROVE  BookInv'
  <2>1. CASE UNCHANGED table
    BY <1>9, <2>1 DEF handleRouterMessage, book, BookInv, NoRows
  <2>2. CASE table' # table
    <3> DEFINE before == got[n][busy[n]]
               after  == got'[n][busy[n]]
               m      == after[Len(after)]
    <3>1. Len(after) > Len(before) /\ recordChatHistory(n, m.id, FALSE, m.num)
      BY <1>9, <2>2 DEF handleRouterMessage, author
    <3>2. busy[n] \in Conn
      BY <1>9 DEF handleRouterMessage, readLine, TypeInv, TypeOK
    <3>3. before \in Seq(Message) /\ after \in Seq(Message)
      BY <3>2 DEF TypeInv, TypeOK
    <3>4. Len(after) \in 1..Len(after)
      <4> HIDE DEF before, after
      <4>1. Len(before) \in Nat /\ Len(after) \in Nat
        BY <3>3, LenProperties
      <4> QED
        BY <3>1, <4>1
    <3>5. m \in Message
      BY <3>3, <3>4, ElementOfSeq
    <3> HIDE DEF m
    <3>6. m.id \in Node /\ [peer |-> m.id, own |-> FALSE, num |-> m.num] \in Row
      BY <3>5 DEF Row, Message
    <3>7. UNCHANGED book
      BY <1>9 DEF handleRouterMessage
    <3>8. table' \in [Node -> Seq(Row)] /\ NoRows'
      BY <1>1, <3>1, <3>6
    <3> QED
      BY <3>7, <3>8 DEF book, BookInv
  <2> QED
    BY <2>1, <2>2
<1> QED
  BY <1>2, <1>3, <1>4, <1>5, <1>6, <1>7, <1>8, <1>9 DEF LanNext

LEMMA BookInit == LanInit => BookInv
<1> SUFFICES ASSUME LanInit
             PROVE  BookInv
  OBVIOUS
<1>1. addr \in [Node -> Address] /\ knownPeers \in [Node -> [Node -> Address \cup {NoAddress}]]
  BY HomesAssumption, BooksAssumption DEF LanInit
<1>2. <<>> \in Seq(Row)
  BY EmptySeq
<1> QED
  BY <1>1, <1>2, QuotaAssumption, PassingAssumption DEF LanInit, BookInv, NoRows

THEOREM LanTypeCorrect == LanSpec => []LanTypeOK
<1>1. LanInit => TypeInv /\ BookInv
  BY BookInit, TypeInvInit DEF LanInit
<1>2. TypeInv /\ BookInv /\ [LanNext]_lanVars => TypeInv' /\ BookInv'
  BY BookNext, TypeInvNext, LanStepIsRouterStep
<1>3. TypeInv /\ BookInv => LanTypeOK
  BY DEF TypeInv, BookInv, LanTypeOK
<1> QED
  BY <1>1, <1>2, <1>3, PTL DEF LanSpec

TableGrows == \A q \in Node : \A j \in 1..Len(table[q]) :
                j \in 1..Len(table'[q]) /\ table'[q][j] = table[q][j]

LEMMA RowAdded ==
  ASSUME BookInv, NEW n \in Node, NEW p \in Node, NEW own \in BOOLEAN, NEW num \in 0..MaxSends,
         recordChatHistory(n, p, own, num), n \notin Passing
  PROVE  /\ TableGrows
         /\ Len(table[n]) \in Nat
         /\ \A q \in Node : q # n => table'[q] = table[q]
         /\ \A j \in 1..Len(table'[n]) : j \in 1..Len(table[n]) \/ j = Len(table[n]) + 1
         /\ Len(table[n]) + 1 \in 1..Len(table'[n])
         /\ table'[n][Len(table[n]) + 1] = [peer |-> p, own |-> own, num |-> num]
<1> DEFINE row == [peer |-> p, own |-> own, num |-> num]
<1>1. table[n] \in Seq(Row) /\ row \in Row
  BY DEF BookInv, Row
<1>2. table'[n] = Append(table[n], row) /\ \A q \in Node : q # n => table'[q] = table[q]
  BY DEF recordChatHistory, BookInv
<1> HIDE DEF row
<1>3. /\ Len(table[n]) \in Nat
      /\ \A k \in 1..Len(table[n]) : k \in 1..Len(table'[n]) /\ table'[n][k] = table[n][k]
      /\ Len(table[n]) + 1 \in 1..Len(table'[n]) /\ table'[n][Len(table[n]) + 1] = row
      /\ \A k \in 1..Len(table'[n]) : k \in 1..Len(table[n]) \/ k = Len(table[n]) + 1
  BY <1>1, <1>2, Grown
<1> QED
  BY <1>2, <1>3 DEF TableGrows, row

\* What a written message adds to what was written.
LEMMA WrittenAdds ==
  ASSUME RouterInv, NEW n \in Node, NEW e \in Conn, NEW m \in Message, Written(n, e, m)
  PROVE  /\ \A c \in Conn : \/ dial'[c] = dial[c]
                            \/ \A q \in Node : sent[q][c] = <<>> /\ got[q][c] = <<>>
         /\ \A q \in Node, c \in Conn : \A k, num :
              ChatSent(q, c, k, num)' =>
                \/ ChatSent(q, c, k, num) /\ dial'[c] = dial[c]
                \/ /\ q = n /\ c = e /\ k = Len(sent[n][e]) + 1
                   /\ m.type = "chat" /\ num = m.num
<1>1. \A c \in Conn : c # e => dial'[c] = dial[c]
  BY DEF Written, RouterInv, TypeInv, TypeOK
<1>2. dial'[e] = dial[e] \/ \A q \in Node : sent[q][e] = <<>> /\ got[q][e] = <<>>
  <2>1. CASE UNCHANGED dial
    BY <2>1
  <2>2. CASE \A r \in Node : sock[r][e] = "none"
    BY <2>2 DEF RouterInv, DeliveryInv, DeliveryOK, PairOK
  <2> QED
    BY <2>1, <2>2 DEF Written
<1>3. \A c \in Conn : dial'[c] = dial[c] \/ \A q \in Node : sent[q][c] = <<>> /\ got[q][c] = <<>>
  BY <1>1, <1>2
<1>4. \A q \in Node, c \in Conn :
        sent'[q][c] = IF q = n /\ c = e THEN Append(sent[n][e], m) ELSE sent[q][c]
  BY DEF Written, RouterInv, TypeInv, TypeOK
<1>5. sent[n][e] \in Seq(Message)
  BY DEF RouterInv, TypeInv, TypeOK
<1>6. \A q \in Node, c \in Conn : \A k, num : ChatSent(q, c, k, num) => dial'[c] = dial[c]
  <2> SUFFICES ASSUME NEW q \in Node, NEW c \in Conn, NEW k, NEW num, ChatSent(q, c, k, num),
                      sent[q][c] = <<>>
               PROVE  FALSE
    BY <1>3
  <2>1. Len(sent[q][c]) = 0
    OBVIOUS
  <2> QED
    BY <2>1 DEF ChatSent
<1>7. ASSUME NEW q \in Node, NEW c \in Conn, NEW k, NEW num, ChatSent(q, c, k, num)'
      PROVE  \/ ChatSent(q, c, k, num)
             \/ /\ q = n /\ c = e /\ k = Len(sent[n][e]) + 1
                /\ m.type = "chat" /\ num = m.num
  <2>1. CASE ~(q = n /\ c = e)
    BY <1>4, <1>7, <2>1 DEF ChatSent
  <2>2. CASE q = n /\ c = e
    <3>1. sent'[q][c] = Append(sent[n][e], m)
      BY <1>4, <2>2
    <3>2. /\ \A i \in 1..Len(sent[n][e]) : Append(sent[n][e], m)[i] = sent[n][e][i]
          /\ Append(sent[n][e], m)[Len(sent[n][e]) + 1] = m
          /\ \A i \in 1..Len(Append(sent[n][e], m)) :
               i \in 1..Len(sent[n][e]) \/ i = Len(sent[n][e]) + 1
      BY <1>5, Grown
    <3>3. k \in 1..Len(Append(sent[n][e], m)) /\ Append(sent[n][e], m)[k].type = "chat"
          /\ Append(sent[n][e], m)[k].num = num
      BY <1>7, <3>1 DEF ChatSent
    <3> QED
      BY <2>2, <3>2, <3>3 DEF ChatSent
  <2> QED
    BY <2>1, <2>2
<1> QED
  BY <1>3, <1>6, <1>7

LEMMA RowStays ==
  ASSUME TableGrows, NEW n \in Node, NEW c \in Conn, NEW num, HasRow(n, c, num), dial'[c] = dial[c]
  PROVE  HasRow(n, c, num)'
<1>1. CASE n \in Passing
  BY <1>1 DEF HasRow
<1>2. CASE n \notin Passing
  <2>1. PICK j \in 1..Len(table[n]) : LeadsTo(table[n][j], n, c, num)
    BY <1>2 DEF HasRow
  <2>2. j \in 1..Len(table'[n]) /\ table'[n][j] = table[n][j]
    BY DEF TableGrows
  <2> QED
    BY <2>1, <2>2 DEF HasRow, LeadsTo, OtherEnd
<1> QED
  BY <1>1, <1>2

LEMMA SentKept ==
  ASSUME SentInv, TableGrows,
         \A n \in Node : sends[n] \in Nat /\ sends'[n] \in Nat /\ sends[n] <= sends'[n],
         \A q \in Node, c \in Conn : \A k, num :
           ChatSent(q, c, k, num)' => ChatSent(q, c, k, num) /\ dial'[c] = dial[c]
  PROVE  SentInv'
<1> SUFFICES ASSUME NEW n \in Node, NEW c \in Conn, NEW k, NEW num, ChatSent(n, c, k, num)'
             PROVE  /\ num \in Nat /\ num < sends'[n]
                    /\ HasRow(n, c, num)'
                    /\ \A d \in Conn : \A l : ChatSent(n, d, l, num)' => d = c /\ l = k
  BY DEF SentInv
<1>1. ChatSent(n, c, k, num) /\ dial'[c] = dial[c]
  OBVIOUS
<1>2. num \in Nat /\ num < sends'[n]
  <2>1. num \in Nat /\ num < sends[n]
    BY <1>1 DEF SentInv
  <2>2. sends[n] \in Nat /\ sends'[n] \in Nat /\ sends[n] <= sends'[n]
    OBVIOUS
  <2> QED
    BY <2>1, <2>2
<1>3. HasRow(n, c, num)'
  <2>1. HasRow(n, c, num)
    BY <1>1 DEF SentInv
  <2> QED
    BY <1>1, <2>1, RowStays
<1>4. \A d \in Conn : \A l : ChatSent(n, d, l, num)' => d = c /\ l = k
  BY <1>1 DEF SentInv
<1> QED
  BY <1>2, <1>3, <1>4

\* A new chat, with the next number of its writer.
LEMMA SentAdded ==
  ASSUME SentInv, TableGrows, NEW n \in Node, NEW e \in Conn, NEW i, NEW num0, num0 = sends[n],
         \A q \in Node : sends[q] \in Nat,
         \A r \in Node : sends'[r] = IF r = n THEN num0 + 1 ELSE sends[r],
         \A q \in Node, c \in Conn : \A k, num :
           ChatSent(q, c, k, num)' => \/ ChatSent(q, c, k, num) /\ dial'[c] = dial[c]
                                      \/ q = n /\ c = e /\ k = i /\ num = num0,
         HasRow(n, e, num0)'
  PROVE  SentInv'
<1> SUFFICES ASSUME NEW q \in Node, NEW c \in Conn, NEW k, NEW num, ChatSent(q, c, k, num)'
             PROVE  /\ num \in Nat /\ num < sends'[q]
                    /\ HasRow(q, c, num)'
                    /\ \A d \in Conn : \A l : ChatSent(q, d, l, num)' => d = c /\ l = k
  BY DEF SentInv
<1>0. \A r \in Node : sends'[r] = IF r = n THEN sends[n] + 1 ELSE sends[r]
  OBVIOUS
<1>1. CASE ChatSent(q, c, k, num) /\ dial'[c] = dial[c]
  <2>1. num \in Nat /\ num < sends[q] /\ num < sends'[q]
    <3>1. num \in Nat /\ num < sends[q]
      BY <1>1 DEF SentInv
    <3>2. sends[q] \in Nat /\ (sends'[q] = sends[q] \/ sends'[q] = sends[q] + 1)
      BY <1>0
    <3> QED
      BY <3>1, <3>2
  <2>4. HasRow(q, c, num)'
    <3>1. HasRow(q, c, num)
      BY <1>1 DEF SentInv
    <3> QED
      BY <1>1, <3>1, RowStays
  <2>5. ASSUME NEW d \in Conn, NEW l, ChatSent(q, d, l, num)'
        PROVE  d = c /\ l = k
    <3>1. ~(q = n /\ num = num0)
      <4>1. num # sends[q]
        BY <2>1
      <4> QED
        BY <4>1
    <3>2. ChatSent(q, d, l, num)
      BY <2>5, <3>1
    <3> QED
      BY <1>1, <3>2 DEF SentInv
  <2> QED
    BY <2>1, <2>4, <2>5
<1>2. CASE q = n /\ c = e /\ k = i /\ num = num0
  <2>1. num \in Nat /\ num < sends'[q]
    BY <1>0, <1>2
  <2>2. ASSUME NEW d \in Conn, NEW l, ChatSent(q, d, l, num)'
        PROVE  d = c /\ l = k
    <3>1. ~ChatSent(q, d, l, num)
      <4>1. ChatSent(q, d, l, num) => num \in Nat /\ num < sends[q]
        BY DEF SentInv
      <4> QED
        BY <1>2, <4>1
    <3> QED
      BY <1>2, <2>2, <3>1
  <2> QED
    BY <1>2, <2>1, <2>2
<1> QED
  BY <1>1, <1>2

LEMMA RowsKept ==
  ASSUME RowsInv, ReceivedOnce,
         \A q \in Node : \A i \in Received(q)' : i \in Received(q) /\ table'[q][i] = table[q][i],
         \A q \in Node, c \in Conn : \A k, n, num :
           ChatGot(q, c, k, n, num) => ChatGot(q, c, k, n, num)'
  PROVE  RowsInv' /\ ReceivedOnce'
<1>1. RowsInv'
  <2> SUFFICES ASSUME NEW q \in Node, NEW i \in Received(q)'
               PROVE  \E c \in Conn : \E k : ChatGot(q, c, k, table[q][i].peer, table[q][i].num)'
    BY DEF RowsInv
  <2>1. i \in Received(q) /\ table'[q][i] = table[q][i]
    OBVIOUS
  <2>2. PICK c \in Conn : \E k : ChatGot(q, c, k, table[q][i].peer, table[q][i].num)
    BY <2>1 DEF RowsInv
  <2>3. PICK k : ChatGot(q, c, k, table[q][i].peer, table[q][i].num)
    BY <2>2
  <2>4. PICK n, num : n = table[q][i].peer /\ num = table[q][i].num
    OBVIOUS
  <2>5. ChatGot(q, c, k, n, num)'
    BY <2>3, <2>4
  <2>6. n = table'[q][i].peer /\ num = table'[q][i].num
    BY <2>1, <2>4
  <2> QED
    BY <2>5, <2>6 DEF ChatGot
<1>2. ReceivedOnce'
  BY DEF ReceivedOnce
<1> QED
  BY <1>1, <1>2

LEMMA ChatInvInit == LanInit => ChatInv
<1> SUFFICES ASSUME LanInit
             PROVE  ChatInv
  OBVIOUS
<1>1. \A q \in Node, c \in Conn : got[q][c] = <<>> /\ sent[q][c] = <<>>
  BY DEF LanInit, Init
<1>2. \A q \in Node : Received(q) = {}
  BY DEF LanInit, Received
<1>3. SentInv
  <2>1. \A q \in Node, c \in Conn : Len(sent[q][c]) = 0
    BY <1>1
  <2> QED
    BY <2>1 DEF SentInv, ChatSent
<1> QED
  BY <1>1, <1>2, <1>3 DEF ChatInv, EndsInv, RowsInv, ReceivedOnce

\* A user writes.
LEMMA WriteKeepsChats ==
  ASSUME RouterInv, RouterInv', ChatInv, BookInv, NEW n \in Node, NEW p \in Node,
         NEW type \in {"chat", "share_request"}, NEW goal \in holders(n, p),
         sendPayload(n, p, goal, type),
         IF type = "chat" THEN recordChatHistory(n, p, TRUE, sends[n]) ELSE UNCHANGED table
  PROVE  ChatInv'
<1> DEFINE m == [type |-> type, id |-> n, num |-> sends[n]]
<1>1. /\ goal \in Node \cup {NoNode} /\ goal # n
      /\ peerSessions[n] \in [Node -> Conn \cup {NoConn}]
      /\ sends \in [Node -> 0..MaxSends] /\ m \in Message
      /\ sends' = [sends EXCEPT ![n] = @ + 1] /\ got' = got
  BY DEF sendPayload, holders, RouterInv, TypeInv, TypeOK, Message, MsgType
<1>2. sendTo(n, p, goal, peerSessions[n], socketToPeer[n], m)
  BY DEF sendPayload
<1>3. \/ type = "chat" /\ n \notin Passing
      \/ ~(type = "chat" /\ n \notin Passing) /\ table' = table
  BY DEF recordChatHistory
<1> HIDE DEF m
<1>4. PICK e \in Conn : Written(n, e, m) /\ peerSessions'[n][p] = e
  BY <1>1, <1>2, SendToWrites DEF RouterInv
<1>5. PICK m0 \in Message : m0 = m
  BY <1>1
<1>6. /\ \A c \in Conn : \/ dial'[c] = dial[c]
                         \/ \A q \in Node : sent[q][c] = <<>> /\ got[q][c] = <<>>
      /\ \A q \in Node, c \in Conn : \A k, num :
           ChatSent(q, c, k, num)' =>
             \/ ChatSent(q, c, k, num) /\ dial'[c] = dial[c]
             \/ /\ q = n /\ c = e /\ k = Len(sent[n][e]) + 1
                /\ m0.type = "chat" /\ num = m0.num
  BY <1>4, <1>5, WrittenAdds
<1>7. TableGrows
  <2>1. CASE type = "chat" /\ n \notin Passing
    <3>1. sends[n] \in 0..MaxSends /\ recordChatHistory(n, p, TRUE, sends[n])
      BY <1>1, <2>1
    <3> QED
      BY <2>1, <3>1, RowAdded
  <2>2. CASE table' = table
    BY <2>2 DEF TableGrows
  <2> QED
    BY <1>3, <2>1, <2>2
<1>8. EndsInv'
  BY <1>1, <1>6 DEF ChatInv, EndsInv
<1>9. SentInv'
  <2>1. CASE type = "chat"
    <3>1. PICK i : i = Len(sent[n][e]) + 1
      OBVIOUS
    <3>2. PICK num0 \in 0..MaxSends : num0 = sends[n]
      BY <1>1
    <3>3. m0.num = num0
      BY <1>5, <3>2 DEF m
    <3>4. HasRow(n, e, num0)'
      <4> DEFINE j0 == Len(table[n]) + 1
      <4> SUFFICES ASSUME n \notin Passing
                   PROVE  HasRow(n, e, num0)'
        BY DEF HasRow
      <4>1. j0 \in 1..Len(table'[n]) /\ table'[n][j0] = [peer |-> p, own |-> TRUE, num |-> num0]
        BY <2>1, <3>2, RowAdded
      <4>2. \/ dial'[e].from = n /\ dial'[e].peer = p
            \/ OtherEnd(n, e)' = p
        BY <1>4 DEF RouterInv, OriginInv, OriginOK
      <4>3. PICK j : j = j0
        OBVIOUS
      <4> QED
        BY <4>1, <4>2, <4>3 DEF HasRow, LeadsTo
    <3>5. \A q \in Node, c \in Conn : \A k, num :
           ChatSent(q, c, k, num)' => \/ ChatSent(q, c, k, num) /\ dial'[c] = dial[c]
                                      \/ q = n /\ c = e /\ k = i /\ num = num0
      BY <1>6, <3>1, <3>3
    <3>6. \A q \in Node : sends[q] \in Nat
      BY <1>1
    <3> QED
      <4>1. SentInv /\ \A r \in Node : sends'[r] = IF r = n THEN num0 + 1 ELSE sends[r]
        BY <1>1, <3>2 DEF ChatInv
      <4> QED
        BY <1>7, <3>2, <3>4, <3>5, <3>6, <4>1, SentAdded
  <2>2. CASE type # "chat"
    <3>1. m0.type # "chat"
      BY <1>5, <2>2 DEF m
    <3>2. \A q \in Node : sends[q] \in Nat /\ sends'[q] \in Nat /\ sends[q] <= sends'[q]
      BY <1>1
    <3>3. \A q \in Node, c \in Conn : \A k, num :
           ChatSent(q, c, k, num)' => ChatSent(q, c, k, num) /\ dial'[c] = dial[c]
      BY <1>6, <3>1
    <3> QED
      BY <1>7, <3>2, <3>3, SentKept DEF ChatInv
  <2> QED
    BY <2>1, <2>2
<1>10. RowsInv' /\ ReceivedOnce'
  <2>1. \A q \in Node : \A i \in Received(q)' : i \in Received(q) /\ table'[q][i] = table[q][i]
    <3>1. CASE type = "chat" /\ n \notin Passing
      <4>1. sends[n] \in 0..MaxSends /\ recordChatHistory(n, p, TRUE, sends[n])
        BY <1>1, <3>1
      <4>2. PICK num0 \in 0..MaxSends : num0 = sends[n]
        BY <1>1
      <4>3. /\ \A q \in Node : q # n => table'[q] = table[q]
            /\ \A j \in 1..Len(table'[n]) : j \in 1..Len(table[n]) \/ j = Len(table[n]) + 1
            /\ table'[n][Len(table[n]) + 1] = [peer |-> p, own |-> TRUE, num |-> num0]
        BY <3>1, <4>1, <4>2, RowAdded
      <4> QED
        BY <1>7, <4>3 DEF Received, TableGrows
    <3>2. CASE table' = table
      BY <3>2 DEF Received
    <3> QED
      BY <1>3, <3>1, <3>2
  <2>2. \A q \in Node, c \in Conn : \A k, r, num :
           ChatGot(q, c, k, r, num) => ChatGot(q, c, k, r, num)'
    BY <1>1 DEF ChatGot
  <2> QED
    BY <2>1, <2>2, RowsKept DEF ChatInv
<1> QED
  BY <1>8, <1>9, <1>10 DEF ChatInv

\* What readSocket does when it emits: x, the next line of the other end.
LEMMA EmittedAdds ==
  ASSUME TypeInv, NEW n \in Node, NEW c \in Conn, NEW x \in Message,
         got' = [got EXCEPT ![n][c] = Append(@, x)]
  PROVE  /\ Len(got[n][c]) \in Nat /\ Len(got'[n][c]) = Len(got[n][c]) + 1
         /\ got'[n][c][Len(got[n][c]) + 1] = x
         /\ \A q \in Node, d \in Conn : q # n \/ d # c => got'[q][d] = got[q][d]
         /\ \A q \in Node, d \in Conn : \A k, r, num :
              ChatGot(q, d, k, r, num) => ChatGot(q, d, k, r, num)'
<1>1. \A q \in Node, d \in Conn :
        got'[q][d] = IF q = n /\ d = c THEN Append(got[n][c], x) ELSE got[q][d]
  BY DEF TypeInv, TypeOK
<1>2. got[n][c] \in Seq(Message)
  BY DEF TypeInv, TypeOK
<1>3. /\ Len(got[n][c]) \in Nat /\ Len(Append(got[n][c], x)) = Len(got[n][c]) + 1
      /\ \A k \in 1..Len(got[n][c]) :
           k \in 1..Len(Append(got[n][c], x)) /\ Append(got[n][c], x)[k] = got[n][c][k]
      /\ Append(got[n][c], x)[Len(got[n][c]) + 1] = x
  BY <1>2, Grown
<1>4. ASSUME NEW q \in Node, NEW d \in Conn, NEW k, NEW r, NEW num, ChatGot(q, d, k, r, num)
      PROVE  ChatGot(q, d, k, r, num)'
  <2>1. k \in 1..Len(got'[q][d]) /\ got'[q][d][k] = got[q][d][k]
    BY <1>1, <1>3, <1>4 DEF ChatGot
  <2> QED
    BY <1>4, <2>1 DEF ChatGot
<1>5. got'[n][c] = Append(got[n][c], x)
  BY <1>1
<1>6. \A q \in Node, d \in Conn : q # n \/ d # c => got'[q][d] = got[q][d]
  BY <1>1
<1>7. Len(got'[n][c]) = Len(got[n][c]) + 1 /\ got'[n][c][Len(got[n][c]) + 1] = x
  BY <1>3, <1>5
<1> QED
  BY <1>3, <1>4, <1>6, <1>7

LEMMA ReadKeepsChats ==
  ASSUME RouterInv, ChatInv, BookInv, NEW n \in Node, handleRouterMessage(n)
  PROVE  ChatInv'
<1>1. readLine(n)
  BY DEF handleRouterMessage
<1>2. PICK c \in Conn :
        LET w == OtherEnd(n, c)
            k == Len(got[n][c]) + 1
            x == sent[w][c][k]
        IN  /\ c = busy[n]
            /\ sock[n][c] = "connected" /\ w \in Node
            /\ k <= Len(sent[w][c]) /\ x \in Message
            /\ got' = [got EXCEPT ![n][c] = Append(@, x)]
            /\ IF x.type = "share_request"
               THEN \E e \in Conn : Written(n, e,
                      [type |-> "share_catalog", id |-> n, num |-> x.num])
               ELSE UNCHANGED <<dial, sock, out, sent>>
  BY <1>1, ReadLineEffect DEF RouterInv
<1> DEFINE w == OtherEnd(n, c)
           k == Len(got[n][c]) + 1
<1>3. PICK x \in Message : x = sent[w][c][k]
  BY <1>2
<1>4. /\ got' = [got EXCEPT ![n][c] = Append(@, x)]
      /\ IF x.type = "share_request"
         THEN \E e \in Conn : Written(n, e, [type |-> "share_catalog", id |-> n, num |-> x.num])
         ELSE UNCHANGED <<dial, sock, out, sent>>
  BY <1>2, <1>3
<1>5. /\ Len(got[n][c]) \in Nat /\ Len(got'[n][c]) = k /\ got'[n][c][k] = x
      /\ \A q \in Node, d \in Conn : q # n \/ d # c => got'[q][d] = got[q][d]
      /\ \A q \in Node, d \in Conn : \A l, r, num :
           ChatGot(q, d, l, r, num) => ChatGot(q, d, l, r, num)'
  <2>1. TypeInv
    BY DEF RouterInv
  <2>2. got' = [got EXCEPT ![n][c] = Append(@, x)]
    BY <1>4
  <2> HIDE DEF k
  <2>3. /\ Len(got[n][c]) \in Nat /\ Len(got'[n][c]) = Len(got[n][c]) + 1
        /\ got'[n][c][Len(got[n][c]) + 1] = x
        /\ \A q \in Node, d \in Conn : q # n \/ d # c => got'[q][d] = got[q][d]
        /\ \A q \in Node, d \in Conn : \A l, r, num :
             ChatGot(q, d, l, r, num) => ChatGot(q, d, l, r, num)'
    BY <2>1, <2>2, EmittedAdds
  <2> QED
    BY <2>3 DEF k
<1>6. /\ w \in Node /\ sent[w][c] \in Seq(Message) /\ k \in 1..Len(sent[w][c])
      /\ dial[c].from \in Node /\ dial[c].to \in Node /\ dial[c].from # dial[c].to
      /\ n \in {dial[c].from, dial[c].to}
  <2>1. w \in Node /\ sent[w][c] \in Seq(Message)
    BY <1>2 DEF RouterInv, TypeInv, TypeOK
  <2>2. k \in 1..Len(sent[w][c])
    <3>1. k <= Len(sent[w][c]) /\ Len(sent[w][c]) \in Nat
      BY <1>2, <2>1, LenProperties
    <3>2. k \in Nat /\ 1 <= k
      BY <1>5
    <3> QED
      BY <3>1, <3>2
  <2>3. dial[c].from \in Node /\ dial[c].to \in Node /\ n \in {dial[c].from, dial[c].to}
    BY <1>2 DEF RouterInv, TypeInv, Wiring
  <2>4. dial[c].from # dial[c].to
    BY <2>3, NodeAssumption DEF RouterInv, TypeInv, Wiring
  <2> QED
    BY <2>1, <2>2, <2>3, <2>4
<1>7. /\ \A d \in Conn : \/ dial'[d] = dial[d]
                         \/ \A q \in Node : sent[q][d] = <<>> /\ got[q][d] = <<>>
      /\ \A q \in Node, d \in Conn : \A l, num :
           ChatSent(q, d, l, num)' => ChatSent(q, d, l, num) /\ dial'[d] = dial[d]
  <2>1. CASE x.type = "share_request"
    <3> DEFINE m == [type |-> "share_catalog", id |-> n, num |-> x.num]
    <3>1. m \in Message /\ m.type = "share_catalog"
      BY DEF Message, MsgType
    <3> HIDE DEF m
    <3>2. PICK e \in Conn : Written(n, e, m)
      BY <1>4, <2>1 DEF m
    <3>3. PICK m0 \in Message : m0 = m
      BY <3>1
    <3>4. /\ \A d \in Conn : \/ dial'[d] = dial[d]
                             \/ \A q \in Node : sent[q][d] = <<>> /\ got[q][d] = <<>>
          /\ \A q \in Node, d \in Conn : \A l, num :
               ChatSent(q, d, l, num)' =>
                 \/ ChatSent(q, d, l, num) /\ dial'[d] = dial[d]
                 \/ /\ q = n /\ d = e /\ l = Len(sent[n][e]) + 1
                    /\ m0.type = "chat" /\ num = m0.num
      BY <3>2, <3>3, WrittenAdds
    <3> QED
      BY <3>1, <3>3, <3>4
  <2>2. CASE x.type # "share_request"
    <3>1. UNCHANGED <<dial, sent>>
      BY <1>4, <2>2
    <3> QED
      BY <3>1 DEF ChatSent
  <2> QED
    BY <2>1, <2>2
<1>8. EndsInv'
  <2> SUFFICES ASSUME NEW q \in Node, NEW d \in Conn, got'[q][d] # <<>>
               PROVE  /\ dial'[d].from \in Node /\ dial'[d].to \in Node
                      /\ q \in {dial'[d].from, dial'[d].to}
    BY DEF EndsInv
  <2>1. CASE q = n /\ d = c
    <3>1. sent[w][c] # <<>>
      <4>1. sent[w][c] = <<>> => Len(sent[w][c]) = 0
        OBVIOUS
      <4> QED
        BY <1>6, <4>1
    <3>2. dial'[c] = dial[c]
      BY <1>6, <1>7, <3>1
    <3> QED
      BY <1>6, <2>1, <3>2
  <2>2. CASE ~(q = n /\ d = c)
    <3>1. got[q][d] # <<>>
      BY <1>5, <2>2
    <3>2. dial'[d] = dial[d]
      BY <1>7, <3>1
    <3> QED
      BY <3>1, <3>2 DEF ChatInv, EndsInv
  <2> QED
    BY <2>1, <2>2
<1>9. sends' = sends /\ \A q \in Node : sends[q] \in Nat /\ sends'[q] \in Nat /\ sends[q] <= sends'[q]
  <2>1. sends' = sends
    BY <1>1 DEF readLine
  <2>2. \A q \in Node : sends[q] \in Nat
    BY DEF RouterInv, TypeInv, TypeOK
  <2> QED
    BY <2>1, <2>2
<1>10. IF x.type = "chat" THEN recordChatHistory(n, x.id, FALSE, x.num) ELSE UNCHANGED table
  <2> DEFINE after == got'[n][busy[n]]
  <2>1. c = busy[n]
    BY <1>2
  <2>2. Len(after) > Len(got[n][busy[n]]) /\ after[Len(after)] = x
    BY <1>5, <2>1
  <2> QED
    BY <2>2 DEF handleRouterMessage, author
<1>11. CASE ~(x.type = "chat" /\ n \notin Passing)
  <2>1. UNCHANGED table
    BY <1>10, <1>11 DEF recordChatHistory
  <2>2. TableGrows /\ \A q \in Node : \A i \in Received(q)' : i \in Received(q) /\ table'[q][i] = table[q][i]
    BY <2>1 DEF TableGrows, Received
  <2>3. SentInv'
    BY <1>7, <1>9, <2>2, SentKept DEF ChatInv
  <2>4. RowsInv' /\ ReceivedOnce'
    BY <1>5, <2>2, RowsKept DEF ChatInv
  <2> QED
    BY <1>8, <2>3, <2>4 DEF ChatInv
<1>12. CASE x.type = "chat" /\ n \notin Passing
  <2>1. x.id \in Node /\ x.num \in 0..MaxSends /\ recordChatHistory(n, x.id, FALSE, x.num)
    BY <1>10, <1>12 DEF Message
  <2>2. PICK r \in Node, num \in 0..MaxSends : r = x.id /\ num = x.num
    BY <2>1
  <2>3. recordChatHistory(n, r, FALSE, num)
    BY <2>1, <2>2
  <2>4. PICK i0 : i0 = Len(table[n]) + 1
    OBVIOUS
  <2>5. /\ TableGrows
        /\ \A q \in Node : q # n => table'[q] = table[q]
        /\ \A i \in 1..Len(table'[n]) : i \in 1..Len(table[n]) \/ i = i0
        /\ i0 \in 1..Len(table'[n]) /\ i0 \notin 1..Len(table[n])
        /\ table'[n][i0] = [peer |-> r, own |-> FALSE, num |-> num]
    <3>1. /\ TableGrows /\ Len(table[n]) \in Nat
          /\ \A q \in Node : q # n => table'[q] = table[q]
          /\ \A j \in 1..Len(table'[n]) : j \in 1..Len(table[n]) \/ j = Len(table[n]) + 1
          /\ Len(table[n]) + 1 \in 1..Len(table'[n])
          /\ table'[n][Len(table[n]) + 1] = [peer |-> r, own |-> FALSE, num |-> num]
      BY <1>12, <2>3, RowAdded
    <3> QED
      BY <2>4, <3>1
  <2>6. SentInv'
    BY <1>7, <1>9, <2>5, SentKept DEF ChatInv
  <2>7. w = r /\ OtherEnd(r, c) = n
    <3>1. x.id = w
      BY <1>3, <1>6 DEF RouterInv, OriginInv, WriterOK
    <3>2. OtherEnd(w, c) = n
      BY <1>6 DEF OtherEnd
    <3> QED
      BY <2>2, <3>1, <3>2
  <2>8. PICK k0 : k0 = k
    OBVIOUS
  <2>9. ChatSent(r, c, k0, num) /\ ChatGot(n, c, k0, r, num)'
    <3>1. ChatSent(r, c, k0, num)
      BY <1>3, <1>6, <1>12, <2>2, <2>7, <2>8 DEF ChatSent
    <3>2. k0 \in 1..Len(got'[n][c]) /\ got'[n][c][k0] = x
      BY <1>5, <2>8
    <3> QED
      BY <1>12, <2>2, <3>1, <3>2 DEF ChatGot
  <2>10. ASSUME NEW q \in Node, NEW i \in Received(q)
         PROVE  ~(table[q][i].peer = r /\ table[q][i].num = num)
    <3> SUFFICES ASSUME table[q][i].peer = r, table[q][i].num = num
                 PROVE  FALSE
      OBVIOUS
    <3>1. PICK d \in Conn : \E l : ChatGot(q, d, l, r, num)
      BY DEF ChatInv, RowsInv
    <3>2. PICK l : ChatGot(q, d, l, r, num)
      BY <3>1
    <3>3. ChatSent(r, d, l, num) /\ q = OtherEnd(r, d)
      BY <3>2, GotWasSent DEF ChatInv
    <3>4. d = c /\ l = k0
      BY <2>9, <3>3 DEF ChatInv, SentInv
    <3>5. k0 \in 1..Len(got[n][c])
      BY <2>7, <3>2, <3>3, <3>4 DEF ChatGot
    <3> QED
      BY <1>5, <2>8, <3>5
  <2>11. \A q \in Node : \A i \in Received(q)' :
           \/ i \in Received(q) /\ table'[q][i] = table[q][i]
           \/ q = n /\ i = i0
    BY <2>5 DEF Received, TableGrows
  <2>12. RowsInv'
    <3> SUFFICES ASSUME NEW q \in Node, NEW i \in Received(q)'
                 PROVE  \E d \in Conn : \E l :
                          ChatGot(q, d, l, table[q][i].peer, table[q][i].num)'
      BY DEF RowsInv
    <3>1. CASE i \in Received(q) /\ table'[q][i] = table[q][i]
      <4>1. PICK s, v : s = table[q][i].peer /\ v = table[q][i].num
        OBVIOUS
      <4>2. PICK d \in Conn : \E l : ChatGot(q, d, l, s, v)
        BY <3>1, <4>1 DEF ChatInv, RowsInv
      <4>3. PICK l : ChatGot(q, d, l, s, v)
        BY <4>2
      <4>4. ChatGot(q, d, l, s, v)'
        BY <1>5, <4>3
      <4>5. s = table'[q][i].peer /\ v = table'[q][i].num
        BY <3>1, <4>1
      <4> QED
        BY <4>4, <4>5 DEF ChatGot
    <3>2. CASE q = n /\ i = i0
      <4>1. r = table'[q][i].peer /\ num = table'[q][i].num
        BY <2>5, <3>2
      <4> QED
        BY <2>9, <3>2, <4>1 DEF ChatGot
    <3> QED
      BY <2>11, <3>1, <3>2
  <2>13. ReceivedOnce'
    <3> SUFFICES ASSUME NEW p \in Node, NEW q \in Node,
                        NEW i \in Received(p)', NEW j \in Received(q)',
                        table'[p][i].peer = table'[q][j].peer,
                        table'[p][i].num = table'[q][j].num
                 PROVE  p = q /\ i = j
      BY DEF ReceivedOnce
    <3>1. table'[n][i0].peer = r /\ table'[n][i0].num = num
      BY <2>5
    <3>2. CASE i \in Received(p) /\ j \in Received(q)
               /\ table'[p][i] = table[p][i] /\ table'[q][j] = table[q][j]
      BY <3>2 DEF ChatInv, ReceivedOnce
    <3> QED
      BY <2>10, <2>11, <3>1, <3>2
  <2> QED
    BY <1>8, <2>6, <2>12, <2>13 DEF ChatInv
<1> QED
  BY <1>11, <1>12

LEMMA ChatInvNext ==
  RouterInv /\ RouterInv' /\ BookInv /\ ChatInv /\ [LanNext]_lanVars => ChatInv'
<1> SUFFICES ASSUME RouterInv, RouterInv', BookInv, ChatInv, [LanNext]_lanVars
             PROVE  ChatInv'
  OBVIOUS
<1>1. ASSUME UNCHANGED <<dial, sent, got, sends, table>>
      PROVE  ChatInv'
  BY <1>1 DEF ChatInv, EndsInv, SentInv, RowsInv, ReceivedOnce, ChatSent, ChatGot, HasRow,
              LeadsTo, OtherEnd, Received
<1>2. CASE UNCHANGED lanVars
  BY <1>1, <1>2 DEF lanVars, vars
<1>3. CASE network
  BY <1>1, <1>3 DEF network, connectSucceeds, connectFails, handleNewConnection, readSocket,
                    disconnected
<1>4. ASSUME NEW n \in Node, initialize(n) \/ shutDown(n) \/ move(n)
      PROVE  ChatInv'
  BY <1>1, <1>4 DEF initialize, startListening, shutDown, stop, move, wires, vars
<1>5. ASSUME NEW n \in Node, NEW p \in Node, processPacket(n, p)
      PROVE  ChatInv'
  BY <1>1, <1>5 DEF processPacket, vars
<1>6. ASSUME NEW n \in Node, NEW p \in Node,
             sendMessageToPeer(n, p) \/ requestPeerShareList(n, p)
      PROVE  ChatInv'
  <2>1. CASE sendMessageToPeer(n, p)
    <3>1. PICK goal \in holders(n, p) : sendPayload(n, p, goal, "chat")
      BY <2>1 DEF sendMessageToPeer
    <3>2. recordChatHistory(n, p, TRUE, sends[n])
      BY <2>1 DEF sendMessageToPeer
    <3> QED
      BY <3>1, <3>2, WriteKeepsChats
  <2>2. CASE requestPeerShareList(n, p)
    <3>1. PICK goal \in holders(n, p) : sendPayload(n, p, goal, "share_request")
      BY <2>2 DEF requestPeerShareList
    <3>2. UNCHANGED table
      BY <2>2 DEF requestPeerShareList
    <3> QED
      BY <3>1, <3>2, WriteKeepsChats
  <2> QED
    BY <1>6, <2>1, <2>2
<1>7. ASSUME NEW n \in Node, handleRouterMessage(n)
      PROVE  ChatInv'
  BY <1>7, ReadKeepsChats
<1> QED
  BY <1>2, <1>3, <1>4, <1>5, <1>6, <1>7 DEF LanNext

LEMMA LanInductive ==
  /\ LanInit => RouterInv /\ BookInv /\ ChatInv
  /\ RouterInv /\ BookInv /\ ChatInv /\ [LanNext]_lanVars => RouterInv' /\ BookInv' /\ ChatInv'
<1>1. LanInit => RouterInv /\ BookInv /\ ChatInv
  BY TypeInvInit, TablesInit, DeliveryInit, OriginInit, BookInit, ChatInvInit
     DEF LanInit, RouterInv
<1>2. ASSUME RouterInv, BookInv, ChatInv, [LanNext]_lanVars
      PROVE  RouterInv' /\ BookInv' /\ ChatInv'
  <2>1. RouterInv'
    BY <1>2, LanStepIsRouterStep, RouterInvNext
  <2>2. BookInv'
    BY <1>2, <2>1, BookNext DEF RouterInv
  <2> QED
    BY <1>2, <2>1, <2>2, ChatInvNext
<1> QED
  BY <1>1, <1>2

\* What a history says was received was written by the one it names.
THEOREM ChatsAreAuthentic == LanSpec => []ReceivedWasWritten
BY LanInductive, ChatsWereWritten, PTL DEF LanSpec

\* Nothing is received twice.
THEOREM ChatsArriveOnce == LanSpec => []ReceivedOnce
<1>1. ChatInv => ReceivedOnce
  BY DEF ChatInv
<1> QED
  BY <1>1, LanInductive, PTL DEF LanSpec

(***************************************************************************)
(* Order.  As long as an installation has lost no socket it writes all its  *)
(* chats to a peer on one connection, and there they stay in the order of   *)
(* their numbers.                                                           *)
(***************************************************************************)
Lossless(n) == \A c \in Conn : sock[n][c] \notin {"unconnected", "gone"}

OwnRow(n, j) == j \in 1..Len(table[n]) /\ table[n][j].own

SentAscend == \A n \in Node, c \in Conn : \A k, l, num, v :
                ChatSent(n, c, k, num) /\ ChatSent(n, c, l, v) /\ k < l => num < v

OwnAscend == \A n \in Node :
               /\ \A j : OwnRow(n, j) => table[n][j].num < sends[n]
               /\ \A j, k : OwnRow(n, j) /\ OwnRow(n, k) /\ j < k
                              => table[n][j].num < table[n][k].num

\* Row i of q is older than row j, and they record chats k and l of connection c.
ReadBefore(q, c, i, k, j, l) ==
  /\ i < j /\ table[q][i].peer = table[q][j].peer
  /\ ChatGot(q, c, k, table[q][i].peer, table[q][i].num)
  /\ ChatGot(q, c, l, table[q][j].peer, table[q][j].num)

ReadAscend == \A q \in Node, c \in Conn : \A i, j \in Received(q) : \A k, l :
                ReadBefore(q, c, i, k, j, l) => k < l

OnSession(n, j) ==
  LET c == peerSessions[n][table[n][j].peer]
  IN  c \in Conn /\ \E k : ChatSent(n, c, k, table[n][j].num)

SessionsCarryAll == \A n \in Node : Lossless(n) => \A j : OwnRow(n, j) => OnSession(n, j)

OrderInv == SentAscend /\ OwnAscend /\ ReadAscend /\ SessionsCarryAll

LEMMA OrderedChats == RouterInv /\ ChatInv /\ OrderInv => OvertakenAfterLoss
<1> SUFFICES ASSUME RouterInv, ChatInv, OrderInv,
                    NEW n \in Node, Lossless(n), NEW q \in Node,
                    NEW i \in Received(q), NEW j \in Received(q), i < j,
                    table[q][i].peer = n, table[q][j].peer = n,
                    NEW k \in 1..Len(table[n]), NEW l \in 1..Len(table[n]),
                    l < k, table[n][k].peer = table[n][l].peer,
                    IsRowOf(table[n][k], n, q, table[q][i].num),
                    IsRowOf(table[n][l], n, q, table[q][j].num)
             PROVE  FALSE
  BY DEF OvertakenAfterLoss, Lossless
<1>1. PICK u, v : u = table[q][i].num /\ v = table[q][j].num
  OBVIOUS
<1>2. OwnRow(n, k) /\ OwnRow(n, l) /\ table[n][k].num = u /\ table[n][l].num = v
  BY <1>1 DEF IsRowOf, OwnRow
<1>3. v < u
  BY <1>2 DEF OrderInv, OwnAscend
<1>4. PICK c \in Conn : c = peerSessions[n][table[n][k].peer]
  BY <1>2 DEF OrderInv, SessionsCarryAll, OnSession
<1>5. PICK a : ChatSent(n, c, a, u)
  BY <1>2, <1>4 DEF OrderInv, SessionsCarryAll, OnSession
<1>6. PICK b : ChatSent(n, c, b, v)
  BY <1>2, <1>4 DEF OrderInv, SessionsCarryAll, OnSession
<1>7. ChatGot(q, c, a, n, u)
  <2>1. PICK d \in Conn : \E x : ChatGot(q, d, x, n, u)
    BY <1>1 DEF ChatInv, RowsInv
  <2>2. PICK x : ChatGot(q, d, x, n, u)
    BY <2>1
  <2>3. ChatSent(n, d, x, u)
    BY <2>2, GotWasSent DEF ChatInv
  <2>4. d = c /\ x = a
    BY <1>5, <2>3 DEF ChatInv, SentInv
  <2> QED
    BY <2>2, <2>4
<1>8. ChatGot(q, c, b, n, v)
  <2>1. PICK d \in Conn : \E x : ChatGot(q, d, x, n, v)
    BY <1>1 DEF ChatInv, RowsInv
  <2>2. PICK x : ChatGot(q, d, x, n, v)
    BY <2>1
  <2>3. ChatSent(n, d, x, v)
    BY <2>2, GotWasSent DEF ChatInv
  <2>4. d = c /\ x = b
    BY <1>6, <2>3 DEF ChatInv, SentInv
  <2> QED
    BY <2>2, <2>4
<1>9. a < b
  BY <1>1, <1>7, <1>8 DEF OrderInv, ReadAscend, ReadBefore
<1>10. u < v
  BY <1>5, <1>6, <1>9 DEF OrderInv, SentAscend
<1>11. u \in Nat /\ v \in Nat
  BY <1>5, <1>6 DEF ChatInv, SentInv
<1> QED
  BY <1>3, <1>10, <1>11

\* What a step does to a socket: one that is lost stays lost, one that lives goes on
\* living or is lost.
SocketGoesOn(n, c) ==
  /\ sock[n][c] \in {"unconnected", "gone"} => sock'[n][c] \in {"unconnected", "gone"}
  /\ sock[n][c] \in {"connecting", "connected"} => sock'[n][c] \notin {"none", "backlog"}

LEMMA SocketStep ==
  ASSUME RouterInv, [Next]_vars, NEW n \in Node, NEW c \in Conn
  PROVE  SocketGoesOn(n, c)
<1>0. TypeInv
  BY DEF RouterInv
<1>sock. sock \in [Node -> [Conn -> SockState]]
  BY <1>0 DEF TypeInv, TypeOK
<1>1. CASE UNCHANGED sock
  BY <1>1 DEF SocketGoesOn
<1>2. ASSUME NEW q \in Node, NEW e \in Conn, NEW m, Written(q, e, m)
      PROVE  SocketGoesOn(n, c)
  <2>1. CASE sock[q][e] = "none" /\ sock' = [sock EXCEPT ![q][e] = "connecting"]
    <3>1. sock'[n][c] = IF c = e /\ n = q THEN "connecting" ELSE sock[n][c]
      BY <1>sock, <2>1
    <3> QED
      BY <2>1, <3>1 DEF SocketGoesOn
  <2> QED
    BY <1>1, <1>2, <2>1 DEF Written
<1>3. ASSUME NEW d \in Conn, connectSucceeds(d)
      PROVE  SocketGoesOn(n, c)
  <2>1. PICK p, q \in Node :
           /\ p # q /\ dial[d].from = p /\ dial[d].to = q
           /\ sock[p][d] = "connecting" /\ sock[q][d] = "none"
           /\ \A r \in Node, e \in Conn :
                sock'[r][e] = IF e # d \/ r \notin {p, q} THEN sock[r][e]
                              ELSE IF r = p THEN "connected" ELSE "backlog"
    BY <1>0, <1>3, ConnectEffect
  <2> QED
    BY <2>1 DEF SocketGoesOn
<1>4. ASSUME NEW d \in Conn, connectFails(d)
      PROVE  SocketGoesOn(n, c)
  <2>1. PICK p \in Node : p = dial[d].from
    BY <1>0, <1>4 DEF connectFails, TypeInv, TypeOK
  <2>2. sock[p][d] = "connecting" /\ sock' = [sock EXCEPT ![p][d] = "unconnected"]
    BY <1>4, <2>1 DEF connectFails
  <2>3. sock'[n][c] = IF c = d /\ n = p THEN "unconnected" ELSE sock[n][c]
    BY <1>sock, <2>2
  <2> QED
    BY <2>2, <2>3 DEF SocketGoesOn
<1>5. ASSUME NEW q \in Node, handleNewConnection(q)
      PROVE  SocketGoesOn(n, c)
  BY <1>0, <1>5 DEF handleNewConnection, SocketGoesOn, TypeInv, TypeOK
<1>6. ASSUME NEW q \in Node, NEW d \in Conn, disconnected(q, d)
      PROVE  SocketGoesOn(n, c)
  <2>1. sock[q][d] = "connected" /\ sock' = [sock EXCEPT ![q][d] = "gone"]
    BY <1>6 DEF disconnected
  <2>2. sock'[n][c] = IF c = d /\ n = q THEN "gone" ELSE sock[n][c]
    BY <1>sock, <2>1
  <2> QED
    BY <2>1, <2>2 DEF SocketGoesOn
<1>7. ASSUME NEW q \in Node, stop(q)
      PROVE  SocketGoesOn(n, c)
  BY <1>0, <1>7 DEF stop, SocketGoesOn, TypeInv, TypeOK
<1>8. ASSUME NEW q \in Node, readLine(q)
      PROVE  SocketGoesOn(n, c)
  <2>1. \/ UNCHANGED sock
        \/ \E e \in Conn : \E m : Written(q, e, m)
    BY <1>8, ReadLineEffect DEF RouterInv
  <2> QED
    BY <1>1, <1>2, <2>1
<1>9. ASSUME NEW q \in Node, NEW p \in Node, send(q, p)
      PROVE  SocketGoesOn(n, c)
  <2>1. PICK goal \in Goals[p], type \in {"chat", "share_request"} : sendPayload(q, p, goal, type)
    BY <1>9 DEF send
  <2>2. PICK m : sendTo(q, p, goal, peerSessions[q], socketToPeer[q], m)
    BY <2>1 DEF sendPayload
  <2>3. /\ goal \in Node \cup {NoNode} /\ goal # q
        /\ peerSessions[q] \in [Node -> Conn \cup {NoConn}]
    BY <1>0, <2>1, GoalsAssumption DEF sendPayload, TypeInv, TypeOK
  <2>4. PICK e \in Conn : Written(q, e, m)
    BY <1>0, <2>2, <2>3, SendToWrites
  <2> QED
    BY <1>2, <2>4
<1>10. CASE \E q \in Node : startListening(q)
  BY <1>1, <1>10 DEF startListening, wires
<1>11. CASE \E q \in Node, d \in Conn : readSocket(q, d)
  BY <1>1, <1>11 DEF readSocket
<1>12. CASE UNCHANGED vars
  BY <1>1, <1>12 DEF vars
<1> QED
  BY <1>3, <1>4, <1>5, <1>6, <1>7, <1>8, <1>9, <1>10, <1>11, <1>12 DEF Next

\* A session of an installation without losses lives, and stays.
LEMMA SessionStays ==
  ASSUME RouterInv, RouterInv', [Next]_vars, NEW n \in Node, Lossless(n)',
         NEW p \in Node, NEW c \in Conn, peerSessions[n][p] = c
  PROVE  peerSessions'[n][p] = c
<1>1. Lossless(n)
  BY SocketStep DEF Lossless, SocketGoesOn
<1>2. sock[n][c] \in {"connecting", "connected"}
  <2>1. c # NoConn
    BY ConnAssumption
  <2>2. sock[n][c] \notin {"none", "backlog"}
    BY <2>1 DEF RouterInv, TablesInv, TablesOK
  <2>3. sock[n][c] \in SockState
    BY DEF RouterInv, TypeInv, TypeOK
  <2> QED
    BY <1>1, <2>2, <2>3 DEF Lossless, SockState
<1>3. sock'[n][c] \in {"connecting", "connected"}
  <2>1. sock'[n][c] \in SockState
    BY DEF RouterInv, TypeInv, TypeOK
  <2>2. sock'[n][c] \notin {"none", "backlog"}
    BY <1>2, SocketStep DEF SocketGoesOn
  <2> QED
    BY <2>1, <2>2 DEF Lossless, SockState
<1>4. Live(n, c) /\ Live(n, c)'
  BY <1>2, <1>3, ConnAssumption DEF Live
<1> QED
  BY <1>4, StickyStep DEF RouterInv

(***************************************************************************)
(* Each part of OrderInv, from what a step adds to the messages written and *)
(* to the rows.                                                             *)
(***************************************************************************)
ChatsStay == \A q \in Node, c \in Conn : \A k, num :
               ChatSent(q, c, k, num) => ChatSent(q, c, k, num)'

\* The chat a step writes is the next one on its connection.
LEMMA WrittenStays ==
  ASSUME RouterInv, NEW n \in Node, NEW e \in Conn, NEW m \in Message, Written(n, e, m)
  PROVE  /\ ChatsStay
         /\ \A k : m.type = "chat" /\ k = Len(sent[n][e]) + 1 => ChatSent(n, e, k, m.num)'
<1>1. \A q \in Node, c \in Conn :
        sent'[q][c] = IF q = n /\ c = e THEN Append(sent[n][e], m) ELSE sent[q][c]
  BY DEF Written, RouterInv, TypeInv, TypeOK
<1>2. sent[n][e] \in Seq(Message)
  BY DEF RouterInv, TypeInv, TypeOK
<1>3. /\ \A k \in 1..Len(sent[n][e]) : /\ k \in 1..Len(Append(sent[n][e], m))
                                       /\ Append(sent[n][e], m)[k] = sent[n][e][k]
      /\ Len(sent[n][e]) + 1 \in 1..Len(Append(sent[n][e], m))
      /\ Append(sent[n][e], m)[Len(sent[n][e]) + 1] = m
  BY <1>2, Grown
<1>4. ASSUME NEW q \in Node, NEW c \in Conn, NEW k, NEW num, ChatSent(q, c, k, num)
      PROVE  ChatSent(q, c, k, num)'
  <2>1. k \in 1..Len(sent'[q][c]) /\ sent'[q][c][k] = sent[q][c][k]
    BY <1>1, <1>3, <1>4 DEF ChatSent
  <2> QED
    BY <1>4, <2>1 DEF ChatSent
<1>5. sent'[n][e] = Append(sent[n][e], m)
  BY <1>1
<1>6. ASSUME m.type = "chat", NEW k, k = Len(sent[n][e]) + 1
      PROVE  ChatSent(n, e, k, m.num)'
  <2>1. k \in 1..Len(sent'[n][e]) /\ sent'[n][e][k] = m
    BY <1>3, <1>5, <1>6
  <2> QED
    BY <1>6, <2>1 DEF ChatSent
<1> QED
  BY <1>4, <1>6 DEF ChatsStay

LEMMA SessionsKept ==
  ASSUME RouterInv, RouterInv', BookInv, SessionsCarryAll, [Next]_vars, ChatsStay,
         NEW n \in Node, Lossless(n)', NEW j, OwnRow(n, j), table'[n][j] = table[n][j]
  PROVE  OnSession(n, j)'
<1>1. Lossless(n)
  BY SocketStep DEF Lossless, SocketGoesOn
<1>2. PICK p \in Node, num \in 0..MaxSends : p = table[n][j].peer /\ num = table[n][j].num
  <2>1. table[n][j] \in Row
    BY DEF BookInv, OwnRow
  <2> QED
    BY <2>1 DEF Row
<1>3. PICK c \in Conn : c = peerSessions[n][p]
  BY <1>1, <1>2 DEF SessionsCarryAll, OnSession
<1>4. PICK k : ChatSent(n, c, k, num)
  BY <1>1, <1>2, <1>3 DEF SessionsCarryAll, OnSession
<1>5. ChatSent(n, c, k, num)'
  BY <1>4 DEF ChatsStay
<1>6. peerSessions'[n][p] = c
  BY <1>3, SessionStays
<1>7. table'[n][j].peer = p /\ table'[n][j].num = num
  BY <1>2
<1> QED
  BY <1>5, <1>6, <1>7 DEF OnSession, ChatSent

LEMMA OwnNumber ==
  ASSUME BookInv, NEW n \in Node, NEW j, OwnRow(n, j)
  PROVE  table[n][j].num \in Nat
<1>1. table[n][j] \in Row
  BY DEF BookInv, OwnRow
<1>2. table[n][j].num \in 0..MaxSends
  BY <1>1 DEF Row
<1> QED
  BY <1>2, BoundAssumption

\* The rows a step adds are of chats that were received.
LEMMA OwnKept ==
  ASSUME OwnAscend, \A n \in Node : sends[n] \in Nat /\ sends'[n] \in Nat /\ sends[n] <= sends'[n],
         BookInv,
         \A n \in Node : \A j : OwnRow(n, j)' => OwnRow(n, j) /\ table'[n][j] = table[n][j]
  PROVE  OwnAscend'
<1> SUFFICES ASSUME NEW n \in Node
             PROVE  /\ \A j : OwnRow(n, j)' => table'[n][j].num < sends'[n]
                    /\ \A j, k : OwnRow(n, j)' /\ OwnRow(n, k)' /\ j < k
                                   => table'[n][j].num < table'[n][k].num
  BY DEF OwnAscend
<1>1. ASSUME NEW j, OwnRow(n, j)'
      PROVE  table'[n][j].num < sends'[n]
  <2>1. table[n][j].num \in Nat
    BY <1>1, OwnNumber
  <2>2. table[n][j].num < sends[n]
    BY <1>1 DEF OwnAscend
  <2>3. sends[n] \in Nat /\ sends'[n] \in Nat /\ sends[n] <= sends'[n]
    OBVIOUS
  <2> QED
    BY <1>1, <2>1, <2>2, <2>3
<1> QED
  BY <1>1 DEF OwnAscend

\* A row of one's own, with the next number.
LEMMA OwnAdded ==
  ASSUME OwnAscend, BookInv, NEW n \in Node, NEW i, NEW num0 \in Nat, num0 = sends[n],
         \A q \in Node : q # n => sends'[q] = sends[q],
         sends'[n] = num0 + 1,
         i \notin 1..Len(table[n]), \A j \in 1..Len(table[n]) : j < i,
         table'[n][i].num = num0,
         \A q \in Node : \A j : OwnRow(q, j)' => \/ OwnRow(q, j) /\ table'[q][j] = table[q][j]
                                                 \/ q = n /\ j = i
  PROVE  OwnAscend'
<1> SUFFICES ASSUME NEW q \in Node
             PROVE  /\ \A j : OwnRow(q, j)' => table'[q][j].num < sends'[q]
                    /\ \A j, k : OwnRow(q, j)' /\ OwnRow(q, k)' /\ j < k
                                   => table'[q][j].num < table'[q][k].num
  BY DEF OwnAscend
<1>1. CASE q # n
  <2>1. sends'[q] = sends[q]
    BY <1>1
  <2>2. \A j : OwnRow(q, j)' => OwnRow(q, j) /\ table'[q][j] = table[q][j]
    BY <1>1
  <2> QED
    BY <2>1, <2>2 DEF OwnAscend
<1>2. CASE q = n
  <2>1. ASSUME NEW j, OwnRow(n, j), table'[n][j] = table[n][j]
        PROVE  table'[n][j].num < num0 /\ table'[n][j].num < num0 + 1
    <3>1. table[n][j].num \in Nat
      BY <2>1, OwnNumber
    <3>2. table[n][j].num < num0
      BY <2>1 DEF OwnAscend
    <3> QED
      BY <2>1, <3>1, <3>2
  <2>2. \A j : OwnRow(n, j)' => (OwnRow(n, j) /\ table'[n][j] = table[n][j]) \/ j = i
    OBVIOUS
  <2>3. \A j : OwnRow(n, j)' => table'[n][j].num < num0 + 1
    BY <2>1, <2>2
  <2>4. ASSUME NEW j, NEW k, OwnRow(n, j)', OwnRow(n, k)', j < k
        PROVE  table'[n][j].num < table'[n][k].num
    <3>1. CASE j = i
      <4>1. k # i /\ k \in 1..Len(table[n]) /\ k < i
        <5>1. i \in Int
          BY <2>4, <3>1 DEF OwnRow
        <5>2. k # i
          BY <2>4, <3>1, <5>1
        <5> QED
          BY <2>2, <2>4, <5>2 DEF OwnRow
      <4>2. i \in 1..Len(table'[n]) /\ k \in 1..Len(table'[n])
        BY <2>4, <3>1 DEF OwnRow
      <4> QED
        BY <2>4, <3>1, <4>1, <4>2
    <3>2. CASE OwnRow(n, j) /\ table'[n][j] = table[n][j] /\ k = i
      BY <2>1, <3>2
    <3>3. CASE /\ OwnRow(n, j) /\ table'[n][j] = table[n][j]
               /\ OwnRow(n, k) /\ table'[n][k] = table[n][k]
      BY <2>4, <3>3 DEF OwnAscend
    <3> QED
      BY <2>2, <2>4, <3>1, <3>2, <3>3
  <2> QED
    BY <1>2, <2>3, <2>4
<1> QED
  BY <1>1, <1>2

\* No chat is emitted.
GotKept(q) == \A c \in Conn : \A k, n, num :
                ChatGot(q, c, k, n, num)' => ChatGot(q, c, k, n, num)

\* None is recorded as received.
LEMMA ReadKept ==
  ASSUME ReadAscend,
         \A q \in Node : \A i \in Received(q)' : i \in Received(q) /\ table'[q][i] = table[q][i],
         \A q \in Node : Received(q)' = {} \/ GotKept(q)
  PROVE  ReadAscend'
<1> SUFFICES ASSUME NEW q \in Node, NEW c \in Conn, NEW i \in Received(q)', NEW j \in Received(q)',
                    NEW k, NEW l, ReadBefore(q, c, i, k, j, l)'
             PROVE  k < l
  BY DEF ReadAscend
<1>1. /\ i \in Received(q) /\ j \in Received(q)
      /\ table'[q][i] = table[q][i] /\ table'[q][j] = table[q][j]
  OBVIOUS
<1>2. PICK n, u, v : n = table[q][i].peer /\ u = table[q][i].num /\ v = table[q][j].num
  OBVIOUS
<1>3. i < j /\ n = table[q][j].peer /\ ChatGot(q, c, k, n, u)' /\ ChatGot(q, c, l, n, v)'
  BY <1>1, <1>2 DEF ReadBefore, ChatGot
<1>4. ChatGot(q, c, k, n, u) /\ ChatGot(q, c, l, n, v)
  <2>1. GotKept(q)
    OBVIOUS
  <2> QED
    BY <1>3, <2>1 DEF GotKept
<1> QED
  BY <1>1, <1>2, <1>3, <1>4 DEF ReadAscend, ReadBefore

Emitted(n, c, x) == got' = [got EXCEPT ![n][c] = Append(@, x)]

OnlyLast(n, c, x) ==
  \A q \in Node, d \in Conn : \A k, r, num :
    ChatGot(q, d, k, r, num)' =>
      \/ ChatGot(q, d, k, r, num)
      \/ /\ q = n /\ d = c /\ k = Len(got[n][c]) + 1
         /\ x.type = "chat" /\ r = x.id /\ num = x.num

\* What is emitted is the last of its connection.
LEMMA EmittedIsLast ==
  ASSUME TypeInv, NEW n \in Node, NEW c \in Conn, NEW x \in Message, Emitted(n, c, x)
  PROVE  /\ Len(got[n][c]) \in Nat /\ Len(got'[n][c]) = Len(got[n][c]) + 1
         /\ got'[n][c][Len(got[n][c]) + 1] = x
         /\ OnlyLast(n, c, x)
<1>0. got' = [got EXCEPT ![n][c] = Append(@, x)]
  BY DEF Emitted
<1>1. \A q \in Node, d \in Conn :
        got'[q][d] = IF q = n /\ d = c THEN Append(got[n][c], x) ELSE got[q][d]
  BY <1>0 DEF TypeInv, TypeOK
<1>2. got[n][c] \in Seq(Message)
  BY DEF TypeInv, TypeOK
<1>3. /\ Len(got[n][c]) \in Nat /\ Len(got'[n][c]) = Len(got[n][c]) + 1
      /\ got'[n][c][Len(got[n][c]) + 1] = x
  <2>1. /\ Len(got[n][c]) \in Nat /\ Len(Append(got[n][c], x)) = Len(got[n][c]) + 1
        /\ Append(got[n][c], x)[Len(got[n][c]) + 1] = x
    BY <1>2, Grown
  <2> QED
    BY <1>1, <2>1
<1>4. /\ \A k \in 1..Len(got[n][c]) : Append(got[n][c], x)[k] = got[n][c][k]
      /\ Append(got[n][c], x)[Len(got[n][c]) + 1] = x
      /\ \A k \in 1..Len(Append(got[n][c], x)) : k \in 1..Len(got[n][c]) \/ k = Len(got[n][c]) + 1
  BY <1>2, Grown
<1> SUFFICES ASSUME NEW q \in Node, NEW d \in Conn, NEW k, NEW r, NEW num,
                    ChatGot(q, d, k, r, num)'
             PROVE  \/ ChatGot(q, d, k, r, num)
                    \/ /\ q = n /\ d = c /\ k = Len(got[n][c]) + 1
                       /\ x.type = "chat" /\ r = x.id /\ num = x.num
  BY <1>3 DEF OnlyLast
<1>5. CASE ~(q = n /\ d = c)
  BY <1>1, <1>5 DEF ChatGot
<1>6. CASE q = n /\ d = c
  <2>1. got'[q][d] = Append(got[n][c], x)
    BY <1>1, <1>6
  <2>2. /\ k \in 1..Len(Append(got[n][c], x)) /\ Append(got[n][c], x)[k].type = "chat"
        /\ Append(got[n][c], x)[k].id = r /\ Append(got[n][c], x)[k].num = num
    BY <2>1 DEF ChatGot
  <2> QED
    BY <1>4, <1>6, <2>2 DEF ChatGot
<1> QED
  BY <1>5, <1>6

NotBefore(n, i0) == /\ ~(i0 < i0)
                    /\ \A i \in Received(n) : i < i0 /\ ~(i0 < i)

OnlyRow(n, i0) ==
  \A q \in Node : \A i \in Received(q)' :
    (i \in Received(q) /\ table'[q][i] = table[q][i]) \/ (q = n /\ i = i0)

OnlyGot(n, c, k0, r, num) ==
  /\ \A q \in Node, d \in Conn : \A k, s, v :
       ChatGot(q, d, k, s, v)' => \/ ChatGot(q, d, k, s, v)
                                  \/ q = n /\ d = c /\ k = k0 /\ s = r /\ v = num
  /\ \A k \in 1..Len(got[n][c]) : k < k0

\* Chat k0 of connection c, r's number num, is emitted and recorded in row i0.
LEMMA ReadAdded ==
  ASSUME RouterInv, ChatInv, ReceivedOnce', ReadAscend, NEW n \in Node, NEW c \in Conn, NEW k0, NEW i0,
         NEW r, NEW num,
         i0 \in Received(n)', table'[n][i0].peer = r, table'[n][i0].num = num,
         NotBefore(n, i0),
         ChatSent(r, c, k0, num), OnlyRow(n, i0), OnlyGot(n, c, k0, r, num)
  PROVE  ReadAscend'
<1> SUFFICES ASSUME NEW q \in Node, NEW d \in Conn, NEW i \in Received(q)', NEW j \in Received(q)',
                    NEW k, NEW l, ReadBefore(q, d, i, k, j, l)'
             PROVE  k < l
  BY DEF ReadAscend
<1> USE DEF NotBefore, OnlyRow, OnlyGot
<1>1. PICK s, u, v : s = table'[q][i].peer /\ u = table'[q][i].num /\ v = table'[q][j].num
  OBVIOUS
<1>2. i < j /\ s = table'[q][j].peer /\ ChatGot(q, d, k, s, u)' /\ ChatGot(q, d, l, s, v)'
  BY <1>1 DEF ReadBefore, ChatGot
<1>3. i \in Received(q) /\ table'[q][i] = table[q][i]
  <2>1. ~(q = n /\ i = i0)
    BY <1>2
  <2> QED
    BY <2>1
<1>4. ~(s = r /\ u = num)
  <2> SUFFICES ASSUME s = r, u = num
               PROVE  FALSE
    OBVIOUS
  <2>1. q = n /\ i = i0
    BY <1>1 DEF ReceivedOnce
  <2> QED
    BY <1>2, <1>3, <2>1
<1>5. ChatGot(q, d, k, s, u)
  BY <1>2, <1>4
<1>6. CASE j \in Received(q) /\ table'[q][j] = table[q][j] /\ ~(q = n /\ j = i0)
  <2>1. ~(s = r /\ v = num)
    <3> SUFFICES ASSUME s = r, v = num
                 PROVE  FALSE
      OBVIOUS
    <3>1. q = n /\ j = i0
      BY <1>1, <1>2 DEF ReceivedOnce
    <3> QED
      BY <1>6, <3>1
  <2>2. ChatGot(q, d, l, s, v)
    BY <1>2, <2>1
  <2>3. ReadBefore(q, d, i, k, j, l)
    BY <1>1, <1>2, <1>3, <1>5, <1>6, <2>2 DEF ReadBefore
  <2> QED
    BY <1>3, <1>6, <2>3 DEF ReadAscend
<1>7. CASE q = n /\ j = i0
  <2>1. s = r /\ v = num
    BY <1>1, <1>2, <1>7
  <2>2. ASSUME ChatGot(n, d, l, r, num)
        PROVE  d = c /\ l = k0
    <3>1. ChatSent(r, d, l, num) /\ r \in Node
      BY <2>2, GotWasSent DEF ChatInv
    <3> QED
      BY <3>1 DEF ChatInv, SentInv
  <2>3. d = c /\ l = k0
    BY <1>2, <1>7, <2>1, <2>2
  <2> QED
    BY <1>5, <1>7, <2>3 DEF ChatGot
<1> QED
  BY <1>6, <1>7

LEMMA OrderInit == LanInit => OrderInv
<1> SUFFICES ASSUME LanInit
             PROVE  OrderInv
  OBVIOUS
<1>1. \A q \in Node, c \in Conn : Len(sent[q][c]) = 0
  BY DEF LanInit, Init
<1>2. \A q \in Node : Received(q) = {} /\ \A j : ~OwnRow(q, j)
  BY DEF LanInit, Received, OwnRow
<1>3. SentAscend
  BY <1>1 DEF SentAscend, ChatSent
<1> QED
  BY <1>2, <1>3 DEF OrderInv, OwnAscend, ReadAscend, SessionsCarryAll

\* A step that writes no chat, emits none and records none.
LEMMA OrderKept ==
  ASSUME RouterInv, RouterInv', BookInv, OrderInv, [Next]_vars, UNCHANGED <<sent, got, sends, table>>
  PROVE  OrderInv'
<1>1. SentAscend'
  <2>1. \A n \in Node, c \in Conn : \A k, num : ChatSent(n, c, k, num)' => ChatSent(n, c, k, num)
    BY DEF ChatSent
  <2> QED
    BY <2>1 DEF OrderInv, SentAscend
<1>2. OwnAscend'
  BY DEF OrderInv, OwnAscend, OwnRow
<1>3. ReadAscend'
  <2>1. ASSUME NEW q \in Node, NEW c \in Conn, NEW i, NEW k, NEW j, NEW l,
               ReadBefore(q, c, i, k, j, l)'
        PROVE  ReadBefore(q, c, i, k, j, l)
    BY <2>1 DEF ReadBefore, ChatGot
  <2>2. \A q \in Node : Received(q)' = Received(q)
    BY DEF Received
  <2> QED
    BY <2>1, <2>2 DEF OrderInv, ReadAscend
<1>4. SessionsCarryAll'
  <2>1. ChatsStay
    BY DEF ChatsStay, ChatSent
  <2>2. \A n \in Node : \A j : OwnRow(n, j)' => OwnRow(n, j) /\ table'[n][j] = table[n][j]
    BY DEF OwnRow
  <2> QED
    BY <2>1, <2>2, SessionsKept DEF OrderInv, SessionsCarryAll
<1> QED
  BY <1>1, <1>2, <1>3, <1>4 DEF OrderInv

\* A user writes.
LEMMA WriteKeepsOrder ==
  ASSUME RouterInv, RouterInv', ChatInv, BookInv, OrderInv, [Next]_vars,
         NEW n \in Node, NEW p \in Node,
         NEW type \in {"chat", "share_request"}, NEW goal \in holders(n, p),
         sendPayload(n, p, goal, type),
         IF type = "chat" THEN recordChatHistory(n, p, TRUE, sends[n]) ELSE UNCHANGED table
  PROVE  OrderInv'
<1> DEFINE m == [type |-> type, id |-> n, num |-> sends[n]]
<1>1. /\ goal \in Node \cup {NoNode} /\ goal # n
      /\ peerSessions[n] \in [Node -> Conn \cup {NoConn}]
      /\ sends \in [Node -> 0..MaxSends] /\ m \in Message
      /\ sends' = [sends EXCEPT ![n] = @ + 1] /\ got' = got
  BY DEF sendPayload, holders, RouterInv, TypeInv, TypeOK, Message, MsgType
<1>2. sendTo(n, p, goal, peerSessions[n], socketToPeer[n], m)
  BY DEF sendPayload
<1>3. \/ type = "chat" /\ n \notin Passing
      \/ ~(type = "chat" /\ n \notin Passing) /\ table' = table
  BY DEF recordChatHistory
<1> HIDE DEF m
<1>4. PICK e \in Conn : Written(n, e, m) /\ peerSessions'[n][p] = e
  BY <1>1, <1>2, SendToWrites DEF RouterInv
<1>5. PICK m0 \in Message : m0 = m
  BY <1>1
<1>6. PICK num0 \in 0..MaxSends : num0 = sends[n]
  BY <1>1
<1>7. m0.num = num0 /\ m0.type = type
  BY <1>5, <1>6 DEF m
<1>8. PICK k0 : k0 = Len(sent[n][e]) + 1
  OBVIOUS
<1>9. /\ ChatsStay
      /\ type = "chat" => ChatSent(n, e, k0, num0)'
  BY <1>4, <1>5, <1>7, <1>8, WrittenStays
<1>10. \A q \in Node, c \in Conn : \A k, num :
         ChatSent(q, c, k, num)' =>
           \/ ChatSent(q, c, k, num)
           \/ q = n /\ c = e /\ k = k0 /\ num = num0
  BY <1>4, <1>5, <1>7, <1>8, WrittenAdds
<1>11. SentAscend'
  <2>1. \A k, num : ChatSent(n, e, k, num) => k < k0 /\ ~(k0 < k) /\ num < num0
    <3>1. Len(sent[n][e]) \in Nat
      BY DEF RouterInv, TypeInv, TypeOK
    <3> QED
      BY <1>6, <1>8, <3>1 DEF ChatInv, SentInv, ChatSent
  <2>2. ~(k0 < k0)
    <3>1. Len(sent[n][e]) \in Nat
      BY DEF RouterInv, TypeInv, TypeOK
    <3> QED
      BY <1>8, <3>1
  <2> SUFFICES ASSUME NEW q \in Node, NEW c \in Conn, NEW k, NEW l, NEW num, NEW v,
                      ChatSent(q, c, k, num)', ChatSent(q, c, l, v)', k < l
               PROVE  num < v
    BY DEF SentAscend
  <2>3. CASE ChatSent(q, c, k, num) /\ ChatSent(q, c, l, v)
    BY <2>3 DEF OrderInv, SentAscend
  <2>4. CASE ChatSent(q, c, k, num) /\ q = n /\ c = e /\ l = k0 /\ v = num0
    BY <2>1, <2>4
  <2>5. CASE q = n /\ c = e /\ k = k0
    BY <1>10, <2>1, <2>2, <2>5
  <2> QED
    BY <1>10, <2>3, <2>4, <2>5
<1>12. CASE type = "chat" /\ n \notin Passing
  <2>1. recordChatHistory(n, p, TRUE, num0)
    BY <1>6, <1>12
  <2>2. PICK i : i = Len(table[n]) + 1
    OBVIOUS
  <2>3. /\ TableGrows
        /\ \A q \in Node : q # n => table'[q] = table[q]
        /\ \A j \in 1..Len(table'[n]) : j \in 1..Len(table[n]) \/ j = i
        /\ i \in 1..Len(table'[n]) /\ i \notin 1..Len(table[n])
        /\ \A j \in 1..Len(table[n]) : j < i
        /\ table'[n][i] = [peer |-> p, own |-> TRUE, num |-> num0]
    <3>1. /\ TableGrows /\ Len(table[n]) \in Nat
          /\ \A q \in Node : q # n => table'[q] = table[q]
          /\ \A j \in 1..Len(table'[n]) : j \in 1..Len(table[n]) \/ j = Len(table[n]) + 1
          /\ Len(table[n]) + 1 \in 1..Len(table'[n])
          /\ table'[n][Len(table[n]) + 1] = [peer |-> p, own |-> TRUE, num |-> num0]
      BY <1>12, <2>1, RowAdded
    <3> QED
      BY <2>2, <3>1
  <2>4. \A q \in Node : \A j : OwnRow(q, j)' => \/ OwnRow(q, j) /\ table'[q][j] = table[q][j]
                                                \/ q = n /\ j = i
    BY <2>3 DEF OwnRow, TableGrows
  <2>5. ASSUME NEW q \in Node, NEW j \in Received(q)'
        PROVE  j \in Received(q) /\ table'[q][j] = table[q][j]
    <3>1. j \in 1..Len(table'[q]) /\ ~table'[q][j].own
      BY DEF Received
    <3>2. ~(q = n /\ j = i)
      BY <2>3, <3>1
    <3>3. j \in 1..Len(table[q])
      BY <2>3, <3>1, <3>2
    <3> QED
      BY <2>3, <3>1, <3>3 DEF Received, TableGrows
  <2>6. OwnAscend'
    <3>1. num0 \in Nat /\ sends'[n] = num0 + 1 /\ \A q \in Node : q # n => sends'[q] = sends[q]
      BY <1>1, <1>6
    <3>2. table'[n][i].num = num0
      BY <2>3
    <3>3. /\ OwnAscend /\ i \notin 1..Len(table[n])
          /\ \A j \in 1..Len(table[n]) : j < i
      BY <2>3 DEF OrderInv
    <3> QED
      BY <1>6, <2>4, <3>1, <3>2, <3>3, OwnAdded
  <2>7. ReadAscend'
    <3>1. \A q \in Node : GotKept(q)
      BY <1>1 DEF GotKept, ChatGot
    <3> QED
      BY <2>5, <3>1, ReadKept DEF OrderInv
  <2>8. SessionsCarryAll'
    <3> SUFFICES ASSUME NEW q \in Node, Lossless(q)', NEW j, OwnRow(q, j)'
                 PROVE  OnSession(q, j)'
      BY DEF SessionsCarryAll
    <3>1. CASE OwnRow(q, j) /\ table'[q][j] = table[q][j]
      BY <1>9, <3>1, SessionsKept DEF OrderInv
    <3>2. CASE q = n /\ j = i
      <4>1. table'[q][j].peer = p /\ table'[q][j].num = num0
        BY <2>3, <3>2
      <4>2. ChatSent(n, e, k0, num0)'
        BY <1>9, <1>12
      <4> QED
        BY <1>4, <3>2, <4>1, <4>2 DEF OnSession, ChatSent
    <3> QED
      BY <2>4, <3>1, <3>2
  <2> QED
    BY <1>11, <2>6, <2>7, <2>8 DEF OrderInv
<1>13. CASE ~(type = "chat" /\ n \notin Passing)
  <2>1. table' = table
    BY <1>3, <1>13
  <2>2. \A q \in Node : \A j : OwnRow(q, j)' => OwnRow(q, j) /\ table'[q][j] = table[q][j]
    BY <2>1 DEF OwnRow
  <2>3. \A q \in Node : \A j \in Received(q)' : j \in Received(q) /\ table'[q][j] = table[q][j]
    BY <2>1 DEF Received
  <2>4. OwnAscend'
    <3>1. \A q \in Node : sends[q] \in Nat /\ sends'[q] \in Nat /\ sends[q] <= sends'[q]
      BY <1>1
    <3> QED
      BY <2>2, <3>1, OwnKept DEF OrderInv
  <2>5. ReadAscend'
    <3>1. \A q \in Node : GotKept(q)
      BY <1>1 DEF GotKept, ChatGot
    <3> QED
      BY <2>3, <3>1, ReadKept DEF OrderInv
  <2>6. SessionsCarryAll'
    BY <1>9, <2>2, SessionsKept DEF OrderInv, SessionsCarryAll
  <2> QED
    BY <1>11, <2>4, <2>5, <2>6 DEF OrderInv
<1> QED
  BY <1>12, <1>13

\* readSocket emits a line.
LEMMA ReadKeepsOrder ==
  ASSUME RouterInv, RouterInv', ChatInv, ChatInv', BookInv, OrderInv, [Next]_vars,
         NEW n \in Node, handleRouterMessage(n)
  PROVE  OrderInv'
<1>1. readLine(n) /\ sends' = sends
  BY DEF handleRouterMessage, readLine
<1>2. PICK c \in Conn :
        LET w == OtherEnd(n, c)
            k == Len(got[n][c]) + 1
            x == sent[w][c][k]
        IN  /\ c = busy[n]
            /\ sock[n][c] = "connected" /\ w \in Node
            /\ k <= Len(sent[w][c]) /\ x \in Message
            /\ got' = [got EXCEPT ![n][c] = Append(@, x)]
            /\ IF x.type = "share_request"
               THEN \E e \in Conn : Written(n, e,
                      [type |-> "share_catalog", id |-> n, num |-> x.num])
               ELSE UNCHANGED <<dial, sock, out, sent>>
  BY <1>1, ReadLineEffect DEF RouterInv
<1>3. PICK w \in Node : w = OtherEnd(n, c)
  BY <1>2
<1>4. PICK k0 : k0 = Len(got[n][c]) + 1
  OBVIOUS
<1>5. PICK x \in Message : x = sent[w][c][k0]
  BY <1>2, <1>3, <1>4
<1>6. /\ c = busy[n] /\ k0 <= Len(sent[w][c])
      /\ got' = [got EXCEPT ![n][c] = Append(@, x)]
      /\ IF x.type = "share_request"
         THEN \E e \in Conn : Written(n, e, [type |-> "share_catalog", id |-> n, num |-> x.num])
         ELSE UNCHANGED <<dial, sock, out, sent>>
  BY <1>2, <1>3, <1>4, <1>5
<1>7. /\ Len(got[n][c]) \in Nat /\ Len(got'[n][c]) = k0 /\ got'[n][c][k0] = x
      /\ \A q \in Node, d \in Conn : \A k, r, num :
           ChatGot(q, d, k, r, num)' =>
             \/ ChatGot(q, d, k, r, num)
             \/ q = n /\ d = c /\ k = k0 /\ x.type = "chat" /\ r = x.id /\ num = x.num
  <2>1. TypeInv
    BY DEF RouterInv
  <2>2. Emitted(n, c, x)
    BY <1>6 DEF Emitted
  <2>3. /\ Len(got[n][c]) \in Nat /\ Len(got'[n][c]) = Len(got[n][c]) + 1
        /\ got'[n][c][Len(got[n][c]) + 1] = x
        /\ OnlyLast(n, c, x)
    BY <2>1, <2>2, EmittedIsLast
  <2> QED
    BY <1>4, <2>3 DEF OnlyLast
<1>8. /\ ChatsStay
      /\ \A q \in Node, d \in Conn : \A k, num : ChatSent(q, d, k, num)' => ChatSent(q, d, k, num)
  <2>1. CASE x.type = "share_request"
    <3> DEFINE m == [type |-> "share_catalog", id |-> n, num |-> x.num]
    <3>1. m \in Message /\ m.type = "share_catalog"
      BY DEF Message, MsgType
    <3> HIDE DEF m
    <3>2. PICK e \in Conn : Written(n, e, m)
      BY <1>6, <2>1 DEF m
    <3>3. PICK m0 \in Message : m0 = m
      BY <3>1
    <3>4. \A q \in Node, d \in Conn : \A k, num :
            ChatSent(q, d, k, num)' =>
              \/ ChatSent(q, d, k, num) /\ dial'[d] = dial[d]
              \/ /\ q = n /\ d = e /\ k = Len(sent[n][e]) + 1
                 /\ m0.type = "chat" /\ num = m0.num
      BY <3>2, <3>3, WrittenAdds
    <3>5. ChatsStay
      BY <3>2, <3>3, WrittenStays
    <3> QED
      BY <3>1, <3>3, <3>4, <3>5
  <2>2. CASE x.type # "share_request"
    <3>1. UNCHANGED sent
      BY <1>6, <2>2
    <3> QED
      BY <3>1 DEF ChatSent, ChatsStay
  <2> QED
    BY <2>1, <2>2
<1>9. SentAscend'
  BY <1>8 DEF OrderInv, SentAscend
<1>10. \A q \in Node : sends[q] \in Nat /\ sends'[q] \in Nat /\ sends[q] <= sends'[q]
  <2>1. \A q \in Node : sends[q] \in Nat
    BY DEF RouterInv, TypeInv, TypeOK
  <2> QED
    BY <1>1, <2>1
<1>11. IF x.type = "chat" THEN recordChatHistory(n, x.id, FALSE, x.num) ELSE UNCHANGED table
  <2> DEFINE after == got'[n][busy[n]]
  <2>1. Len(after) > Len(got[n][busy[n]]) /\ after[Len(after)] = x
    BY <1>4, <1>6, <1>7
  <2> QED
    BY <2>1 DEF handleRouterMessage, author
<1>12. CASE ~(x.type = "chat" /\ n \notin Passing)
  <2>1. table' = table
    BY <1>11, <1>12 DEF recordChatHistory
  <2>2. \A q \in Node : \A j : OwnRow(q, j)' => OwnRow(q, j) /\ table'[q][j] = table[q][j]
    BY <2>1 DEF OwnRow
  <2>3. \A q \in Node : \A j \in Received(q)' : j \in Received(q) /\ table'[q][j] = table[q][j]
    BY <2>1 DEF Received
  <2>4. OwnAscend'
    BY <1>10, <2>2, OwnKept DEF OrderInv
  <2>5. ReadAscend'
    <3>1. ASSUME NEW q \in Node
          PROVE  Received(q)' = {} \/ GotKept(q)
      <4>1. CASE q = n /\ n \in Passing
        <5>1. table'[q] = <<>>
          BY <2>1, <4>1 DEF BookInv, NoRows
        <5> QED
          BY <5>1 DEF Received
      <4>2. CASE q # n \/ x.type # "chat"
        BY <1>7, <4>2 DEF GotKept
      <4> QED
        BY <1>12, <4>1, <4>2
    <3> QED
      BY <2>3, <3>1, ReadKept DEF OrderInv
  <2>6. SessionsCarryAll'
    BY <1>8, <2>2, SessionsKept DEF OrderInv, SessionsCarryAll
  <2> QED
    BY <1>9, <2>4, <2>5, <2>6 DEF OrderInv
<1>13. CASE x.type = "chat" /\ n \notin Passing
  <2>1. x.id \in Node /\ x.num \in 0..MaxSends /\ recordChatHistory(n, x.id, FALSE, x.num)
    BY <1>11, <1>13 DEF Message
  <2>2. PICK r \in Node, num \in 0..MaxSends : r = x.id /\ num = x.num
    BY <2>1
  <2>3. recordChatHistory(n, r, FALSE, num)
    BY <2>1, <2>2
  <2>4. PICK i0 : i0 = Len(table[n]) + 1
    OBVIOUS
  <2>5. /\ TableGrows
        /\ \A q \in Node : q # n => table'[q] = table[q]
        /\ \A i \in 1..Len(table'[n]) : i \in 1..Len(table[n]) \/ i = i0
        /\ i0 \in 1..Len(table'[n]) /\ ~(i0 < i0)
        /\ \A i \in 1..Len(table[n]) : i < i0 /\ ~(i0 < i)
        /\ table'[n][i0] = [peer |-> r, own |-> FALSE, num |-> num]
    <3>1. /\ TableGrows /\ Len(table[n]) \in Nat
          /\ \A q \in Node : q # n => table'[q] = table[q]
          /\ \A j \in 1..Len(table'[n]) : j \in 1..Len(table[n]) \/ j = Len(table[n]) + 1
          /\ Len(table[n]) + 1 \in 1..Len(table'[n])
          /\ table'[n][Len(table[n]) + 1] = [peer |-> r, own |-> FALSE, num |-> num]
      BY <1>13, <2>3, RowAdded
    <3> QED
      BY <2>4, <3>1
  <2>6. \A q \in Node : \A j : OwnRow(q, j)' => OwnRow(q, j) /\ table'[q][j] = table[q][j]
    BY <2>5 DEF OwnRow, TableGrows
  <2>7. OwnAscend'
    BY <1>10, <2>6, OwnKept DEF OrderInv
  <2>8. ReadAscend'
    <3>1. ReceivedOnce' /\ ReadAscend
      BY DEF ChatInv, OrderInv
    <3>2. i0 \in Received(n)' /\ table'[n][i0].peer = r /\ table'[n][i0].num = num
      BY <2>5 DEF Received
    <3>3. NotBefore(n, i0)
      BY <2>5 DEF Received, NotBefore
    <3>4. OnlyRow(n, i0) /\ OnlyGot(n, c, k0, r, num)
      <4>1. OnlyRow(n, i0)
        BY <2>5 DEF Received, TableGrows, OnlyRow
      <4>2. \A k \in 1..Len(got[n][c]) : k < k0
        BY <1>4, <1>7
      <4> QED
        BY <1>7, <2>2, <4>1, <4>2 DEF OnlyGot
    <3>5. ChatSent(r, c, k0, num)
      <4>1. x.id = w /\ k0 \in 1..Len(sent[w][c])
        <5>1. sent[w][c] \in Seq(Message)
          BY DEF RouterInv, TypeInv, TypeOK
        <5>2. k0 \in 1..Len(sent[w][c])
          BY <1>4, <1>6, <1>7, <5>1, LenProperties
        <5> QED
          BY <1>5, <5>2 DEF RouterInv, OriginInv, WriterOK
      <4> QED
        BY <1>5, <1>13, <2>2, <4>1 DEF ChatSent
    <3> QED
      BY <3>1, <3>2, <3>3, <3>4, <3>5, ReadAdded
  <2>9. SessionsCarryAll'
    BY <1>8, <2>6, SessionsKept DEF OrderInv, SessionsCarryAll
  <2> QED
    BY <1>9, <2>7, <2>8, <2>9 DEF OrderInv
<1> QED
  BY <1>12, <1>13

LEMMA OrderNext ==
  RouterInv /\ RouterInv' /\ ChatInv /\ ChatInv' /\ BookInv /\ OrderInv /\ [LanNext]_lanVars
    => OrderInv'
<1> SUFFICES ASSUME RouterInv, RouterInv', ChatInv, ChatInv', BookInv, OrderInv, [LanNext]_lanVars
             PROVE  OrderInv'
  OBVIOUS
<1>1. [Next]_vars
  BY LanStepIsRouterStep
<1>2. ASSUME UNCHANGED <<sent, got, sends, table>>
      PROVE  OrderInv'
  BY <1>1, <1>2, OrderKept
<1>3. CASE UNCHANGED lanVars
  BY <1>2, <1>3 DEF lanVars, vars
<1>4. CASE network
  BY <1>2, <1>4 DEF network, connectSucceeds, connectFails, handleNewConnection, readSocket,
                    disconnected
<1>5. ASSUME NEW n \in Node, initialize(n) \/ shutDown(n) \/ move(n)
      PROVE  OrderInv'
  BY <1>2, <1>5 DEF initialize, startListening, shutDown, stop, move, vars
<1>6. ASSUME NEW n \in Node, NEW p \in Node, processPacket(n, p)
      PROVE  OrderInv'
  BY <1>2, <1>6 DEF processPacket, vars
<1>7. ASSUME NEW n \in Node, NEW p \in Node,
             sendMessageToPeer(n, p) \/ requestPeerShareList(n, p)
      PROVE  OrderInv'
  <2>1. CASE sendMessageToPeer(n, p)
    <3>1. PICK goal \in holders(n, p) : sendPayload(n, p, goal, "chat")
      BY <2>1 DEF sendMessageToPeer
    <3>2. recordChatHistory(n, p, TRUE, sends[n])
      BY <2>1 DEF sendMessageToPeer
    <3> QED
      BY <1>1, <3>1, <3>2, WriteKeepsOrder
  <2>2. CASE requestPeerShareList(n, p)
    <3>1. PICK goal \in holders(n, p) : sendPayload(n, p, goal, "share_request")
      BY <2>2 DEF requestPeerShareList
    <3>2. UNCHANGED table
      BY <2>2 DEF requestPeerShareList
    <3> QED
      BY <1>1, <3>1, <3>2, WriteKeepsOrder
  <2> QED
    BY <1>7, <2>1, <2>2
<1>8. ASSUME NEW n \in Node, handleRouterMessage(n)
      PROVE  OrderInv'
  BY <1>1, <1>8, ReadKeepsOrder
<1> QED
  BY <1>3, <1>4, <1>5, <1>6, <1>7, <1>8 DEF LanNext

\* ensureSession: a chat overtakes an earlier one to the same peer only when the writer
\* had to give up a socket, for any number of peers, dials, moves and messages.
THEOREM ChatsKeepTheirOrder == LanSpec => []OvertakenAfterLoss
<1> DEFINE AllInv == RouterInv /\ BookInv /\ ChatInv /\ OrderInv
<1>1. LanInit => AllInv
  BY LanInductive, OrderInit
<1>2. AllInv /\ [LanNext]_lanVars => AllInv'
  BY LanInductive, OrderNext
<1>3. AllInv => OvertakenAfterLoss
  BY OrderedChats
<1> QED
  BY <1>1, <1>2, <1>3, PTL DEF LanSpec
=============================================================================
