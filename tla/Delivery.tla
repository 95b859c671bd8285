----------------------------- MODULE Delivery -----------------------------
(***************************************************************************)
(* What MessageRouter promises to the rest of the program, without bytes,   *)
(* lines, tables or the states of a QTcpSocket: messages written on an end  *)
(* of a connection are emitted at its other end one by one, in the order    *)
(* they were written, while that end lasts; a request for the shared list   *)
(* is answered in the same breath; an end that is lost stays lost.          *)
(***************************************************************************)
EXTENDS Integers, Sequences

CONSTANTS Node, Conn, NoNode,
          Message   \* what the controllers hand over

VARIABLES link,     \* who opened a connection, and to whom
          end,      \* an end is new, open or lost
          written, emitted

vars == <<link, end, written, emitted>>

EndState == {"new", "open", "lost"}

Init ==
  /\ link = [c \in Conn |-> [from |-> NoNode, to |-> NoNode]]
  /\ end = [n \in Node |-> [c \in Conn |-> "new"]]
  /\ written = [n \in Node |-> [c \in Conn |-> <<>>]]
  /\ emitted = [n \in Node |-> [c \in Conn |-> <<>>]]

Other(n, c) == IF link[c].from = n THEN link[c].to ELSE link[c].from

\* n writes m on an end it has, or opens a connection for it.
Write(n, c, m) ==
  /\ written' = [written EXCEPT ![n][c] = Append(@, m)]
  /\ \/ end[n][c] = "open" /\ UNCHANGED <<link, end>>
     \/ /\ link[c].from = NoNode
        /\ \E q \in (Node \cup {NoNode}) \ {n} : link' = [link EXCEPT ![c] = [from |-> n, to |-> q]]
        /\ end' = [end EXCEPT ![n][c] = "open"]

Send(n, c) ==
  /\ \E m \in Message : m.type # "share_catalog" /\ m.id = n /\ Write(n, c, m)
  /\ UNCHANGED emitted

\* The next message of the other end, and the catalogue if it asks for one.
Emit(n, c) ==
  LET sent == written[Other(n, c)][c]
      m    == sent[Len(emitted[n][c]) + 1]
  IN  /\ end[n][c] = "open"
      /\ Other(n, c) \in Node
      /\ Len(emitted[n][c]) < Len(sent)
      /\ emitted' = [emitted EXCEPT ![n][c] = Append(@, m)]
      /\ IF m.type = "share_request"
         THEN \E d \in Conn : Write(n, d, [type |-> "share_catalog", id |-> n, num |-> m.num])
         ELSE UNCHANGED <<link, end, written>>

\* The far end comes into being.
Open(n, c) ==
  /\ link[c].to = n /\ end[n][c] = "new"
  /\ end[link[c].from][c] = "open"
  /\ end' = [end EXCEPT ![n][c] = "open"]
  /\ UNCHANGED <<link, written, emitted>>

\* One end, or all of a process.
Lose(n) ==
  /\ \E lost \in SUBSET {c \in Conn : end[n][c] = "open"} :
       end' = [end EXCEPT ![n] = [c \in Conn |-> IF c \in lost THEN "lost" ELSE @[c]]]
  /\ UNCHANGED <<link, written, emitted>>

Next == \E n \in Node : \/ Lose(n)
                        \/ \E c \in Conn : Send(n, c) \/ Emit(n, c) \/ Open(n, c)

Spec == Init /\ [][Next]_vars
=============================================================================
