------------------------ MODULE Conversation_proofs ------------------------
(***************************************************************************)
(* Proofs about Conversation, for any number of peers, names, files and     *)
(* messages and any limits of the queries.                                  *)
(*                                                                          *)
(* FilesInv says that the folder has finitely many files.  So a suffix that *)
(* no file of the name has exists among one more numbers than there are     *)
(* files (FreeSuffix), saveIncomingFile returns a path nothing stands at    *)
(* (SavedIsNew), and the file of an earlier row is left alone.              *)
(*                                                                          *)
(* Inv adds the types and ViewInv, which keeps every stamp at or before the *)
(* clock.  Steps divides the next-state relation by what a step does to the *)
(* rows and the panel: it starts or ends the process, writes one row and    *)
(* one entry (Writes), chooses a conversation, or leaves both alone.  Each  *)
(* of the last four theorems is inductive with Inv, one case of Steps at a  *)
(* time; what the queries return comes from InOrder and SelectAppend.  For  *)
(* the open conversation the inductive statement is PanelRows, in which the *)
(* query itself stands; QueryFinds says what it finds without the query.    *)
(***************************************************************************)
EXTENDS Conversation, Order_proofs

FilesInv ==
  /\ table \in Seq(Row)
  /\ IsFiniteSet(DOMAIN downloads)
  /\ clock \in Nat
  /\ current \in Peer \cup {NoPeer}

\* The least of a set of numbers that is not empty.
LEMMA LeastNumber ==
  ASSUME NEW S, S \subseteq Nat, S # {}
  PROVE  Min(S) \in S
BY LeastOf DEF Min

\* Among one more suffixes than there are files, one is free.
LEMMA FreeSuffix ==
  ASSUME NEW F, IsFiniteSet(F), NEW name \in Seq(Nat)
  PROVE  \E k \in 1..Cardinality(F) + 1 : Append(name, k) \notin F
<1> SUFFICES ASSUME \A k \in 1..Cardinality(F) + 1 : Append(name, k) \in F
             PROVE  FALSE
  OBVIOUS
<1> DEFINE S == 1..Cardinality(F) + 1
           f == [k \in S |-> Append(name, k)]
<1>1. Cardinality(F) \in Nat
  BY FS_CardinalityType
<1>2. IsFiniteSet(S) /\ Cardinality(S) = Cardinality(F) + 1
  <2>1. PICK c \in Nat : c = Cardinality(F)
    BY <1>1
  <2>2. c + 1 \in Int /\ 1 \in Int /\ ~(1 > c + 1) /\ (c + 1) - 1 + 1 = c + 1
    OBVIOUS
  <2>3. IsFiniteSet(1..c + 1) /\ Cardinality(1..c + 1) = c + 1
    BY <2>2, FS_Interval
  <2> QED
    BY <2>1, <2>3
<1>3. f \in [S -> F]
  OBVIOUS
<1>4. Cardinality(F) < Cardinality(S)
  BY <1>1, <1>2
<1>5. PICK x, y \in S : x # y /\ f[x] = f[y]
  <2> HIDE DEF S, f
  <2> QED
    BY <1>2, <1>3, <1>4, FS_PigeonHole
<1>6. Append(name, x) = Append(name, y) /\ x \in Nat /\ y \in Nat
  BY <1>1, <1>5
<1>7. Append(name, x)[Len(name) + 1] = x /\ Append(name, y)[Len(name) + 1] = y
  BY <1>6
<1> QED
  BY <1>5, <1>6, <1>7

LEMMA SavedIsNew ==
  ASSUME FilesInv, NEW name \in FileName
  PROVE  /\ saveIncomingFile(name) \notin DOMAIN downloads
         /\ saveIncomingFile(name) \in Seq(Nat)
<1> DEFINE free == {k \in 1..Cardinality(DOMAIN downloads) + 1 :
                      Append(name, k) \notin DOMAIN downloads}
<1>1. name \in Seq(Nat)
  BY NameAssumption
<1>2. CASE name \notin DOMAIN downloads
  BY <1>1, <1>2 DEF saveIncomingFile
<1>3. CASE name \in DOMAIN downloads
  <2>1. IsFiniteSet(DOMAIN downloads) /\ Cardinality(DOMAIN downloads) \in Nat
    BY FS_CardinalityType DEF FilesInv
  <2>2. free \subseteq Nat /\ free # {}
    BY <1>1, <2>1, FreeSuffix
  <2>3. saveIncomingFile(name) = Append(name, Min(free))
    BY <1>3 DEF saveIncomingFile
  <2>4. Min(free) \in free
    <3> HIDE DEF free
    <3> QED
      BY <2>2, LeastNumber
  <2>5. Min(free) \in Nat /\ Append(name, Min(free)) \notin DOMAIN downloads
    BY <2>2, <2>4
  <2> HIDE DEF free
  <2> QED
    BY <1>1, <2>3, <2>5
<1> QED
  BY <1>2, <1>3

(***************************************************************************)
(* The steps.                                                               *)
(***************************************************************************)
\* The table t after recordChatHistory.
LEMMA RecordType ==
  ASSUME FilesInv, NEW p \in Peer, NEW kind \in {"chat", "file"}, NEW out \in BOOLEAN,
         NEW path \in Seq(Nat), table' = recordChatHistory(p, kind, out, path)
  PROVE  /\ table' \in Seq(Row) /\ Len(table') \in {Len(table), Len(table) + 1}
         /\ ~storageReady => table' = table
         /\ storageReady => Len(table') = Len(table) + 1
         /\ storageReady => table'[Len(table) + 1].kind = kind
         /\ storageReady => table'[Len(table) + 1].out = out
         /\ storageReady => table'[Len(table) + 1].path = path
         /\ \A i \in 1..Len(table) : table'[i] = table[i]
<1> DEFINE row == [peer |-> p, kind |-> kind, out |-> out, at |-> clock, path |-> path]
<1>1. row \in Row
  BY DEF FilesInv, Row
<1>2. table \in Seq(Row) /\ Len(table) \in Nat
  BY DEF FilesInv
<1>3. row.kind = kind /\ row.out = out /\ row.path = path
  OBVIOUS
<1>4. table' = IF storageReady THEN Append(table, row) ELSE table
  BY DEF recordChatHistory
<1> HIDE DEF row
<1>5. /\ Append(table, row) \in Seq(Row) /\ Len(Append(table, row)) = Len(table) + 1
      /\ \A i \in 1..Len(table) : Append(table, row)[i] = table[i]
      /\ Append(table, row)[Len(table) + 1] = row
  BY <1>1, <1>2
<1> QED
  BY <1>2, <1>3, <1>4, <1>5

LEMMA SendStep ==
  ASSUME FilesInv, NEW p \in Peer, NEW kind \in {"chat", "file"}, sendToPeer(p, kind)
  PROVE  /\ table' \in Seq(Row)
         /\ \A i \in DOMAIN table' : i \notin DOMAIN table => table'[i].out
         /\ \A i \in DOMAIN table : i \in DOMAIN table' /\ table'[i] = table[i]
<1>1. table \in Seq(Row) /\ Len(table) \in Nat /\ <<>> \in Seq(Nat)
  BY DEF FilesInv
<1>2. CASE p \in contacts
  <2>1. PICK o \in BOOLEAN, path \in Seq(Nat) : o = TRUE /\ path = <<>>
    BY <1>1
  <2>2. table' = recordChatHistory(p, kind, o, path)
    BY <1>2, <2>1 DEF sendToPeer
  <2>3. /\ table' \in Seq(Row) /\ Len(table') \in {Len(table), Len(table) + 1}
        /\ ~storageReady => table' = table
        /\ storageReady => table'[Len(table) + 1].out = o
        /\ \A i \in 1..Len(table) : table'[i] = table[i]
    BY <2>2, RecordType
  <2>4. storageReady => table'[Len(table) + 1].out
    BY <2>1, <2>3
  <2>5. DOMAIN table' = 1..Len(table') /\ DOMAIN table = 1..Len(table)
    BY <1>1, <2>3
  <2>6. \A i \in 1..Len(table') : i \notin 1..Len(table) => storageReady /\ i = Len(table) + 1
    BY <1>1, <2>3
  <2>7. \A i \in 1..Len(table) : i \in 1..Len(table')
    BY <1>1, <2>3
  <2>8. \A i \in 1..Len(table') : i \notin 1..Len(table) => table'[i].out
    BY <2>4, <2>6
  <2> QED
    BY <2>3, <2>5, <2>7, <2>8
<1>3. CASE p \notin contacts
  BY <1>1, <1>3 DEF sendToPeer
<1> QED
  BY <1>2, <1>3

\* What holds of the row i in one step.
Kept(i) ==
  LET q == table'[i].path
      isFile == table'[i].kind = "file" /\ ~table'[i].out
      held   == i > Len(table) \/ (q \in DOMAIN downloads /\ downloads[q] = i)
  IN  (isFile /\ held /\ q \in DOMAIN downloads') => downloads'[q] = i

\* Steps that write no row and take no file away.
LEMMA StillStep ==
  ASSUME FilesInv, UNCHANGED <<table, downloads>>
  PROVE  \A i \in DOMAIN table' : Kept(i)
<1>1. \A i \in DOMAIN table : i \in Nat /\ ~(i > Len(table))
  BY DEF FilesInv
<1> QED
  BY <1>1 DEF Kept

LEMMA SentStep ==
  ASSUME FilesInv, NEW p \in Peer, NEW kind \in {"chat", "file"}, sendToPeer(p, kind),
         downloads' = downloads, clock' = clock, current' = current
  PROVE  FilesInv' /\ \A i \in DOMAIN table' : Kept(i)
<1>1. /\ table' \in Seq(Row)
      /\ \A i \in DOMAIN table' : i \notin DOMAIN table => table'[i].out
      /\ \A i \in DOMAIN table : i \in DOMAIN table' /\ table'[i] = table[i]
  BY SendStep
<1>2. \A i \in DOMAIN table' : i > Len(table) => i \notin DOMAIN table
  BY <1>1 DEF FilesInv
<1>3. \A i \in DOMAIN table' : Kept(i)
  BY <1>1, <1>2 DEF Kept
<1> QED
  BY <1>1, <1>3 DEF FilesInv

LEMMA ChatStep ==
  ASSUME FilesInv, NEW p \in Peer, chatReceived(p)
  PROVE  FilesInv' /\ \A i \in DOMAIN table' : Kept(i)
<1>1. table \in Seq(Row) /\ Len(table) \in Nat /\ <<>> \in Seq(Nat)
  BY DEF FilesInv
<1>2. PICK o \in BOOLEAN, path \in Seq(Nat), kind \in {"chat", "file"} :
        o = FALSE /\ path = <<>> /\ kind = "chat"
  BY <1>1
<1>3. /\ table' = recordChatHistory(p, kind, o, path)
      /\ downloads' = downloads /\ clock' = clock /\ current' = current
  BY <1>2 DEF chatReceived
<1>4. /\ table' \in Seq(Row) /\ Len(table') \in {Len(table), Len(table) + 1}
      /\ ~storageReady => table' = table
      /\ storageReady => table'[Len(table) + 1].kind = kind
      /\ \A i \in 1..Len(table) : table'[i] = table[i]
  BY <1>3, RecordType
<1>5. \A i \in 1..Len(table') : i > Len(table) => table'[i].kind = "chat"
  BY <1>1, <1>2, <1>4
<1>6. \A i \in 1..Len(table') : Kept(i)
  BY <1>1, <1>3, <1>4, <1>5 DEF Kept
<1>7. DOMAIN table' = 1..Len(table')
  BY <1>4
<1> QED
  BY <1>3, <1>4, <1>6, <1>7 DEF FilesInv

LEMMA FileStep ==
  ASSUME FilesInv, NEW p \in Peer, NEW name \in FileName, handleFileMessage(p, name)
  PROVE  FilesInv' /\ \A i \in DOMAIN table' : Kept(i)
<1>1. table \in Seq(Row) /\ Len(table) \in Nat
  BY DEF FilesInv
<1>2. PICK path \in Seq(Nat) : path = saveIncomingFile(name) /\ path \notin DOMAIN downloads
  BY SavedIsNew
<1>3. PICK o \in BOOLEAN, kind \in {"chat", "file"} : o = FALSE /\ kind = "file"
  OBVIOUS
<1>4. /\ table' = recordChatHistory(p, kind, o, path)
      /\ downloads' = [q \in DOMAIN downloads \cup {path} |->
                         IF q # path THEN downloads[q]
                         ELSE IF storageReady THEN Len(table') ELSE 0]
      /\ clock' = clock /\ current' = current
  BY <1>2, <1>3 DEF handleFileMessage
<1>5. /\ table' \in Seq(Row) /\ Len(table') \in {Len(table), Len(table) + 1}
      /\ ~storageReady => table' = table
      /\ storageReady => Len(table') = Len(table) + 1
      /\ storageReady => table'[Len(table) + 1].path = path
      /\ \A i \in 1..Len(table) : table'[i] = table[i]
  BY <1>4, RecordType
<1>6. /\ DOMAIN downloads' = DOMAIN downloads \cup {path}
      /\ storageReady => downloads'[path] = Len(table')
      /\ \A q \in DOMAIN downloads : q # path => downloads'[q] = downloads[q]
  BY <1>4
<1>7. IsFiniteSet(DOMAIN downloads')
  <2>1. IsFiniteSet(DOMAIN downloads)
    BY DEF FilesInv
  <2>2. IsFiniteSet(DOMAIN downloads \cup {path})
    BY <2>1, FS_AddElement
  <2> QED
    BY <1>6, <2>2
<1>8. ASSUME NEW i \in 1..Len(table') PROVE Kept(i)
  <2>1. CASE i > Len(table)
    <3>1. storageReady /\ i = Len(table) + 1
      BY <1>1, <1>5, <2>1
    <3>2. table'[i].path = path /\ downloads'[path] = i
      BY <1>5, <1>6, <3>1
    <3> QED
      BY <3>2 DEF Kept
  <2>2. CASE ~(i > Len(table))
    <3>1. table'[i] = table[i]
      BY <1>1, <1>5, <2>2
    <3> QED
      BY <1>2, <1>6, <2>2 DEF Kept
  <2> QED
    BY <2>1, <2>2
<1>9. DOMAIN table' = 1..Len(table')
  BY <1>5
<1> QED
  BY <1>4, <1>5, <1>7, <1>8, <1>9 DEF FilesInv

LEMMA RemoveStep ==
  ASSUME FilesInv, NEW path \in DOMAIN downloads, removeDownload(path)
  PROVE  FilesInv' /\ \A i \in DOMAIN table' : Kept(i)
<1>1. /\ table' = table /\ clock' = clock /\ current' = current
      /\ downloads' = [q \in DOMAIN downloads \ {path} |-> downloads[q]]
  BY DEF removeDownload, view
<1>2. /\ DOMAIN downloads' \subseteq DOMAIN downloads
      /\ \A q \in DOMAIN downloads' : downloads'[q] = downloads[q]
  BY <1>1
<1>3. IsFiniteSet(DOMAIN downloads')
  BY <1>2, FS_Subset DEF FilesInv
<1>4. \A i \in DOMAIN table : ~(i > Len(table))
  BY DEF FilesInv
<1>5. \A i \in DOMAIN table' : Kept(i)
  BY <1>1, <1>2, <1>4 DEF Kept
<1> QED
  BY <1>1, <1>3, <1>5 DEF FilesInv

LEMMA OtherStep ==
  ASSUME FilesInv,
         \/ start \/ stop \/ tick
         \/ \E t \in {"recent", "contacts", "groups"} : handleSidebarTabChanged(t)
         \/ \E p \in Peer : handlePeerSelection(p) \/ peerDiscovered(p)
  PROVE  FilesInv' /\ \A i \in DOMAIN table' : Kept(i)
<1>1. /\ UNCHANGED <<table, downloads>> /\ clock' \in Nat
      /\ current' \in Peer \cup {NoPeer}
  BY DEF FilesInv, start, stop, tick, handleSidebarTabChanged, handlePeerSelection,
         peerDiscovered, view, ghost
<1> QED
  BY <1>1, StillStep DEF FilesInv

LEMMA FilesNext ==
  ASSUME FilesInv, [Next]_vars
  PROVE  FilesInv' /\ \A i \in DOMAIN table' : Kept(i)
<1>1. CASE UNCHANGED vars
  <2>1. UNCHANGED <<table, downloads, clock, current>>
    BY <1>1 DEF vars, view
  <2> QED
    BY <2>1, StillStep DEF FilesInv
<1>2. CASE handleSend
  <2>1. /\ current \in Peer /\ sendToPeer(current, "chat")
        /\ downloads' = downloads /\ clock' = clock /\ current' = current
    BY <1>2 DEF handleSend, mayWrite, FilesInv
  <2>2. PICK p \in Peer : p = current
    BY <2>1
  <2> QED
    BY <2>1, <2>2, SentStep
<1>3. ASSUME NEW p \in Peer, sendFileToPeer(p)
      PROVE  FilesInv' /\ \A i \in DOMAIN table' : Kept(i)
  <2>1. /\ sendToPeer(p, "file")
        /\ downloads' = downloads /\ clock' = clock /\ current' = current
    BY <1>3 DEF sendFileToPeer, view
  <2> QED
    BY <2>1, SentStep
<1> QED
  BY <1>1, <1>2, <1>3, ChatStep, FileStep, RemoveStep, OtherStep DEF Next

\* saveIncomingFile and handleFileMessage: the path in the row of a received file leads
\* to that very file until somebody removes it, however many files of that name arrive
\* and in whatever order the folder is filled and tidied.
THEOREM FilesAreKept == Spec => FileRowsKeepTheirFile
<1>1. Init => FilesInv
  BY FS_EmptySet DEF Init, FilesInv
<1>2. FilesInv /\ [Next]_vars => FilesInv'
  BY FilesNext
<1>3. FilesInv /\ [Next]_vars => [\A i \in DOMAIN table' : Kept(i)]_vars
  BY FilesNext
<1> QED
  BY <1>1, <1>2, <1>3, PTL DEF Spec, FileRowsKeepTheirFile, Kept

(***************************************************************************)
(* The queries.                                                             *)
(***************************************************************************)
LEMMA Take ==
  ASSUME NEW S, NEW s \in Seq(S), NEW limit \in Nat
  PROVE  /\ take(s, limit) \in Seq(S)
         /\ Len(take(s, limit)) = IF Len(s) < limit THEN Len(s) ELSE limit
         /\ \A k \in 1..Len(take(s, limit)) : take(s, limit)[k] = s[k] /\ k \in 1..Len(s)
<1>1. PICK n \in Nat : n = (IF Len(s) < limit THEN Len(s) ELSE limit) /\ n <= Len(s)
  OBVIOUS
<1>2. \A i \in 1..n : s[i] \in S
  BY <1>1, ElementOfSeq
<1>3. /\ SubSeq(s, 1, n) \in Seq(S)
      /\ Len(SubSeq(s, 1, n)) = n
      /\ \A i \in 1..n : SubSeq(s, 1, n)[i] = s[i]
  <2>1. 1 \in Int /\ n \in Int /\ n - 1 + 1 = n /\ (1 <= n \/ n = 0)
    OBVIOUS
  <2>2. /\ SubSeq(s, 1, n) \in Seq(S)
        /\ Len(SubSeq(s, 1, n)) = IF 1 <= n THEN n - 1 + 1 ELSE 0
        /\ \A i \in 1..n - 1 + 1 : SubSeq(s, 1, n)[i] = s[1 + i - 1]
    BY <1>2, <2>1, SubSeqProperties
  <2>3. \A i \in 1..n : 1 + i - 1 = i
    OBVIOUS
  <2> QED
    BY <2>1, <2>2, <2>3
<1>4. take(s, limit) = SubSeq(s, 1, n)
  BY <1>1 DEF take
<1>5. \A k \in 1..n : k \in 1..Len(s)
  BY <1>1
<1> QED
  BY <1>1, <1>3, <1>4, <1>5

LEMMA RowsOf ==
  ASSUME NEW t \in Seq(Row), NEW p
  PROVE  /\ rowsOf(t, p) \in SUBSET (1..Len(t))
         /\ \A i \in rowsOf(t, p) : t[i] \in Row /\ t[i].at \in Nat /\ t[i].peer = p
         /\ IsFiniteSet(rowsOf(t, p))
<1>1. PICK n \in Nat : n = Len(t)
  OBVIOUS
<1>2. rowsOf(t, p) \in SUBSET (1..n)
  BY <1>1 DEF rowsOf
<1>3. IsFiniteSet(rowsOf(t, p))
  BY <1>2, PlacesAreFinite
<1>4. ASSUME NEW i \in rowsOf(t, p) PROVE t[i] \in Row /\ t[i].at \in Nat /\ t[i].peer = p
  <2>1. i \in 1..Len(t) /\ t[i].peer = p
    BY DEF rowsOf
  <2>2. t[i] \in Row
    BY <2>1, ElementOfSeq
  <2> QED
    BY <2>1, <2>2 DEF Row
<1> QED
  BY <1>1, <1>2, <1>3, <1>4

LEMMA NewestFirst ==
  ASSUME NEW t \in Seq(Row), NEW p
  PROVE  IsOrder(rowsOf(t, p), newestFirst(t, rowsOf(t, p)))
<1> DEFINE S == rowsOf(t, p)
<1>1. \A i \in S : i \in Int /\ t[i].at \in Int
  BY RowsOf
<1>2. \A i, j \in S : <<i, j>> \in newestFirst(t, S)
                      <=> t[i].at > t[j].at \/ (t[i].at = t[j].at /\ i < j)
  BY DEF newestFirst
<1>3. PICK R : R = newestFirst(t, S)
  OBVIOUS
<1> HIDE DEF S
<1>4. \A i \in S : <<i, i>> \notin R
  BY <1>1, <1>2, <1>3
<1>5. \A i, j \in S : i # j => <<i, j>> \in R \/ <<j, i>> \in R
  BY <1>1, <1>2, <1>3
<1>6. ASSUME NEW i \in S, NEW j \in S, NEW k \in S, <<i, j>> \in R, <<j, k>> \in R
      PROVE  <<i, k>> \in R
  <2>1. PICK a \in Int, b \in Int, d \in Int : a = t[i].at /\ b = t[j].at /\ d = t[k].at
    BY <1>1
  <2>2. i \in Int /\ j \in Int /\ k \in Int
    BY <1>1
  <2>3. (a > b \/ (a = b /\ i < j)) /\ (b > d \/ (b = d /\ j < k))
    BY <1>2, <1>3, <1>6, <2>1
  <2>4. a > d \/ (a = d /\ i < k)
    BY <2>2, <2>3
  <2> QED
    BY <1>2, <1>3, <2>1, <2>4
<1> QED
  BY <1>3, <1>4, <1>5, <1>6 DEF IsOrder, S

\* The rows of p: each at most once, the newest first, all of them when they are few.
LEMMA RecentMessages ==
  ASSUME NEW t \in Seq(Row), NEW p, NEW limit \in Nat
  PROVE  /\ recentMessages(t, p, limit) \in Seq(rowsOf(t, p))
         /\ \A j, k \in 1..Len(recentMessages(t, p, limit)) : j < k =>
              /\ recentMessages(t, p, limit)[j] # recentMessages(t, p, limit)[k]
              /\ t[recentMessages(t, p, limit)[j]].at >= t[recentMessages(t, p, limit)[k]].at
<1> DEFINE S == rowsOf(t, p)
<1>1. PICK R : R = newestFirst(t, S)
  OBVIOUS
<1>2. /\ IsFiniteSet(S) /\ IsOrder(S, R)
      /\ \A i \in S : i \in Int /\ t[i].at \in Int
      /\ \A i, j \in S : <<i, j>> \in R => t[i].at >= t[j].at
  BY <1>1, RowsOf, NewestFirst DEF newestFirst
<1>3. recentMessages(t, p, limit) = take(inOrder(S, R), limit)
  BY <1>1 DEF recentMessages
<1> HIDE DEF S
<1>4. PICK s \in Seq(S) : /\ s = inOrder(S, R)
                         /\ \A j, k \in 1..Len(s) : j < k => <<s[j], s[k]>> \in R
  BY <1>2, InOrder
<1>5. PICK u \in Seq(S) : /\ u = recentMessages(t, p, limit)
                         /\ \A k \in 1..Len(u) : u[k] = s[k] /\ k \in 1..Len(s)
  BY <1>3, <1>4, Take
<1>6. ASSUME NEW j \in 1..Len(u), NEW k \in 1..Len(u), j < k
      PROVE  u[j] # u[k] /\ t[u[j]].at >= t[u[k]].at
  <2>1. u[j] \in S /\ u[k] \in S /\ <<u[j], u[k]>> \in R
    BY <1>4, <1>5, <1>6, ElementOfSeq
  <2> QED
    BY <1>2, <2>1 DEF IsOrder
<1> QED
  BY <1>5, <1>6 DEF S

\* A finite set of numbers that is not empty has a greatest one.
LEMMA GreatestNumber ==
  ASSUME NEW S, S \subseteq Nat, IsFiniteSet(S), S # {}
  PROVE  Max(S) \in S
<1>1. PICK R : R = ascending(S)
  OBVIOUS
<1>2. IsOrder(S, R)
  <2>1. S \subseteq Int
    OBVIOUS
  <2> QED
    BY <1>1, <2>1, AscendingIsOrder
<1>3. PICK n \in Nat, s \in Seq(S) :
        /\ Len(s) = n
        /\ \A j, k \in 1..n : j < k => <<s[j], s[k]>> \in R
        /\ \A i \in S : \E k \in 1..n : s[k] = i
  <2>1. PICK n : n = Cardinality(S)
    OBVIOUS
  <2>2. PICK s : s = inOrder(S, R)
    OBVIOUS
  <2>3. /\ n \in Nat /\ s \in Seq(S) /\ Len(s) = n
        /\ \A j, k \in 1..n : j < k => <<s[j], s[k]>> \in R
        /\ \A i \in S : \E k \in 1..n : s[k] = i
    BY <1>2, <2>1, <2>2, InOrder
  <2> QED
    BY <2>3
<1>4. n \in 1..n
  <2>1. PICK k : k \in 1..n
    BY <1>3
  <2> QED
    BY <2>1
<1>5. s[n] \in S
  BY <1>3, <1>4, ElementOfSeq
<1>6. ASSUME NEW y \in S PROVE s[n] >= y
  <2>1. PICK k \in 1..n : s[k] = y
    BY <1>3
  <2>2. CASE k = n
    BY <1>5, <2>1, <2>2
  <2>3. CASE k < n
    <3>1. <<y, s[n]>> \in R
      BY <1>3, <1>4, <2>1, <2>3
    <3>2. y < s[n] /\ y \in Nat /\ s[n] \in Nat
      BY <1>1, <1>5, <3>1 DEF ascending
    <3> QED
      BY <3>2
  <2> QED
    BY <2>1, <2>2, <2>3
<1> QED
  BY <1>5, <1>6 DEF Max

LEMMA LastTs ==
  ASSUME NEW t \in Seq(Row), NEW p, rowsOf(t, p) # {}
  PROVE  lastTs(t, p) \in Nat
<1> DEFINE S == rowsOf(t, p)
           A == {t[i].at : i \in S}
           f == [i \in S |-> t[i].at]
<1>1. IsFiniteSet(S) /\ \A i \in S : t[i].at \in Nat
  BY RowsOf
<1>2. f \in Surjection(S, A)
  BY DEF Surjection
<1>3. A \subseteq Nat /\ A # {}
  BY <1>1
<1> HIDE DEF f
<1>4. IsFiniteSet(A)
  <2> HIDE DEF A, S
  <2> QED
    BY <1>1, <1>2, FS_Surjection
<1>5. Max(A) \in Nat
  <2> HIDE DEF A
  <2> QED
    BY <1>3, <1>4, GreatestNumber
<1> QED
  BY <1>5 DEF lastTs

\* The peers with rows are finitely many, and latestFirst puts them one after the other.
LEMMA LatestFirst ==
  ASSUME NEW t \in Seq(Row)
  PROVE  LET S == {p \in Peer : rowsOf(t, p) # {}}
         IN  IsFiniteSet(S) /\ IsOrder(S, latestFirst(t, S))
<1> DEFINE S == {p \in Peer : rowsOf(t, p) # {}}
<1>1. PICK n \in Nat : n = Len(t)
  OBVIOUS
<1>2. IsFiniteSet(S)
  <2> DEFINE A == {t[i].peer : i \in 1..n}
             f == [i \in 1..n |-> t[i].peer]
  <2>1. IsFiniteSet(1..n)
    BY FS_Interval
  <2>2. f \in Surjection(1..n, A)
    BY DEF Surjection
  <2>3. S \in SUBSET A
    BY <1>1 DEF rowsOf
  <2> HIDE DEF A, f
  <2>4. IsFiniteSet(A)
    BY <2>1, <2>2, FS_Surjection
  <2> HIDE DEF S
  <2> QED
    BY <2>3, <2>4, FS_Subset
<1>3. ASSUME NEW p \in S PROVE p \in Int /\ lastTs(t, p) \in Int
  BY PeerAssumption, LastTs
<1>4. \A p, q \in S : <<p, q>> \in latestFirst(t, S)
        <=> lastTs(t, p) > lastTs(t, q) \/ (lastTs(t, p) = lastTs(t, q) /\ p < q)
  BY DEF latestFirst
<1> HIDE DEF S
<1>5. IsOrder(S, latestFirst(t, S))
  BY <1>3, <1>4 DEF IsOrder
<1> QED
  BY <1>2, <1>5 DEF S

LEMMA RecentPeers ==
  ASSUME NEW t \in Seq(Row)
  PROVE  recentPeerIds(t, RecentLimit) \in Seq(Peer)
<1> DEFINE S == {p \in Peer : rowsOf(t, p) # {}}
<1>1. IsFiniteSet(S) /\ IsOrder(S, latestFirst(t, S))
  BY LatestFirst
<1>2. S \subseteq Peer
  OBVIOUS
<1>3. recentPeerIds(t, RecentLimit) = take(inOrder(S, latestFirst(t, S)), RecentLimit)
  BY DEF recentPeerIds
<1> HIDE DEF S
<1>4. PICK s \in Seq(S) : s = inOrder(S, latestFirst(t, S))
  BY <1>1, InOrder
<1>5. recentPeerIds(t, RecentLimit) \in Seq(S)
  BY <1>3, <1>4, LimitAssumption, Take
<1> QED
  BY <1>2, <1>5, SeqMonotonic

(***************************************************************************)
(* What is on the screen and what was sent.                                 *)
(***************************************************************************)
ViewInv ==
  /\ running \/ (~storageReady /\ current = NoPeer /\ timeline = <<>> /\ sent = <<>>)
  /\ began <= Len(table) /\ opened <= Len(table)
  /\ \A i \in 1..Len(table) : table[i].at <= clock
  /\ \A k \in 1..Len(timeline) : timeline[k].at <= clock /\ timeline[k].row <= Len(table)

Inv == TypeOK /\ FilesInv /\ ViewInv

\* What sending and receiving do to the table, the panel and the history.
Writes(p, kind, out) ==
  /\ UNCHANGED <<running, storageReady, current, opened, began, clock>>
  /\ \/ table' = table
     \/ /\ storageReady
        /\ \E row \in Row : /\ row.peer = p /\ row.kind = kind /\ row.out = out
                            /\ row.at = clock
                            /\ table' = Append(table, row)
  /\ \/ timeline' = timeline /\ kind = "file" /\ out
     \/ /\ kind = "chat" \/ ~out
        /\ \E e \in Entry : /\ e.peer = p /\ e.at = clock
                            /\ e.row = IF table' = table THEN 0 ELSE Len(table) + 1
                            /\ timeline' = Append(timeline, e)
  /\ \/ sent' = sent /\ (table' = table \/ ~out)
     \/ /\ out /\ sent' = Append(sent, [peer |-> p, kind |-> kind])
        /\ storageReady => table' # table

LEMMA Recorded ==
  ASSUME Inv, NEW p \in Peer, NEW kind \in {"chat", "file"}, NEW out \in BOOLEAN,
         NEW path \in Seq(Nat), table' = recordChatHistory(p, kind, out, path)
  PROVE  \/ ~storageReady /\ table' = table
         \/ /\ storageReady /\ table' # table
            /\ \E row \in Row : /\ row.peer = p /\ row.kind = kind /\ row.out = out
                                /\ row.at = clock
                                /\ table' = Append(table, row)
<1> DEFINE row == [peer |-> p, kind |-> kind, out |-> out, at |-> clock, path |-> path]
<1>1. row \in Row /\ table \in Seq(Row)
  BY DEF Inv, FilesInv, Row
<1>2. row.peer = p /\ row.kind = kind /\ row.out = out /\ row.at = clock
  OBVIOUS
<1>3. table' = IF storageReady THEN Append(table, row) ELSE table
  BY DEF recordChatHistory
<1> HIDE DEF row
<1>4. Len(Append(table, row)) = Len(table) + 1 /\ Len(table) \in Nat
  BY <1>1
<1>5. Append(table, row) # table
  BY <1>4
<1> QED
  BY <1>1, <1>2, <1>3, <1>5

LEMMA EntryIs ==
  ASSUME Inv, NEW p \in Peer, NEW out \in BOOLEAN,
         table' = table \/ \E row \in Row : table' = Append(table, row)
  PROVE  /\ entry(p, out, table') \in Entry
         /\ entry(p, out, table').peer = p /\ entry(p, out, table').at = clock
         /\ entry(p, out, table').row = IF table' = table THEN 0 ELSE Len(table) + 1
<1>1. table \in Seq(Row) /\ clock \in Nat
  BY DEF Inv, FilesInv
<1>2. PICK n \in Nat : n = Len(table)
  BY <1>1
<1>3. Len(table') = IF table' = table THEN n ELSE n + 1
  BY <1>1, <1>2
<1>4. PICK r \in Nat : r = IF table' = table THEN 0 ELSE n + 1
  BY <1>2
<1>5. entry(p, out, table') = [peer |-> p, out |-> out, at |-> clock, row |-> r]
  <2>1. (IF Len(table') > Len(table) THEN Len(table') ELSE 0) = r
    BY <1>2, <1>3, <1>4
  <2> QED
    BY <2>1 DEF entry
<1> QED
  BY <1>1, <1>2, <1>4, <1>5 DEF Entry

LEMMA SendWrites ==
  ASSUME Inv, NEW p \in Peer, NEW kind \in {"chat", "file"}, sendToPeer(p, kind),
         UNCHANGED <<running, storageReady, current, opened, began, clock>>,
         \/ timeline' = timeline /\ kind = "file"
         \/ timeline' = Append(timeline, entry(p, TRUE, table')) /\ kind = "chat"
  PROVE  Writes(p, kind, TRUE)
<1>1. PICK out \in BOOLEAN, path \in Seq(Nat) : out = TRUE /\ path = <<>>
  <2>1. <<>> \in Seq(Nat)
    OBVIOUS
  <2> QED
    BY <2>1
<1>2. \/ /\ p \in contacts /\ sent' = Append(sent, [peer |-> p, kind |-> kind])
         /\ table' = recordChatHistory(p, kind, out, path)
      \/ sent' = sent /\ table' = table
  BY <1>1 DEF sendToPeer
<1>3. \/ sent' = sent /\ table' = table
      \/ /\ sent' = Append(sent, [peer |-> p, kind |-> kind])
         /\ \/ ~storageReady /\ table' = table
            \/ /\ storageReady /\ table' # table
               /\ \E row \in Row : /\ row.peer = p /\ row.kind = kind /\ row.out = out
                                   /\ row.at = clock
                                   /\ table' = Append(table, row)
  BY <1>2, Recorded
<1>4. /\ entry(p, out, table') \in Entry
      /\ entry(p, out, table').peer = p /\ entry(p, out, table').at = clock
      /\ entry(p, out, table').row = IF table' = table THEN 0 ELSE Len(table) + 1
  BY <1>3, EntryIs
<1> QED
  BY <1>1, <1>3, <1>4 DEF Writes

LEMMA ReceiptWrites ==
  ASSUME Inv, NEW p \in Peer, NEW kind \in {"chat", "file"}, NEW path \in Seq(Nat),
         NEW out \in BOOLEAN, out = FALSE,
         table' = recordChatHistory(p, kind, out, path),
         timeline' = Append(timeline, entry(p, out, table')), sent' = sent,
         UNCHANGED <<running, storageReady, current, opened, began, clock>>
  PROVE  Writes(p, kind, out)
<1>1. \/ ~storageReady /\ table' = table
      \/ /\ storageReady /\ table' # table
         /\ \E row \in Row : /\ row.peer = p /\ row.kind = kind /\ row.out = out
                             /\ row.at = clock
                             /\ table' = Append(table, row)
  BY Recorded
<1>2. /\ entry(p, out, table') \in Entry
      /\ entry(p, out, table').peer = p /\ entry(p, out, table').at = clock
      /\ entry(p, out, table').row = IF table' = table THEN 0 ELSE Len(table) + 1
  BY <1>1, EntryIs
<1> QED
  BY <1>1, <1>2 DEF Writes

WriteSteps ==
  \/ handleSend
  \/ \E p \in Peer : \/ sendFileToPeer(p) \/ chatReceived(p)
                     \/ \E name \in FileName : handleFileMessage(p, name)

LEMMA WriteStep ==
  ASSUME Inv, WriteSteps
  PROVE  \E p \in Peer, kind \in {"chat", "file"}, out \in BOOLEAN : Writes(p, kind, out)
<1>1. CASE handleSend
  <2>1. PICK p \in Peer : p = current
    BY <1>1 DEF handleSend, mayWrite, Inv, FilesInv
  <2>2. /\ sendToPeer(p, "chat") /\ timeline' = Append(timeline, entry(p, TRUE, table'))
        /\ UNCHANGED <<running, storageReady, current, opened, began, clock>>
    BY <1>1, <2>1 DEF handleSend, mayWrite
  <2>3. Writes(p, "chat", TRUE)
    BY <2>2, SendWrites
  <2> QED
    BY <2>3
<1>2. ASSUME NEW p \in Peer, sendFileToPeer(p)
      PROVE  Writes(p, "file", TRUE)
  <2>1. /\ sendToPeer(p, "file") /\ timeline' = timeline
        /\ UNCHANGED <<running, storageReady, current, opened, began, clock>>
    BY <1>2 DEF sendFileToPeer, view
  <2> QED
    BY <2>1, SendWrites
<1>3. ASSUME NEW p \in Peer, chatReceived(p)
      PROVE  \E out \in BOOLEAN : Writes(p, "chat", out)
  <2>1. PICK out \in BOOLEAN, path \in Seq(Nat) : out = FALSE /\ path = <<>>
    <3>1. <<>> \in Seq(Nat)
      OBVIOUS
    <3> QED
      BY <3>1
  <2>2. /\ table' = recordChatHistory(p, "chat", out, path) /\ sent' = sent
        /\ timeline' = Append(timeline, entry(p, out, table'))
        /\ UNCHANGED <<running, storageReady, current, opened, began, clock>>
    BY <1>3, <2>1 DEF chatReceived, appendMessage, ghost
  <2> QED
    BY <2>1, <2>2, ReceiptWrites
<1>4. ASSUME NEW p \in Peer, NEW name \in FileName, handleFileMessage(p, name)
      PROVE  \E out \in BOOLEAN : Writes(p, "file", out)
  <2>1. PICK out \in BOOLEAN, path \in Seq(Nat) : out = FALSE /\ path = saveIncomingFile(name)
    BY SavedIsNew DEF Inv
  <2>2. /\ table' = recordChatHistory(p, "file", out, path) /\ sent' = sent
        /\ timeline' = Append(timeline, entry(p, out, table'))
        /\ UNCHANGED <<running, storageReady, current, opened, began, clock>>
    BY <1>4, <2>1 DEF handleFileMessage, ghost
  <2> QED
    BY <2>1, <2>2, ReceiptWrites
<1> QED
  BY <1>1, <1>2, <1>3, <1>4 DEF WriteSteps

LEMMA RefreshType ==
  ASSUME NEW t \in Seq(Row)
  PROVE  refresh(t) \in Seq(Peer)
<1>1. <<>> \in Seq(Peer)
  OBVIOUS
<1> QED
  BY <1>1, RecentPeers DEF refresh

\* The panel after loadConversation: the rows of the query from its end to its start.
LEMMA LoadedIs ==
  ASSUME Inv, NEW p \in Peer,
         NEW ids \in Seq(rowsOf(table, p)), ids = recentMessages(table, p, HistoryLimit)
  PROVE  /\ loaded(p) \in Seq(Entry)
         /\ Len(loaded(p)) = Len(ids)
         /\ \A k \in 1..Len(ids) : LET i == ids[Len(ids) - k + 1]
                                  IN  /\ loaded(p)[k].peer = p /\ loaded(p)[k].row = i
                                      /\ loaded(p)[k].at = table[i].at
                                      /\ i \in rowsOf(table, p)
<1> DEFINE S == rowsOf(table, p)
<1>1. table \in Seq(Row)
  BY DEF Inv, FilesInv
<1>2. ASSUME NEW i \in S
      PROVE  table[i].at \in Nat /\ table[i].out \in BOOLEAN /\ i \in Nat
  <2>1. table[i] \in Row /\ i \in 1..Len(table)
    BY <1>1, RowsOf DEF rowsOf
  <2> QED
    BY <2>1 DEF Row
<1>3. PICK n \in Nat : n = Len(ids)
  OBVIOUS
<1>4. PICK rev : rev = [k \in 1..n |-> ids[(n - k) + 1]]
  OBVIOUS
<1>5. \A k \in 1..n : rev[k] \in S /\ rev[k] = ids[n - k + 1] /\ n - k + 1 \in 1..n
  <2>1. ASSUME NEW k \in 1..n PROVE n - k + 1 \in 1..n
    OBVIOUS
  <2>2. \A j \in 1..n : ids[j] \in S
    BY <1>3, ElementOfSeq
  <2> QED
    BY <1>4, <2>1, <2>2
<1>6. Len(rev) = n /\ DOMAIN rev = 1..n
  BY <1>4
<1>7. rev = Reverse(recentMessages(table, p, HistoryLimit))
  BY <1>3, <1>4 DEF Reverse
<1> DEFINE f == [k \in 1..n |-> [peer |-> p, out |-> table[rev[k]].out,
                               at |-> table[rev[k]].at, row |-> rev[k]]]
<1>8. loaded(p) = f
  BY <1>6, <1>7 DEF loaded
<1>9. ASSUME NEW k \in 1..n
      PROVE  /\ f[k] \in Entry /\ f[k].peer = p /\ f[k].row = rev[k]
             /\ f[k].at = table[rev[k]].at
  <2>1. rev[k] \in S /\ rev[k] \in Nat /\ table[rev[k]].at \in Nat
        /\ table[rev[k]].out \in BOOLEAN
    BY <1>2, <1>5
  <2> QED
    BY <2>1 DEF Entry
<1>10. f \in [1..n -> Entry]
  BY <1>9
<1> HIDE DEF f
<1>11. f \in Seq(Entry) /\ Len(f) = n
  BY <1>10
<1>12. loaded(p) \in Seq(Entry) /\ Len(loaded(p)) = Len(ids)
  BY <1>3, <1>8, <1>11
<1>13. ASSUME NEW k \in 1..Len(ids), NEW i, i = ids[Len(ids) - k + 1]
      PROVE  /\ loaded(p)[k].peer = p /\ loaded(p)[k].row = i
             /\ loaded(p)[k].at = table[i].at
             /\ i \in S
  <2>1. k \in 1..n /\ i = ids[n - k + 1]
    BY <1>3, <1>13
  <2>2. rev[k] = i /\ i \in S
    BY <1>5, <2>1
  <2> QED
    BY <1>8, <1>9, <2>1, <2>2
<1> QED
  BY <1>12, <1>13

LEMMA WriteInv ==
  ASSUME Inv, WriteSteps, FilesInv'
  PROVE  TypeOK' /\ ViewInv'
<1>1. PICK p \in Peer, kind \in {"chat", "file"}, out \in BOOLEAN : Writes(p, kind, out)
  BY WriteStep
<1>2. table' \in Seq(Row) /\ table \in Seq(Row)
  BY DEF FilesInv, Inv
<1>3. PICK n \in Nat : n = Len(table)
  BY <1>2
<1>4. /\ Len(table') \in {n, n + 1}
      /\ table' = table \/ Len(table') = n + 1
      /\ \A i \in 1..Len(table') : table'[i].at <= clock
  <2>1. CASE table' = table
    BY <1>3, <2>1 DEF Inv, ViewInv
  <2>2. CASE \E row \in Row : row.at = clock /\ table' = Append(table, row)
    <3>1. PICK row \in Row : row.at = clock /\ table' = Append(table, row)
      BY <2>2
    <3>2. /\ Len(table') = n + 1 /\ table'[n + 1] = row
          /\ \A i \in 1..n : table'[i] = table[i]
      BY <1>2, <1>3, <3>1
    <3>3. \A i \in 1..n + 1 : table'[i].at <= clock
      BY <1>3, <3>1, <3>2 DEF Inv, ViewInv, FilesInv
    <3> QED
      BY <3>2, <3>3
  <2> QED
    BY <1>1, <2>1, <2>2 DEF Writes
<1>5. timeline' \in Seq(Entry) /\ sent' \in Seq([peer : Peer, kind : {"chat", "file"}])
  <2>1. /\ timeline \in Seq(Entry) /\ sent \in Seq([peer : Peer, kind : {"chat", "file"}])
        /\ [peer |-> p, kind |-> kind] \in [peer : Peer, kind : {"chat", "file"}]
    BY DEF Inv, TypeOK
  <2>2. timeline' = timeline \/ \E e \in Entry : timeline' = Append(timeline, e)
    BY <1>1 DEF Writes
  <2>3. sent' = sent \/ sent' = Append(sent, [peer |-> p, kind |-> kind])
    BY <1>1 DEF Writes
  <2>4. timeline' \in Seq(Entry)
    BY <2>1, <2>2
  <2>5. PICK T : T = [peer : Peer, kind : {"chat", "file"}]
    OBVIOUS
  <2>6. PICK m \in T : m = [peer |-> p, kind |-> kind]
    BY <2>1, <2>5
  <2>7. sent \in Seq(T)
    BY <2>1, <2>5
  <2>8. Append(sent, m) \in Seq(T)
    BY <2>7, AppendProperties
  <2>9. sent' = sent \/ sent' = Append(sent, m)
    BY <2>3, <2>6
  <2> QED
    BY <2>4, <2>5, <2>7, <2>8, <2>9
<1>6. \A k \in 1..Len(timeline') : timeline'[k].at <= clock /\ timeline'[k].row <= Len(table')
  <2>1. timeline \in Seq(Entry) /\ clock \in Nat
        /\ \A k \in 1..Len(timeline) : timeline[k].at <= clock /\ timeline[k].row <= n
    BY <1>3 DEF Inv, TypeOK, ViewInv
  <2>2. PICK m \in Nat : m = Len(timeline)
    BY <2>1
  <2>3. \A k \in 1..m : timeline[k].row <= Len(table')
    <3>1. ASSUME NEW k \in 1..m PROVE timeline[k].row \in Nat
      <4>1. timeline[k] \in Entry
        BY <2>1, <2>2, ElementOfSeq
      <4> QED
        BY <4>1 DEF Entry
    <3> QED
      BY <1>4, <2>1, <2>2, <3>1
  <2>4. CASE timeline' = timeline
    BY <2>1, <2>2, <2>3, <2>4
  <2>5. CASE \E e \in Entry : /\ e.at = clock /\ timeline' = Append(timeline, e)
                              /\ e.row = IF table' = table THEN 0 ELSE Len(table) + 1
    <3>1. PICK e \in Entry : /\ e.at = clock /\ timeline' = Append(timeline, e)
                            /\ e.row = IF table' = table THEN 0 ELSE Len(table) + 1
      BY <2>5
    <3>2. /\ Len(timeline') = m + 1 /\ timeline'[m + 1] = e
          /\ \A k \in 1..m : timeline'[k] = timeline[k]
      BY <2>1, <2>2, <3>1
    <3>3. e.row <= Len(table') /\ e.at <= clock
      BY <1>3, <1>4, <2>1, <3>1
    <3>4. \A k \in 1..m + 1 : timeline'[k].at <= clock /\ timeline'[k].row <= Len(table')
      BY <2>1, <2>2, <2>3, <3>2, <3>3
    <3> QED
      BY <3>2, <3>4
  <2> QED
    BY <1>1, <2>4, <2>5 DEF Writes
<1>7. /\ running' /\ running
      /\ UNCHANGED <<running, storageReady, current, opened, began, clock, knownPeers, contacts,
                     tab, stops>>
      /\ messages' = messages + 1
      /\ recent' \in {recent, refresh(table')}
  BY DEF WriteSteps, handleSend, mayWrite, sendFileToPeer, chatReceived, handleFileMessage,
         appendMessage, ghost, view, Inv, TypeOK
<1>8. recent' \in Seq(Peer)
  BY <1>2, <1>7, RefreshType DEF Inv, TypeOK
<1>9. \A path \in DOMAIN downloads' : path \in Seq(Nat) /\ downloads'[path] \in Nat
  <2>1. CASE downloads' = downloads
    BY <2>1 DEF Inv, TypeOK
  <2>2. ASSUME NEW q \in Peer, NEW name \in FileName, handleFileMessage(q, name)
        PROVE  \A path \in DOMAIN downloads' : path \in Seq(Nat) /\ downloads'[path] \in Nat
    <3>1. PICK path \in Seq(Nat) : path = saveIncomingFile(name)
      BY SavedIsNew DEF Inv
    <3>2. downloads' = [r \in DOMAIN downloads \cup {path} |->
                          IF r # path THEN downloads[r]
                          ELSE IF storageReady THEN Len(table') ELSE 0]
      BY <2>2, <3>1 DEF handleFileMessage
    <3>3. Len(table') \in Nat
      BY <1>2
    <3> QED
      BY <3>1, <3>2, <3>3 DEF Inv, TypeOK
  <2> QED
    BY <2>1, <2>2 DEF WriteSteps, handleSend, sendFileToPeer, chatReceived
<1>10. TypeOK'
  BY <1>2, <1>5, <1>7, <1>8, <1>9 DEF TypeOK, Inv
<1>11. began <= Len(table') /\ opened <= Len(table')
  BY <1>3, <1>4 DEF Inv, TypeOK, ViewInv
<1> QED
  BY <1>4, <1>6, <1>7, <1>10, <1>11 DEF ViewInv

\* Steps that leave alone what was written, what is on the screen and what was sent.
Quiet ==
  /\ UNCHANGED <<running, storageReady, table, current, timeline, ghost>>
  /\ clock' \in Nat /\ clock <= clock'

LEMMA Steps ==
  ASSUME Inv, [Next]_vars
  PROVE  \/ start \/ stop \/ WriteSteps \/ \E p \in Peer : handlePeerSelection(p)
         \/ Quiet /\ TypeOK'
<1>1. TypeOK /\ clock \in Nat /\ table \in Seq(Row)
  BY DEF Inv, FilesInv
<1>2. CASE UNCHANGED vars
  BY <1>1, <1>2 DEF Quiet, TypeOK, vars, view, ghost
<1>3. ASSUME NEW p \in Peer, peerDiscovered(p)
      PROVE  Quiet /\ TypeOK'
  <2>1. /\ contacts' \subseteq Peer /\ knownPeers' \subseteq Peer
        /\ UNCHANGED <<downloads, running, storageReady, table, view, clock, ghost, messages, stops>>
    BY <1>1, <1>3 DEF TypeOK, peerDiscovered
  <2> QED
    BY <1>1, <2>1 DEF Quiet, TypeOK, view, ghost
<1>4. CASE tick
  <2>1. /\ clock' \in Nat /\ clock <= clock'
        /\ UNCHANGED <<downloads, running, storageReady, table, knownPeers, contacts, view, ghost,
                       messages, stops>>
    BY <1>1, <1>4 DEF tick
  <2> QED
    BY <1>1, <2>1 DEF Quiet, TypeOK, view, ghost
<1>5. ASSUME NEW t \in {"recent", "contacts", "groups"}, handleSidebarTabChanged(t)
      PROVE  Quiet /\ TypeOK'
  <2>1. /\ tab' \in {"recent", "contacts", "groups"} /\ recent' \in {recent, refresh(table)}
        /\ UNCHANGED <<downloads, running, storageReady, table, knownPeers, contacts, current,
                       timeline, clock, ghost, messages, stops>>
    BY <1>5 DEF handleSidebarTabChanged
  <2>2. recent' \in Seq(Peer)
    BY <1>1, <2>1, RefreshType DEF TypeOK
  <2> QED
    BY <1>1, <2>1, <2>2 DEF Quiet, TypeOK, ghost
<1>6. ASSUME NEW path \in DOMAIN downloads, removeDownload(path)
      PROVE  Quiet /\ TypeOK'
  <2>1. /\ downloads' = [q \in DOMAIN downloads \ {path} |-> downloads[q]]
        /\ stops' \in Nat
        /\ UNCHANGED <<running, storageReady, table, knownPeers, contacts, view, clock, ghost,
                       messages>>
    BY <1>1, <1>6 DEF TypeOK, removeDownload
  <2>2. \A q \in DOMAIN downloads' : q \in Seq(Nat) /\ downloads'[q] \in Nat
    BY <1>1, <2>1 DEF TypeOK
  <2> QED
    BY <1>1, <2>1, <2>2 DEF Quiet, TypeOK, view, ghost
<1> QED
  BY <1>2, <1>3, <1>4, <1>5, <1>6 DEF Next, WriteSteps

LEMMA StartType ==
  ASSUME Inv, FilesInv', start
  PROVE  TypeOK' /\ ViewInv'
<1>1. table \in Seq(Row) /\ Len(table) \in Nat
  BY DEF Inv, FilesInv
<1>2. recent' \in Seq(Peer)
  <2>1. <<>> \in Seq(Peer)
    OBVIOUS
  <2>2. recent' = <<>> \/ recent' = recentPeerIds(table, RecentLimit)
    BY DEF start
  <2> QED
    BY <1>1, <2>1, <2>2, RecentPeers
<1>3. /\ running' = TRUE /\ storageReady' \in BOOLEAN /\ contacts' \in {{}, knownPeers}
      /\ began' = Len(table)
      /\ UNCHANGED <<downloads, table, knownPeers, tab, current, timeline, clock, sent, opened,
                     messages, stops>>
  BY DEF start
<1>4. TypeOK'
  BY <1>1, <1>2, <1>3 DEF Inv, TypeOK
<1> QED
  BY <1>1, <1>3, <1>4 DEF Inv, ViewInv

LEMMA StopType ==
  ASSUME Inv, FilesInv', stop
  PROVE  TypeOK' /\ ViewInv'
<1>1. /\ <<>> \in Seq(Peer) /\ <<>> \in Seq(Entry)
      /\ <<>> \in Seq([peer : Peer, kind : {"chat", "file"}])
      /\ Len(<<>>) = 0
  OBVIOUS
<1>2. /\ running' = FALSE /\ storageReady' = FALSE /\ contacts' = {} /\ tab' = "recent"
      /\ recent' = <<>> /\ current' = NoPeer /\ timeline' = <<>> /\ sent' = <<>>
      /\ opened' = 0 /\ stops' = stops + 1
      /\ UNCHANGED <<downloads, table, knownPeers, clock, began, messages>>
  BY DEF stop
<1>3. TypeOK'
  <2>1. TypeOK
    BY DEF Inv
  <2>2. /\ recent' \in Seq(Peer) /\ timeline' \in Seq(Entry)
        /\ sent' \in Seq([peer : Peer, kind : {"chat", "file"}])
    BY <1>1, <1>2
  <2>3. /\ running' \in BOOLEAN /\ storageReady' \in BOOLEAN /\ contacts' \subseteq Peer
        /\ tab' \in {"recent", "contacts", "groups"} /\ current' \in Peer \cup {NoPeer}
        /\ opened' \in Nat
    BY <1>2
  <2>4. stops' \in Nat
    BY <1>2, <2>1 DEF TypeOK
  <2> QED
    BY <1>2, <2>1, <2>2, <2>3, <2>4 DEF TypeOK
<1>4. table \in Seq(Row)
  BY DEF Inv, FilesInv
<1>5. 0 <= Len(table)
  BY <1>4
<1> QED
  BY <1>1, <1>2, <1>3, <1>5 DEF Inv, ViewInv

LEMMA QuietView ==
  ASSUME Inv, Quiet, TypeOK'
  PROVE  ViewInv'
<1>1. /\ table \in Seq(Row) /\ timeline \in Seq(Entry) /\ clock \in Nat
      /\ \A i \in 1..Len(table) : table[i].at <= clock
      /\ \A k \in 1..Len(timeline) : timeline[k].at <= clock /\ timeline[k].row <= Len(table)
  BY DEF Inv, TypeOK, ViewInv
<1>2. ASSUME NEW i \in 1..Len(table) PROVE table[i].at <= clock'
  <2>1. table[i] \in Row
    BY <1>1, ElementOfSeq
  <2>2. table[i].at \in Nat
    BY <2>1 DEF Row
  <2> QED
    BY <1>1, <2>2 DEF Quiet
<1>3. ASSUME NEW k \in 1..Len(timeline) PROVE timeline[k].at <= clock'
  <2>1. timeline[k] \in Entry
    BY <1>1, ElementOfSeq
  <2>2. timeline[k].at \in Nat
    BY <2>1 DEF Entry
  <2> QED
    BY <1>1, <2>2 DEF Quiet
<1>4. /\ UNCHANGED <<running, storageReady, table, current, timeline, sent, began, opened>>
  BY DEF Quiet, ghost
<1>5. /\ running \/ (~storageReady /\ current = NoPeer /\ timeline = <<>> /\ sent = <<>>)
      /\ began <= Len(table) /\ opened <= Len(table)
  BY DEF Inv, ViewInv
<1> QED
  BY <1>1, <1>2, <1>3, <1>4, <1>5 DEF ViewInv

LEMMA SelectType ==
  ASSUME Inv, FilesInv', NEW p \in Peer, handlePeerSelection(p)
  PROVE  TypeOK' /\ ViewInv'
<1>1. /\ running /\ current' = p /\ timeline' = loadConversation(p) /\ opened' = Len(table)
      /\ UNCHANGED <<downloads, running, storageReady, table, knownPeers, contacts, tab, recent,
                     clock, sent, began, messages, stops>>
  BY DEF handlePeerSelection
<1>2. table \in Seq(Row) /\ \A i \in 1..Len(table) : table[i].at <= clock
  BY DEF Inv, TypeOK, ViewInv
<1>3. PICK ids \in Seq(rowsOf(table, p)) : ids = recentMessages(table, p, HistoryLimit)
  BY <1>2, RecentMessages, LimitAssumption
<1>4. /\ loaded(p) \in Seq(Entry)
      /\ \A k \in 1..Len(loaded(p)) : /\ loaded(p)[k].at <= clock
                                      /\ loaded(p)[k].row <= Len(table)
  <2>1. PICK n \in Nat : n = Len(ids)
    BY <1>3
  <2>2. PICK f \in Seq(Entry) :
          /\ f = loaded(p) /\ Len(f) = n
          /\ \A k \in 1..n : LET i == ids[n - k + 1]
                             IN  /\ f[k].row = i /\ f[k].at = table[i].at
                                 /\ i \in rowsOf(table, p)
    BY <1>3, <2>1, LoadedIs
  <2>3. \A i \in rowsOf(table, p) : i \in 1..Len(table)
    BY DEF rowsOf
  <2>4. Len(table) \in Nat
    BY <1>2
  <2>5. ASSUME NEW k \in 1..n PROVE f[k].at <= clock /\ f[k].row <= Len(table)
    <3>1. PICK i \in 1..Len(table) : f[k].row = i /\ f[k].at = table[i].at
      BY <2>2, <2>3
    <3> QED
      BY <1>2, <2>4, <3>1
  <2> QED
    BY <2>2, <2>5
<1>5. /\ timeline' \in Seq(Entry)
      /\ \A k \in 1..Len(timeline') : timeline'[k].at <= clock /\ timeline'[k].row <= Len(table)
  <2>1. <<>> \in Seq(Entry) /\ Len(<<>>) = 0
    OBVIOUS
  <2>2. timeline' = <<>> \/ timeline' = loaded(p)
    BY <1>1 DEF loadConversation
  <2>3. CASE timeline' = <<>>
    BY <2>1, <2>3
  <2>4. CASE timeline' = loaded(p)
    BY <1>4, <2>4
  <2> QED
    BY <2>2, <2>3, <2>4
<1>6. opened' \in Nat /\ opened' <= Len(table)
  BY <1>1, <1>2
<1>7. TypeOK'
  BY <1>1, <1>5, <1>6 DEF Inv, TypeOK
<1> QED
  BY <1>1, <1>5, <1>6, <1>7 DEF Inv, ViewInv

LEMMA InvInit ==
  ASSUME Init
  PROVE  Inv
<1>1. /\ <<>> \in Seq(Row) /\ <<>> \in Seq(Peer) /\ <<>> \in Seq(Entry)
      /\ <<>> \in Seq([peer : Peer, kind : {"chat", "file"}])
      /\ Len(<<>>) = 0
  OBVIOUS
<1>2. DOMAIN <<>> = {}
  OBVIOUS
<1>3. TypeOK
  BY <1>1, <1>2 DEF Init, TypeOK
<1>4. FilesInv
  BY <1>1, <1>2, FS_EmptySet DEF Init, FilesInv
<1> QED
  BY <1>1, <1>3, <1>4 DEF Init, Inv, ViewInv

LEMMA InvNext ==
  ASSUME Inv, [Next]_vars
  PROVE  Inv'
<1>1. FilesInv'
  BY FilesNext DEF Inv
<1>2. TypeOK' /\ ViewInv'
  BY <1>1, Steps, StartType, StopType, WriteInv, SelectType, QuietView
<1> QED
  BY <1>1, <1>2 DEF Inv

\* Every variable of a conversation keeps its type, the sequences and the stamps too.
THEOREM ConversationTypeCorrect == Spec => []TypeOK
<1>1. Init => Inv
  BY InvInit
<1>2. Inv /\ [Next]_vars => Inv'
  BY InvNext
<1>3. Inv => TypeOK
  BY DEF Inv
<1> QED
  BY <1>1, <1>2, <1>3, PTL DEF Spec

(***************************************************************************)
(* The panel is in the order of the seconds.                                *)
(***************************************************************************)
LEMMA LoadedInOrder ==
  ASSUME Inv, NEW p \in Peer
  PROVE  \A j, k \in 1..Len(loaded(p)) : j < k => loaded(p)[j].at <= loaded(p)[k].at
<1>1. table \in Seq(Row)
  BY DEF Inv, FilesInv
<1>2. PICK ids \in Seq(rowsOf(table, p)) :
        /\ ids = recentMessages(table, p, HistoryLimit)
        /\ \A j, k \in 1..Len(ids) : j < k => table[ids[j]].at >= table[ids[k]].at
  BY <1>1, RecentMessages, LimitAssumption
<1>3. PICK n \in Nat : n = Len(ids)
  BY <1>2
<1>4. PICK f : /\ f = loaded(p) /\ Len(f) = n
               /\ \A k \in 1..n : f[k].at = table[ids[n - k + 1]].at
  BY <1>2, <1>3, LoadedIs
<1>5. ASSUME NEW i \in 1..n PROVE table[ids[i]].at \in Nat
  <2>1. ids[i] \in rowsOf(table, p)
    BY <1>3, ElementOfSeq
  <2> QED
    BY <1>1, <2>1, RowsOf
<1>6. ASSUME NEW j \in 1..n, NEW k \in 1..n, j < k
      PROVE  f[j].at <= f[k].at
  <2>1. PICK a \in 1..n, b \in 1..n : a = n - k + 1 /\ b = n - j + 1 /\ a < b
    <3>1. n - k + 1 \in 1..n /\ n - j + 1 \in 1..n /\ n - k + 1 < n - j + 1
      BY <1>6
    <3> QED
      BY <3>1
  <2>2. table[ids[a]].at >= table[ids[b]].at
    BY <1>2, <1>3, <2>1
  <2>3. f[j].at = table[ids[b]].at /\ f[k].at = table[ids[a]].at
    BY <1>4, <2>1
  <2>4. table[ids[a]].at \in Nat /\ table[ids[b]].at \in Nat
    BY <1>5
  <2> QED
    BY <2>2, <2>3, <2>4
<1> QED
  BY <1>4, <1>6

LEMMA InOrderNext ==
  ASSUME Inv, ShownInOrder, [Next]_vars
  PROVE  ShownInOrder'
<1>1. CASE start \/ Quiet
  <2>1. timeline' = timeline
    BY <1>1 DEF start, Quiet
  <2> QED
    BY <2>1 DEF ShownInOrder
<1>2. CASE stop
  <2>1. timeline' = <<>> /\ Len(<<>>) = 0
    BY <1>2 DEF stop
  <2> QED
    BY <2>1 DEF ShownInOrder
<1>3. ASSUME NEW p \in Peer, handlePeerSelection(p)
      PROVE  ShownInOrder'
  <2>1. timeline' = <<>> \/ timeline' = loaded(p)
    BY <1>3 DEF handlePeerSelection, loadConversation
  <2>2. CASE timeline' = <<>>
    <3>1. Len(timeline') = 0
      BY <2>2
    <3> QED
      BY <3>1 DEF ShownInOrder
  <2>3. CASE timeline' = loaded(p)
    BY <2>3, LoadedInOrder DEF ShownInOrder
  <2> QED
    BY <2>1, <2>2, <2>3
<1>4. CASE WriteSteps
  <2>1. timeline' = timeline \/ \E e \in Entry : e.at = clock /\ timeline' = Append(timeline, e)
    BY <1>4, WriteStep DEF Writes
  <2>2. CASE timeline' = timeline
    BY <2>2 DEF ShownInOrder
  <2>3. ASSUME NEW e \in Entry, e.at = clock, timeline' = Append(timeline, e)
        PROVE  ShownInOrder'
    <3>1. /\ timeline \in Seq(Entry)
          /\ \A k \in 1..Len(timeline) : timeline[k].at <= clock
      BY DEF Inv, TypeOK, ViewInv
    <3>2. PICK m \in Nat : m = Len(timeline)
      BY <3>1
    <3>3. /\ Len(timeline') = m + 1 /\ timeline'[m + 1] = e
          /\ \A k \in 1..m : timeline'[k] = timeline[k]
      BY <2>3, <3>1, <3>2
    <3>4. ASSUME NEW j \in 1..m + 1, NEW k \in 1..m + 1, j < k
          PROVE  timeline'[j].at <= timeline'[k].at
      <4>1. j \in 1..m /\ (k = m + 1 \/ k \in 1..m)
        BY <3>4
      <4> QED
        BY <2>3, <3>1, <3>2, <3>3, <3>4, <4>1 DEF ShownInOrder
    <3> QED
      BY <3>3, <3>4 DEF ShownInOrder
  <2> QED
    BY <2>1, <2>2, <2>3
<1> QED
  BY <1>1, <1>2, <1>3, <1>4, Steps

\* loadConversation and the appends after it: what is shown never goes back to an
\* earlier second, for any number of rows, peers and equal stamps.
THEOREM PanelIsInOrder == Spec => []ShownInOrder
<1>1. Init => Inv /\ ShownInOrder
  <2>1. Init => ShownInOrder
    BY DEF Init, ShownInOrder
  <2> QED
    BY <2>1, InvInit
<1>2. Inv /\ ShownInOrder /\ [Next]_vars => Inv' /\ ShownInOrder'
  BY InvNext, InOrderNext
<1> QED
  BY <1>1, <1>2, PTL DEF Spec

(***************************************************************************)
(* The list of recent chats.                                                *)
(***************************************************************************)

\* A row of kind "file" at the end frees the list from being fresh.
LEMMA FileRecorded ==
  ASSUME Inv, NEW p \in Peer, NEW out \in BOOLEAN, NEW path \in Seq(Nat),
         table' = recordChatHistory(p, "file", out, path)
  PROVE  table' = table \/ table'[Len(table')].kind = "file"
<1>1. PICK row \in Row : /\ row.kind = "file"
                         /\ table' = table \/ table' = Append(table, row)
  <2>1. \/ table' = table
        \/ \E row \in Row : row.kind = "file" /\ table' = Append(table, row)
    BY Recorded
  <2>2. [peer |-> p, kind |-> "file", out |-> out, at |-> clock, path |-> path] \in Row
    BY DEF Row, Inv, FilesInv
  <2> QED
    BY <2>1, <2>2
<1>2. table \in Seq(Row)
  BY DEF Inv, FilesInv
<1>3. CASE table' = Append(table, row)
  <2>1. Len(table') = Len(table) + 1 /\ table'[Len(table) + 1] = row
    BY <1>2, <1>3, AppendProperties
  <2>2. table'[Len(table')] = row
    BY <2>1
  <2>3. row.kind = "file"
    BY <1>1
  <2> QED
    BY <2>2, <2>3
<1> QED
  BY <1>1, <1>3

LEMMA FreshNext ==
  ASSUME Inv, RecentIsFreshAfterChat, [Next]_vars
  PROVE  RecentIsFreshAfterChat'
<1>1. CASE UNCHANGED <<running, storageReady, table, recent>>
  BY <1>1 DEF RecentIsFreshAfterChat, refresh
<1>2. CASE \/ UNCHANGED vars \/ tick \/ \E p \in Peer : peerDiscovered(p)
           \/ \E p \in Peer : handlePeerSelection(p)
           \/ \E path \in DOMAIN downloads : removeDownload(path)
  BY <1>1, <1>2 DEF vars, view, tick, peerDiscovered, handlePeerSelection, removeDownload
<1>3. CASE start
  BY <1>3 DEF start, RecentIsFreshAfterChat, refresh
<1>4. CASE stop
  BY <1>4 DEF stop, RecentIsFreshAfterChat
<1>5. ASSUME NEW t \in {"recent", "contacts", "groups"}, handleSidebarTabChanged(t)
      PROVE  RecentIsFreshAfterChat'
  BY <1>5 DEF handleSidebarTabChanged, RecentIsFreshAfterChat, refresh
<1>6. CASE handleSend
  <2>1. recent' = refresh(table') /\ storageReady' = storageReady
    BY <1>6 DEF handleSend
  <2> QED
    BY <2>1 DEF RecentIsFreshAfterChat, refresh
<1>7. ASSUME NEW p \in Peer, chatReceived(p)
      PROVE  RecentIsFreshAfterChat'
  <2>1. recent' = refresh(table') /\ storageReady' = storageReady
    BY <1>7 DEF chatReceived, appendMessage
  <2> QED
    BY <2>1 DEF RecentIsFreshAfterChat, refresh
<1>8. ASSUME UNCHANGED <<running, storageReady, recent>>,
             table' = table \/ table'[Len(table')].kind = "file"
      PROVE  RecentIsFreshAfterChat'
  BY <1>1, <1>8 DEF RecentIsFreshAfterChat
<1>9. ASSUME NEW p \in Peer, sendFileToPeer(p)
      PROVE  RecentIsFreshAfterChat'
  <2>1. /\ UNCHANGED <<running, storageReady, recent>>
        /\ table' = table \/ table' = recordChatHistory(p, "file", TRUE, <<>>)
    BY <1>9 DEF sendFileToPeer, sendToPeer, view
  <2>2. PICK out \in BOOLEAN, path \in Seq(Nat) : out = TRUE /\ path = <<>>
    <3>1. <<>> \in Seq(Nat)
      OBVIOUS
    <3> QED
      BY <3>1
  <2>3. table' = table \/ table'[Len(table')].kind = "file"
    BY <2>1, <2>2, FileRecorded
  <2> QED
    BY <1>8, <2>1, <2>3
<1>10. ASSUME NEW p \in Peer, NEW name \in FileName, handleFileMessage(p, name)
       PROVE  RecentIsFreshAfterChat'
  <2>1. PICK out \in BOOLEAN, path \in Seq(Nat) : out = FALSE /\ path = saveIncomingFile(name)
    BY SavedIsNew DEF Inv
  <2>2. /\ UNCHANGED <<running, storageReady, recent>>
        /\ table' = recordChatHistory(p, "file", out, path)
    BY <1>10, <2>1 DEF handleFileMessage
  <2>3. table' = table \/ table'[Len(table')].kind = "file"
    BY <2>2, FileRecorded
  <2> QED
    BY <1>8, <2>2, <2>3
<1> QED
  BY <1>2, <1>3, <1>4, <1>5, <1>6, <1>7, <1>9, <1>10 DEF Next

\* refresh is called on every chat message, after it was recorded: unless the newest row
\* is a file the list of recent chats is what the query says of the rows, for any number
\* of peers with the same or different stamps.
THEOREM RecentIsFreshAfterChats == Spec => []RecentIsFreshAfterChat
<1>1. Init => Inv /\ RecentIsFreshAfterChat
  <2>1. Init => RecentIsFreshAfterChat
    BY DEF Init, RecentIsFreshAfterChat
  <2> QED
    BY <2>1, InvInit
<1>2. Inv /\ RecentIsFreshAfterChat /\ [Next]_vars => Inv' /\ RecentIsFreshAfterChat'
  BY InvNext, FreshNext
<1> QED
  BY <1>1, <1>2, PTL DEF Spec

(***************************************************************************)
(* The history.                                                             *)
(***************************************************************************)
Handed(rows) == [k \in 1..Len(rows) |-> [peer |-> rows[k].peer, kind |-> rows[k].kind]]

SentRows(t, b) == {i \in b + 1..Len(t) : t[i].out}

LEMMA HandedAppend ==
  ASSUME NEW rows \in Seq(Row), NEW row \in Row
  PROVE  /\ Handed(rows) \in Seq([peer : Peer, kind : {"chat", "file"}])
         /\ Handed(Append(rows, row))
              = Append(Handed(rows), [peer |-> row.peer, kind |-> row.kind])
<1>1. PICK T : T = [peer : Peer, kind : {"chat", "file"}]
  OBVIOUS
<1>2. PICK m \in Nat : m = Len(rows)
  OBVIOUS
<1>3. ASSUME NEW r \in Row PROVE [peer |-> r.peer, kind |-> r.kind] \in T
  BY <1>1 DEF Row
<1>4. PICK all \in Seq(Row) : /\ all = Append(rows, row) /\ Len(all) = m + 1
                              /\ all[m + 1] = row
                              /\ \A k \in 1..m : all[k] = rows[k]
  <2>1. /\ Append(rows, row) \in Seq(Row) /\ Len(Append(rows, row)) = m + 1
        /\ Append(rows, row)[m + 1] = row
        /\ \A k \in 1..m : Append(rows, row)[k] = rows[k]
    BY <1>2, AppendProperties
  <2> QED
    BY <2>1
<1> DEFINE h == [k \in 1..m |-> [peer |-> rows[k].peer, kind |-> rows[k].kind]]
           g == [k \in 1..m + 1 |-> [peer |-> all[k].peer, kind |-> all[k].kind]]
           e == [peer |-> row.peer, kind |-> row.kind]
<1>5. \A k \in 1..m : rows[k] \in Row
  BY <1>2, ElementOfSeq
<1>6. h \in [1..m -> T]
  BY <1>3, <1>5
<1>7. \A k \in 1..m + 1 : all[k] \in Row
  BY <1>4, ElementOfSeq
<1>8. g \in [1..m + 1 -> T]
  BY <1>3, <1>7
<1>9. e \in T
  BY <1>3
<1>10. h = Handed(rows) /\ g = Handed(Append(rows, row))
  BY <1>2, <1>4 DEF Handed
<1>11. /\ \A k \in 1..m : g[k] = h[k]
       /\ g[m + 1] = e
  BY <1>4
<1> HIDE DEF h, g, e
<1>12. h \in Seq(T) /\ Len(h) = m /\ g \in Seq(T) /\ Len(g) = m + 1
  BY <1>6, <1>8
<1>13. /\ Append(h, e) \in Seq(T) /\ Len(Append(h, e)) = m + 1
       /\ Append(h, e)[m + 1] = e
       /\ \A k \in 1..m : Append(h, e)[k] = h[k]
  BY <1>9, <1>12, AppendProperties
<1>14. ASSUME NEW k \in 1..m + 1 PROVE g[k] = Append(h, e)[k]
  <2>1. k = m + 1 \/ k \in 1..m
    OBVIOUS
  <2> QED
    BY <1>11, <1>13, <2>1
<1>15. g = Append(h, e)
  BY <1>12, <1>13, <1>14, SeqEqual
<1> QED
  BY <1>1, <1>10, <1>12, <1>15 DEF e

LEMMA SentRowsAppend ==
  ASSUME NEW t \in Seq(Row), NEW row \in Row, NEW b \in Nat, b <= Len(t)
  PROVE  /\ SentRows(t, b) \in SUBSET (1..Len(t))
         /\ row.out => SentRows(Append(t, row), b) = SentRows(t, b) \cup {Len(t) + 1}
         /\ ~row.out => SentRows(Append(t, row), b) = SentRows(t, b)
<1>1. PICK n \in Nat : n = Len(t)
  OBVIOUS
<1>2. PICK all : /\ all = Append(t, row) /\ Len(all) = n + 1 /\ all[n + 1] = row
                 /\ \A k \in 1..n : all[k] = t[k]
  <2>1. /\ Len(Append(t, row)) = n + 1 /\ Append(t, row)[n + 1] = row
        /\ \A k \in 1..n : Append(t, row)[k] = t[k]
    BY <1>1, AppendProperties
  <2> QED
    BY <2>1
<1>3. \A k : k \in b + 1..n + 1 <=> (k = n + 1 \/ k \in b + 1..n)
  <2>1. b <= n
    BY <1>1
  <2> QED
    BY <2>1
<1>4. \A k \in b + 1..n : k \in 1..n /\ k # n + 1
  OBVIOUS
<1>5. SentRows(all, b) = {i \in b + 1..n + 1 : all[i].out}
  BY <1>2 DEF SentRows
<1>6. SentRows(t, b) = {i \in b + 1..n : t[i].out}
  BY <1>1 DEF SentRows
<1> QED
  BY <1>1, <1>2, <1>3, <1>4, <1>5, <1>6

LEMMA HistoryIs ==
  HistoryMatchesSent <=> (storageReady => sent = Handed(select(table, SentRows(table, began))))
BY DEF HistoryMatchesSent, Handed, SentRows

LEMMA HistoryNext ==
  ASSUME Inv, HistoryMatchesSent, [Next]_vars
  PROVE  HistoryMatchesSent'
<1> DEFINE T == [peer : Peer, kind : {"chat", "file"}]
<1>1. CASE Quiet \/ \E p \in Peer : handlePeerSelection(p)
  <2>1. UNCHANGED <<storageReady, table, sent, began>>
    BY <1>1 DEF Quiet, handlePeerSelection, ghost
  <2> QED
    BY <2>1 DEF HistoryMatchesSent
<1>2. CASE stop
  BY <1>2 DEF stop, HistoryMatchesSent
<1>3. CASE start
  <2>1. sent' = <<>> /\ table' = table /\ began' = Len(table) /\ table \in Seq(Row)
    BY <1>3 DEF start, Inv, ViewInv, FilesInv
  <2>2. PICK n \in Nat : n = Len(table)
    BY <2>1
  <2>3. SentRows(table', began') = {}
    BY <2>1, <2>2 DEF SentRows
  <2>4. Len(select(table', {})) = 0
    <3>1. {} \in SUBSET (1..Len(table)) /\ Cardinality({}) = 0
      BY FS_EmptySet
    <3> QED
      BY <2>1, <3>1, Select
  <2>5. Handed(select(table', {})) = <<>>
    BY <2>4 DEF Handed
  <2> QED
    BY <2>1, <2>3, <2>5 DEF HistoryMatchesSent, Handed, SentRows
<1>4. CASE WriteSteps
  <2>1. PICK p \in Peer, kind \in {"chat", "file"}, out \in BOOLEAN : Writes(p, kind, out)
    BY <1>4, WriteStep
  <2>2. UNCHANGED <<storageReady, began>>
    BY <2>1 DEF Writes
  <2>3. /\ table \in Seq(Row) /\ began \in Nat /\ began <= Len(table)
        /\ storageReady => sent = Handed(select(table, SentRows(table, began)))
    BY HistoryIs DEF Inv, TypeOK, ViewInv
  <2>4. PICK P : P = SentRows(table, began)
    OBVIOUS
  <2>5. P \in SUBSET (1..Len(table)) /\ select(table, P) \in Seq(Row)
    <3>1. PICK row : row \in Row
      <4>1. [peer |-> p, kind |-> kind, out |-> out, at |-> 0, path |-> <<>>] \in Row
        BY DEF Row
      <4> QED
        BY <4>1
    <3>2. P \in SUBSET (1..Len(table))
      BY <2>3, <2>4, <3>1, SentRowsAppend
    <3> QED
      BY <2>3, <3>2, Select
  <2>6. CASE storageReady /\ table' = table
    <3>1. sent' = sent
      BY <2>1, <2>6 DEF Writes
    <3> QED
      BY <2>2, <2>6, <3>1 DEF HistoryMatchesSent
  <2>7. ASSUME storageReady, NEW row \in Row, row.peer = p, row.kind = kind, row.out = out,
               table' = Append(table, row)
        PROVE  sent' = Handed(select(table', SentRows(table', began)))
    <3>1. table' # table
      <4>1. Len(Append(table, row)) = Len(table) + 1 /\ Len(table) \in Nat
        BY <2>3, AppendProperties
      <4> QED
        BY <2>7, <4>1
    <3>2. /\ select(Append(table, row), P) = select(table, P)
          /\ select(Append(table, row), P \cup {Len(table) + 1}) = Append(select(table, P), row)
      BY <2>3, <2>5, SelectAppend
    <3>3. CASE out
      <4>1. sent' = Append(sent, [peer |-> p, kind |-> kind])
        BY <2>1, <3>1, <3>3 DEF Writes
      <4>2. SentRows(table', began) = P \cup {Len(table) + 1}
        BY <2>3, <2>4, <2>7, <3>3, SentRowsAppend
      <4>3. select(table', SentRows(table', began)) = Append(select(table, P), row)
        BY <2>7, <3>2, <4>2
      <4>4. Handed(Append(select(table, P), row))
              = Append(Handed(select(table, P)), [peer |-> row.peer, kind |-> row.kind])
        BY <2>5, HandedAppend
      <4> QED
        BY <2>3, <2>4, <2>7, <4>1, <4>3, <4>4
    <3>4. CASE ~out
      <4>1. sent' = sent
        BY <2>1, <3>4 DEF Writes
      <4>2. SentRows(table', began) = P
        BY <2>3, <2>4, <2>7, <3>4, SentRowsAppend
      <4> QED
        BY <2>3, <2>4, <2>7, <3>2, <4>1, <4>2
    <3> QED
      BY <3>3, <3>4
  <2>8. CASE storageReady /\ table' # table
    <3>1. PICK row \in Row : /\ row.peer = p /\ row.kind = kind /\ row.out = out
                            /\ table' = Append(table, row)
      BY <2>1, <2>8 DEF Writes
    <3>2. sent' = Handed(select(table', SentRows(table', began)))
      BY <2>7, <2>8, <3>1
    <3> QED
      BY <2>2, <3>2 DEF HistoryMatchesSent, Handed, SentRows
  <2>9. CASE ~storageReady
    BY <2>2, <2>9 DEF HistoryMatchesSent
  <2> QED
    BY <2>6, <2>8, <2>9
<1> QED
  BY <1>1, <1>2, <1>3, <1>4, Steps

\* sendMessageToPeer and sendFileToPeer: what the history claims was sent by this process
\* is what was handed to the router, in the same order, for any number of messages.
THEOREM HistoryIsWhatWasSent == Spec => []HistoryMatchesSent
<1>1. Init => Inv /\ HistoryMatchesSent
  <2>1. Init => HistoryMatchesSent
    BY DEF Init, HistoryMatchesSent
  <2> QED
    BY <2>1, InvInit
<1>2. Inv /\ HistoryMatchesSent /\ [Next]_vars => Inv' /\ HistoryMatchesSent'
  BY InvNext, HistoryNext
<1> QED
  BY <1>1, <1>2, PTL DEF Spec

(***************************************************************************)
(* The open conversation.                                                   *)
(***************************************************************************)

\* The entries of c in tl that a row stands behind show the rows in X, each of them once.
Shows(tl, c, X) ==
  LET mine == {k \in 1..Len(tl) : tl[k].peer = c /\ tl[k].row # 0}
  IN  /\ {tl[k].row : k \in mine} = X
      /\ \A j, k \in mine : tl[j].row = tl[k].row => j = k

\* The rows the panel had when c was opened, and those that came since.
Found(t, c, limit) == LET ids == recentMessages(t, c, limit)
                      IN  {ids[k] : k \in 1..Len(ids)}

Opened(t, o, c) == Found(SubSeq(t, 1, o), c, HistoryLimit)

Since(t, o, c) == {i \in rowsOf(t, c) : i > o /\ ~(t[i].out /\ t[i].kind = "file")}

\* The panel in terms of the query: what is inductive.
PanelRows ==
  (storageReady /\ current # NoPeer)
    => Shows(timeline, current, Opened(table, opened, current) \cup Since(table, opened, current))

LEMMA ShowsAppend ==
  ASSUME NEW tl \in Seq(Entry), NEW e \in Entry, NEW c, NEW X, NEW n \in Nat,
         Shows(tl, c, X), \A k \in 1..Len(tl) : tl[k].row <= n
  PROVE  /\ (e.row = 0 \/ e.peer # c) => Shows(Append(tl, e), c, X)
         /\ (e.row = n + 1 /\ e.peer = c) => Shows(Append(tl, e), c, X \cup {n + 1})
<1>1. PICK m \in Nat : m = Len(tl)
  OBVIOUS
<1>2. PICK all : /\ all = Append(tl, e) /\ Len(all) = m + 1 /\ all[m + 1] = e
                 /\ \A k \in 1..m : all[k] = tl[k]
  <2>1. /\ Len(Append(tl, e)) = m + 1 /\ Append(tl, e)[m + 1] = e
        /\ \A k \in 1..m : Append(tl, e)[k] = tl[k]
    BY <1>1, AppendProperties
  <2> QED
    BY <2>1
<1> DEFINE M == {k \in 1..m : tl[k].peer = c /\ tl[k].row # 0}
           A == {k \in 1..m + 1 : all[k].peer = c /\ all[k].row # 0}
<1>3. /\ {tl[k].row : k \in M} = X
      /\ \A j, k \in M : tl[j].row = tl[k].row => j = k
  BY <1>1 DEF Shows
<1>4. Shows(Append(tl, e), c, {all[k].row : k \in A})
        <=> \A j, k \in A : all[j].row = all[k].row => j = k
  BY <1>2 DEF Shows
<1>5. \A k : k \in 1..m + 1 <=> (k \in 1..m \/ k = m + 1)
  OBVIOUS
<1>6. \A k \in M : k \in 1..m /\ all[k].row = tl[k].row /\ k # m + 1
  BY <1>2
<1>7. CASE e.row = 0 \/ e.peer # c
  <2>1. A = M
    BY <1>2, <1>5, <1>7
  <2>2. {all[k].row : k \in A} = X
    BY <1>3, <1>6, <2>1
  <2>3. \A j, k \in A : all[j].row = all[k].row => j = k
    BY <1>3, <1>6, <2>1
  <2>4. Shows(Append(tl, e), c, X)
    BY <1>4, <2>2, <2>3
  <2> QED
    <3>1. ~(e.row = n + 1 /\ e.peer = c)
      BY <1>7
    <3> QED
      BY <2>4, <3>1
<1>8. CASE e.row = n + 1 /\ e.peer = c
  <2>1. A = M \cup {m + 1} /\ all[m + 1].row = n + 1
    <3>1. e.row # 0
      BY <1>8
    <3> QED
      BY <1>2, <1>5, <1>8, <3>1
  <2>2. \A k \in M : all[k].row # n + 1
    <3>1. ASSUME NEW k \in M PROVE tl[k].row # n + 1
      <4>1. tl[k] \in Entry /\ tl[k].row <= n
        BY <1>1, ElementOfSeq
      <4>2. tl[k].row \in Nat
        BY <4>1 DEF Entry
      <4> QED
        BY <4>1, <4>2
    <3> QED
      BY <1>6, <3>1
  <2>3. {all[k].row : k \in A} = X \cup {n + 1}
    BY <1>3, <1>6, <2>1
  <2>4. \A j, k \in A : all[j].row = all[k].row => j = k
    BY <1>3, <1>6, <2>1, <2>2
  <2>5. Shows(Append(tl, e), c, X \cup {n + 1})
    BY <1>4, <2>3, <2>4
  <2> QED
    <3>1. e.row # 0
      BY <1>8
    <3> QED
      BY <1>8, <2>5, <3>1
<1> QED
  BY <1>7, <1>8

LEMMA SinceAppend ==
  ASSUME NEW t \in Seq(Row), NEW row \in Row, NEW o \in Nat, o <= Len(t), NEW c
  PROVE  /\ Opened(Append(t, row), o, c) = Opened(t, o, c)
         /\ (row.peer = c /\ ~(row.out /\ row.kind = "file"))
              => Since(Append(t, row), o, c) = Since(t, o, c) \cup {Len(t) + 1}
         /\ (row.peer # c \/ (row.out /\ row.kind = "file"))
              => Since(Append(t, row), o, c) = Since(t, o, c)
<1>1. PICK n \in Nat : n = Len(t)
  OBVIOUS
<1>2. PICK all \in Seq(Row) : /\ all = Append(t, row) /\ Len(all) = n + 1 /\ all[n + 1] = row
                              /\ \A k \in 1..n : all[k] = t[k]
  <2>1. /\ Append(t, row) \in Seq(Row)
        /\ Len(Append(t, row)) = n + 1 /\ Append(t, row)[n + 1] = row
        /\ \A k \in 1..n : Append(t, row)[k] = t[k]
    BY <1>1, AppendProperties
  <2> QED
    BY <2>1
<1>3. \A k : k \in 1..n + 1 <=> (k \in 1..n \/ k = n + 1)
  OBVIOUS
<1>4. Since(all, o, c) = {i \in 1..n + 1 : all[i].peer = c /\ i > o
                                          /\ ~(all[i].out /\ all[i].kind = "file")}
  BY <1>2 DEF Since, rowsOf
<1>5. Since(t, o, c) = {i \in 1..n : t[i].peer = c /\ i > o /\ ~(t[i].out /\ t[i].kind = "file")}
  BY <1>1 DEF Since, rowsOf
<1>6. n + 1 > o
  BY <1>1
<1>7. SubSeq(all, 1, o) = SubSeq(t, 1, o)
  <2>1. o <= n
    BY <1>1
  <2>2. \A i \in 1..o : i \in 1..n
    BY <2>1
  <2>3. /\ \A i \in 1..o : all[i] \in Row /\ t[i] \in Row /\ all[i] = t[i]
    BY <1>1, <1>2, <2>2, ElementOfSeq
  <2>4. 1 \in Int /\ o \in Int /\ o - 1 + 1 = o /\ (1 <= o \/ o = 0)
    OBVIOUS
  <2>5. /\ SubSeq(all, 1, o) \in Seq(Row) /\ SubSeq(t, 1, o) \in Seq(Row)
        /\ Len(SubSeq(all, 1, o)) = o /\ Len(SubSeq(t, 1, o)) = o
        /\ \A i \in 1..o : SubSeq(all, 1, o)[i] = all[i] /\ SubSeq(t, 1, o)[i] = t[i]
    <3>1. /\ SubSeq(all, 1, o) \in Seq(Row)
          /\ Len(SubSeq(all, 1, o)) = IF 1 <= o THEN o - 1 + 1 ELSE 0
          /\ \A i \in 1..o - 1 + 1 : SubSeq(all, 1, o)[i] = all[1 + i - 1]
      BY <2>3, <2>4, SubSeqProperties
    <3>2. /\ SubSeq(t, 1, o) \in Seq(Row)
          /\ Len(SubSeq(t, 1, o)) = IF 1 <= o THEN o - 1 + 1 ELSE 0
          /\ \A i \in 1..o - 1 + 1 : SubSeq(t, 1, o)[i] = t[1 + i - 1]
      BY <2>3, <2>4, SubSeqProperties
    <3>3. \A i \in 1..o : 1 + i - 1 = i
      OBVIOUS
    <3> QED
      BY <2>4, <3>1, <3>2, <3>3
  <2> QED
    BY <2>3, <2>5, SeqEqual
<1>8. Opened(all, o, c) = Opened(t, o, c)
  BY <1>7 DEF Opened
<1>9. \A k \in 1..n : k # n + 1
  OBVIOUS
<1>10. CASE row.peer = c /\ ~(row.out /\ row.kind = "file")
  <2>1. Since(all, o, c) = Since(t, o, c) \cup {n + 1}
    BY <1>2, <1>3, <1>4, <1>5, <1>6, <1>9, <1>10
  <2> QED
    BY <1>1, <1>2, <1>8, <1>10, <2>1
<1>11. CASE row.peer # c \/ (row.out /\ row.kind = "file")
  <2>1. Since(all, o, c) = Since(t, o, c)
    BY <1>2, <1>3, <1>4, <1>5, <1>9, <1>11
  <2> QED
    BY <1>1, <1>2, <1>8, <1>11, <2>1
<1> QED
  BY <1>10, <1>11

LEMMA WritesWhole ==
  ASSUME Inv, NEW p \in Peer, NEW kind \in {"chat", "file"}, NEW out \in BOOLEAN,
         Writes(p, kind, out), storageReady, NEW c, current = c, NEW X,
         X = Since(table, opened, c), NEW Y, Y = Opened(table, opened, c),
         Shows(timeline, c, Y \cup X)
  PROVE  Shows(timeline', c, Opened(table', opened, c) \cup Since(table', opened, c))
<1>1. /\ table \in Seq(Row) /\ timeline \in Seq(Entry) /\ opened \in Nat /\ opened <= Len(table)
      /\ \A k \in 1..Len(timeline) : timeline[k].row <= Len(table)
  BY DEF Inv, TypeOK, ViewInv
<1>2. PICK n \in Nat : n = Len(table)
  BY <1>1
<1>3. CASE table' = table
  <2>1. CASE timeline' = timeline
    BY <1>3, <2>1
  <2>2. ASSUME NEW e \in Entry, e.row = 0, timeline' = Append(timeline, e)
        PROVE  Shows(timeline', c, Y \cup X)
    BY <1>1, <1>2, <2>2, ShowsAppend
  <2> QED
    BY <1>3, <2>1, <2>2 DEF Writes
<1>4. ASSUME table' # table, NEW row \in Row, row.peer = p, row.kind = kind, row.out = out,
             table' = Append(table, row)
      PROVE  Shows(timeline', c, Opened(table', opened, c) \cup Since(table', opened, c))
  <2>1. /\ Opened(table', opened, c) = Y
        /\ (p = c /\ ~(out /\ kind = "file")) => Since(table', opened, c) = X \cup {n + 1}
        /\ (p # c \/ (out /\ kind = "file")) => Since(table', opened, c) = X
    BY <1>1, <1>2, <1>4, SinceAppend
  <2>2. CASE timeline' = timeline /\ kind = "file" /\ out
    BY <2>1, <2>2
  <2>3. ASSUME NEW e \in Entry, e.peer = p, e.row = n + 1, timeline' = Append(timeline, e),
               kind = "chat" \/ ~out
        PROVE  Shows(timeline', c, Opened(table', opened, c) \cup Since(table', opened, c))
    <3>1. /\ p # c => Shows(timeline', c, Y \cup X)
          /\ p = c => Shows(timeline', c, (Y \cup X) \cup {n + 1})
      BY <1>1, <1>2, <2>3, ShowsAppend
    <3>2. (Y \cup X) \cup {n + 1} = Y \cup (X \cup {n + 1})
      OBVIOUS
    <3>3. ~(out /\ kind = "file")
      BY <2>3
    <3>4. CASE p = c
      BY <2>1, <3>1, <3>2, <3>3, <3>4
    <3>5. CASE p # c
      BY <2>1, <3>1, <3>5
    <3> QED
      BY <3>4, <3>5
  <2> QED
    BY <1>2, <1>4, <2>2, <2>3 DEF Writes
<1> QED
  BY <1>3, <1>4 DEF Writes

LEMMA LoadedWhole ==
  ASSUME Inv, NEW p \in Peer
  PROVE  Shows(loaded(p), p, Opened(table, Len(table), p) \cup Since(table, Len(table), p))
<1>1. table \in Seq(Row)
  BY DEF Inv, FilesInv
<1>2. PICK ids \in Seq(rowsOf(table, p)) :
        /\ ids = recentMessages(table, p, HistoryLimit)
        /\ \A j, k \in 1..Len(ids) : j < k => ids[j] # ids[k]
  BY <1>1, RecentMessages, LimitAssumption
<1>3. PICK n \in Nat : n = Len(ids)
  BY <1>2
<1>4. PICK f : /\ f = loaded(p) /\ Len(f) = n
               /\ \A k \in 1..n : f[k].peer = p /\ f[k].row = ids[n - k + 1]
  BY <1>2, <1>3, LoadedIs
<1>5. \A k \in 1..n : n - k + 1 \in 1..n /\ n - (n - k + 1) + 1 = k
  OBVIOUS
<1>6. ASSUME NEW k \in 1..n PROVE ids[k] # 0
  <2>1. ids[k] \in rowsOf(table, p)
    BY <1>3, ElementOfSeq
  <2>2. ids[k] \in 1..Len(table)
    BY <2>1 DEF rowsOf
  <2> QED
    BY <2>2
<1>7. {k \in 1..n : f[k].peer = p /\ f[k].row # 0} = 1..n
  BY <1>4, <1>5, <1>6
<1>8. {f[k].row : k \in 1..n} = {ids[k] : k \in 1..n}
  BY <1>4, <1>5
<1>9. ASSUME NEW j \in 1..n, NEW k \in 1..n, f[j].row = f[k].row
      PROVE  j = k
  <2>1. PICK a \in 1..n, b \in 1..n : a = n - j + 1 /\ b = n - k + 1
    BY <1>5
  <2>2. ids[a] = ids[b]
    BY <1>4, <1>9, <2>1
  <2>3. ~(a < b) /\ ~(b < a)
    BY <1>2, <1>3, <2>2
  <2> QED
    BY <2>1, <2>3
<1>10. Shows(f, p, {ids[k] : k \in 1..n})
  BY <1>4, <1>7, <1>8, <1>9 DEF Shows
<1>11. Opened(table, Len(table), p) = {ids[k] : k \in 1..n}
  <2>1. SubSeq(table, 1, Len(table)) = table
    BY <1>1, SubSeqFull
  <2> QED
    BY <1>2, <1>3, <2>1 DEF Opened, Found
<1>12. Since(table, Len(table), p) = {}
  <2>1. PICK m \in Nat : m = Len(table)
    BY <1>1
  <2> QED
    BY <2>1 DEF Since, rowsOf
<1> QED
  BY <1>4, <1>10, <1>11, <1>12

LEMMA PanelNext ==
  ASSUME Inv, PanelRows, [Next]_vars
  PROVE  PanelRows'
<1>1. CASE start \/ stop
  <2>1. current' = NoPeer
    BY <1>1 DEF start, stop, Inv, ViewInv
  <2> QED
    BY <2>1 DEF PanelRows
<1>2. CASE Quiet
  <2>1. UNCHANGED <<storageReady, table, timeline, current, opened>>
    BY <1>2 DEF Quiet, ghost
  <2> QED
    BY <2>1 DEF PanelRows
<1>3. ASSUME NEW p \in Peer, handlePeerSelection(p), storageReady
      PROVE  PanelRows'
  <2>1. /\ current' = p /\ opened' = Len(table) /\ table' = table
        /\ timeline' = loaded(p)
    BY <1>3 DEF handlePeerSelection, loadConversation
  <2>2. Shows(timeline', current', Opened(table', opened', current')
                                     \cup Since(table', opened', current'))
    BY <2>1, LoadedWhole
  <2> QED
    BY <2>2 DEF PanelRows
<1>4. ASSUME NEW p \in Peer, handlePeerSelection(p), ~storageReady
      PROVE  PanelRows'
  BY <1>4 DEF handlePeerSelection, PanelRows
<1>5. CASE WriteSteps
  <2>1. PICK p \in Peer, kind \in {"chat", "file"}, out \in BOOLEAN : Writes(p, kind, out)
    BY <1>5, WriteStep
  <2>2. UNCHANGED <<storageReady, current, opened>>
    BY <2>1 DEF Writes
  <2>3. CASE storageReady /\ current # NoPeer
    <3>1. Shows(timeline, current, Opened(table, opened, current) \cup Since(table, opened, current))
      BY <2>3 DEF PanelRows
    <3>2. PICK c : c = current
      OBVIOUS
    <3>3. Shows(timeline', c, Opened(table', opened, c) \cup Since(table', opened, c))
      BY <2>1, <2>3, <3>1, <3>2, WritesWhole
    <3> QED
      BY <2>2, <3>2, <3>3 DEF PanelRows
  <2>4. CASE ~(storageReady /\ current # NoPeer)
    BY <2>2, <2>4 DEF PanelRows
  <2> QED
    BY <2>3, <2>4
<1> QED
  BY <1>1, <1>2, <1>3, <1>4, <1>5, Steps

\* What is left of the first o rows of t when only those of c are kept.
LEMMA FirstRows ==
  ASSUME NEW t \in Seq(Row), NEW o \in Nat, o <= Len(t), NEW c
  PROVE  /\ SubSeq(t, 1, o) \in Seq(Row)
         /\ rowsOf(SubSeq(t, 1, o), c) = {i \in rowsOf(t, c) : i <= o}
         /\ \A i \in rowsOf(SubSeq(t, 1, o), c) : SubSeq(t, 1, o)[i] = t[i]
<1>1. PICK n \in Nat : n = Len(t) /\ o <= n
  OBVIOUS
<1>2. \A i \in 1..o : i \in 1..n
  BY <1>1
<1>3. \A i \in 1..o : t[i] \in Row
  BY <1>1, <1>2, ElementOfSeq
<1>4. 1 \in Int /\ o \in Int /\ o - 1 + 1 = o /\ (1 <= o \/ o = 0)
  OBVIOUS
<1>5. /\ SubSeq(t, 1, o) \in Seq(Row)
      /\ Len(SubSeq(t, 1, o)) = IF 1 <= o THEN o - 1 + 1 ELSE 0
      /\ \A i \in 1..o - 1 + 1 : SubSeq(t, 1, o)[i] = t[1 + i - 1]
  BY <1>3, <1>4, SubSeqProperties
<1>6. \A i \in 1..o : 1 + i - 1 = i
  OBVIOUS
<1>7. PICK u \in Seq(Row) : /\ u = SubSeq(t, 1, o) /\ Len(u) = o
                            /\ \A i \in 1..o : u[i] = t[i]
  BY <1>4, <1>5, <1>6
<1>8. rowsOf(u, c) = {i \in 1..o : t[i].peer = c}
  BY <1>7 DEF rowsOf
<1>9. {i \in rowsOf(t, c) : i <= o} = {i \in 1..n : t[i].peer = c /\ i <= o}
  BY <1>1 DEF rowsOf
<1>10. \A i : i \in 1..o <=> (i \in 1..n /\ i <= o)
  BY <1>1
<1> QED
  BY <1>7, <1>8, <1>9, <1>10

\* The query without recentMessages: as many rows of c as there are or as the limit
\* allows, and none of a later second than one of them is missing.
LEMMA QueryFinds ==
  ASSUME NEW t \in Seq(Row), NEW c, NEW limit \in Nat, NEW S, S = rowsOf(t, c),
         NEW X, X = Found(t, c, limit)
  PROVE  /\ X \subseteq S
         /\ Cardinality(X) = IF Cardinality(S) < limit THEN Cardinality(S) ELSE limit
         /\ \A i \in S \ X, j \in X : t[i].at <= t[j].at
<1>1. PICK R : R = newestFirst(t, S)
  OBVIOUS
<1>2. /\ IsFiniteSet(S) /\ IsOrder(S, R)
      /\ \A i \in S : t[i].at \in Int
      /\ \A i, j \in S : <<i, j>> \in R => t[i].at >= t[j].at
  BY <1>1, RowsOf, NewestFirst DEF newestFirst
<1>3. PICK n : n = Cardinality(S)
  OBVIOUS
<1>4. PICK s : s = inOrder(S, R)
  OBVIOUS
<1>5. /\ n \in Nat /\ s \in Seq(S) /\ Len(s) = n
      /\ \A j, k \in 1..n : j < k => <<s[j], s[k]>> \in R
      /\ \A i \in S : \E k \in 1..n : s[k] = i
  BY <1>2, <1>3, <1>4, InOrder
<1>6. recentMessages(t, c, limit) = take(s, limit)
  BY <1>1, <1>4 DEF recentMessages
<1>7. PICK m \in Nat : m = (IF n < limit THEN n ELSE limit) /\ m <= n
  BY <1>5
<1>8. PICK u \in Seq(S) : /\ u = recentMessages(t, c, limit) /\ Len(u) = m
                         /\ \A k \in 1..m : u[k] = s[k]
  <2>1. /\ take(s, limit) \in Seq(S)
        /\ Len(take(s, limit)) = IF Len(s) < limit THEN Len(s) ELSE limit
        /\ \A k \in 1..Len(take(s, limit)) : take(s, limit)[k] = s[k]
    BY <1>5, Take
  <2> QED
    BY <1>5, <1>6, <1>7, <2>1
<1>9. X = {u[k] : k \in 1..m}
  BY <1>8 DEF Found
<1>10. \A k \in 1..m : k \in 1..n /\ u[k] \in S
  BY <1>7, <1>8, ElementOfSeq
<1>11. X \subseteq S
  BY <1>9, <1>10
<1>12. IsOrder(X, R)
  BY <1>2, <1>11 DEF IsOrder
<1>13. PICK v : v = [k \in 1..m |-> u[k]]
  OBVIOUS
<1>14. Enumerates(v, m, X, R)
  <2>1. v \in [1..m -> X]
    BY <1>9, <1>13
  <2>2. \A j, k \in 1..m : j < k => <<v[j], v[k]>> \in R
    <3>1. SUFFICES ASSUME NEW j \in 1..m, NEW k \in 1..m, j < k
                   PROVE  <<v[j], v[k]>> \in R
      OBVIOUS
    <3>2. v[j] = s[j] /\ v[k] = s[k] /\ j \in 1..n /\ k \in 1..n
      BY <1>8, <1>10, <1>13
    <3> QED
      BY <1>5, <3>1, <3>2
  <2>3. \A i \in X : \E k \in 1..m : v[k] = i
    BY <1>9, <1>13
  <2> QED
    BY <2>1, <2>2, <2>3 DEF Enumerates
<1>15. Cardinality(X) = m
  BY <1>12, <1>14, InOrderUnique
<1>16. ASSUME NEW i \in S \ X, NEW j \in X
       PROVE  t[i].at <= t[j].at
  <2>1. PICK k \in 1..n : s[k] = i
    BY <1>5
  <2>2. PICK l \in 1..m : s[l] = j
    BY <1>8, <1>9
  <2>3. k \notin 1..m
    BY <1>8, <1>9, <2>1
  <2>4. l < k /\ l \in 1..n
    BY <1>7, <2>1, <2>2, <2>3
  <2>5. <<j, i>> \in R
    BY <1>5, <2>1, <2>2, <2>4
  <2>6. t[j].at >= t[i].at /\ t[i].at \in Int /\ t[j].at \in Int
    BY <1>2, <1>11, <2>5
  <2> QED
    BY <2>6
<1> QED
  BY <1>3, <1>7, <1>11, <1>15, <1>16

LEMMA OpenedRows ==
  ASSUME NEW t \in Seq(Row), NEW o \in Nat, o <= Len(t), NEW c,
         NEW old, old = {i \in rowsOf(t, c) : i <= o}, NEW X, X = Opened(t, o, c)
  PROVE  /\ X \subseteq old
         /\ Cardinality(X) = IF Cardinality(old) < HistoryLimit
                             THEN Cardinality(old) ELSE HistoryLimit
         /\ \A i \in old \ X, j \in X : t[i].at <= t[j].at
<1>1. PICK u \in Seq(Row) : /\ u = SubSeq(t, 1, o) /\ rowsOf(u, c) = old
                            /\ \A i \in rowsOf(u, c) : u[i] = t[i]
  <2>1. /\ SubSeq(t, 1, o) \in Seq(Row)
        /\ rowsOf(SubSeq(t, 1, o), c) = {i \in rowsOf(t, c) : i <= o}
        /\ \A i \in rowsOf(SubSeq(t, 1, o), c) : SubSeq(t, 1, o)[i] = t[i]
    BY FirstRows
  <2> QED
    BY <2>1
<1>2. \A i \in old : u[i] = t[i]
  BY <1>1
<1>3. X = Found(u, c, HistoryLimit)
  BY <1>1 DEF Opened
<1>4. PICK limit \in Nat : limit = HistoryLimit
  BY LimitAssumption
<1>5. /\ X \subseteq old
      /\ Cardinality(X) = IF Cardinality(old) < HistoryLimit
                          THEN Cardinality(old) ELSE HistoryLimit
      /\ \A i \in old \ X, j \in X : u[i].at <= u[j].at
  <2>1. X = Found(u, c, limit)
    BY <1>3, <1>4
  <2>2. /\ X \subseteq old
        /\ Cardinality(X) = IF Cardinality(old) < limit THEN Cardinality(old) ELSE limit
        /\ \A i \in old \ X, j \in X : u[i].at <= u[j].at
    <3>1. old = rowsOf(u, c)
      BY <1>1
    <3> QED
      BY <2>1, <3>1, QueryFinds
  <2> QED
    BY <1>4, <2>2
<1> QED
  BY <1>2, <1>5

LEMMA PanelIsWhole ==
  ASSUME Inv, PanelRows
  PROVE  ConversationIsWhole
<1> SUFFICES ASSUME storageReady, current # NoPeer
             PROVE  ConversationIsWhole
  BY DEF ConversationIsWhole
<1> DEFINE old == {i \in rowsOf(table, current) : i <= opened}
           mine == {k \in 1..Len(timeline) : timeline[k].peer = current /\ timeline[k].row # 0}
           shown == {timeline[k].row : k \in mine}
           X == Opened(table, opened, current)
           new == Since(table, opened, current)
<1>1. table \in Seq(Row) /\ opened \in Nat /\ opened <= Len(table)
  BY DEF Inv, TypeOK, ViewInv
<1>2. /\ shown = X \cup new
      /\ \A j, k \in mine : timeline[j].row = timeline[k].row => j = k
  BY DEF PanelRows, Shows
<1>3. PICK t, o, c : /\ t = table /\ o = opened /\ c = current
                    /\ t \in Seq(Row) /\ o \in Nat
  BY <1>1
<1>4. PICK before, found : before = {i \in rowsOf(t, c) : i <= o} /\ found = Opened(t, o, c)
  <2>1. \E before : before = {i \in rowsOf(t, c) : i <= o}
    OBVIOUS
  <2>2. \E found : found = Opened(t, o, c)
    OBVIOUS
  <2> QED
    BY <2>1, <2>2
<1>5. /\ found \subseteq before
      /\ Cardinality(found) = IF Cardinality(before) < HistoryLimit
                              THEN Cardinality(before) ELSE HistoryLimit
      /\ \A i \in before \ found, j \in found : t[i].at <= t[j].at
  BY <1>1, <1>3, <1>4, OpenedRows
<1>6. old \cap new = {}
  BY <1>1 DEF Since, rowsOf
<1>7. X = found /\ old = before
  BY <1>3, <1>4
<1> HIDE DEF X, old, new, shown, mine
<1>8. old \cap shown = X /\ old \ shown = old \ X
  BY <1>2, <1>5, <1>6, <1>7
<1>9. \A i \in old \ shown, j \in old \cap shown : table[i].at <= table[j].at
  BY <1>3, <1>5, <1>7, <1>8
<1>10. Cardinality(old \cap shown) = IF Cardinality(old) < HistoryLimit
                                     THEN Cardinality(old) ELSE HistoryLimit
  BY <1>5, <1>7, <1>8
<1>11. new \subseteq shown /\ shown \subseteq old \cup new
  BY <1>2, <1>5, <1>7
<1> QED
  BY <1>2, <1>9, <1>10, <1>11 DEF ConversationIsWhole, Since, old, new, shown, mine

\* loadConversation and the appends after it: the open conversation shows each of its rows
\* at most once, of those from before it was opened as many as there are or as the limit
\* allows and none of a later second left out, and of those since all but the files sent,
\* for any number of rows, peers and messages of others and any limit.
THEOREM OpenConversationIsWhole == Spec => []ConversationIsWhole
<1>1. Init => Inv /\ PanelRows
  <2>1. Init => PanelRows
    BY DEF Init, PanelRows
  <2> QED
    BY <2>1, InvInit
<1>2. Inv /\ PanelRows /\ [Next]_vars => Inv' /\ PanelRows'
  BY InvNext, PanelNext
<1>3. Inv /\ PanelRows => ConversationIsWhole
  BY PanelIsWhole
<1> QED
  BY <1>1, <1>2, <1>3, PTL DEF Spec
=============================================================================
