-------------------------- MODULE Discovery_proofs --------------------------
(***************************************************************************)
(* Proofs about Discovery, for every set of machines, address width and     *)
(* list of segments.  TypeOK comes first; it rests on the ranges of the     *)
(* address arithmetic.  The invariants of the two tables of contacts are    *)
(* inductive with it, and the action properties follow from them.  The last *)
(* part is arithmetic, by induction on the bits: what the masks compare is  *)
(* the first bits of an address, so a black list holds what it says.        *)
(***************************************************************************)
EXTENDS Discovery, WellFoundedInduction, TLAPS

(***************************************************************************)
(* Ranges of the address arithmetic.                                        *)
(***************************************************************************)
LEMMA MaskedNat ==
  ASSUME NEW a \in Nat, NEW p \in 0..W
  PROVE  masked(a, p) \in Nat /\ masked(a, p) <= a
<1> DEFINE m == 2^(W - p)
<1>1. W - p \in 0..W
  BY WidthAssumption
<1>2. m \in Nat \ {0}
  BY <1>1, PowerAssumption
<1> HIDE DEF m
<1>3. a % m \in 0..(m - 1) /\ a % m <= a
  BY <1>2
<1>4. a - (a % m) \in Nat /\ a - (a % m) <= a
  BY <1>3
<1> QED
  BY <1>4 DEF masked, m

LEMMA BroadcastForNat ==
  ASSUME NEW r, r.network \in Nat \/ r.network = V6
  PROVE  /\ broadcastFor(r) \in Nat \cup {NoAddress}
         /\ (r.network \in Address /\ r.prefix \in 0..W) => broadcastFor(r) \in Nat
<1>1. CASE r.network \in Address /\ r.prefix \in 0..W
  <2> DEFINE m == 2^(W - r.prefix)
  <2>1. W - r.prefix \in 0..W
    BY <1>1, WidthAssumption
  <2>2. m \in Nat \ {0}
    BY <2>1, PowerAssumption
  <2>3. r.network \in Nat
    BY <1>1 DEF Address
  <2>4. masked(r.network, r.prefix) \in Nat
    BY <1>1, <2>3, MaskedNat
  <2>5. broadcastFor(r) = masked(r.network, r.prefix) + m - 1
    BY <1>1 DEF broadcastFor
  <2> HIDE DEF m
  <2> QED
    BY <2>2, <2>4, <2>5
<1>2. CASE ~(r.network \in Address /\ r.prefix \in 0..W)
  BY <1>2 DEF broadcastFor
<1> QED
  BY <1>1, <1>2

LEMMA BroadcastNat == Broadcast \in Nat
<1>1. 2^W \in Nat \ {0}
  BY WidthAssumption, PowerAssumption
<1> QED
  BY <1>1 DEF Broadcast

LEMMA SanitizedType ==
  ASSUME NEW list \in SubnetInput \cup BlockedInput
  PROVE  sanitized(list) \subseteq Subnet
<1> SUFFICES ASSUME NEW r \in list, isValid(r)
             PROVE  [network |-> normalizeNetwork(r.network, r.prefix),
                     prefix |-> r.prefix] \in Subnet
  BY DEF sanitized
<1>1. r \in [network : Address \cup {V6, NoAddress}, prefix : Int]
  BY InputAssumption
<1>2. r.prefix \in Nat /\ r.network \in Address \cup {V6}
  BY <1>1 DEF isValid
<1>3. normalizeNetwork(r.network, r.prefix) \in Nat \cup {V6}
  BY <1>2, MaskedNat DEF normalizeNetwork, Address
<1> QED
  BY <1>2, <1>3 DEF Subnet

LEMMA LanType ==
  ASSUME NEW a \in HostAddress
  PROVE  broadcastFor(lan(a)) \in Nat
<1>1. a \in Nat /\ a <= 2^W - 1
  BY HostAssumption DEF Address
<1>2. 2^W \in Nat \ {0}
  BY WidthAssumption, PowerAssumption
<1>3. masked(a, LanPrefix) \in Nat /\ masked(a, LanPrefix) <= a
  BY <1>1, LanAssumption, MaskedNat
<1>4. masked(a, LanPrefix) \in Address
  BY <1>1, <1>2, <1>3 DEF Address
<1> QED
  BY <1>3, <1>4, LanAssumption, BroadcastForNat DEF lan

LEMMA TargetsType ==
  ASSUME NEW a \in HostAddress, NEW ranges \in SUBSET Subnet, NEW blocked
  PROVE  broadcastTargets(a, ranges, blocked) \subseteq Nat
<1>1. \A r \in ranges : broadcastFor(r) \in Nat \cup {NoAddress}
  BY BroadcastForNat DEF Subnet
<1> QED
  BY <1>1, LanType, BroadcastNat DEF broadcastTargets

LEMMA SendType ==
  ASSUME TypeOK, NEW n \in Node, NEW i \in Id, NEW socket, NEW ranges \in SUBSET Subnet,
         NEW blocked, sendPacket(n, i, socket, ranges, blocked)
  PROVE  wire' \subseteq Datagram
<1>1. addr[n] \in HostAddress /\ wire \subseteq Datagram
  BY DEF TypeOK
<1>2. packets(i, addr[n], broadcastTargets(addr[n], ranges, blocked)) \subseteq Datagram
  BY <1>1, TargetsType DEF packets, Datagram
<1> QED
  BY <1>1, <1>2 DEF sendPacket

(***************************************************************************)
(* Type correctness, action by action.                                      *)
(***************************************************************************)
LEMMA TypeInit == Init => TypeOK
<1> SUFFICES ASSUME Init
             PROVE  TypeOK
  OBVIOUS
<1>1. noContacts \in [Id -> Seq(HostAddress)]
  BY DEF noContacts
<1>2. directory \in [Node -> [Id -> Seq(HostAddress)]]
  BY <1>1 DEF Init
<1> QED
  BY <1>2, HomesAssumption DEF Init, TypeOK, Id

LEMMA LoadType ==
  ASSUME TypeOK, NEW n \in Node
  PROVE  loadKnownPeers(n) \in [Id -> Seq(HostAddress)]
BY DEF TypeOK, loadKnownPeers

LEMMA InitializeType ==
  ASSUME TypeOK, NEW n \in Node, initialize(n)
  PROVE  TypeOK'
<1>1. PICK ready \in BOOLEAN, ok \in BOOLEAN, i \in Id :
        LET ranges  == IF ready THEN storedSubnets[n] ELSE {}
            blocked == IF ready THEN storedBlocked[n] ELSE {}
            socket  == IF ok THEN "port" ELSE "no"
        IN  /\ IF ready THEN i = n /\ UNCHANGED drawn
                        ELSE i \in Passing \ drawn /\ drawn' = drawn \cup {i}
            /\ localId' = [localId EXCEPT ![n] = i]
            /\ storageReady' = [storageReady EXCEPT ![n] = ready]
            /\ bound' = [bound EXCEPT ![n] = socket]
            /\ subnets' = [subnets EXCEPT ![n] = ranges]
            /\ blockedSubnets' = [blockedSubnets EXCEPT ![n] = blocked]
            /\ directory' = [directory EXCEPT ![n] = IF ready THEN loadKnownPeers(n)
                                                     ELSE noContacts]
            /\ sendPacket(n, i, socket, ranges, blocked)
  BY DEF initialize
<1> DEFINE ranges  == IF ready THEN storedSubnets[n] ELSE {}
           blocked == IF ready THEN storedBlocked[n] ELSE {}
<1>2. ranges \in SUBSET Subnet /\ blocked \in SUBSET Subnet
  BY DEF TypeOK
<1>3. wire' \subseteq Datagram
  BY <1>1, <1>2, SendType
<1>4. directory' \in [Node -> [Id -> Seq(HostAddress)]]
  BY <1>1, LoadType DEF TypeOK, noContacts
<1>5. /\ storageReady' \in [Node -> BOOLEAN]
      /\ bound' \in [Node -> {"no", "port", "ephemeral"}]
      /\ localId' \in [Node -> Id] /\ drawn' \subseteq Passing
      /\ subnets' \in [Node -> SUBSET Subnet]
      /\ blockedSubnets' \in [Node -> SUBSET Subnet]
  BY <1>1, <1>2 DEF TypeOK
<1>6. /\ running' \in [Node -> BOOLEAN]
      /\ UNCHANGED <<addr, storedSubnets, storedBlocked, knownPeers, heard, spent>>
  BY DEF initialize, TypeOK
<1> QED
  BY <1>3, <1>4, <1>5, <1>6 DEF TypeOK, spent

LEMMA SetSubnetsType ==
  ASSUME TypeOK, NEW n \in Node, setSubnets(n)
  PROVE  TypeOK'
<1>1. PICK input \in SubnetInput :
        LET ranges == sanitized(input)
            probed == {r \in ranges : /\ ~isBlockedRange(r, blockedSubnets[n])
                                      /\ broadcastFor(r) # NoAddress}
            socket == IF bound[n] = "no" /\ probed # {} THEN "ephemeral" ELSE bound[n]
        IN  /\ subnets' = [subnets EXCEPT ![n] = ranges]
            /\ bound' = [bound EXCEPT ![n] = socket]
            /\ sendPacket(n, localId[n], socket, ranges, blockedSubnets[n])
            /\ storedSubnets' = IF storageReady[n]
                                THEN [storedSubnets EXCEPT ![n] = ranges] ELSE storedSubnets
  BY DEF setSubnets
<1>2. sanitized(input) \in SUBSET Subnet /\ localId[n] \in Id
  BY SanitizedType DEF TypeOK
<1>3. wire' \subseteq Datagram
  BY <1>1, <1>2, SendType
<1>4. /\ subnets' \in [Node -> SUBSET Subnet]
      /\ storedSubnets' \in [Node -> SUBSET Subnet]
  BY <1>1, <1>2 DEF TypeOK
<1>5. bound' \in [Node -> {"no", "port", "ephemeral"}]
  BY <1>1 DEF TypeOK
<1>6. /\ changes' \in Nat
      /\ UNCHANGED <<running, storageReady, localId, drawn, addr, blockedSubnets, storedBlocked,
                     directory, knownPeers, heard, moves, stops>>
  BY DEF setSubnets, TypeOK
<1> QED
  BY <1>3, <1>4, <1>5, <1>6 DEF TypeOK

LEMMA SetBlockedSubnetsType ==
  ASSUME TypeOK, NEW n \in Node, setBlockedSubnets(n)
  PROVE  TypeOK'
<1>1. PICK input \in BlockedInput :
        /\ blockedSubnets' = [blockedSubnets EXCEPT ![n] = sanitized(input)]
        /\ storedBlocked' = IF storageReady[n]
                            THEN [storedBlocked EXCEPT ![n] = sanitized(input)]
                            ELSE storedBlocked
  BY DEF setBlockedSubnets
<1>2. sanitized(input) \in SUBSET Subnet
  BY SanitizedType
<1>3. /\ blockedSubnets' \in [Node -> SUBSET Subnet]
      /\ storedBlocked' \in [Node -> SUBSET Subnet]
  BY <1>1, <1>2 DEF TypeOK
<1>4. /\ changes' \in Nat
      /\ UNCHANGED <<running, storageReady, localId, drawn, bound, addr, subnets, storedSubnets,
                     directory, knownPeers, wire, heard, moves, stops>>
  BY DEF setBlockedSubnets, TypeOK, self
<1> QED
  BY <1>3, <1>4 DEF TypeOK

LEMMA UpsertType ==
  ASSUME NEW list \in Seq(HostAddress), NEW a \in HostAddress
  PROVE  upsertPeer(list, a) \in Seq(HostAddress)
BY DEF upsertPeer

LEMMA ProcessPacketType ==
  ASSUME TypeOK, NEW n \in Node, NEW d \in wire, processPacket(n, d)
  PROVE  TypeOK'
<1>1. d.id \in Id /\ d.from \in HostAddress
  BY DEF TypeOK, Datagram
<1>2. directory' \in [Node -> [Id -> Seq(HostAddress)]]
  <2>1. directory[n][d.id] \in Seq(HostAddress)
    BY <1>1 DEF TypeOK
  <2>2. upsertPeer(directory[n][d.id], d.from) \in Seq(HostAddress)
    BY <1>1, <2>1, UpsertType
  <2>3. directory' = [directory EXCEPT ![n] =
                        [directory[n] EXCEPT ![d.id] = upsertPeer(directory[n][d.id], d.from)]]
    BY Zenon DEF processPacket, peerDiscovered
  <2> QED
    BY <1>1, <2>2, <2>3 DEF TypeOK
<1>3. knownPeers' \in [Node -> [Id -> HostAddress \cup {NoAddress}]]
  BY <1>1 DEF processPacket, peerDiscovered, upsertKnownPeer, TypeOK
<1>4. heard' \in [Node -> [Id -> HostAddress \cup {NoAddress}]]
  BY <1>1 DEF processPacket, TypeOK
<1>5. UNCHANGED <<self, addr, conf, wire, spent>>
  BY DEF processPacket
<1> QED
  BY <1>2, <1>3, <1>4, <1>5 DEF TypeOK, self, conf, spent

LEMMA TypeNext == TypeOK /\ [Next]_vars => TypeOK'
<1> SUFFICES ASSUME TypeOK, [Next]_vars
             PROVE  TypeOK'
  OBVIOUS
<1>1. ASSUME NEW n \in Node, sendHeartbeat(n)
      PROVE  TypeOK'
  <2>1. subnets[n] \in SUBSET Subnet /\ localId[n] \in Id
    BY DEF TypeOK
  <2>2. wire' \subseteq Datagram
    BY <1>1, <2>1, SendType DEF sendHeartbeat
  <2> QED
    BY <1>1, <2>2 DEF sendHeartbeat, TypeOK, self, conf, spent
<1>2. ASSUME NEW n \in Node, stop(n)
      PROVE  TypeOK'
  BY <1>2 DEF stop, TypeOK, noContacts
<1>3. ASSUME NEW n \in Node, move(n)
      PROVE  TypeOK'
  BY <1>3 DEF move, TypeOK, self, conf
<1>4. ASSUME NEW d \in wire, lose(d)
      PROVE  TypeOK'
  BY <1>4 DEF lose, TypeOK, self, conf, spent
<1>5. CASE UNCHANGED vars
  BY <1>5 DEF vars, self, conf, spent, TypeOK
<1> QED
  BY <1>1, <1>2, <1>3, <1>4, <1>5, InitializeType, SetSubnetsType, SetBlockedSubnetsType,
     ProcessPacketType DEF Next

\* Every table of every machine holds what it is declared to hold.
THEOREM DiscoveryTypeCorrect == Spec => []TypeOK
BY TypeInit, TypeNext, PTL DEF Spec

(***************************************************************************)
(* What one step does to the contacts of a machine n: nothing, a start, an  *)
(* end, or one packet.                                                      *)
(***************************************************************************)
Starts(n) ==
  /\ ~running[n] /\ running'[n]
  /\ storageReady'[n] => localId'[n] = n
  /\ directory'[n] = IF storageReady'[n] THEN loadKnownPeers(n) ELSE noContacts
  /\ UNCHANGED <<knownPeers[n], heard[n]>>

Ends(n) ==
  /\ ~running'[n]
  /\ directory'[n] = noContacts
  /\ UNCHANGED <<knownPeers[n], heard[n]>>

Hears(n, d) ==
  /\ running[n]
  /\ UNCHANGED <<running[n], storageReady[n], localId[n]>>
  /\ d.id # localId[n] /\ ~isBlockedAddress(d.from, blockedSubnets[n])
  /\ directory'[n] = [directory[n] EXCEPT ![d.id] = upsertPeer(@, d.from)]
  /\ knownPeers'[n] = IF storageReady[n] THEN [knownPeers[n] EXCEPT ![d.id] = d.from]
                                         ELSE knownPeers[n]
  /\ heard'[n] = IF storageReady[n] THEN [heard[n] EXCEPT ![d.id] = d.from] ELSE heard[n]

Idles(n) ==
  UNCHANGED <<running[n], storageReady[n], localId[n], directory[n], knownPeers[n], heard[n]>>

ContactStep(n) == Idles(n) \/ Starts(n) \/ Ends(n) \/ \E d \in wire : Hears(n, d)

LEMMA ContactSteps ==
  ASSUME TypeOK, [Next]_vars, NEW n \in Node
  PROVE  ContactStep(n)
<1>1. ASSUME NEW q \in Node, initialize(q)
      PROVE  ContactStep(n)
  <2>1. CASE q = n
    <3>1. Starts(n)
      BY <1>1, <2>1 DEF initialize, TypeOK, Starts
    <3> QED
      BY <3>1 DEF ContactStep
  <2>2. CASE q # n
    <3>1. Idles(n)
      BY <1>1, <2>2 DEF initialize, TypeOK, Idles
    <3> QED
      BY <3>1 DEF ContactStep
  <2> QED
    BY <2>1, <2>2
<1>2. ASSUME NEW q \in Node, stop(q)
      PROVE  ContactStep(n)
  BY <1>2 DEF stop, TypeOK, ContactStep, Ends, Idles
<1>3. ASSUME NEW q \in Node, NEW d \in wire, processPacket(q, d)
      PROVE  ContactStep(n)
  <2>1. CASE q = n
    <3>1. /\ UNCHANGED <<running[n], storageReady[n], localId[n]>>
          /\ running[n] /\ d.id # localId[n]
          /\ ~isBlockedAddress(d.from, blockedSubnets[n])
      BY <1>3, <2>1 DEF processPacket, accepts, self
    <3>2. directory' = [directory EXCEPT ![n] =
                          [directory[n] EXCEPT ![d.id] = upsertPeer(@, d.from)]]
      BY <1>3, <2>1, Zenon DEF processPacket, peerDiscovered
    <3>3. directory'[n] = [directory[n] EXCEPT ![d.id] = upsertPeer(@, d.from)]
      BY <3>2, Zenon DEF TypeOK
    <3>4. knownPeers'[n] = IF storageReady[n] THEN [knownPeers[n] EXCEPT ![d.id] = d.from]
                                              ELSE knownPeers[n]
      <4>1. knownPeers' = IF storageReady[n]
                          THEN [knownPeers EXCEPT ![n] = [knownPeers[n] EXCEPT ![d.id] = d.from]]
                          ELSE knownPeers
        BY <1>3, <2>1, Zenon DEF processPacket, peerDiscovered, upsertKnownPeer
      <4> QED
        BY <4>1, Zenon DEF TypeOK
    <3>5. heard'[n] = IF storageReady[n] THEN [heard[n] EXCEPT ![d.id] = d.from]
                                         ELSE heard[n]
      <4>1. heard' = IF storageReady[n]
                     THEN [heard EXCEPT ![n] = [heard[n] EXCEPT ![d.id] = d.from]]
                     ELSE heard
        BY <1>3, <2>1, Zenon DEF processPacket
      <4> QED
        BY <4>1, Zenon DEF TypeOK
    <3>6. Hears(n, d)
      BY <3>1, <3>3, <3>4, <3>5, Zenon DEF Hears
    <3> QED
      BY <3>6 DEF ContactStep
  <2>2. CASE q # n
    <3>1. Idles(n)
      BY <1>3, <2>2 DEF processPacket, peerDiscovered, TypeOK, Idles, self
    <3> QED
      BY <3>1 DEF ContactStep
  <2> QED
    BY <2>1, <2>2
<1>4. CASE UNCHANGED <<running, storageReady, localId, directory, knownPeers, heard>>
  BY <1>4 DEF ContactStep, Idles
<1>5. \/ UNCHANGED <<running, storageReady, localId, directory, knownPeers, heard>>
      \/ \E q \in Node : initialize(q) \/ stop(q)
      \/ \E q \in Node, d \in wire : processPacket(q, d)
  BY DEF Next, vars, self, sendHeartbeat, setSubnets, setBlockedSubnets, move, lose
<1> QED
  BY <1>1, <1>2, <1>3, <1>4, <1>5

(***************************************************************************)
(* The invariants of the two tables.                                        *)
(***************************************************************************)

\* NotOwnContact and TablesAgree, with what they need: a run with the database has
\* the stored id, what is remembered across runs is what was heard, and nothing but
\* the rows outlives a process.
ContactsInv == /\ TypeOK
               /\ NotOwnContact
               /\ TablesAgree
               /\ \A n \in Node : running[n] /\ storageReady[n] => localId[n] = n
               /\ heard = knownPeers
               /\ \A n \in Node : ~running[n] => directory[n] = noContacts

\* TablesAgree for one machine and one id.
Agree(n, p) ==
  /\ \A j, k \in 1..Len(directory[n][p]) :
       directory[n][p][j] = directory[n][p][k] => j = k
  /\ storageReady[n] =>
       IF knownPeers[n][p] = NoAddress THEN directory[n][p] = <<>>
       ELSE knownPeers[n][p] \in Range(directory[n][p])

LEMMA UpsertListsOnce ==
  ASSUME NEW list \in Seq(HostAddress), NEW a \in HostAddress,
         \A i, j \in 1..Len(list) : list[i] = list[j] => i = j
  PROVE  /\ \A i, j \in 1..Len(upsertPeer(list, a)) :
              upsertPeer(list, a)[i] = upsertPeer(list, a)[j] => i = j
         /\ a \in Range(upsertPeer(list, a))
         /\ list # <<>> => Head(upsertPeer(list, a)) = Head(list)
BY DEF upsertPeer, Range

LEMMA ContactsInit == Init => ContactsInv
<1> SUFFICES ASSUME Init
             PROVE  ContactsInv
  OBVIOUS
<1>1. \A n \in Node : ~running[n] /\ directory[n] = noContacts
  BY DEF Init
<1>2. \A n \in Node : knownPeers[n] = [i \in Id |-> NoAddress]
  BY DEF Init
<1>3. \A n \in Node : knownPeers[n][n] = NoAddress
  BY <1>2 DEF Id
<1>4. heard = knownPeers
  BY DEF Init
<1>5. NotOwnContact
  BY <1>1, <1>3 DEF NotOwnContact
<1>6. TablesAgree
  BY <1>1 DEF TablesAgree
<1> QED
  BY <1>1, <1>4, <1>5, <1>6, TypeInit DEF ContactsInv

LEMMA AgreeStep ==
  ASSUME ContactsInv, TypeOK', NEW n \in Node, NEW p \in Id, ContactStep(n), running'[n]
  PROVE  Agree(n, p)'
<1> USE DEF ContactsInv
<1>1. CASE Idles(n)
  BY <1>1 DEF Idles, TablesAgree, Agree
<1>2. CASE Starts(n)
  <2>1. directory'[n][p] = IF storageReady'[n] /\ knownPeers[n][p] # NoAddress
                           THEN <<knownPeers[n][p]>> ELSE <<>>
    BY <1>2 DEF Starts, loadKnownPeers, noContacts
  <2>2. knownPeers'[n][p] = knownPeers[n][p]
    BY <1>2 DEF Starts
  <2> QED
    BY <2>1, <2>2 DEF Agree, Range
<1>3. CASE Ends(n)
  BY <1>3 DEF Ends
<1>4. ASSUME NEW d \in wire, Hears(n, d)
      PROVE  Agree(n, p)'
  <2>1. d.id \in Id /\ d.from \in HostAddress /\ d.from # NoAddress
    BY HostAssumption, AddressAssumption DEF TypeOK, Datagram
  <2>2. Agree(n, p)
    BY <1>4 DEF Hears, TablesAgree, Agree
  <2>3. /\ directory[n] \in [Id -> Seq(HostAddress)]
        /\ knownPeers[n] \in [Id -> HostAddress \cup {NoAddress}]
    BY DEF TypeOK
  <2>4. storageReady'[n] = storageReady[n]
    BY <1>4 DEF Hears
  <2>5. CASE d.id = p
    <3>1. directory'[n][p] = upsertPeer(directory[n][p], d.from)
      BY <1>4, <2>3, <2>5 DEF Hears
    <3>2. storageReady[n] => knownPeers'[n][p] = d.from
      BY <1>4, <2>3, <2>5 DEF Hears
    <3>3. \A i, j \in 1..Len(directory[n][p]) :
            directory[n][p][i] = directory[n][p][j] => i = j
      BY <2>2 DEF Agree
    <3>4. directory[n][p] \in Seq(HostAddress)
      BY <2>3
    <3>5. /\ \A i, j \in 1..Len(directory'[n][p]) :
               directory'[n][p][i] = directory'[n][p][j] => i = j
          /\ d.from \in Range(directory'[n][p])
      <4> DEFINE list == directory[n][p]
                 a == d.from
      <4>1. list \in Seq(HostAddress) /\ a \in HostAddress
        BY <2>1, <3>4
      <4>2. \A i, j \in 1..Len(list) : list[i] = list[j] => i = j
        BY <3>3
      <4> HIDE DEF list, a
      <4>3. /\ \A i, j \in 1..Len(upsertPeer(list, a)) :
                 upsertPeer(list, a)[i] = upsertPeer(list, a)[j] => i = j
            /\ a \in Range(upsertPeer(list, a))
        BY <4>1, <4>2, UpsertListsOnce
      <4>4. directory'[n][p] = upsertPeer(list, a)
        BY <3>1 DEF list, a
      <4>5. a = d.from
        BY DEF a
      <4> QED
        BY <4>3, <4>4, <4>5
    <3>6. storageReady[n] => /\ knownPeers'[n][p] = d.from
                             /\ knownPeers'[n][p] # NoAddress
      BY <2>1, <3>2
    <3> QED
      BY <2>4, <3>5, <3>6 DEF Agree
  <2>6. CASE d.id # p
    <3>1. directory'[n][p] = directory[n][p]
      BY <1>4, <2>3, <2>6 DEF Hears
    <3>2. knownPeers'[n][p] = knownPeers[n][p]
      BY <1>4, <2>3, <2>6 DEF Hears
    <3> QED
      BY <2>2, <2>4, <3>1, <3>2 DEF Agree
  <2> QED
    BY <2>5, <2>6
<1> QED
  BY <1>1, <1>2, <1>3, <1>4 DEF ContactStep

\* The row under the stored id: only a run with the database writes rows, and it
\* refuses the packets of that id.
LEMMA OwnStep ==
  ASSUME ContactsInv, NEW n \in Node, ContactStep(n)
  PROVE  /\ knownPeers'[n][n] = NoAddress
         /\ running'[n] => /\ storageReady'[n] => localId'[n] = n
                           /\ localId'[n] \in Id => directory'[n][localId'[n]] = <<>>
<1>1. /\ knownPeers[n][n] = NoAddress
      /\ running[n] => /\ directory[n][localId[n]] = <<>>
                       /\ storageReady[n] => localId[n] = n
  BY DEF ContactsInv, NotOwnContact
<1>2. n \in Id
  BY DEF Id
<1>3. CASE Idles(n)
  BY <1>1, <1>3 DEF Idles
<1>4. CASE Starts(n)
  <2>1. knownPeers'[n][n] = NoAddress
    BY <1>1, <1>4 DEF Starts
  <2>2. CASE storageReady'[n]
    BY <1>1, <1>2, <1>4, <2>1, <2>2 DEF Starts, loadKnownPeers
  <2>3. CASE ~storageReady'[n]
    BY <1>4, <2>1, <2>3 DEF Starts, noContacts
  <2> QED
    BY <2>2, <2>3
<1>5. CASE Ends(n)
  BY <1>1, <1>5 DEF Ends
<1>6. ASSUME NEW d \in wire, Hears(n, d)
      PROVE  /\ knownPeers'[n][n] = NoAddress
             /\ storageReady'[n] => localId'[n] = n
             /\ directory'[n][localId'[n]] = <<>>
  <2>1. /\ running[n] /\ localId'[n] = localId[n] /\ storageReady'[n] = storageReady[n]
        /\ d.id # localId[n]
    BY <1>6 DEF Hears
  <2>2. /\ directory[n] \in [Id -> Seq(HostAddress)]
        /\ knownPeers[n] \in [Id -> HostAddress \cup {NoAddress}]
        /\ localId[n] \in Id
    BY DEF ContactsInv, TypeOK
  <2>3. directory'[n][localId[n]] = directory[n][localId[n]]
    BY <1>6, <2>1, <2>2 DEF Hears
  <2>4. knownPeers'[n][n] = NoAddress
    <3>1. CASE storageReady[n]
      <4>1. d.id # n
        BY <1>1, <2>1, <3>1
      <4>2. knownPeers'[n] = [knownPeers[n] EXCEPT ![d.id] = d.from]
        BY <1>6, <3>1 DEF Hears
      <4> QED
        BY <1>1, <1>2, <2>2, <4>1, <4>2
    <3>2. CASE ~storageReady[n]
      BY <1>1, <1>6, <3>2 DEF Hears
    <3> QED
      BY <3>1, <3>2
  <2> QED
    BY <1>1, <2>1, <2>3, <2>4
<1> QED
  BY <1>3, <1>4, <1>5, <1>6 DEF ContactStep

LEMMA HistoryStep ==
  ASSUME ContactsInv, NEW n \in Node, ContactStep(n)
  PROVE  /\ heard'[n] = knownPeers'[n]
         /\ ~running'[n] => directory'[n] = noContacts
<1>1. heard[n] = knownPeers[n] /\ (~running[n] => directory[n] = noContacts)
  BY DEF ContactsInv
<1>2. CASE Idles(n)
  BY <1>1, <1>2 DEF Idles
<1>3. CASE Starts(n)
  BY <1>1, <1>3 DEF Starts
<1>4. CASE Ends(n)
  BY <1>1, <1>4 DEF Ends
<1>5. ASSUME NEW d \in wire, Hears(n, d)
      PROVE  heard'[n] = knownPeers'[n] /\ running'[n]
  BY <1>1, <1>5 DEF Hears
<1> QED
  BY <1>2, <1>3, <1>4, <1>5 DEF ContactStep

LEMMA ContactsNext == ContactsInv /\ [Next]_vars => ContactsInv'
<1> SUFFICES ASSUME ContactsInv, [Next]_vars
             PROVE  ContactsInv'
  OBVIOUS
<1>1. TypeOK /\ TypeOK'
  BY TypeNext DEF ContactsInv
<1>2. \A n \in Node : ContactStep(n)
  BY <1>1, ContactSteps
<1>3. \A n \in Node, p \in Id : running'[n] => Agree(n, p)'
  BY <1>1, <1>2, AgreeStep
<1>4. TablesAgree'
  BY <1>3 DEF TablesAgree, Agree
<1>5. ASSUME NEW n \in Node
      PROVE  /\ knownPeers'[n][n] = NoAddress
             /\ running'[n] => /\ directory'[n][localId'[n]] = <<>>
                               /\ storageReady'[n] => localId'[n] = n
  BY <1>1, <1>2, OwnStep DEF TypeOK
<1>6. \A n \in Node : /\ heard'[n] = knownPeers'[n]
                      /\ ~running'[n] => directory'[n] = noContacts
  BY <1>2, HistoryStep
<1>7. heard' = knownPeers'
  BY <1>1, <1>6 DEF TypeOK
<1>8. NotOwnContact'
  BY <1>5 DEF NotOwnContact
<1>9. \A n \in Node : ~running'[n] => directory'[n] = noContacts
  BY <1>6
<1>10. \A n \in Node : running'[n] /\ storageReady'[n] => localId'[n] = n
  BY <1>5
<1> QED
  BY <1>1, <1>4, <1>7, <1>8, <1>9, <1>10 DEF ContactsInv, noContacts

\* No process lists the id it runs under, however its installation alternated between
\* runs with the database and without it.
THEOREM NeverOwnContact == Spec => []NotOwnContact
<1>1. ContactsInv => NotOwnContact
  BY DEF ContactsInv
<1> QED
  BY <1>1, ContactsInit, ContactsNext, PTL DEF Spec

\* The contacts of the process and the rows kept for the next one agree.
THEOREM ContactTablesAgree == Spec => []TablesAgree
<1>1. ContactsInv => TablesAgree
  BY DEF ContactsInv
<1> QED
  BY <1>1, ContactsInit, ContactsNext, PTL DEF Spec

(***************************************************************************)
(* Which address a contact is sent to.                                      *)
(***************************************************************************)
LEMMA FirstAddressStep ==
  ASSUME ContactsInv, [Next]_vars,
         NEW n \in Node, NEW p \in Id,
         running[n], running'[n], directory[n][p] # <<>>
  PROVE  findPeer(n, p)' = findPeer(n, p)
<1>1. ContactStep(n)
  BY ContactSteps DEF ContactsInv
<1>2. CASE directory'[n] = directory[n]
  BY <1>2 DEF findPeer
<1>3. ASSUME NEW d \in wire,
             directory'[n] = [directory[n] EXCEPT ![d.id] = upsertPeer(@, d.from)]
      PROVE  findPeer(n, p)' = findPeer(n, p)
  <2>1. d.id \in Id /\ d.from \in HostAddress
    BY DEF ContactsInv, TypeOK, Datagram
  <2>2. directory[n] \in [Id -> Seq(HostAddress)]
    BY DEF ContactsInv, TypeOK
  <2>3. \A i, j \in 1..Len(directory[n][p]) :
          directory[n][p][i] = directory[n][p][j] => i = j
    BY DEF ContactsInv, TablesAgree
  <2>4. CASE d.id = p
    <3>1. directory'[n][p] = upsertPeer(directory[n][p], d.from)
      BY <1>3, <2>2, <2>4
    <3>2. Head(directory'[n][p]) = Head(directory[n][p])
      BY <2>1, <2>2, <2>3, <3>1, UpsertListsOnce
    <3>3. directory'[n][p] # <<>>
      BY <2>1, <2>2, <3>1 DEF upsertPeer
    <3> QED
      BY <3>2, <3>3 DEF findPeer
  <2>5. CASE d.id # p
    BY <1>3, <2>2, <2>5 DEF findPeer
  <2> QED
    BY <2>4, <2>5
<1> QED
  BY <1>1, <1>2, <1>3 DEF ContactStep, Idles, Starts, Ends, Hears

\* A running installation never sends to a contact at another address than the
\* one it knew first.
THEOREM FirstAddressIsKept == Spec => ContactKeepsFirstAddress
<1>1. ContactsInv /\ [Next]_vars =>
        \A n \in Node : \A i \in Id :
          (running[n] /\ running'[n] /\ directory[n][i] # <<>>)
            => findPeer(n, i)' = findPeer(n, i)
  BY FirstAddressStep
<1> QED
  BY <1>1, ContactsInit, ContactsNext, PTL DEF Spec, ContactKeepsFirstAddress

LEMMA RestartStep ==
  ASSUME ContactsInv, [Next]_vars,
         NEW n \in Node, NEW p \in Id,
         ~running[n], running'[n], storageReady'[n]
  PROVE  findPeer(n, p)' = heard[n][p]
<1>1. ContactStep(n)
  BY ContactSteps DEF ContactsInv
<1>2. directory'[n] = loadKnownPeers(n) /\ heard[n] = knownPeers[n]
  BY <1>1 DEF ContactStep, Idles, Starts, Ends, Hears, ContactsInv
<1>3. directory'[n][p] = IF heard[n][p] = NoAddress THEN <<>> ELSE <<heard[n][p]>>
  BY <1>2 DEF loadKnownPeers
<1> QED
  BY <1>3 DEF findPeer

\* A restart with the database sends to the address heard last.
THEOREM RestartTakesNewest == Spec => RestartFindsNewestAddress
<1>1. ContactsInv /\ [Next]_vars =>
        \A n \in Node : \A i \in Id :
          (~running[n] /\ running'[n] /\ storageReady'[n])
            => findPeer(n, i)' = heard[n][i]
  BY RestartStep
<1> QED
  BY <1>1, ContactsInit, ContactsNext, PTL DEF Spec, RestartFindsNewestAddress

(***************************************************************************)
(* The black list.  Addresses that agree on the first bits have the same    *)
(* quotients by the powers of 2 that those bits stand above, one bit after  *)
(* the other, and so the same network.                                      *)
(***************************************************************************)
\* Induction over a set of numbers.
LEMMA NatSet ==
  ASSUME NEW S, 0 \in S, \A k \in Nat : k \in S => k + 1 \in S
  PROVE  Nat \subseteq S
<1> DEFINE out == {k \in Nat : k \notin S}
<1>1. SUFFICES ASSUME out # {}
               PROVE  FALSE
  OBVIOUS
<1>2. PICK m \in out : \A k \in out : <<k, m>> \notin OpToRel(<, Nat)
  <2>1. out \subseteq Nat
    OBVIOUS
  <2> HIDE DEF out
  <2> QED
    BY <1>1, <2>1, NatLessThanWellFounded, WFMin
<1>3. m \in Nat /\ m \notin S /\ m # 0
  OBVIOUS
<1>4. m - 1 \in Nat /\ m - 1 < m
  BY <1>3
<1>5. m - 1 \in out
  BY <1>3, <1>4
<1> QED
  BY <1>2, <1>3, <1>4, <1>5 DEF OpToRel

\* The quotient is the only number of times d goes into a.
LEMMA DivUnique ==
  ASSUME NEW d \in Nat \ {0}, NEW h \in Nat, NEW s \in 0..(d - 1), NEW a \in Nat, a = d * h + s
  PROVE  a \div d = h
<1> DEFINE q == a \div d
           r == a % d
<1>1. q \in Nat /\ r \in 0..(d - 1) /\ a = d * q + r
  OBVIOUS
<1> HIDE DEF q, r
<1>2. d * (q - h) = s - r
  BY <1>1
<1>3. q - h < 1
  BY <1>1, <1>2
<1>4. q - h > -1
  BY <1>1, <1>2
<1>5. q = h
  BY <1>1, <1>3, <1>4
<1> QED
  BY <1>5 DEF q

LEMMA TimesLess ==
  ASSUME NEW d \in Nat \ {0}, NEW q \in Nat, NEW h \in Nat, h < q
  PROVE  d * h < d * q
<1>1. PICK k \in Nat \ {0} : q = h + k
  <2>1. q - h \in Nat \ {0} /\ q = h + (q - h)
    OBVIOUS
  <2> QED
    BY <2>1
<1>2. d * q = d * h + d * k
  BY <1>1
<1>3. d * k > 0 /\ d * h \in Nat
  BY <1>1
<1> QED
  BY <1>2, <1>3

\* Halving the quotient by m gives the quotient by 2 * m.
LEMMA HalfQuotient ==
  ASSUME NEW m \in Nat \ {0}, NEW a \in Nat
  PROVE  /\ a \div m \in Nat
         /\ a \div m = 2 * (a \div (2 * m)) + ((a \div m) % 2)
<1> DEFINE q == a \div m
           r == a % m
           h == q \div 2
           t == q % 2
<1>1. q \in Nat /\ r \in 0..(m - 1) /\ a = m * q + r
  OBVIOUS
<1>2. h \in Nat /\ t \in 0..1 /\ q = 2 * h + t
  BY <1>1
<1> HIDE DEF q, r, h, t
<1>3. a = (2 * m) * h + (m * t + r)
  BY <1>1, <1>2
<1>4. m * t + r \in 0..(2 * m - 1)
  <2>1. CASE t = 0
    BY <1>1, <2>1
  <2>2. CASE t = 1
    BY <1>1, <2>2
  <2> QED
    BY <1>2, <2>1, <2>2
<1>5. a \div (2 * m) = h
  <2> DEFINE d == 2 * m
             s == m * t + r
  <2>1. d \in Nat \ {0} /\ s \in 0..(d - 1) /\ a = d * h + s
    BY <1>3, <1>4
  <2> HIDE DEF d, s
  <2>2. a \div d = h
    BY <1>2, <2>1, DivUnique
  <2> QED
    BY <2>2 DEF d
<1>6. q \in Nat /\ q = 2 * (a \div (2 * m)) + t
  BY <1>1, <1>2, <1>5
<1> QED
  BY <1>6 DEF q, t

Bit(a, k) == (a \div 2^(W - 1 - k)) % 2

LEMMA AgreeMasked ==
  ASSUME NEW a \in Address, NEW b \in Address, NEW p \in 0..W,
         \A k \in 0..(p - 1) : Bit(a, k) = Bit(b, k)
  PROVE  masked(a, p) = masked(b, p)
<1> DEFINE S == {k \in Nat : k <= p => a \div 2^(W - k) = b \div 2^(W - k)}
<1>1. a \in Nat /\ b \in Nat /\ W \in Nat /\ p \in Nat /\ p <= W
  BY WidthAssumption DEF Address
<1>2. 0 \in S
  <2>1. PICK d \in Nat \ {0} : d = 2^W
    BY <1>1, PowerAssumption
  <2>2. a \in 0..(d - 1) /\ b \in 0..(d - 1)
    BY <2>1 DEF Address
  <2>3. a \div d = 0 /\ b \div d = 0
    BY <2>2
  <2>4. W - 0 = W
    BY <1>1
  <2> QED
    BY <2>1, <2>3, <2>4
<1>3. ASSUME NEW k \in Nat, k \in S
      PROVE  k + 1 \in S
  <2> SUFFICES ASSUME k + 1 <= p
               PROVE  a \div 2^(W - (k + 1)) = b \div 2^(W - (k + 1))
    OBVIOUS
  <2>1. W - (k + 1) = W - 1 - k /\ W - 1 - k \in 0..W /\ W - k = (W - 1 - k) + 1 /\ k \in 0..(p - 1)
    BY <1>1
  <2>2. PICK m \in Nat \ {0} : m = 2^(W - 1 - k)
    BY <2>1, PowerAssumption
  <2>3. 2^(W - k) = 2 * m
    BY <2>1, <2>2, PowerAssumption
  <2>4. a \div (2 * m) = b \div (2 * m)
    BY <1>1, <1>3, <2>1, <2>3
  <2>5. (a \div m) % 2 = (b \div m) % 2
    BY <2>1, <2>2 DEF Bit
  <2>6. a \div m = b \div m
    <3>1. a \div m = 2 * (a \div (2 * m)) + ((a \div m) % 2)
      BY <1>1, HalfQuotient
    <3>2. b \div m = 2 * (b \div (2 * m)) + ((b \div m) % 2)
      BY <1>1, HalfQuotient
    <3> QED
      BY <2>4, <2>5, <3>1, <3>2
  <2> QED
    BY <2>1, <2>2, <2>6
<1>4. p \in S
  <2> HIDE DEF S
  <2> QED
    BY <1>1, <1>2, <1>3, NatSet
<1>5. PICK d \in Nat \ {0} : d = 2^(W - p)
  <2>1. W - p \in 0..W
    BY <1>1
  <2> QED
    BY <2>1, PowerAssumption
<1>6. a \div d = b \div d
  BY <1>1, <1>4, <1>5
<1>7. a = d * (a \div d) + (a % d) /\ b = d * (b \div d) + (b % d)
  BY <1>1
<1>8. a - (a % d) = b - (b % d)
  BY <1>1, <1>6, <1>7
<1> QED
  BY <1>5, <1>8 DEF masked

\* The converse: the quotients by the higher powers follow from that by the lowest.
LEMMA MaskedAgree ==
  ASSUME NEW a \in Address, NEW b \in Address, NEW p \in 0..W, masked(a, p) = masked(b, p)
  PROVE  \A k \in 0..(p - 1) : Bit(a, k) = Bit(b, k)
<1> DEFINE S == {k \in Nat : k <= p => a \div 2^(W - p + k) = b \div 2^(W - p + k)}
<1>1. a \in Nat /\ b \in Nat /\ W \in Nat /\ p \in Nat /\ p <= W
  BY WidthAssumption DEF Address
<1>2. 0 \in S
  <2>1. W - p \in 0..W /\ W - p + 0 = W - p
    BY <1>1
  <2>2. PICK d \in Nat \ {0} : d = 2^(W - p)
    BY <2>1, PowerAssumption
  <2>3. a - (a % d) = b - (b % d)
    BY <2>2 DEF masked
  <2>4. a \div d = b \div d
    <3>1. a = d * (a \div d) + (a % d) /\ b = d * (b \div d) + (b % d)
      BY <1>1
    <3>2. PICK q \in Nat, h \in Nat : q = a \div d /\ h = b \div d
      BY <1>1
    <3>3. d * q = d * h
      BY <1>1, <2>3, <3>1, <3>2
    <3>4. q <= h /\ h <= q
      BY <3>3, TimesLess
    <3> QED
      BY <3>2, <3>4
  <2> QED
    BY <2>1, <2>2, <2>4
<1>3. ASSUME NEW k \in Nat, k \in S
      PROVE  k + 1 \in S
  <2> SUFFICES ASSUME k + 1 <= p
               PROVE  a \div 2^(W - p + (k + 1)) = b \div 2^(W - p + (k + 1))
    OBVIOUS
  <2>1. W - p + k \in 0..W /\ W - p + (k + 1) = (W - p + k) + 1
    BY <1>1
  <2>2. PICK m \in Nat \ {0} : m = 2^(W - p + k)
    BY <2>1, PowerAssumption
  <2>3. 2^(W - p + (k + 1)) = 2 * m
    BY <2>1, <2>2, PowerAssumption
  <2>4. a \div m = b \div m
    BY <1>1, <1>3, <2>2
  <2>5. a \div (2 * m) = b \div (2 * m)
    <3>1. PICK d \in Nat \ {0} : d = 2 * m
      OBVIOUS
    <3>2. PICK u \in Nat, v \in Nat : u = a \div d /\ v = b \div d
      BY <1>1
    <3>3. PICK q \in Nat, t \in 0..1 : q = a \div m /\ t = q % 2
      <4>1. a \div m \in Nat /\ (a \div m) % 2 \in 0..1
        BY <1>1
      <4> QED
        BY <4>1
    <3>4. q = 2 * u + t /\ q = 2 * v + t
      <4>1. a \div m = 2 * (a \div (2 * m)) + ((a \div m) % 2)
        BY <1>1, HalfQuotient
      <4>2. b \div m = 2 * (b \div (2 * m)) + ((b \div m) % 2)
        BY <1>1, HalfQuotient
      <4> QED
        BY <2>4, <3>1, <3>2, <3>3, <4>1, <4>2
    <3>5. u = v
      BY <3>4
    <3> QED
      BY <3>1, <3>2, <3>5
  <2> QED
    BY <2>3, <2>5
<1>4. ASSUME NEW k \in 0..(p - 1)
      PROVE  Bit(a, k) = Bit(b, k)
  <2>1. p - 1 - k \in Nat /\ p - 1 - k <= p /\ W - p + (p - 1 - k) = W - 1 - k
    BY <1>1, <1>4
  <2>2. p - 1 - k \in S
    <3> HIDE DEF S
    <3> QED
      BY <1>2, <1>3, <2>1, NatSet
  <2>3. a \div 2^(W - 1 - k) = b \div 2^(W - 1 - k)
    BY <2>1, <2>2
  <2> QED
    BY <2>3 DEF Bit
<1> QED
  BY <1>4

LEMMA PowersSplit ==
  ASSUME NEW p \in 0..W
  PROVE  2^W = 2^(W - p) * 2^p
<1> DEFINE S == {k \in Nat : k <= W => 2^W = 2^(W - k) * 2^k}
<1>1. W \in Nat /\ p \in Nat /\ p <= W
  BY WidthAssumption
<1>2. 0 \in S
  <2>1. 2^0 = 1 /\ W - 0 = W
    BY <1>1
  <2>2. 2^W \in Nat
    BY <1>1, PowerAssumption
  <2> QED
    BY <2>1, <2>2
<1>3. ASSUME NEW k \in Nat, k \in S
      PROVE  k + 1 \in S
  <2> SUFFICES ASSUME k + 1 <= W
               PROVE  2^W = 2^(W - (k + 1)) * 2^(k + 1)
    OBVIOUS
  <2>1. W - (k + 1) \in 0..W /\ W - k = (W - (k + 1)) + 1 /\ k \in 0..W
    BY <1>1
  <2>2. PICK m \in Nat, d \in Nat : m = 2^(W - (k + 1)) /\ d = 2^k
    BY <2>1, PowerAssumption
  <2>3. 2^(W - k) = 2 * m /\ 2^(k + 1) = 2 * d
    BY <2>1, <2>2, PowerAssumption
  <2>4. 2^W = (2 * m) * d
    BY <1>3, <2>1, <2>2, <2>3
  <2>5. (2 * m) * d = m * (2 * d)
    OBVIOUS
  <2> QED
    BY <2>2, <2>3, <2>4, <2>5
<1> HIDE DEF S
<1>4. p \in S
  BY <1>1, <1>2, <1>3, NatSet
<1> QED
  BY <1>1, <1>4 DEF S

\* broadcastFor: the last address of the segment.
THEOREM BroadcastIsLast ==
  ASSUME NEW r \in [network : Address, prefix : 0..W]
  PROVE  /\ broadcastFor(r) \in AddressesOf(r)
         /\ \A a \in AddressesOf(r) : a <= broadcastFor(r)
<1>1. PICK x \in Address, p \in 0..W : x = r.network /\ p = r.prefix
  OBVIOUS
<1>2. W \in Nat /\ p \in Nat /\ W - p \in 0..W /\ x \in Nat
  BY WidthAssumption DEF Address
<1>3. PICK d \in Nat \ {0} : d = 2^(W - p)
  BY <1>2, PowerAssumption
<1>4. PICK e \in Nat \ {0} : e = 2^p
  BY <1>2, PowerAssumption
<1>5. \A a \in Nat : masked(a, p) = a - (a % d)
  BY <1>3 DEF masked
<1>6. PICK q \in Nat : q = x \div d
  BY <1>2
<1>7. masked(x, p) = d * q
  BY <1>2, <1>5, <1>6
<1>8. PICK b \in Nat : b = d * q + d - 1
  OBVIOUS
<1>9. broadcastFor(r) = b
  BY <1>1, <1>3, <1>7, <1>8 DEF broadcastFor
<1>10. b \in Address
  <2>1. 2^W = d * e
    BY <1>3, <1>4, PowersSplit
  <2>2. d * q <= x /\ x < d * e
    BY <1>2, <1>6, <2>1 DEF Address
  <2>3. q < e
    <3>1. q \in Nat /\ e \in Nat /\ (e < q => d * e < d * q) /\ (q = e => d * q = d * e)
      BY TimesLess
    <3> QED
      BY <1>2, <2>2, <3>1
  <2>4. d * (q + 1) <= d * e
    BY <2>3
  <2>5. b < d * e
    BY <1>8, <2>4
  <2> QED
    BY <2>1, <2>5 DEF Address
<1>11. masked(b, p) = masked(x, p)
  <2>1. b = d * q + (d - 1) /\ d - 1 \in 0..(d - 1)
    BY <1>8
  <2>2. b \div d = q
    BY <2>1, DivUnique
  <2>3. b = d * (b \div d) + (b % d)
    OBVIOUS
  <2> QED
    BY <1>5, <1>7, <2>2, <2>3
<1>12. b \in AddressesOf(r)
  <2>1. \A k \in 0..(p - 1) : Bit(b, k) = Bit(x, k)
    BY <1>10, <1>11, MaskedAgree
  <2> QED
    BY <1>1, <1>10, <2>1 DEF AddressesOf, Bit
<1>13. ASSUME NEW a \in AddressesOf(r)
       PROVE  a <= b
  <2>1. a \in Address /\ \A k \in 0..(p - 1) : Bit(a, k) = Bit(x, k)
    BY <1>1 DEF AddressesOf, Bit
  <2>2. masked(a, p) = d * q
    BY <1>7, <2>1, AgreeMasked
  <2>3. a \in Nat /\ a % d <= d - 1
    BY <2>1 DEF Address
  <2> QED
    BY <1>5, <1>8, <2>2, <2>3
<1> QED
  BY <1>9, <1>12, <1>13

\* Every segment on a black list went through setBlockedSubnets.
ListsInv == \A n \in Node : \A r \in blockedSubnets[n] \cup storedBlocked[n] :
              r.network \in Address => r.prefix \in 0..W

LEMMA SanitizedPrefix ==
  ASSUME NEW list \in BlockedInput, NEW r \in sanitized(list), r.network \in Address
  PROVE  r.prefix \in 0..W
<1>1. PICK s \in list : /\ isValid(s)
                        /\ r = [network |-> normalizeNetwork(s.network, s.prefix),
                                prefix |-> s.prefix]
  BY DEF sanitized
<1>2. s.network \in Address \cup {V6}
  BY <1>1, InputAssumption DEF isValid
<1>3. s.network # V6
  BY <1>1, AddressAssumption DEF normalizeNetwork
<1>4. s.prefix \in 0..W
  BY <1>1, <1>3 DEF isValid, maxPrefixFor
<1> QED
  BY <1>1, <1>4

LEMMA ListsInit == Init => ListsInv
BY DEF Init, ListsInv

LEMMA ListsNext == TypeOK /\ ListsInv /\ [Next]_vars => ListsInv'
<1> SUFFICES ASSUME TypeOK, ListsInv, [Next]_vars
             PROVE  ListsInv'
  OBVIOUS
<1>1. ASSUME NEW q \in Node, initialize(q)
      PROVE  ListsInv'
  BY <1>1 DEF initialize, ListsInv, TypeOK
<1>2. ASSUME NEW q \in Node, setBlockedSubnets(q)
      PROVE  ListsInv'
  <2>1. PICK input \in BlockedInput :
          /\ blockedSubnets' = [blockedSubnets EXCEPT ![q] = sanitized(input)]
          /\ storedBlocked' = IF storageReady[q]
                              THEN [storedBlocked EXCEPT ![q] = sanitized(input)]
                              ELSE storedBlocked
    BY <1>2 DEF setBlockedSubnets
  <2>2. PICK list : list = sanitized(input)
    OBVIOUS
  <2>3. \A r \in list : r.network \in Address => r.prefix \in 0..W
    BY <2>2, SanitizedPrefix
  <2> QED
    BY <2>1, <2>2, <2>3 DEF ListsInv, TypeOK
<1>3. ASSUME NEW q \in Node, stop(q)
      PROVE  ListsInv'
  BY <1>3 DEF stop, ListsInv, TypeOK
<1>4. CASE UNCHANGED <<blockedSubnets, storedBlocked>>
  BY <1>4 DEF ListsInv
<1>5. \/ UNCHANGED <<blockedSubnets, storedBlocked>>
      \/ \E q \in Node : initialize(q) \/ setBlockedSubnets(q) \/ stop(q)
  BY DEF Next, vars, conf, sendHeartbeat, setSubnets, processPacket, move, lose
<1> QED
  BY <1>1, <1>2, <1>3, <1>4, <1>5

\* isBlockedAddress compares under the mask: it finds exactly the addresses that agree
\* with a segment of the list on its first bits.
BlockedAreMembers(n) ==
  \A a \in Address :
    isBlockedAddress(a, blockedSubnets[n]) <=> \E r \in blockedSubnets[n] : a \in AddressesOf(r)

LEMMA BlockedAddresses == ListsInv => \A n \in Node : BlockedAreMembers(n)
<1> SUFFICES ASSUME ListsInv, NEW n \in Node, NEW a \in Address
             PROVE  isBlockedAddress(a, blockedSubnets[n])
                      <=> \E r \in blockedSubnets[n] : a \in AddressesOf(r)
  BY DEF BlockedAreMembers
<1>1. ASSUME NEW r \in blockedSubnets[n], r.network \in Address
      PROVE  masked(a, r.prefix) = masked(r.network, r.prefix) <=> a \in AddressesOf(r)
  <2>1. r.prefix \in 0..W
    BY <1>1 DEF ListsInv
  <2>2. a \in AddressesOf(r) <=> \A k \in 0..(r.prefix - 1) : Bit(a, k) = Bit(r.network, k)
    BY <1>1 DEF AddressesOf, Bit
  <2>3. (\A k \in 0..(r.prefix - 1) : Bit(a, k) = Bit(r.network, k))
          => masked(a, r.prefix) = masked(r.network, r.prefix)
    BY <1>1, <2>1, AgreeMasked
  <2>4. masked(a, r.prefix) = masked(r.network, r.prefix)
          => \A k \in 0..(r.prefix - 1) : Bit(a, k) = Bit(r.network, k)
    BY <1>1, <2>1, MaskedAgree
  <2> QED
    BY <2>2, <2>3, <2>4
<1>2. \A r \in blockedSubnets[n] : a \in AddressesOf(r) => r.network \in Address
  BY DEF AddressesOf
<1> QED
  BY <1>1, <1>2 DEF isBlockedAddress

LEMMA UpsertAdds ==
  ASSUME NEW list \in Seq(HostAddress), NEW a \in HostAddress
  PROVE  Range(upsertPeer(list, a)) \subseteq Range(list) \cup {a}
BY DEF upsertPeer, Range

LEMMA BlockedStep ==
  ASSUME TypeOK, ListsInv, [Next]_vars, NEW n \in Node, NEW p \in Id,
         NEW r \in blockedSubnets[n], running[n], running'[n]
  PROVE  (Range(directory'[n][p]) \ Range(directory[n][p])) \cap AddressesOf(r) = {}
<1>1. ContactStep(n)
  BY ContactSteps
<1>2. CASE UNCHANGED directory[n]
  BY <1>2
<1>3. ASSUME NEW d \in wire, ~isBlockedAddress(d.from, blockedSubnets[n]),
             directory'[n] = [directory[n] EXCEPT ![d.id] = upsertPeer(@, d.from)]
      PROVE  (Range(directory'[n][p]) \ Range(directory[n][p])) \cap AddressesOf(r) = {}
  <2>1. d.id \in Id /\ d.from \in HostAddress /\ directory[n] \in [Id -> Seq(HostAddress)]
    BY DEF TypeOK, Datagram
  <2>2. d.from \notin AddressesOf(r)
    BY <1>3, <2>1, BlockedAddresses, HostAssumption DEF BlockedAreMembers
  <2>3. CASE d.id = p
    <3>1. directory'[n][p] = upsertPeer(directory[n][p], d.from)
      BY <1>3, <2>1, <2>3
    <3>2. Range(directory'[n][p]) \subseteq Range(directory[n][p]) \cup {d.from}
      BY <2>1, <3>1, UpsertAdds
    <3> QED
      BY <2>2, <3>2
  <2>4. CASE d.id # p
    <3>1. directory'[n][p] = directory[n][p]
      BY <1>3, <2>1, <2>4
    <3> QED
      BY <3>1
  <2> QED
    BY <2>3, <2>4
<1> QED
  BY <1>1, <1>2, <1>3 DEF ContactStep, Idles, Starts, Ends, Hears

LEMMA ListsInductive == /\ Init => TypeOK /\ ListsInv
                        /\ TypeOK /\ ListsInv /\ [Next]_vars => (TypeOK /\ ListsInv)'
BY TypeInit, TypeNext, ListsInit, ListsNext

\* isBlockedAddress, on every list that can be in use: whatever was stored or typed,
\* exactly the addresses of its segments are blocked.
THEOREM BlockedIsMembership == Spec => [](\A n \in Node : BlockedAreMembers(n))
<1> DEFINE Members == \A n \in Node : BlockedAreMembers(n)
<1>1. ListsInv => Members
  BY BlockedAddresses
<1> HIDE DEF Members
<1>2. Spec => []Members
  BY <1>1, ListsInductive, PTL DEF Spec
<1> QED
  BY <1>2 DEF Members

\* isBlockedAddress: no address of a segment on the black list becomes a contact, for
\* any segments, lists and order of packets and changes of the lists.
THEOREM BlockedStaysOut == Spec => BlockedIsNotAdded
<1>1. TypeOK /\ ListsInv /\ [Next]_vars =>
        \A n \in Node : \A i \in Id : \A r \in blockedSubnets[n] :
          (running[n] /\ running'[n])
            => (Range(directory'[n][i]) \ Range(directory[n][i])) \cap AddressesOf(r) = {}
  BY BlockedStep
<1> QED
  BY <1>1, ListsInductive, PTL DEF Spec, BlockedIsNotAdded
=============================================================================
