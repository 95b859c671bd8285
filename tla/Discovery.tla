----------------------------- MODULE Discovery -----------------------------
(***************************************************************************)
(* How installations find each other: DiscoveryService (UDP broadcasts),    *)
(* PeerDirectory (the contacts of the running process) and the table        *)
(* known_peers of StorageManager (the contacts of earlier runs), with the   *)
(* part of ChatController that starts them and changes their segments.      *)
(*                                                                          *)
(* A node is an installation, and also the id its database holds; a start   *)
(* without the database runs under an id drawn for it.  directory[n][i]     *)
(* lists the addresses of the entries of m_peers whose id is i, in the      *)
(* order of m_peers; the order between different ids only matters to the    *)
(* list on screen.                                                          *)
(* hello, probe and heartbeat packets are handled alike, so a datagram is   *)
(* the id it carries, the address it came from and the address it went to.  *)
(* UDP may lose, delay, reorder and duplicate: wire is a set, a datagram    *)
(* stays in it after it was read, and lose takes one away.                  *)
(***************************************************************************)
EXTENDS Subnets, Sequences

CONSTANTS Node,          \* installations
          Passing,       \* ids that starts without a database draw
          HostAddress,   \* addresses machines can have
          Homes,         \* where the machines can be at the beginning
          LanPrefix,     \* prefix of every network interface
          SubnetInput,   \* lists a caller can hand to setSubnets
          BlockedInput,  \* lists a caller can hand to setBlockedSubnets
          MaxMoves,      \* bound on changes of address
          MaxStops,      \* bound on ends of a process
          MaxChanges     \* bound on changes of the segment lists

ASSUME PassingAssumption == Node \cap Passing = {}
ASSUME HostAssumption == HostAddress \subseteq Address
ASSUME HomesAssumption ==
  /\ Homes \subseteq [Node -> HostAddress]
  /\ \A home \in Homes : \A n, p \in Node : n # p => home[n] # home[p]
ASSUME LanAssumption == LanPrefix \in 0..W
ASSUME InputAssumption ==
  SubnetInput \cup BlockedInput
    \subseteq SUBSET [network : Address \cup {V6, NoAddress}, prefix : Int]
ASSUME BudgetAssumption == MaxMoves \in Nat /\ MaxStops \in Nat /\ MaxChanges \in Nat

VARIABLES running,         \* the process exists
          storageReady,    \* its database could be opened
          localId,         \* id its process runs under, or last ran under
          drawn,           \* ids of Passing drawn by now
          bound,           \* m_socket: "no", "port" (the service's), "ephemeral"
          addr,            \* address of the machine
          subnets, blockedSubnets,   \* lists of the running process
          storedSubnets, storedBlocked,  \* rows of network_subnets
          directory, knownPeers,
          wire,            \* datagrams that can still arrive
          heard,           \* history: where the last packet stored for an id came from
          moves, stops, changes

Id == Node \cup Passing

self   == <<running, storageReady, localId, drawn, bound>>
conf   == <<subnets, blockedSubnets, storedSubnets, storedBlocked>>
spent  == <<moves, stops, changes>>
vars   == <<self, addr, conf, directory, knownPeers, wire, heard, spent>>

Datagram == [id : Id, from : HostAddress, to : Nat]

Range(s) == {s[i] : i \in 1..Len(s)}

(***************************************************************************)
(* Network.  Every machine has one interface, up, with prefix LanPrefix.    *)
(***************************************************************************)
lan(a) == [network |-> masked(a, LanPrefix), prefix |-> LanPrefix]

\* A datagram reaches the machine at a: sent to it, to its segment, or to all
\* from within its segment.
reaches(d, a) == \/ d.to = a
                 \/ d.to = broadcastFor(lan(a))
                 \/ d.to = Broadcast /\ lan(d.from) = lan(a)

(***************************************************************************)
(* Sending.                                                                 *)
(***************************************************************************)

\* Mutant of broadcastTargets: no fallback to the interfaces.
broadcastTargets_NoInterfaces(a, ranges, blocked) ==
  {broadcastFor(r) : r \in {s \in ranges : ~isBlockedRange(s, blocked)}} \ {NoAddress}

\* Mutant of broadcastTargets: null addresses are kept.
broadcastTargets_KeepNull(a, ranges, blocked) ==
  {broadcastFor(r) : r \in {s \in ranges : ~isBlockedRange(s, blocked)}}

broadcastTargets(a, ranges, blocked) ==
  LET usable(s) == {r \in s : ~isBlockedRange(r, blocked)}
      local     == {broadcastFor(r) : r \in usable({lan(a)})}
  IN  IF ranges # {}
      THEN {broadcastFor(r) : r \in usable(ranges)} \ {NoAddress}
      ELSE IF local = {} THEN {Broadcast} ELSE local

packets(i, a, targets) == [id : {i}, from : {a}, to : targets]

\* sendPacket with the id and the lists the service then has: silent unless the
\* socket is bound.
sendPacket(n, i, socket, ranges, blocked) ==
  wire' = wire \cup (IF socket = "no" THEN {}
                     ELSE packets(i, addr[n], broadcastTargets(addr[n], ranges, blocked)))

(***************************************************************************)
(* The contacts.                                                            *)
(***************************************************************************)

\* Mutant of upsertPeer: entries are found by id alone, the newest address wins.
upsertPeer_ById(list, a) == <<a>>

\* m_peers restricted to one id after upsertPeer: indexOf compares id and address.
upsertPeer(list, a) == IF a \in Range(list) THEN list ELSE Append(list, a)

\* Address of the entry findPeer returns: the first with that id.
findPeer(n, i) == IF directory[n][i] = <<>> THEN NoAddress ELSE Head(directory[n][i])

\* Mutant of upsertKnownPeer: INSERT OR IGNORE.
upsertKnownPeer_Ignore(row, a) == IF row = NoAddress THEN a ELSE row

\* REPLACE INTO known_peers, whose key is peer_id.
upsertKnownPeer(row, a) == a

\* loadKnownPeers: one row per id, so one entry per id.
loadKnownPeers(n) == [i \in Id |-> IF knownPeers[n][i] = NoAddress THEN <<>>
                                   ELSE <<knownPeers[n][i]>>]

noContacts == [i \in Id |-> <<>>]

Init ==
  /\ running = [n \in Node |-> FALSE]
  /\ storageReady = [n \in Node |-> FALSE]
  /\ localId = [n \in Node |-> n]
  /\ drawn = {}
  /\ bound = [n \in Node |-> "no"]
  /\ addr \in Homes
  /\ subnets = [n \in Node |-> {}]
  /\ blockedSubnets = [n \in Node |-> {}]
  /\ storedSubnets = [n \in Node |-> {}]
  /\ storedBlocked = [n \in Node |-> {}]
  /\ directory = [n \in Node |-> noContacts]
  /\ knownPeers = [n \in Node |-> [i \in Id |-> NoAddress]]
  /\ wire = {}
  /\ heard = [n \in Node |-> [i \in Id |-> NoAddress]]
  /\ moves = 0 /\ stops = 0 /\ changes = 0

(***************************************************************************)
(* ChatController::initialize: the database, the settings and the known     *)
(* peers, then DiscoveryService::start and announceOnline.  Neither a       *)
(* database nor a port that cannot be had stops the program; without the    *)
(* database loadSettings draws an id, and never one that was drawn before.  *)
(***************************************************************************)
initialize(n) ==
  /\ ~running[n]
  /\ \E ready, ok \in BOOLEAN, i \in Id :
       LET ranges  == IF ready THEN storedSubnets[n] ELSE {}
           blocked == IF ready THEN storedBlocked[n] ELSE {}
           socket  == IF ok THEN "port" ELSE "no"
       IN  /\ IF ready THEN i = n /\ UNCHANGED drawn
                       ELSE i \in Passing \ drawn /\ drawn' = drawn \cup {i}
           /\ localId' = [localId EXCEPT ![n] = i]
           /\ storageReady' = [storageReady EXCEPT ![n] = ready]
           /\ bound' = [bound EXCEPT ![n] = socket]
           /\ subnets' = [subnets EXCEPT ![n] = ranges]
           /\ blockedSubnets' = [blockedSubnets EXCEPT ![n] = blocked]
           /\ directory' = [directory EXCEPT ![n] = IF ready THEN loadKnownPeers(n)
                                                    ELSE noContacts]
           /\ sendPacket(n, i, socket, ranges, blocked)
  /\ running' = [running EXCEPT ![n] = TRUE]
  /\ UNCHANGED <<addr, storedSubnets, storedBlocked, knownPeers, heard, spent>>

\* The timer runs only when the port was bound.
sendHeartbeat(n) ==
  /\ running[n]
  /\ bound[n] = "port"
  /\ sendPacket(n, localId[n], bound[n], subnets[n], blockedSubnets[n])
  /\ UNCHANGED <<self, addr, conf, directory, knownPeers, heard, spent>>

(***************************************************************************)
(* setSubnets probes every range and announces.  probeSubnet writes even on *)
(* an unbound socket, which Qt then binds to a port of its own choice.      *)
(***************************************************************************)
setSubnets(n) ==
  /\ running[n]
  /\ changes < MaxChanges
  /\ changes' = changes + 1
  /\ \E input \in SubnetInput :
       LET ranges == sanitized(input)
           probed == {r \in ranges : /\ ~isBlockedRange(r, blockedSubnets[n])
                                     /\ broadcastFor(r) # NoAddress}
           socket == IF bound[n] = "no" /\ probed # {} THEN "ephemeral" ELSE bound[n]
       IN  /\ subnets' = [subnets EXCEPT ![n] = ranges]
           /\ bound' = [bound EXCEPT ![n] = socket]
           /\ sendPacket(n, localId[n], socket, ranges, blockedSubnets[n])
           /\ storedSubnets' = IF storageReady[n]
                               THEN [storedSubnets EXCEPT ![n] = ranges] ELSE storedSubnets
  /\ UNCHANGED <<running, storageReady, localId, drawn, addr, blockedSubnets, storedBlocked,
                 directory, knownPeers, heard, moves, stops>>

\* Nothing is sent and no contact is dropped.
setBlockedSubnets(n) ==
  /\ running[n]
  /\ changes < MaxChanges
  /\ changes' = changes + 1
  /\ \E input \in BlockedInput :
       /\ blockedSubnets' = [blockedSubnets EXCEPT ![n] = sanitized(input)]
       /\ storedBlocked' = IF storageReady[n]
                           THEN [storedBlocked EXCEPT ![n] = sanitized(input)]
                           ELSE storedBlocked
  /\ UNCHANGED <<self, addr, subnets, storedSubnets, directory, knownPeers, wire, heard,
                 moves, stops>>

(***************************************************************************)
(* readPendingDatagrams and processPacket.  A packet that is refused        *)
(* changes nothing.  peerDiscovered goes to the directory and to the        *)
(* database.                                                                *)
(***************************************************************************)

\* Mutant of accepts: the black list is compared without its mask.
accepts_NoMask(n, d) ==
  /\ \A r \in blockedSubnets[n] : d.from # r.network
  /\ d.id # localId[n]

accepts(n, d) ==
  /\ ~isBlockedAddress(d.from, blockedSubnets[n])
  /\ d.id # localId[n]

\* Mutant of peerDiscovered: the directory is told only when the peer is new.
peerDiscovered_NewOnly(n, i, a) ==
  /\ directory' = [directory EXCEPT ![n][i] = IF @ = <<>> THEN <<a>> ELSE @]
  /\ knownPeers' = IF storageReady[n]
                   THEN [knownPeers EXCEPT ![n][i] = upsertKnownPeer(@, a)] ELSE knownPeers

\* Mutant of peerDiscovered: the row is written whatever initialize said of the database.
peerDiscovered_Unready(n, i, a) ==
  /\ directory' = [directory EXCEPT ![n][i] = upsertPeer(@, a)]
  /\ knownPeers' = [knownPeers EXCEPT ![n][i] = upsertKnownPeer(@, a)]

peerDiscovered(n, i, a) ==
  /\ directory' = [directory EXCEPT ![n][i] = upsertPeer(@, a)]
  /\ knownPeers' = IF storageReady[n]
                   THEN [knownPeers EXCEPT ![n][i] = upsertKnownPeer(@, a)] ELSE knownPeers

processPacket(n, d) ==
  /\ running[n]
  /\ bound[n] = "port"
  /\ reaches(d, addr[n])
  /\ accepts(n, d)
  /\ peerDiscovered(n, d.id, d.from)
  /\ heard' = IF storageReady[n] THEN [heard EXCEPT ![n][d.id] = d.from] ELSE heard
  /\ UNCHANGED <<self, addr, conf, wire, spent>>

(***************************************************************************)
(* The end of a process, the network and the addresses.                     *)
(***************************************************************************)
stop(n) ==
  /\ running[n]
  /\ stops < MaxStops
  /\ stops' = stops + 1
  /\ running' = [running EXCEPT ![n] = FALSE]
  /\ storageReady' = [storageReady EXCEPT ![n] = FALSE]
  /\ bound' = [bound EXCEPT ![n] = "no"]
  /\ subnets' = [subnets EXCEPT ![n] = {}]
  /\ blockedSubnets' = [blockedSubnets EXCEPT ![n] = {}]
  /\ directory' = [directory EXCEPT ![n] = noContacts]
  /\ UNCHANGED <<localId, drawn, addr, storedSubnets, storedBlocked, knownPeers, wire, heard,
                 moves, changes>>

lose(d) ==
  /\ wire' = wire \ {d}
  /\ UNCHANGED <<self, addr, conf, directory, knownPeers, heard, spent>>

move(n) ==
  /\ moves < MaxMoves
  /\ moves' = moves + 1
  /\ \E a \in HostAddress \ {addr[p] : p \in Node} : addr' = [addr EXCEPT ![n] = a]
  /\ UNCHANGED <<self, conf, directory, knownPeers, wire, heard, stops, changes>>

Next ==
  \/ \E n \in Node : \/ initialize(n) \/ sendHeartbeat(n) \/ setSubnets(n)
                     \/ setBlockedSubnets(n) \/ stop(n) \/ move(n)
  \/ \E n \in Node, d \in wire : processPacket(n, d)
  \/ \E d \in wire : lose(d)

Spec == Init /\ [][Next]_vars

(***************************************************************************)
(* Scheduling: the timer of a running service fires again and again, and    *)
(* the network does not lose for ever what a machine goes on sending from   *)
(* the address it has.                                                      *)
(***************************************************************************)
Arrives(n, p) == \E d \in wire :
                   d.id = localId[p] /\ d.from = addr[p] /\ processPacket(n, d)

Fairness == /\ \A n \in Node : WF_vars(sendHeartbeat(n))
            /\ \A n \in Node : \A p \in Node \ {n} : SF_vars(Arrives(n, p))

FairSpec == Spec /\ Fairness

(***************************************************************************)
(* Properties.                                                              *)
(***************************************************************************)
TypeOK ==
  /\ running \in [Node -> BOOLEAN]
  /\ storageReady \in [Node -> BOOLEAN]
  /\ localId \in [Node -> Id]
  /\ drawn \subseteq Passing
  /\ bound \in [Node -> {"no", "port", "ephemeral"}]
  /\ addr \in [Node -> HostAddress]
  /\ subnets \in [Node -> SUBSET Subnet]
  /\ blockedSubnets \in [Node -> SUBSET Subnet]
  /\ storedSubnets \in [Node -> SUBSET Subnet]
  /\ storedBlocked \in [Node -> SUBSET Subnet]
  /\ directory \in [Node -> [Id -> Seq(HostAddress)]]
  /\ knownPeers \in [Node -> [Id -> HostAddress \cup {NoAddress}]]
  /\ wire \subseteq Datagram
  /\ heard \in [Node -> [Id -> HostAddress \cup {NoAddress}]]
  /\ moves \in Nat /\ stops \in Nat /\ changes \in Nat

\* loadSettings, processPacket and loadKnownPeers: a run under a drawn id hears the
\* late packets of an earlier run under the stored one, and takes that for a contact.
\* Still no process lists the id it runs under, whatever its own broadcasts bring
\* back, because no run leaves a row of the stored id to the next.
NotOwnContact ==
  \A n \in Node : /\ knownPeers[n][n] = NoAddress
                  /\ running[n] => directory[n][localId[n]] = <<>>

\* peerDiscovered has two receivers.  The row kept for the next run is always an
\* entry of the contacts of this run, which lists every address once, and with a
\* database there is no contact without a row.
TablesAgree ==
  \A n \in Node, i \in Id :
    running[n] =>
      /\ \A j, k \in 1..Len(directory[n][i]) :
           directory[n][i][j] = directory[n][i][k] => j = k
      /\ storageReady[n] =>
           IF knownPeers[n][i] = NoAddress THEN directory[n][i] = <<>>
           ELSE knownPeers[n][i] \in Range(directory[n][i])

\* findPeer takes the first entry of an id and upsertPeer adds a new address
\* behind it: as long as the process runs, everything sent to a contact goes to
\* the address first known, however often the contact is heard from another one.
ContactKeepsFirstAddress ==
  [][\A n \in Node : \A i \in Id :
       (running[n] /\ running'[n] /\ directory[n][i] # <<>>)
         => findPeer(n, i)' = findPeer(n, i)]_vars

\* loadKnownPeers: a restart is what makes the newest address count.
RestartFindsNewestAddress ==
  [][\A n \in Node : \A i \in Id :
       (~running[n] /\ running'[n] /\ storageReady'[n])
         => findPeer(n, i)' = heard[n][i]]_vars

\* isBlockedAddress: while a segment is on the black list no address of it becomes
\* a contact, whatever was sent from it before or after it was put there.
BlockedIsNotAdded ==
  [][\A n \in Node : \A i \in Id : \A r \in blockedSubnets[n] :
       (running[n] /\ running'[n])
         => (Range(directory'[n][i]) \ Range(directory[n][i])) \cap AddressesOf(r) = {}]_vars

\* What a user expects of the lists: p announces itself under an id to the segment of
\* n, its own when it lists none, and n does not block the address p has.
Announces(p, i, n, a) ==
  /\ localId[p] = i /\ addr[p] = a
  /\ running[p] /\ bound[p] = "port" /\ running[n] /\ bound[n] = "port"
  /\ ~isBlockedAddress(a, blockedSubnets[n])
  /\ ~isBlockedRange(lan(addr[n]), blockedSubnets[p])
  /\ IF subnets[p] = {} THEN lan(a) = lan(addr[n]) ELSE lan(addr[n]) \in subnets[p]

\* sendHeartbeat and processPacket: while that lasts, n finds p at its address and
\* keeps it, whatever was lost before.
HeartbeatIsHeard ==
  \A n \in Node : \A p \in Node \ {n}, i \in Id \ {n}, a \in HostAddress :
    <>[]Announces(p, i, n, a) => <>[](a \in Range(directory[n][i]))

\* The settings dialog tells the user that the current segment keeps the
\* installation online for the others and cannot be removed.
CurrentSegmentIsAnnounced ==
  \A n \in Node :
    (running[n] /\ ~isBlockedRange(lan(addr[n]), blockedSubnets[n]))
      => \E t \in broadcastTargets(addr[n], subnets[n], blockedSubnets[n]) :
           t \in {broadcastFor(lan(addr[n])), Broadcast}

\* The settings dialog tells the user that nothing is broadcast to a segment on
\* the black list.
BlockedIsNotBroadcast ==
  \A n \in Node : \A t \in broadcastTargets(addr[n], subnets[n], blockedSubnets[n]) :
    running[n] =>
      \A a \in HostAddress : isBlockedAddress(a, blockedSubnets[n]) =>
        \A d \in packets(localId[n], addr[n], {t}) : ~reaches(d, a)
=============================================================================
