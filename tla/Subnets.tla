------------------------------ MODULE Subnets ------------------------------
(***************************************************************************)
(* The arithmetic of network segments: DiscoveryService.cpp (broadcastFor,  *)
(* isBlockedAddress, isBlockedRange) and ChatController.cpp                 *)
(* (normalizeNetwork, the loop of setSubnets and setBlockedSubnets).        *)
(*                                                                          *)
(* An IPv4 address is an integer of W bits, 32 in the program.  V6 is an    *)
(* address of the other family, NoAddress the null QHostAddress.            *)
(***************************************************************************)
EXTENDS Integers

CONSTANTS W, V6, NoAddress

ASSUME WidthAssumption == W \in Nat \ {0}

Address == 0 .. (2^W - 1)
ASSUME AddressAssumption == V6 \notin Address /\ NoAddress \notin Address

\* QHostAddress::Broadcast, 255.255.255.255.
Broadcast == 2^W - 1

\* What the prover does not know of exponents.
ASSUME PowerAssumption == \A k \in 0..W : 2^k \in Nat \ {0} /\ 2^(k + 1) = 2 * 2^k

Subnet == [network : Nat \cup {V6}, prefix : Nat]

\* ip & mask, the mask being 0 for prefix 0 and 0xFFFFFFFF << (32 - p) otherwise.
masked(a, p) == a - (a % 2^(W - p))

maxPrefixFor(a) == IF a = V6 THEN 4 * W ELSE W

normalizeNetwork(a, p) == IF a \in Address /\ p \in 0..W THEN masked(a, p) ELSE a

\* (addr & mask) | ~mask.
broadcastFor(r) == IF r.network \in Address /\ r.prefix \in 0..W
                   THEN masked(r.network, r.prefix) + 2^(W - r.prefix) - 1
                   ELSE NoAddress

isBlockedAddress(a, blocked) ==
  /\ a \in Address
  /\ \E r \in blocked : /\ r.network \in Address
                        /\ masked(a, r.prefix) = masked(r.network, r.prefix)

\* The prefix of the range plays no part: Q_UNUSED(prefixLength).
isBlockedRange(r, blocked) == isBlockedAddress(r.network, blocked)

(***************************************************************************)
(* The common loop of setSubnets and setBlockedSubnets: invalid pairs are   *)
(* skipped, the others normalised, and of equal tokens one is kept.  A list *)
(* is the set of its pairs: its order decides nothing but the order of the  *)
(* datagrams of one announcement.                                           *)
(***************************************************************************)
isValid(r) == r.network # NoAddress /\ r.prefix \in 0..maxPrefixFor(r.network)

sanitized(list) ==
  {[network |-> normalizeNetwork(r.network, r.prefix), prefix |-> r.prefix] :
     r \in {s \in list : isValid(s)}}

(***************************************************************************)
(* Reference: a segment holds the addresses that agree with its network on  *)
(* the first bits, as many as its prefix says.                              *)
(***************************************************************************)
AddressesOf(r) ==
  IF r.network \in Address
  THEN {a \in Address : \A k \in 0..(r.prefix - 1) :
          (a \div 2^(W - 1 - k)) % 2 = (r.network \div 2^(W - 1 - k)) % 2}
  ELSE {}
=============================================================================
