---------------------------- MODULE MCDiscovery ----------------------------
EXTENDS Discovery
CONSTANTS n1, n2, x1
\* Four bits, segments of four addresses: 4..7 and 8..11.
MCWidth == 4
MCLanPrefix == 2
MCHosts == {4, 5, 8}
\* In one segment, or in two.
MCHomes == {[n \in Node |-> IF n = n1 THEN 4 ELSE 5], [n \in Node |-> IF n = n1 THEN 8 ELSE 4]}
\* The other segment given by one of its hosts and again by its network; a segment
\* of the other family; nothing.
MCSubnets == {{[network |-> 9, prefix |-> 2], [network |-> 8, prefix |-> 2]},
              {[network |-> V6, prefix |-> 4]}, {}}
\* The first segment; the segment 4..5 within it, beside a prefix out of range.
MCBlocked == {{[network |-> 6, prefix |-> 2]},
              {[network |-> 8, prefix |-> 9], [network |-> 4, prefix |-> 3]}}
=============================================================================
