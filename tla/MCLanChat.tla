----------------------------- MODULE MCLanChat -----------------------------
EXTENDS LanChat, TLC
CONSTANTS n1, n2, n3, c1, c2, c3, a1, a2, a3
MCGoals == [p \in Node |-> Node \cup {NoNode}]
\* n1 and n2 know each other.
MCBooks == {[n \in Node |-> [p \in Node |-> CASE n = n1 /\ p = n2 -> a2
                                             [] n = n2 /\ p = n1 -> a1
                                             [] OTHER -> NoAddress]]}
\* The machine of n2 runs under n3 when it cannot open its database.
MCHomes == {[n \in Node |-> IF n = n1 THEN a1 ELSE a2]}
MCQuota == [n \in Node |-> CASE n = n1 -> 2 [] n = n2 -> 1 [] n = n3 -> 1]
ConnSymmetry == Permutations(Conn)
=============================================================================
