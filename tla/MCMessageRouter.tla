--------------------------- MODULE MCMessageRouter ---------------------------
EXTENDS MessageRouter, TLC
CONSTANTS n1, n2, c1, c2, c3
MCNode2 == {n1, n2}
MCGoals2 == [p \in {n1, n2} |-> {p}]
ConnSymmetry == Permutations(Conn)
=============================================================================
