--------------------------- MODULE MCShareCenter ---------------------------
EXTENDS ShareCenter
CONSTANTS n1, n2, n3, x2, d1, d2, f1, f2
MCDirOf == [f \in {f1, f2} |-> IF f = f1 THEN d1 ELSE d2]
\* n2 runs under x2 when it cannot open its database.
MCHome == [n \in Node |-> IF n = x2 THEN n2 ELSE n]
\* n1 has heard all others, n2 only n1 under either id, n3 only n2.
MCKnown == [n \in Node |-> Node \cap (CASE n = n1 -> {n2, n3, x2} [] n \in {n2, x2} -> {n1}
                                        [] n = n3 -> {n2})]
\* n1 shares nothing, n2 one directory, n3 both: it alone offers f2.
MCStored == {[n \in Node |-> CASE n \in {n1, x2} -> {} [] n = n2 -> {d1} [] n = n3 -> {d1, d2}]}
=============================================================================
