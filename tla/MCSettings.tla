----------------------------- MODULE MCSettings -----------------------------
EXTENDS Settings, TLC
CONSTANTS p1, p2, host, role, ann, placeholder, motto, default, other
\* Two processes of one installation do the same.
Processes == Permutations({p1, p2})
=============================================================================
