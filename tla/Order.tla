------------------------------- MODULE Order -------------------------------
(***************************************************************************)
(* Sequences that are made of a set and an order: what ORDER BY makes of    *)
(* the rows a query finds, and what a loop that skips some of its elements  *)
(* makes of a list.  An order is a set of pairs, so that the prover can     *)
(* expand what is defined here, as it cannot SortSeq and SelectSeq.         *)
(***************************************************************************)
EXTENDS Integers, Sequences, FiniteSets

\* The elements of S, the first being the one that none comes before in R.
inOrder(S, R) ==
  [k \in 1..Cardinality(S) |->
     CHOOSE i \in S : Cardinality({j \in S : <<j, i>> \in R}) = k - 1]

ascending(S) == {pair \in S \X S : pair[1] < pair[2]}

\* The elements of the sequence s at the places in P.
select(s, P) == LET at == inOrder(P, ascending(P))
                IN  [k \in 1..Cardinality(P) |-> s[at[k]]]
=============================================================================
