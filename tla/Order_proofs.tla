---------------------------- MODULE Order_proofs ----------------------------
(***************************************************************************)
(* What inOrder and select return, for every finite set and every order of  *)
(* it.  The rank of an element is how many come before it.  Ranks grow      *)
(* along the order (RankGrows), so they are different and, being as many as *)
(* the elements, all of 0 .. Cardinality(S) - 1 (RankIsTaken): inOrder has  *)
(* an element to choose for every place (InOrder), and there is no other    *)
(* sequence in that order (InOrderUnique).                                  *)
(***************************************************************************)
EXTENDS Order, FiniteSetTheorems, SequenceTheorems, WellFoundedInduction, TLAPS

\* R puts the elements of S one after the other.
IsOrder(S, R) ==
  /\ \A i \in S : <<i, i>> \notin R
  /\ \A i, j \in S : i # j => <<i, j>> \in R \/ <<j, i>> \in R
  /\ \A i, j, k \in S : <<i, j>> \in R /\ <<j, k>> \in R => <<i, k>> \in R

\* s has the n elements of S in the order R.
Enumerates(s, n, S, R) ==
  /\ s \in [1..n -> S]
  /\ \A j, k \in 1..n : j < k => <<s[j], s[k]>> \in R
  /\ \A i \in S : \E k \in 1..n : s[k] = i

\* at has the m numbers of P in ascending order.
Ascends(at, m, P) ==
  /\ at \in [1..m -> P]
  /\ \A j, k \in 1..m : j < k => at[j] < at[k]
  /\ \A i \in P : \E k \in 1..m : at[k] = i

Before(S, R, i) == {j \in S : <<j, i>> \in R}

Rank(S, R, i) == Cardinality(Before(S, R, i))

LEMMA RankType ==
  ASSUME NEW S, NEW R, IsFiniteSet(S), IsOrder(S, R), NEW i \in S
  PROVE  Rank(S, R, i) \in Nat /\ Rank(S, R, i) < Cardinality(S)
<1>1. Before(S, R, i) \in SUBSET S /\ i \notin Before(S, R, i)
  BY DEF Before, IsOrder
<1>2. IsFiniteSet(Before(S, R, i)) /\ Cardinality(Before(S, R, i)) <= Cardinality(S)
      /\ (Cardinality(S) = Cardinality(Before(S, R, i)) => S = Before(S, R, i))
  BY <1>1, FS_Subset
<1>3. Cardinality(Before(S, R, i)) \in Nat /\ Cardinality(S) \in Nat
  BY <1>2, FS_CardinalityType
<1>4. Cardinality(Before(S, R, i)) # Cardinality(S)
  BY <1>1, <1>2
<1> QED
  BY <1>2, <1>3, <1>4 DEF Rank

LEMMA RankGrows ==
  ASSUME NEW S, NEW R, IsFiniteSet(S), IsOrder(S, R), NEW i \in S, NEW j \in S,
         <<i, j>> \in R
  PROVE  Rank(S, R, i) < Rank(S, R, j)
<1> DEFINE A == Before(S, R, i)
           B == Before(S, R, j)
<1>1. A \in SUBSET B /\ i \in B /\ i \notin A /\ A \in SUBSET S /\ B \in SUBSET S
  BY DEF Before, IsOrder
<1> HIDE DEF A, B
<1>2. IsFiniteSet(B) /\ IsFiniteSet(A)
  BY <1>1, FS_Subset
<1>3. Cardinality(A) <= Cardinality(B) /\ (Cardinality(B) = Cardinality(A) => B = A)
  BY <1>1, <1>2, FS_Subset
<1>4. Cardinality(A) \in Nat /\ Cardinality(B) \in Nat
  BY <1>2, FS_CardinalityType
<1>5. Cardinality(A) # Cardinality(B)
  BY <1>1, <1>3
<1>6. Cardinality(A) < Cardinality(B)
  BY <1>3, <1>4, <1>5
<1> QED
  BY <1>6 DEF A, B, Rank

\* Every number below the size of the set is the rank of an element.
LEMMA RankIsTaken ==
  ASSUME NEW S, NEW R, IsFiniteSet(S), IsOrder(S, R), NEW k \in 1..Cardinality(S)
  PROVE  \E i \in S : Rank(S, R, i) = k - 1
<1> DEFINE n == Cardinality(S)
           f == [i \in S |-> Rank(S, R, i) + 1]
<1>1. n \in Nat
  BY FS_CardinalityType
<1>2. f \in [S -> 1..n]
  BY <1>1, RankType
<1>3. \A i, j \in S : f[i] = f[j] => i = j
  <2>1. SUFFICES ASSUME NEW i \in S, NEW j \in S, i # j PROVE f[i] # f[j]
    OBVIOUS
  <2>2. Rank(S, R, i) \in Nat /\ Rank(S, R, j) \in Nat
    BY RankType
  <2>3. CASE <<i, j>> \in R
    BY <2>2, <2>3, RankGrows
  <2>4. CASE <<j, i>> \in R
    BY <2>2, <2>4, RankGrows
  <2> QED
    BY <2>1, <2>3, <2>4 DEF IsOrder
<1>4. IsFiniteSet(1..n) /\ Cardinality(1..n) = n
  <2>1. 1 \in Int /\ n \in Int /\ (1 > n => n = 0) /\ n - 1 + 1 = n
    BY <1>1
  <2>2. IsFiniteSet(1..n) /\ Cardinality(1..n) = IF 1 > n THEN 0 ELSE n - 1 + 1
    BY <2>1, FS_Interval
  <2> QED
    BY <2>1, <2>2
<1>5. f \in Injection(S, 1..n)
  BY <1>2, <1>3 DEF Injection, IsInjective
<1>6. f \in Surjection(S, 1..n)
  <2> HIDE DEF f
  <2> QED
    BY <1>4, <1>5, FS_Injection
<1>7. PICK i \in S : f[i] = k
  BY <1>6 DEF Surjection
<1>8. Rank(S, R, i) \in Nat /\ Rank(S, R, i) + 1 = k
  BY <1>7, RankType
<1> QED
  BY <1>8

\* The element in a place is the one of that rank.
LEMMA PlaceIsRank ==
  ASSUME NEW S, NEW R, IsFiniteSet(S), IsOrder(S, R), NEW k \in 1..Cardinality(S)
  PROVE  inOrder(S, R)[k] \in S /\ Rank(S, R, inOrder(S, R)[k]) = k - 1
<1>1. \E i \in S : Rank(S, R, i) = k - 1
  BY RankIsTaken
<1>2. inOrder(S, R)[k] = CHOOSE i \in S : Rank(S, R, i) = k - 1
  BY DEF inOrder, Rank, Before
<1> QED
  BY <1>1, <1>2

\* inOrder is a sequence of all elements of S, each of them once, in the order R.
LEMMA InOrder ==
  ASSUME NEW S, NEW R, IsFiniteSet(S), IsOrder(S, R)
  PROVE  /\ Cardinality(S) \in Nat
         /\ inOrder(S, R) \in Seq(S)
         /\ Len(inOrder(S, R)) = Cardinality(S)
         /\ \A j, k \in 1..Cardinality(S) :
              j < k => <<inOrder(S, R)[j], inOrder(S, R)[k]>> \in R
         /\ \A i \in S : \E k \in 1..Cardinality(S) : inOrder(S, R)[k] = i
<1> DEFINE n == Cardinality(S)
           s == inOrder(S, R)
<1>1. n \in Nat
  BY FS_CardinalityType
<1>2. ASSUME NEW k \in 1..n
      PROVE  s[k] \in S /\ Rank(S, R, s[k]) = k - 1
  BY PlaceIsRank
<1>3. s = [k \in 1..n |-> s[k]]
  <2> DEFINE g(k) == CHOOSE i \in S : Cardinality({j \in S : <<j, i>> \in R}) = k - 1
  <2>1. s = [k \in 1..n |-> g(k)]
    BY DEF inOrder
  <2> HIDE DEF g, s
  <2> QED
    BY <2>1
<1>4. s \in [1..n -> S]
  BY <1>2, <1>3
<1> HIDE DEF s
<1>5. s \in Seq(S) /\ Len(s) = n
  BY <1>1, <1>4
<1>6. ASSUME NEW j \in 1..n, NEW k \in 1..n, j < k
      PROVE  <<s[j], s[k]>> \in R
  <2>1. s[j] \in S /\ s[k] \in S /\ Rank(S, R, s[j]) = j - 1 /\ Rank(S, R, s[k]) = k - 1
    BY <1>2
  <2>2. Rank(S, R, s[j]) < Rank(S, R, s[k]) /\ ~(Rank(S, R, s[k]) < Rank(S, R, s[j]))
    BY <1>1, <1>6, <2>1
  <2>3. s[j] # s[k] /\ <<s[k], s[j]>> \notin R
    BY <1>6, <2>1, <2>2, RankGrows
  <2> QED
    BY <2>1, <2>3 DEF IsOrder
<1>7. ASSUME NEW i \in S
      PROVE  \E k \in 1..n : s[k] = i
  <2>1. PICK k : k \in 1..n /\ k = Rank(S, R, i) + 1 /\ k - 1 = Rank(S, R, i)
    BY <1>1, RankType
  <2>2. s[k] \in S /\ Rank(S, R, s[k]) = Rank(S, R, i)
    BY <1>2, <2>1
  <2>3. Rank(S, R, i) \in Nat
    BY RankType
  <2>4. ~(Rank(S, R, i) < Rank(S, R, s[k])) /\ ~(Rank(S, R, s[k]) < Rank(S, R, i))
    BY <2>2, <2>3
  <2>5. <<i, s[k]>> \notin R /\ <<s[k], i>> \notin R
    BY <2>2, <2>4, RankGrows
  <2> QED
    BY <2>1, <2>2, <2>5 DEF IsOrder
<1> QED
  BY <1>1, <1>5, <1>6, <1>7 DEF s

LEMMA SameRank ==
  ASSUME NEW S, NEW R, IsFiniteSet(S), IsOrder(S, R), NEW i \in S, NEW j \in S,
         Rank(S, R, i) = Rank(S, R, j)
  PROVE  i = j
<1>1. Rank(S, R, i) \in Nat
  BY RankType
<1>2. ~(Rank(S, R, i) < Rank(S, R, j)) /\ ~(Rank(S, R, j) < Rank(S, R, i))
  BY <1>1
<1>3. <<i, j>> \notin R /\ <<j, i>> \notin R
  BY <1>2, RankGrows
<1> QED
  BY <1>3 DEF IsOrder

\* A sequence of all elements of S in the order R is inOrder.
LEMMA InOrderUnique ==
  ASSUME NEW S, NEW R, IsOrder(S, R), NEW n \in Nat, NEW s, Enumerates(s, n, S, R)
  PROVE  IsFiniteSet(S) /\ Cardinality(S) = n /\ inOrder(S, R) = s
<1> USE DEF Enumerates
<1>1. \A j, k \in 1..n : s[j] = s[k] => j = k
  <2>1. SUFFICES ASSUME NEW j \in 1..n, NEW k \in 1..n, j # k PROVE s[j] # s[k]
    OBVIOUS
  <2>2. <<s[j], s[k]>> \in R \/ <<s[k], s[j]>> \in R
    BY <2>1
  <2> QED
    BY <2>2 DEF IsOrder
<1>2. ASSUME NEW m \in 0..n
      PROVE  /\ IsFiniteSet({s[k] : k \in 1..m})
             /\ Cardinality({s[k] : k \in 1..m}) = m
  <2> DEFINE T == {s[k] : k \in 1..m}
             f == [k \in 1..m |-> s[k]]
  <2>1. f \in [1..m -> T] /\ m \in Nat
    OBVIOUS
  <2>2. \A j, k \in 1..m : f[j] = f[k] => j = k
    BY <1>1
  <2>3. \A i \in T : \E k \in 1..m : f[k] = i
    OBVIOUS
  <2> HIDE DEF T, f
  <2>4. f \in Bijection(1..m, T)
    BY <2>1, <2>2, <2>3 DEF Bijection, Injection, Surjection, IsInjective
  <2>5. ExistsBijection(1..m, T)
    BY <2>4 DEF ExistsBijection
  <2>6. IsFiniteSet(T) /\ Cardinality(T) = m
    BY <2>1, <2>5, FS_NatBijection, FS_CountingElements
  <2> QED
    BY <2>6 DEF T
<1>3. IsFiniteSet(S) /\ Cardinality(S) = n
  <2>1. {s[k] : k \in 1..n} = S
    OBVIOUS
  <2>2. n \in 0..n
    OBVIOUS
  <2> QED
    BY <1>2, <2>1, <2>2
<1>4. ASSUME NEW k \in 1..n
      PROVE  Rank(S, R, s[k]) = k - 1
  <2>1. Before(S, R, s[k]) = {s[j] : j \in 1..(k - 1)}
    <3>1. ASSUME NEW j \in 1..(k - 1) PROVE s[j] \in Before(S, R, s[k])
      BY DEF Before
    <3>2. ASSUME NEW i \in Before(S, R, s[k])
          PROVE  \E j \in 1..(k - 1) : s[j] = i
      <4>1. PICK j \in 1..n : s[j] = i
        BY DEF Before
      <4>2. <<s[j], s[k]>> \in R
        BY <4>1 DEF Before
      <4>3. ~(k < j) /\ j # k
        BY <4>2 DEF IsOrder
      <4> QED
        BY <4>1, <4>3
    <3> QED
      BY <3>1, <3>2
  <2>2. k - 1 \in 0..n
    OBVIOUS
  <2> QED
    BY <1>2, <2>1, <2>2 DEF Rank
<1>5. ASSUME NEW k \in 1..n
      PROVE  inOrder(S, R)[k] = s[k]
  <2>1. k \in 1..Cardinality(S) /\ s[k] \in S
    BY <1>3
  <2>2. inOrder(S, R)[k] \in S /\ Rank(S, R, inOrder(S, R)[k]) = k - 1
    BY <1>3, <2>1, PlaceIsRank
  <2>3. Rank(S, R, inOrder(S, R)[k]) = Rank(S, R, s[k])
    BY <1>4, <2>2
  <2> QED
    BY <1>3, <2>1, <2>2, <2>3, SameRank
<1>6. inOrder(S, R) \in Seq(S) /\ Len(inOrder(S, R)) = n
  BY <1>3, InOrder
<1>7. s \in Seq(S) /\ Len(s) = n
  OBVIOUS
<1> QED
  BY <1>3, <1>5, <1>6, <1>7, SeqEqual

LEMMA AscendingIsOrder ==
  ASSUME NEW S, S \subseteq Int
  PROVE  IsOrder(S, ascending(S))
BY DEF IsOrder, ascending

\* A set of places of a sequence is finite.
LEMMA PlacesAreFinite ==
  ASSUME NEW n \in Nat, NEW P \in SUBSET (1..n)
  PROVE  IsFiniteSet(P) /\ Cardinality(P) \in Nat /\ IsOrder(P, ascending(P))
<1>1. IsFiniteSet(1..n)
  BY FS_Interval
<1>2. IsFiniteSet(P)
  BY <1>1, FS_Subset
<1>3. P \subseteq Int
  OBVIOUS
<1> QED
  BY <1>2, <1>3, FS_CardinalityType, AscendingIsOrder

\* select goes through the places in ascending order.
LEMMA Select ==
  ASSUME NEW T, NEW s \in Seq(T), NEW P \in SUBSET (1..Len(s))
  PROVE  /\ Cardinality(P) \in Nat
         /\ select(s, P) \in Seq(T)
         /\ Len(select(s, P)) = Cardinality(P)
         /\ \E at : /\ Ascends(at, Cardinality(P), P)
                   /\ \A k \in 1..Cardinality(P) : select(s, P)[k] = s[at[k]]
<1>1. IsFiniteSet(P) /\ Cardinality(P) \in Nat /\ IsOrder(P, ascending(P))
  <2>1. PICK n \in Nat : n = Len(s)
    OBVIOUS
  <2> QED
    BY <2>1, PlacesAreFinite
<1>2. PICK at : at = inOrder(P, ascending(P))
  OBVIOUS
<1>3. /\ at \in Seq(P) /\ Len(at) = Cardinality(P)
      /\ \A j, k \in 1..Cardinality(P) : j < k => <<at[j], at[k]>> \in ascending(P)
      /\ \A i \in P : \E k \in 1..Cardinality(P) : at[k] = i
  BY <1>1, <1>2, InOrder
<1>4. at \in [1..Cardinality(P) -> P]
  BY <1>3
<1>5. \A j, k \in 1..Cardinality(P) : j < k => at[j] < at[k]
  BY <1>3 DEF ascending
<1>6. PICK m \in Nat : m = Cardinality(P)
  BY <1>1
<1>7. select(s, P) = [k \in 1..m |-> s[at[k]]]
  BY <1>2, <1>6 DEF select
<1>8. /\ select(s, P) \in Seq(T) /\ Len(select(s, P)) = m
      /\ \A k \in 1..m : select(s, P)[k] = s[at[k]]
  <2>1. ASSUME NEW k \in 1..m PROVE s[at[k]] \in T
    <3>1. at[k] \in P
      BY <1>4, <1>6
    <3>2. at[k] \in 1..Len(s)
      BY <3>1
    <3> QED
      BY <3>2, ElementOfSeq
  <2>2. select(s, P) \in [1..m -> T]
    BY <1>7, <2>1
  <2> QED
    BY <1>7, <2>2
<1> QED
  BY <1>3, <1>4, <1>5, <1>6, <1>8 DEF Ascends

\* Nothing else has the places in ascending order.
LEMMA SelectUnique ==
  ASSUME NEW T, NEW s \in Seq(T), NEW P \in SUBSET (1..Len(s)), NEW m \in Nat,
         NEW at, Ascends(at, m, P)
  PROVE  Cardinality(P) = m /\ select(s, P) = [k \in 1..m |-> s[at[k]]]
<1> USE DEF Ascends
<1>1. IsOrder(P, ascending(P))
  <2>1. PICK n \in Nat : n = Len(s)
    OBVIOUS
  <2> QED
    BY <2>1, PlacesAreFinite
<1>2. \A j, k \in 1..m : j < k => <<at[j], at[k]>> \in ascending(P)
  BY DEF ascending
<1>3. Cardinality(P) = m /\ inOrder(P, ascending(P)) = at
  <2>1. Enumerates(at, m, P, ascending(P))
    BY <1>2 DEF Enumerates
  <2> QED
    BY <1>1, <2>1, InOrderUnique
<1> QED
  BY <1>3 DEF select

\* What is added to the end of a sequence changes nothing before it, and is selected
\* last.
LEMMA SelectAppend ==
  ASSUME NEW T, NEW s \in Seq(T), NEW e \in T, NEW P \in SUBSET (1..Len(s))
  PROVE  /\ select(Append(s, e), P) = select(s, P)
         /\ select(Append(s, e), P \cup {Len(s) + 1}) = Append(select(s, P), e)
<1>1. PICK n \in Nat : n = Len(s)
  OBVIOUS
<1>2. PICK t \in Seq(T) : /\ t = Append(s, e) /\ Len(t) = n + 1
                          /\ \A i \in 1..n : t[i] = s[i]
                          /\ t[n + 1] = e
  BY <1>1, AppendProperties
<1>3. PICK m \in Nat : m = Cardinality(P)
  BY Select
<1>4. PICK at : Ascends(at, m, P)
  BY <1>3, Select
<1>5. select(s, P) = [k \in 1..m |-> s[at[k]]]
  BY <1>4, SelectUnique
<1>6. P \subseteq 1..n /\ \A k \in 1..m : at[k] \in 1..n
  BY <1>1, <1>4 DEF Ascends
<1>7. select(t, P) = select(s, P)
  <2>1. P \in SUBSET (1..Len(t))
    BY <1>2, <1>6
  <2>2. select(t, P) = [k \in 1..m |-> t[at[k]]]
    BY <1>4, <2>1, SelectUnique
  <2> QED
    BY <1>2, <1>5, <1>6, <2>2
<1>8. select(t, P \cup {Len(s) + 1}) = Append(select(s, P), e)
  <2> DEFINE Q == P \cup {n + 1}
             to == [k \in 1..m + 1 |-> IF k = m + 1 THEN n + 1 ELSE at[k]]
  <2>1. Q \in SUBSET (1..Len(t))
    <3>1. 1..Len(t) = 1..n + 1 /\ n + 1 \in 1..n + 1 /\ \A i \in 1..n : i \in 1..n + 1
      BY <1>2
    <3> QED
      BY <1>6, <3>1
  <2>2. to \in [1..m + 1 -> Q] /\ m + 1 \in Nat
    <3>1. ASSUME NEW k \in 1..m + 1
          PROVE  k = m + 1 \/ at[k] \in P
      <4>1. k = m + 1 \/ k \in 1..m
        OBVIOUS
      <4> QED
        BY <1>4, <4>1 DEF Ascends
    <3> QED
      BY <3>1
  <2>3. \A j, k \in 1..m + 1 : j < k => to[j] < to[k]
    BY <1>4, <1>6 DEF Ascends
  <2>4. \A i \in Q : \E k \in 1..m + 1 : to[k] = i
    <3>1. to[m + 1] = n + 1 /\ m + 1 \in 1..m + 1
      OBVIOUS
    <3>2. \A k \in 1..m : to[k] = at[k] /\ k \in 1..m + 1
      OBVIOUS
    <3> QED
      BY <1>4, <3>1, <3>2 DEF Ascends
  <2>5. /\ \A k \in 1..m : to[k] \in 1..n /\ to[k] = at[k] /\ k \in 1..m + 1
        /\ to[m + 1] = n + 1 /\ m + 1 \in 1..m + 1
    BY <1>6
  <2> HIDE DEF to
  <2>6. select(t, Q) = [k \in 1..m + 1 |-> t[to[k]]]
    <3>1. Ascends(to, m + 1, Q)
      BY <2>2, <2>3, <2>4 DEF Ascends
    <3> HIDE DEF Q
    <3> QED
      BY <2>1, <2>2, <3>1, SelectUnique
  <2>7. /\ select(s, P) \in Seq(T) /\ Len(select(s, P)) = m
        /\ \A k \in 1..m : select(s, P)[k] = s[at[k]]
    BY <1>3, <1>5, Select
  <2>8. PICK r \in Seq(T) : r = select(s, P)
    BY <2>7
  <2>9. ASSUME NEW k \in 1..m + 1 PROVE Append(r, e)[k] = t[to[k]]
    <3>1. Len(r) = m /\ Append(r, e)[m + 1] = e /\ \A i \in 1..m : Append(r, e)[i] = r[i]
      BY <2>7, <2>8
    <3>2. CASE k = m + 1
      BY <1>2, <2>5, <3>1, <3>2
    <3>3. CASE k \in 1..m
      <4>1. t[to[k]] = s[at[k]]
        BY <1>2, <1>6, <2>5, <3>3
      <4>2. r[k] = s[at[k]] /\ Append(r, e)[k] = r[k]
        BY <2>7, <2>8, <3>1, <3>3
      <4> QED
        BY <4>1, <4>2
    <3> QED
      <4>1. k = m + 1 \/ k \in 1..m
        OBVIOUS
      <4> QED
        BY <3>2, <3>3, <4>1
  <2>10. select(t, Q) \in Seq(T) /\ Len(select(s, P)) = m
    <3> HIDE DEF Q
    <3> QED
      BY <2>1, <2>7, Select
  <2>11. PICK u \in Seq(T) : u = select(t, Q)
    BY <2>10
  <2>12. Len(u) = m + 1 /\ \A k \in 1..m + 1 : u[k] = t[to[k]]
    <3> HIDE DEF Q
    <3> QED
      BY <2>6, <2>11
  <2>13. Append(r, e) \in Seq(T) /\ Len(Append(r, e)) = m + 1
    BY <2>7, <2>8
  <2>14. u = Append(r, e)
    BY <2>9, <2>12, <2>13, SeqEqual
  <2> QED
    BY <1>1, <1>2, <2>8, <2>11, <2>14
<1> QED
  BY <1>2, <1>7, <1>8

\* A set of numbers that is not empty has a least one.
LEMMA LeastOf ==
  ASSUME NEW S, S \subseteq Nat, S # {}
  PROVE  \E x \in S : \A y \in S : x =< y
<1> DEFINE less == OpToRel(<, Nat)
<1>1. IsWellFoundedOn(less, Nat)
  BY NatLessThanWellFounded
<1>2. \A x, y \in Nat : <<y, x>> \in less <=> y < x
  BY DEF OpToRel
<1> HIDE DEF less
<1>3. PICK x \in S : \A y \in S : ~ (<<y, x>> \in less)
  BY <1>1, WFMin
<1>4. ASSUME NEW y \in S PROVE x =< y
  <2>1. x \in Nat /\ y \in Nat
    OBVIOUS
  <2>2. ~ (y < x)
    BY <1>2, <1>3, <2>1
  <2> QED
    BY <2>1, <2>2
<1> QED
  BY <1>4

\* No element is twice in s.
NoneTwice(s) == \A j, k \in 1..Len(s) : s[j] = s[k] => j = k

Has(s, e) == \E k \in 1..Len(s) : s[k] = e

\* What is selected from a list was in it, once if it was once in the list.
LEMMA Selected ==
  ASSUME NEW T, NEW s \in Seq(T), NEW P \in SUBSET (1..Len(s))
  PROVE  /\ select(s, P) \in Seq(T)
         /\ \A e : Has(select(s, P), e) <=> \E i \in P : s[i] = e
         /\ NoneTwice(s) => NoneTwice(select(s, P))
<1>1. PICK m \in Nat, u \in Seq(T) : m = Cardinality(P) /\ u = select(s, P) /\ Len(u) = m
  BY Select
<1>2. PICK at : Ascends(at, m, P) /\ \A k \in 1..m : u[k] = s[at[k]]
  BY <1>1, Select
<1>3. /\ \A k \in 1..m : at[k] \in P /\ at[k] \in 1..Len(s)
      /\ \A j, k \in 1..m : j < k => at[j] < at[k]
      /\ \A i \in P : \E k \in 1..m : at[k] = i
  BY <1>2 DEF Ascends
<1>4. ASSUME NEW e
      PROVE  Has(u, e) <=> \E i \in P : s[i] = e
  <2>1. Has(u, e) <=> \E k \in 1..m : u[k] = e
    BY <1>1 DEF Has
  <2>2. ASSUME NEW k \in 1..m, u[k] = e
        PROVE  \E i \in P : s[i] = e
    BY <1>2, <1>3, <2>2
  <2>3. ASSUME NEW i \in P, s[i] = e
        PROVE  \E k \in 1..m : u[k] = e
    BY <1>2, <1>3, <2>3
  <2> QED
    BY <2>1, <2>2, <2>3
<1>5. ASSUME NoneTwice(s), NEW j \in 1..m, NEW k \in 1..m, u[j] = u[k]
      PROVE  j = k
  <2>1. at[j] = at[k]
    <3>1. PICK x \in 1..Len(s), y \in 1..Len(s) : x = at[j] /\ y = at[k]
      BY <1>3
    <3>2. s[x] = s[y]
      BY <1>2, <1>5, <3>1
    <3> QED
      BY <1>5, <3>1, <3>2 DEF NoneTwice
  <2>2. ~(j < k) /\ ~(k < j)
    BY <1>3, <2>1
  <2> QED
    BY <2>2
<1> QED
  BY <1>1, <1>4, <1>5 DEF NoneTwice

FirstPlaces(s) == {i \in DOMAIN s : \A j \in 1..i - 1 : s[j] # s[i]}

\* The first of equal elements: none is lost and none is twice.
LEMMA FirstOnes ==
  ASSUME NEW T, NEW s \in Seq(T), NEW P, P = FirstPlaces(s)
  PROVE  /\ select(s, P) \in Seq(T)
         /\ \A e : Has(select(s, P), e) <=> Has(s, e)
         /\ NoneTwice(select(s, P))
<1>1. PICK n \in Nat : n = Len(s) /\ DOMAIN s = 1..n
  OBVIOUS
<1>2. P = {i \in 1..n : \A j \in 1..i - 1 : s[j] # s[i]}
  BY <1>1 DEF FirstPlaces
<1>3. P \in SUBSET (1..Len(s))
  BY <1>1, <1>2
<1>4. PICK m \in Nat, u \in Seq(T) :
        /\ u = select(s, P) /\ Len(u) = m
        /\ \E at : Ascends(at, m, P) /\ \A k \in 1..m : u[k] = s[at[k]]
  <2>1. PICK Q \in SUBSET (1..Len(s)) : Q = P
    BY <1>3
  <2>2. PICK m \in Nat, u \in Seq(T) : m = Cardinality(Q) /\ u = select(s, Q) /\ Len(u) = m
    BY Select
  <2>3. PICK at : Ascends(at, m, Q) /\ \A k \in 1..m : u[k] = s[at[k]]
    BY <2>2, Select
  <2> QED
    BY <2>1, <2>2, <2>3
<1>5. ASSUME NEW i \in 1..n
      PROVE  \E k \in P : s[k] = s[i]
  <2> DEFINE S == {k \in 1..n : s[k] = s[i]}
  <2>1. PICK k \in S : \A j \in S : k <= j
    <3>1. S \subseteq Nat /\ S # {}
      OBVIOUS
    <3> HIDE DEF S
    <3> QED
      BY <3>1, LeastOf
  <2>2. ASSUME NEW j \in 1..k - 1 PROVE s[j] # s[k]
    <3>1. j \in 1..n /\ ~(k <= j)
      OBVIOUS
    <3>2. j \notin S
      BY <2>1, <3>1
    <3> QED
      BY <3>1, <3>2
  <2>3. k \in P
    BY <1>2, <2>2
  <2> QED
    BY <2>3
<1>6. ASSUME NEW e
      PROVE  Has(u, e) <=> Has(s, e)
  <2>1. Has(u, e) <=> \E i \in P : s[i] = e
    BY <1>3, <1>4, Selected
  <2>2. Has(s, e) <=> \E i \in 1..n : s[i] = e
    BY <1>1 DEF Has
  <2>3. \A i \in P : i \in 1..n
    BY <1>2
  <2> QED
    BY <1>5, <2>1, <2>2, <2>3
<1>7. PICK at : Ascends(at, m, P) /\ \A k \in 1..m : u[k] = s[at[k]]
  BY <1>4
<1>8. /\ \A k \in 1..m : at[k] \in P /\ at[k] \in 1..n
      /\ \A j, k \in 1..m : j < k => at[j] < at[k]
  BY <1>2, <1>7 DEF Ascends
<1>9. ASSUME NEW j \in 1..m, NEW k \in 1..m, j < k
      PROVE  u[j] # u[k]
  <2>1. at[j] \in 1..at[k] - 1
    BY <1>8, <1>9
  <2>2. s[at[j]] # s[at[k]]
    BY <1>2, <1>8, <2>1
  <2> QED
    BY <1>7, <2>2
<1>10. NoneTwice(u)
  <2>1. ASSUME NEW j \in 1..m, NEW k \in 1..m, u[j] = u[k]
        PROVE  j = k
    <3>1. ~(j < k) /\ ~(k < j)
      BY <1>9, <2>1
    <3> QED
      BY <3>1
  <2> QED
    BY <1>4, <2>1 DEF NoneTwice
<1> QED
  BY <1>4, <1>6, <1>10
=============================================================================
