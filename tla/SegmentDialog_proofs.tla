------------------------ MODULE SegmentDialog_proofs ------------------------
(***************************************************************************)
(* Proofs about SegmentDialog, for every address width, every set of        *)
(* addresses of the machine and of texts that can be typed, and any number  *)
(* of changes.                                                              *)
(*                                                                          *)
(* What a list goes through when it is set is idempotent (Normalized), so a *)
(* list that was set once loses nothing when it is set again (Sanitized).   *)
(* DialogInv says that all lists were set once and that an open dialog has  *)
(* the controller's lists; the three properties follow.                     *)
(***************************************************************************)
EXTENDS SegmentDialog, Order_proofs

(***************************************************************************)
(* Normalising.                                                             *)
(***************************************************************************)
LEMMA Masked ==
  ASSUME NEW a \in Address, NEW p \in 0..W
  PROVE  masked(a, p) \in Address /\ masked(masked(a, p), p) = masked(a, p)
<1> DEFINE m == 2^(W - p)
<1>1. W - p \in 0..W
  BY WidthAssumption
<1>2. m \in Nat \ {0}
  BY <1>1, PowerAssumption
<1>3. a \in Nat /\ \A b \in Nat : b <= a => b \in Address
  <2>1. 2^W \in Nat
    BY PowerAssumption, WidthAssumption
  <2> QED
    BY <2>1 DEF Address
<1> HIDE DEF m
<1>4. a % m \in 0..(m - 1) /\ a % m <= a
  BY <1>2, <1>3
<1>5. a - (a % m) \in Nat /\ a - (a % m) <= a
  BY <1>3, <1>4
<1>6. (a - (a % m)) % m = 0
  BY <1>2, <1>3
<1>7. masked(a, p) = a - (a % m)
  BY DEF masked, m
<1>8. masked(masked(a, p), p) = masked(a, p) - (masked(a, p) % m)
  BY DEF masked, m
<1> QED
  BY <1>3, <1>5, <1>6, <1>7, <1>8

\* A segment that was normalised.
Clean(r) == isValid(r) /\ normalized(r) = r

LEMMA Normalized ==
  ASSUME NEW r \in [network : Nat \cup {V6, NoAddress}, prefix : Int], isValid(r)
  PROVE  normalized(r) \in Subnet /\ Clean(normalized(r))
<1>1. PICK a \in Nat \cup {V6}, p \in Nat : r = [network |-> a, prefix |-> p]
  <2>1. r.network \in Nat \cup {V6}
    BY DEF isValid
  <2>2. maxPrefixFor(r.network) \in Int
    BY WidthAssumption DEF maxPrefixFor
  <2>3. r.prefix \in Nat
    BY <2>2 DEF isValid
  <2>4. r = [network |-> r.network, prefix |-> r.prefix]
    OBVIOUS
  <2> QED
    BY <2>1, <2>3, <2>4
<1>2. a # NoAddress /\ p \in 0..maxPrefixFor(a)
  BY <1>1 DEF isValid
<1>3. CASE a \in Address /\ p \in 0..W
  <2>1. PICK b \in Address : b = masked(a, p) /\ masked(b, p) = b
    BY <1>3, Masked
  <2>2. PICK c \in Subnet : c = [network |-> b, prefix |-> p]
    <3>1. b \in Nat
      BY WidthAssumption, PowerAssumption DEF Address
    <3> QED
      BY <3>1 DEF Subnet
  <2>3. normalized(r) = c
    BY <1>1, <1>3, <2>1, <2>2 DEF normalized, normalizeNetwork
  <2>4. normalized(c) = c
    BY <1>3, <2>1, <2>2 DEF normalized, normalizeNetwork
  <2>5. isValid(c)
    <3>1. b # NoAddress /\ b # V6
      BY AddressAssumption
    <3> QED
      BY <1>3, <2>2, <3>1 DEF isValid, maxPrefixFor
  <2> QED
    BY <2>3, <2>4, <2>5 DEF Clean
<1>4. CASE ~(a \in Address /\ p \in 0..W)
  <2>1. normalized(r) = r
    BY <1>1, <1>4 DEF normalized, normalizeNetwork
  <2>2. r \in Subnet
    BY <1>1 DEF Subnet
  <2> QED
    BY <2>1, <2>2 DEF Clean
<1> QED
  BY <1>3, <1>4

(***************************************************************************)
(* Lists.                                                                   *)
(***************************************************************************)

\* What setSubnets and setBlockedSubnets leave.
Tidy(list) ==
  /\ list \in Seq(Subnet)
  /\ NoneTwice(list)
  /\ \A r : Has(list, r) => Clean(r)

LEMMA Distinct ==
  ASSUME NEW T, NEW s \in Seq(T)
  PROVE  /\ distinct(s) \in Seq(T)
         /\ \A e : Has(distinct(s), e) <=> Has(s, e)
         /\ NoneTwice(distinct(s))
<1>1. distinct(s) = select(s, FirstPlaces(s))
  BY DEF distinct, FirstPlaces
<1> QED
  BY <1>1, FirstOnes

\* setSubnets, setBlockedSubnets: the list is tidy, and of a list whose elements are
\* normalised nothing is lost and nothing added.
LEMMA Sanitized ==
  ASSUME NEW list \in Seq(Subnet)
  PROVE  /\ Tidy(sanitizedList(list))
         /\ (\A r : Has(list, r) => Clean(r))
              => \A r : Has(sanitizedList(list), r) <=> Has(list, r)
<1> DEFINE P == {i \in DOMAIN list : isValid(list[i])}
<1>1. P \in SUBSET (1..Len(list))
  OBVIOUS
<1>2. \A i \in 1..Len(list) : i \in P <=> isValid(list[i])
  OBVIOUS
<1>3. sanitizedList(list)
        = distinct([i \in DOMAIN select(list, P) |-> normalized(select(list, P)[i])])
  BY DEF sanitizedList
<1> HIDE DEF P
<1>4. PICK u \in Seq(Subnet), n \in Nat :
        /\ u = select(list, P) /\ n = Len(u)
        /\ \A e : Has(u, e) <=> \E i \in P : list[i] = e
  BY <1>1, Selected
<1> DEFINE f == [i \in 1..n |-> normalized(u[i])]
<1>5. ASSUME NEW i \in 1..n
      PROVE  f[i] \in Subnet /\ Clean(f[i])
  <2>1. u[i] \in Subnet
    BY <1>4, ElementOfSeq
  <2>2. Has(u, u[i])
    BY <1>4 DEF Has
  <2>3. isValid(u[i])
    BY <1>1, <1>2, <1>4, <2>2
  <2>4. u[i] \in [network : Nat \cup {V6, NoAddress}, prefix : Int]
    BY <2>1 DEF Subnet
  <2> QED
    BY <2>3, <2>4, Normalized
<1>6. f \in [1..n -> Subnet] /\ sanitizedList(list) = distinct(f)
  <2>1. f \in [1..n -> Subnet]
    BY <1>5
  <2>2. DOMAIN u = 1..n
    BY <1>4
  <2> QED
    BY <1>3, <1>4, <2>1, <2>2
<1>7. \A i \in 1..n : f[i] = normalized(u[i])
  OBVIOUS
<1> HIDE DEF f
<1>8. f \in Seq(Subnet) /\ Len(f) = n
  BY <1>6
<1>9. /\ sanitizedList(list) \in Seq(Subnet) /\ NoneTwice(sanitizedList(list))
      /\ \A e : Has(sanitizedList(list), e) <=> Has(f, e)
  BY <1>6, <1>8, Distinct
<1>10. Tidy(sanitizedList(list))
  BY <1>5, <1>8, <1>9 DEF Tidy, Has
<1>11. ASSUME \A r : Has(list, r) => Clean(r), NEW r
       PROVE  Has(sanitizedList(list), r) <=> Has(list, r)
  <2>1. \A i \in 1..Len(list) : isValid(list[i]) /\ normalized(list[i]) = list[i]
    BY <1>11 DEF Has, Clean
  <2>2. \A e : Has(u, e) <=> Has(list, e)
    BY <1>1, <1>2, <1>4, <2>1 DEF Has
  <2>3. \A i \in 1..n : Has(u, u[i])
    BY <1>4 DEF Has
  <2>4. \A i \in 1..n : f[i] = u[i]
    BY <1>7, <1>11, <2>2, <2>3 DEF Clean
  <2>5. Has(f, r) <=> Has(u, r)
    BY <1>4, <1>8, <2>4 DEF Has
  <2> QED
    BY <1>9, <2>2, <2>5
<1> QED
  BY <1>10, <1>11

LEMMA EmptyIsTidy == Tidy(<<>>)
<1>1. <<>> \in Seq(Subnet) /\ Len(<<>>) = 0
  OBVIOUS
<1> QED
  BY <1>1 DEF Tidy, NoneTwice, Has

\* A list to which a normalised segment was added.
LEMMA Added ==
  ASSUME NEW list, Tidy(list), NEW r \in Subnet, Clean(r)
  PROVE  /\ Append(list, r) \in Seq(Subnet)
         /\ \A e : Has(Append(list, r), e) <=> Has(list, e) \/ e = r
         /\ \A e : Has(Append(list, r), e) => Clean(e)
<1>1. list \in Seq(Subnet)
  BY DEF Tidy
<1>2. PICK n \in Nat : n = Len(list)
  BY <1>1
<1>3. PICK all \in Seq(Subnet) : /\ all = Append(list, r) /\ Len(all) = n + 1
                                 /\ all[n + 1] = r
                                 /\ \A k \in 1..n : all[k] = list[k]
  <2>1. /\ Append(list, r) \in Seq(Subnet)
        /\ Len(Append(list, r)) = n + 1 /\ Append(list, r)[n + 1] = r
        /\ \A k \in 1..n : Append(list, r)[k] = list[k]
    BY <1>1, <1>2, AppendProperties
  <2> QED
    BY <2>1
<1>4. \A k : k \in 1..n + 1 <=> (k \in 1..n \/ k = n + 1)
  OBVIOUS
<1>5. ASSUME NEW e PROVE Has(all, e) <=> Has(list, e) \/ e = r
  BY <1>2, <1>3, <1>4 DEF Has
<1> QED
  BY <1>3, <1>5 DEF Tidy

\* A list from which one element was removed.
LEMMA Removed ==
  ASSUME NEW list, Tidy(list), NEW i \in 1..Len(list)
  PROVE  /\ RemoveAt(list, i) \in Seq(Subnet)
         /\ \A e : Has(RemoveAt(list, i), e) => Has(list, e)
         /\ \A e : Has(list, e) => Has(RemoveAt(list, i), e) \/ e = list[i]
<1>1. list \in Seq(Subnet)
  BY DEF Tidy
<1>2. PICK n \in Nat : n = Len(list) /\ i \in 1..n
  BY <1>1
<1>3. \A k \in 1..n : list[k] \in Subnet
  BY <1>1, <1>2, ElementOfSeq
<1>4. PICK a \in Seq(Subnet) : /\ a = SubSeq(list, 1, i - 1) /\ Len(a) = i - 1
                               /\ \A k \in 1..i - 1 : a[k] = list[k]
  <2>1. 1 \in Int /\ i - 1 \in Int /\ \A k \in 1..i - 1 : list[k] \in Subnet
    BY <1>2, <1>3
  <2>2. /\ SubSeq(list, 1, i - 1) \in Seq(Subnet)
        /\ Len(SubSeq(list, 1, i - 1)) = IF 1 <= i - 1 THEN i - 1 - 1 + 1 ELSE 0
        /\ \A k \in 1..i - 1 - 1 + 1 : SubSeq(list, 1, i - 1)[k] = list[1 + k - 1]
    BY <2>1, SubSeqProperties
  <2>3. i - 1 - 1 + 1 = i - 1 /\ (~(1 <= i - 1) => i - 1 = 0) /\ \A k \in 1..i - 1 : 1 + k - 1 = k
    BY <1>2
  <2> QED
    BY <2>2, <2>3
<1>5. PICK b \in Seq(Subnet) : /\ b = SubSeq(list, i + 1, n) /\ Len(b) = n - i
                               /\ \A k \in 1..n - i : b[k] = list[k + i]
  <2>1. i + 1 \in Int /\ n \in Int /\ \A k \in i + 1..n : list[k] \in Subnet
    BY <1>2, <1>3
  <2>2. /\ SubSeq(list, i + 1, n) \in Seq(Subnet)
        /\ Len(SubSeq(list, i + 1, n)) = IF i + 1 <= n THEN n - (i + 1) + 1 ELSE 0
        /\ \A k \in 1..n - (i + 1) + 1 : SubSeq(list, i + 1, n)[k] = list[(i + 1) + k - 1]
    BY <2>1, SubSeqProperties
  <2>3. /\ n - (i + 1) + 1 = n - i /\ (~(i + 1 <= n) => n - i = 0)
        /\ \A k \in 1..n - i : (i + 1) + k - 1 = k + i
    BY <1>2
  <2> QED
    BY <2>2, <2>3
<1>6. PICK c \in Seq(Subnet) : c = a \o b /\ c = RemoveAt(list, i)
  <2>1. a \o b \in Seq(Subnet)
    BY ConcatProperties
  <2>2. RemoveAt(list, i) = SubSeq(list, 1, i - 1) \o SubSeq(list, i + 1, Len(list))
    BY DEF RemoveAt
  <2>3. RemoveAt(list, i) = a \o b
    BY <1>2, <1>4, <1>5, <2>2
  <2> QED
    BY <2>1, <2>3
<1>7. /\ Len(c) = n - 1
      /\ \A k \in 1..i - 1 : c[k] = list[k]
      /\ \A k \in i..n - 1 : c[k] = list[k + 1]
  <2>1. /\ Len(c) = Len(a) + Len(b)
        /\ \A k \in 1..Len(a) + Len(b) :
             c[k] = IF k <= Len(a) THEN a[k] ELSE b[k - Len(a)]
    <3>1. /\ Len(a \o b) = Len(a) + Len(b)
          /\ \A k \in 1..Len(a) + Len(b) :
               (a \o b)[k] = IF k <= Len(a) THEN a[k] ELSE b[k - Len(a)]
      BY ConcatProperties
    <3> QED
      BY <1>6, <3>1
  <2>2. Len(a) + Len(b) = n - 1
    <3>1. (i - 1) + (n - i) = n - 1
      BY <1>2
    <3>2. Len(a) = i - 1 /\ Len(b) = n - i
      BY <1>4, <1>5
    <3> QED
      BY <3>1, <3>2
  <2>3. \A k \in 1..n - 1 : c[k] = IF k <= i - 1 THEN a[k] ELSE b[k - (i - 1)]
    BY <1>4, <2>1, <2>2
  <2>4. ASSUME NEW k \in 1..i - 1 PROVE c[k] = list[k]
    <3>1. k \in 1..n - 1 /\ k <= i - 1
      BY <1>2
    <3>2. c[k] = a[k]
      BY <2>3, <3>1
    <3> QED
      BY <1>4, <3>2
  <2>5. ASSUME NEW k \in i..n - 1 PROVE c[k] = list[k + 1]
    <3>1. k \in 1..n - 1 /\ ~(k <= i - 1) /\ k - (i - 1) \in 1..n - i /\ k - (i - 1) + i = k + 1
      BY <1>2
    <3>2. c[k] = b[k - (i - 1)]
      BY <2>3, <3>1
    <3>3. b[k - (i - 1)] = list[k - (i - 1) + i]
      BY <1>5, <3>1
    <3> QED
      BY <3>1, <3>2, <3>3
  <2> QED
    BY <2>1, <2>2, <2>4, <2>5
<1>8. ASSUME NEW e, Has(c, e) PROVE Has(list, e)
  <2>1. PICK k \in 1..n - 1 : c[k] = e
    BY <1>7, <1>8 DEF Has
  <2>2. (k \in 1..i - 1 /\ k \in 1..n) \/ (k \in i..n - 1 /\ k + 1 \in 1..n)
    BY <1>2
  <2> QED
    BY <1>2, <1>7, <2>1, <2>2 DEF Has
<1>9. ASSUME NEW e, Has(list, e), e # list[i] PROVE Has(c, e)
  <2>1. PICK k \in 1..n : list[k] = e /\ k # i
    BY <1>2, <1>9 DEF Has
  <2>2. (k \in 1..i - 1 /\ k \in 1..n - 1) \/ (k - 1 \in i..n - 1 /\ k - 1 \in 1..n - 1
                                              /\ k - 1 + 1 = k)
    BY <1>2, <2>1
  <2> QED
    BY <1>2, <1>7, <2>1, <2>2 DEF Has
<1> QED
  BY <1>6, <1>8, <1>9

(***************************************************************************)
(* The rows.                                                                *)
(***************************************************************************)
Item == [token : Subnet, removable : BOOLEAN]

\* One row for every segment of list, and none that can be removed but these.
ItemRows(shown, list) ==
  /\ shown \in Seq(Item)
  /\ \A j, k \in 1..Len(shown) : shown[j].token = shown[k].token => j = k
  /\ \A r : Has(list, r) => \E i \in 1..Len(shown) : shown[i].token = r
  /\ \A i \in 1..Len(shown) : shown[i].removable => Has(list, shown[i].token)

LEMMA Local ==
  ASSUME NEW here \in Seq(Address)
  PROVE  detectLocalSubnets(here) \in Seq(Subnet) /\ NoneTwice(detectLocalSubnets(here))
<1>1. PICK n \in Nat : n = Len(here) /\ DOMAIN here = 1..n
  OBVIOUS
<1> DEFINE g == [i \in 1..n |-> [network |-> masked(here[i], LanPrefix), prefix |-> LanPrefix]]
<1>2. LanPrefix \in 0..W /\ LanPrefix \in Nat
  BY PlaceAssumption, WidthAssumption
<1>3. ASSUME NEW i \in 1..n PROVE g[i] \in Subnet
  <2>1. here[i] \in Address
    BY <1>1, ElementOfSeq
  <2>2. masked(here[i], LanPrefix) \in Nat
    <3>1. masked(here[i], LanPrefix) \in Address
      BY <1>2, <2>1, Masked
    <3>2. 2^W \in Nat
      BY PowerAssumption, WidthAssumption
    <3> QED
      BY <3>1, <3>2 DEF Address
  <2> QED
    BY <1>2, <2>2 DEF Subnet
<1>4. g \in [1..n -> Subnet]
  BY <1>3
<1>5. detectLocalSubnets(here) = distinct(g)
  BY <1>1 DEF detectLocalSubnets
<1> HIDE DEF g
<1>6. g \in Seq(Subnet)
  BY <1>4
<1> QED
  BY <1>5, <1>6, Distinct

ItemsOf(s, b) == [i \in DOMAIN s |-> [token |-> s[i], removable |-> b]]

LEMMA TokensAreItems ==
  ASSUME NEW s \in Seq(Subnet), NEW b \in BOOLEAN
  PROVE  /\ ItemsOf(s, b) \in Seq(Item) /\ Len(ItemsOf(s, b)) = Len(s)
         /\ \A i \in 1..Len(s) : ItemsOf(s, b)[i].token = s[i]
                                 /\ ItemsOf(s, b)[i].removable = b
<1> DEFINE f == ItemsOf(s, b)
<1>1. PICK n \in Nat : n = Len(s) /\ DOMAIN s = 1..n
  OBVIOUS
<1>2. \A i \in 1..n : [token |-> s[i], removable |-> b] \in Item
  BY <1>1, ElementOfSeq DEF Item
<1>3. f \in [1..n -> Item]
  BY <1>1, <1>2 DEF ItemsOf
<1>4. \A i \in 1..n : f[i] = [token |-> s[i], removable |-> b]
  BY <1>1 DEF ItemsOf
<1> HIDE DEF f
<1>5. f \in Seq(Item) /\ Len(f) = n
  BY <1>3
<1>6. ASSUME NEW i \in 1..n
      PROVE  f[i].token = s[i] /\ f[i].removable = b
  <2>1. PICK e : e = [token |-> s[i], removable |-> b]
    OBVIOUS
  <2>2. f[i] = e
    BY <1>4, <2>1
  <2>3. e.token = s[i] /\ e.removable = b
    BY <2>1
  <2> QED
    BY <2>2, <2>3
<1> QED
  BY <1>1, <1>5, <1>6 DEF f

LEMMA Rows ==
  ASSUME NEW list \in Seq(Subnet), NoneTwice(list), NEW here \in Seq(Address)
  PROVE  ItemRows(rows(list, here), list)
<1>1. PICK local \in Seq(Subnet), a \in Nat :
        local = detectLocalSubnets(here) /\ NoneTwice(local) /\ a = Len(local)
  BY Local
<1> DEFINE Q == {i \in DOMAIN list : ~Contains(local, list[i])}
<1>2. Q \in SUBSET (1..Len(list)) /\ \A i \in 1..Len(list) : i \in Q <=> ~Has(local, list[i])
  BY DEF Contains, Has
<1>3. PICK no \in BOOLEAN, yes \in BOOLEAN : no = FALSE /\ yes = TRUE
  OBVIOUS
<1> DEFINE A == ItemsOf(local, no)
           B == ItemsOf(select(list, Q), yes)
<1>4. /\ A = [i \in DOMAIN local |-> [token |-> local[i], removable |-> FALSE]]
      /\ B = [i \in DOMAIN select(list, Q) |->
                [token |-> select(list, Q)[i], removable |-> TRUE]]
  BY <1>3 DEF ItemsOf
<1>5. rows(list, here) = A \o B
  BY <1>1, <1>4 DEF rows
<1> HIDE DEF Q
<1>6. PICK others \in Seq(Subnet), b \in Nat :
        /\ others = select(list, Q) /\ b = Len(others) /\ NoneTwice(others)
        /\ \A e : Has(others, e) <=> \E i \in Q : list[i] = e
  <2>1. /\ select(list, Q) \in Seq(Subnet)
        /\ \A e : Has(select(list, Q), e) <=> \E i \in Q : list[i] = e
        /\ NoneTwice(select(list, Q))
    BY <1>2, Selected
  <2>2. Len(select(list, Q)) \in Nat
    BY <2>1, LenProperties
  <2> QED
    BY <2>1, <2>2
<1>7. PICK C \in Seq(Item) : /\ C = A /\ Len(C) = a
                             /\ \A i \in 1..a : C[i].token = local[i] /\ C[i].removable = FALSE
  <2>1. /\ A \in Seq(Item) /\ Len(A) = a
        /\ \A i \in 1..a : A[i].token = local[i] /\ A[i].removable = no
    BY <1>1, TokensAreItems
  <2> QED
    BY <1>3, <2>1
<1>8. PICK D \in Seq(Item) : /\ D = B /\ Len(D) = b
                             /\ \A i \in 1..b : D[i].token = others[i] /\ D[i].removable = TRUE
  <2>1. PICK u \in Seq(Item) : /\ u = ItemsOf(others, yes) /\ Len(u) = Len(others)
                               /\ \A i \in 1..Len(others) : u[i].token = others[i]
                                                            /\ u[i].removable = yes
    BY TokensAreItems
  <2>2. u = B
    BY <1>6, <2>1
  <2> QED
    BY <1>3, <1>6, <2>1, <2>2
<1> HIDE DEF A, B
<1>9. PICK shown \in Seq(Item) :
        /\ shown = A \o B /\ Len(shown) = a + b
        /\ \A k \in 1..a + b : shown[k] = IF k <= a THEN C[k] ELSE D[k - a]
  <2>1. /\ C \o D \in Seq(Item) /\ Len(C \o D) = Len(C) + Len(D)
        /\ \A k \in 1..Len(C) + Len(D) :
             (C \o D)[k] = IF k <= Len(C) THEN C[k] ELSE D[k - Len(C)]
    BY ConcatProperties
  <2>2. /\ Len(C \o D) = a + b
        /\ \A k \in 1..a + b : (C \o D)[k] = IF k <= a THEN C[k] ELSE D[k - a]
    BY <1>7, <1>8, <2>1
  <2>3. C \o D = A \o B
    BY <1>7, <1>8
  <2> QED
    BY <2>1, <2>2, <2>3
<1>10. \A k \in 1..a + b : k \in 1..a \/ (~(k <= a) /\ k - a \in 1..b)
  OBVIOUS
<1>11. /\ \A k \in 1..a : k <= a /\ k \in 1..a + b
       /\ \A k \in 1..b : ~(k + a <= a) /\ k + a \in 1..a + b /\ k + a - a = k
  OBVIOUS
<1>12. /\ \A k \in 1..a : shown[k].token = local[k] /\ shown[k].removable = FALSE
       /\ \A k \in 1..a + b : k \notin 1..a =>
            shown[k].token = others[k - a] /\ shown[k].removable = TRUE /\ k - a \in 1..b
  <2>1. ASSUME NEW k \in 1..a PROVE shown[k].token = local[k] /\ shown[k].removable = FALSE
    <3>1. shown[k] = C[k]
      BY <1>9, <1>11
    <3> QED
      BY <1>7, <3>1
  <2>2. ASSUME NEW k \in 1..a + b, k \notin 1..a
        PROVE  shown[k].token = others[k - a] /\ shown[k].removable = TRUE /\ k - a \in 1..b
    <3>1. shown[k] = D[k - a] /\ k - a \in 1..b
      BY <1>9, <1>10, <2>2
    <3> QED
      BY <1>8, <3>1
  <2> QED
    BY <2>1, <2>2
<1>13. ASSUME NEW e
       PROVE  Has(others, e) <=> Has(list, e) /\ ~Has(local, e)
  <2>1. Has(others, e) <=> \E i \in Q : list[i] = e
    BY <1>6
  <2>2. Has(list, e) <=> \E i \in 1..Len(list) : list[i] = e
    BY DEF Has
  <2> QED
    BY <1>2, <2>1, <2>2
<1>14. ASSUME NEW j \in 1..a + b, NEW k \in 1..a + b, shown[j].token = shown[k].token
       PROVE  j = k
  <2>1. \A i \in 1..a : Has(local, shown[i].token)
    BY <1>1, <1>12 DEF Has
  <2>2. \A i \in 1..a + b : i \notin 1..a => Has(others, shown[i].token)
    BY <1>6, <1>12 DEF Has
  <2>3. CASE j \in 1..a /\ k \in 1..a
    BY <1>1, <1>12, <1>14, <2>3 DEF NoneTwice
  <2>4. CASE j \notin 1..a /\ k \notin 1..a
    <3>1. j - a = k - a
      <4>1. PICK x \in 1..b, y \in 1..b : x = j - a /\ y = k - a
        BY <1>12, <2>4
      <4>2. others[x] = others[y]
        BY <1>12, <1>14, <2>4, <4>1
      <4> QED
        BY <1>6, <4>1, <4>2 DEF NoneTwice
    <3> QED
      BY <3>1
  <2>5. CASE j \in 1..a /\ k \notin 1..a
    <3>1. Has(local, shown[j].token) /\ Has(others, shown[k].token)
      BY <2>1, <2>2, <2>5
    <3> QED
      BY <1>13, <1>14, <3>1
  <2>6. CASE j \notin 1..a /\ k \in 1..a
    <3>1. Has(local, shown[k].token) /\ Has(others, shown[j].token)
      BY <2>1, <2>2, <2>6
    <3> QED
      BY <1>13, <1>14, <3>1
  <2> QED
    BY <2>3, <2>4, <2>5, <2>6
<1>15. ASSUME NEW r, Has(list, r)
       PROVE  \E i \in 1..a + b : shown[i].token = r
  <2>1. CASE Has(local, r)
    <3>1. PICK i \in 1..a : local[i] = r
      BY <1>1, <2>1 DEF Has
    <3> QED
      BY <1>11, <1>12, <3>1
  <2>2. CASE ~Has(local, r)
    <3>1. PICK i \in 1..b : others[i] = r
      BY <1>6, <1>13, <1>15, <2>2 DEF Has
    <3>2. PICK k \in 1..a + b : k \notin 1..a /\ k - a = i
      <4>1. i + a \in 1..a + b /\ i + a \notin 1..a /\ i + a - a = i
        OBVIOUS
      <4> QED
        BY <4>1
    <3>3. shown[k].token = others[k - a]
      BY <1>12, <3>2
    <3> QED
      BY <3>1, <3>2, <3>3
  <2> QED
    BY <2>1, <2>2
<1>16. ASSUME NEW i \in 1..a + b, shown[i].removable
       PROVE  Has(list, shown[i].token)
  <2>1. i \notin 1..a
    BY <1>12, <1>16
  <2>2. Has(others, shown[i].token)
    BY <1>6, <1>12, <2>1 DEF Has
  <2> QED
    BY <1>13, <2>2
<1> QED
  <2>1. ItemRows(shown, list)
    BY <1>9, <1>14, <1>15, <1>16 DEF ItemRows
  <2> QED
    BY <1>5, <1>9, <2>1

LEMMA Found ==
  ASSUME NEW n \in Nat, NEW I \in SUBSET (1..n)
  PROVE  /\ (IF I # {} THEN Min(I) ELSE 0) \in 0..n
         /\ (IF I # {} THEN Min(I) ELSE 0) # 0 => (IF I # {} THEN Min(I) ELSE 0) \in I
<1>1. CASE I # {}
  <2>1. I \subseteq Nat
    OBVIOUS
  <2>2. PICK x \in I : x = Min(I)
    BY <1>1, <2>1, LeastOf DEF Min
  <2>3. x \in 0..n
    OBVIOUS
  <2> QED
    BY <1>1, <2>2, <2>3
<1> QED
  BY <1>1

LEMMA RowAfter ==
  ASSUME NEW shown \in Seq(Item), NEW old, NEW row
  PROVE  rowAfter(shown, old, row) \in 0..Len(shown)
<1>1. PICK n \in Nat : n = Len(shown)
  OBVIOUS
<1> DEFINE I == {i \in 1..n : shown[i].token = old[row].token}
<1>2. SelectInSeq(shown, LAMBDA item : item.token = old[row].token)
        = IF I # {} THEN Min(I) ELSE 0
  BY <1>1 DEF SelectInSeq
<1>3. PICK same \in 0..n : same = IF row = 0 THEN 0
                                   ELSE SelectInSeq(shown, LAMBDA item : item.token = old[row].token)
  <2>1. I \in SUBSET (1..n)
    OBVIOUS
  <2> HIDE DEF I
  <2>2. PICK x \in 0..n : x = IF I # {} THEN Min(I) ELSE 0
    BY <2>1, Found
  <2>3. PICK y : y = SelectInSeq(shown, LAMBDA item : item.token = old[row].token)
    OBVIOUS
  <2>4. y \in 0..n /\ 0 \in 0..n
    BY <1>2, <2>2, <2>3
  <2> QED
    BY <2>3, <2>4
<1>4. rowAfter(shown, old, row) = IF shown = <<>> THEN 0 ELSE IF same = 0 THEN 1 ELSE same
  BY <1>3 DEF rowAfter
<1>5. shown # <<>> => n \in Nat \ {0}
  BY <1>1
<1> QED
  BY <1>1, <1>3, <1>4, <1>5

LEMMA RowWithin ==
  ASSUME NEW list \in Seq(Subnet), NEW old \in Nat
  PROVE  (IF list = <<>> THEN 0 ELSE Max({1, Min({old, Len(list)})})) \in 0..Len(list)
<1>1. PICK n \in Nat : n = Len(list)
  OBVIOUS
<1>2. CASE list = <<>>
  BY <1>1, <1>2
<1>3. CASE list # <<>>
  <2>1. n \in Nat \ {0}
    BY <1>1, <1>3
  <2>2. PICK m \in Nat : m = Min({old, n}) /\ m <= n
    <3>1. Min({old, n}) = IF old <= n THEN old ELSE n
      BY DEF Min
    <3> QED
      BY <3>1
  <2>3. Max({1, m}) = IF m >= 1 THEN m ELSE 1
    BY DEF Max
  <2> QED
    BY <1>1, <1>3, <2>1, <2>2, <2>3
<1> QED
  BY <1>2, <1>3

(***************************************************************************)
(* The invariant.                                                           *)
(***************************************************************************)
SwitchesType == running \in BOOLEAN /\ storageReady \in BOOLEAN /\ made \in BOOLEAN

SpentType == moves \in 0..MaxMoves /\ stops \in 0..MaxStops /\ changes \in 0..MaxChanges

ListsAreTidy ==
  Tidy(subnets) /\ Tidy(blockedSubnets) /\ Tidy(storedSubnets) /\ Tidy(storedBlocked)

DialogIsCopy ==
  /\ made => running
  /\ IF made
     THEN /\ cachedSubnets = subnets /\ ItemRows(items, subnets)
          /\ cachedBlocked = blockedSubnets /\ blockItems = blockedSubnets
     ELSE /\ cachedSubnets = <<>> /\ items = <<>>
          /\ cachedBlocked = <<>> /\ blockItems = <<>>
  /\ current \in 0..Len(items) /\ blockRow \in 0..Len(blockItems)

DialogInv == SwitchesType /\ SpentType /\ place \in Place /\ ListsAreTidy /\ DialogIsCopy

LEMMA DialogType ==
  ASSUME DialogInv
  PROVE  TypeOK
<1>1. /\ subnets \in Seq(Subnet) /\ blockedSubnets \in Seq(Subnet)
      /\ storedSubnets \in Seq(Subnet) /\ storedBlocked \in Seq(Subnet)
  BY DEF DialogInv, ListsAreTidy, Tidy
<1>2. /\ cachedSubnets \in Seq(Subnet) /\ blockItems \in Seq(Subnet)
      /\ cachedBlocked \in Seq(Subnet) /\ items \in Seq(Item)
  <2>1. <<>> \in Seq(Subnet) /\ <<>> \in Seq(Item)
    OBVIOUS
  <2> QED
    BY <1>1, <2>1 DEF DialogInv, DialogIsCopy, ItemRows
<1>3. \A s \in Lists : s \in Seq(Subnet)
  BY <1>1, <1>2 DEF Lists
<1>4. {running, storageReady, made} \subseteq BOOLEAN
  BY DEF DialogInv, SwitchesType
<1> QED
  BY <1>2, <1>3, <1>4 DEF DialogInv, DialogIsCopy, SpentType, TypeOK, Item

LEMMA DialogInit ==
  ASSUME Init
  PROVE  DialogInv
<1>1. Len(<<>>) = 0
  OBVIOUS
<1>2. SpentType
  BY BoundAssumption DEF Init, SpentType
<1>3. ListsAreTidy
  BY EmptyIsTidy DEF Init, ListsAreTidy
<1>4. DialogIsCopy
  <2>1. 0 \in 0..0
    OBVIOUS
  <2> QED
    BY <1>1, <2>1 DEF Init, DialogIsCopy
<1>5. SwitchesType /\ place \in Place
  BY DEF Init, SwitchesType
<1> QED
  BY <1>2, <1>3, <1>4, <1>5 DEF DialogInv

LEMMA Initialized ==
  ASSUME DialogInv, initialize
  PROVE  DialogInv'
<1>1. /\ running' = TRUE /\ storageReady' \in BOOLEAN /\ ~running
      /\ subnets' \in {storedSubnets, <<>>} /\ blockedSubnets' \in {storedBlocked, <<>>}
      /\ UNCHANGED <<place, storedSubnets, storedBlocked, made, left, right, spent>>
  BY DEF initialize
<1>2. ListsAreTidy'
  BY <1>1, EmptyIsTidy DEF DialogInv, ListsAreTidy
<1>3. ~made
  BY <1>1 DEF DialogInv, DialogIsCopy
<1>4. DialogIsCopy'
  BY <1>1, <1>3 DEF DialogInv, DialogIsCopy, left, right
<1>5. SwitchesType' /\ SpentType' /\ place' \in Place
  BY <1>1 DEF DialogInv, SwitchesType, SpentType, spent
<1> QED
  BY <1>2, <1>4, <1>5 DEF DialogInv

\* refreshSubnetList makes the left part of the dialog a copy of the list.
LEMMA Refreshed ==
  ASSUME DialogInv, NEW list, Tidy(list), NEW old, NEW row, refreshSubnetList(list, old, row)
  PROVE  cachedSubnets' = list /\ ItemRows(items', list) /\ current' \in 0..Len(items')
<1>1. list \in Seq(Subnet) /\ NoneTwice(list) /\ place \in Seq(Address)
  BY PlaceAssumption DEF Tidy, DialogInv
<1>2. PICK shown : shown = rows(list, place)
  OBVIOUS
<1>3. cachedSubnets' = list /\ items' = shown /\ current' = rowAfter(shown, old, row)
  BY <1>2 DEF refreshSubnetList
<1>4. ItemRows(shown, list)
  BY <1>1, <1>2, Rows
<1>5. shown \in Seq(Item)
  BY <1>4 DEF ItemRows
<1>6. rowAfter(shown, old, row) \in 0..Len(shown)
  BY <1>5, RowAfter
<1> QED
  BY <1>3, <1>4, <1>6

LEMMA BlockedRefreshed ==
  ASSUME NEW list, Tidy(list), NEW row \in Nat, refreshBlockedList(list, row)
  PROVE  cachedBlocked' = list /\ blockItems' = list /\ blockRow' \in 0..Len(blockItems')
<1>1. list \in Seq(Subnet)
  BY DEF Tidy
<1> QED
  BY <1>1, RowWithin DEF refreshBlockedList

LEMMA DialogOpened ==
  ASSUME DialogInv, openSettingsDialog
  PROVE  DialogInv'
<1>1. /\ running /\ made' = TRUE
      /\ refreshSubnetList(subnets, <<>>, 0) /\ refreshBlockedList(blockedSubnets, 0)
      /\ UNCHANGED <<running, storageReady, place, lists, spent>>
  BY DEF openSettingsDialog
<1>2. cachedSubnets' = subnets /\ ItemRows(items', subnets) /\ current' \in 0..Len(items')
  BY <1>1, Refreshed DEF DialogInv, ListsAreTidy
<1>3. /\ cachedBlocked' = blockedSubnets /\ blockItems' = blockedSubnets
      /\ blockRow' \in 0..Len(blockItems')
  BY <1>1, BlockedRefreshed DEF DialogInv, ListsAreTidy
<1>4. ListsAreTidy'
  BY <1>1 DEF DialogInv, ListsAreTidy, lists
<1>5. DialogIsCopy'
  BY <1>1, <1>2, <1>3 DEF DialogIsCopy, lists
<1>6. SwitchesType' /\ SpentType' /\ place' \in Place
  BY <1>1 DEF DialogInv, SwitchesType, SpentType, spent
<1> QED
  BY <1>4, <1>5, <1>6 DEF DialogInv

LEMMA Exited ==
  ASSUME DialogInv, exit
  PROVE  DialogInv'
<1>1. Len(<<>>) = 0
  OBVIOUS
<1>2. stops' \in 0..MaxStops
  BY BoundAssumption DEF exit, DialogInv, SpentType
<1>3. SpentType' /\ SwitchesType' /\ place' \in Place
  BY <1>2 DEF exit, DialogInv, SpentType, SwitchesType
<1>4. ListsAreTidy'
  BY EmptyIsTidy DEF exit, DialogInv, ListsAreTidy
<1>5. DialogIsCopy'
  BY <1>1 DEF exit, DialogIsCopy
<1> QED
  BY <1>3, <1>4, <1>5 DEF DialogInv

LEMMA Moved ==
  ASSUME DialogInv, move \/ setCurrentRow \/ UNCHANGED vars
  PROVE  DialogInv'
<1>1. /\ UNCHANGED <<running, storageReady, made, lists, items, cachedSubnets, blockItems,
                     cachedBlocked, stops, changes>>
      /\ place' \in Place /\ moves' \in 0..MaxMoves
      /\ current' \in 0..Len(items) /\ blockRow' \in 0..Len(blockItems)
  <2>1. CASE move
    BY <2>1, BoundAssumption DEF move, left, right, DialogInv, DialogIsCopy, SpentType
  <2>2. CASE setCurrentRow
    <3>1. items \in Seq(Item) /\ blockItems \in Seq(Subnet)
      BY DialogType DEF TypeOK, Lists, Item
    <3>2. DOMAIN items \subseteq 0..Len(items) /\ DOMAIN blockItems \subseteq 0..Len(blockItems)
      BY <3>1
    <3> QED
      BY <2>2, <3>2 DEF setCurrentRow, spent, DialogInv, DialogIsCopy, SpentType
  <2>3. CASE UNCHANGED vars
    BY <2>3 DEF vars, spent, left, right, DialogInv, DialogIsCopy, SpentType
  <2> QED
    BY <2>1, <2>2, <2>3
<1>2. ListsAreTidy'
  BY <1>1 DEF DialogInv, ListsAreTidy, lists
<1>3. DialogIsCopy'
  BY <1>1 DEF DialogInv, DialogIsCopy, lists
<1>4. SwitchesType' /\ SpentType'
  BY <1>1 DEF DialogInv, SwitchesType, SpentType
<1> QED
  BY <1>1, <1>2, <1>3, <1>4 DEF DialogInv

\* handleSubnetAdd and handleSubnetRemove, whatever list they hand over.
LEMMA SubnetsSet ==
  ASSUME DialogInv, mayChange, NEW list \in Seq(Subnet), setSubnets(list),
         refreshSubnetList(subnets', items, current),
         UNCHANGED <<running, storageReady, place, made, right, moves, stops>>
  PROVE  DialogInv'
<1>1. Tidy(sanitizedList(list))
  BY Sanitized
<1>2. /\ subnets' = sanitizedList(list) /\ storedSubnets' \in {sanitizedList(list), storedSubnets}
      /\ UNCHANGED <<blockedSubnets, storedBlocked>>
  BY DEF setSubnets
<1>3. ListsAreTidy'
  BY <1>1, <1>2 DEF DialogInv, ListsAreTidy
<1>4. PICK t : t = subnets' /\ Tidy(t)
  BY <1>1, <1>2
<1>5. cachedSubnets' = t /\ ItemRows(items', t) /\ current' \in 0..Len(items')
  <2>1. refreshSubnetList(t, items, current)
    BY <1>4
  <2> QED
    BY <1>4, <2>1, Refreshed
<1>6. made /\ changes' \in 0..MaxChanges
  BY BoundAssumption DEF mayChange, DialogInv, SpentType
<1>7. DialogIsCopy'
  BY <1>2, <1>4, <1>5, <1>6 DEF DialogInv, DialogIsCopy, right
<1>8. SwitchesType' /\ SpentType' /\ place' \in Place
  BY <1>6 DEF DialogInv, SwitchesType, SpentType
<1> QED
  BY <1>3, <1>7, <1>8 DEF DialogInv

LEMMA BlockedSet ==
  ASSUME DialogInv, mayChange, NEW list \in Seq(Subnet), setBlockedSubnets(list),
         refreshBlockedList(blockedSubnets', blockRow),
         UNCHANGED <<running, storageReady, place, made, left, moves, stops>>
  PROVE  DialogInv'
<1>1. Tidy(sanitizedList(list))
  BY Sanitized
<1>2. /\ blockedSubnets' = sanitizedList(list)
      /\ storedBlocked' \in {sanitizedList(list), storedBlocked}
      /\ UNCHANGED <<subnets, storedSubnets>>
  BY DEF setBlockedSubnets
<1>3. ListsAreTidy'
  BY <1>1, <1>2 DEF DialogInv, ListsAreTidy
<1>4. PICK t : t = blockedSubnets' /\ Tidy(t)
  BY <1>1, <1>2
<1>5. cachedBlocked' = t /\ blockItems' = t /\ blockRow' \in 0..Len(blockItems')
  <2>1. refreshBlockedList(t, blockRow)
    BY <1>4
  <2>2. blockRow \in Nat
    <3>1. blockItems \in Seq(Subnet)
      BY DialogType DEF TypeOK, Lists
    <3> QED
      BY <3>1 DEF DialogInv, DialogIsCopy
  <2> QED
    BY <1>4, <2>1, <2>2, BlockedRefreshed
<1>6. made /\ changes' \in 0..MaxChanges
  BY BoundAssumption DEF mayChange, DialogInv, SpentType
<1>7. DialogIsCopy'
  BY <1>2, <1>4, <1>5, <1>6 DEF DialogInv, DialogIsCopy, left
<1>8. SwitchesType' /\ SpentType' /\ place' \in Place
  BY <1>6 DEF DialogInv, SwitchesType, SpentType
<1> QED
  BY <1>3, <1>7, <1>8 DEF DialogInv

LEMMA Parsed ==
  ASSUME NEW t \in Typed, NEW r \in parseSubnetInput(t)
  PROVE  r \in Subnet /\ Clean(r)
<1>1. PICK a \in Address \cup {V6, NoAddress}, p \in Int \cup {NoPrefix} :
        t = [network |-> a, prefix |-> p]
  BY TypedAssumption
<1>2. PICK q \in Int : q = IF p = NoPrefix THEN (IF a = V6 THEN 2 * W ELSE (3 * W) \div 4) ELSE p
  <2>1. 2 * W \in Int /\ (3 * W) \div 4 \in Int
    BY WidthAssumption
  <2> QED
    BY <2>1
<1>3. PICK s : s = [network |-> a, prefix |-> q]
  OBVIOUS
<1>4. s \in [network : Nat \cup {V6, NoAddress}, prefix : Int]
  <2>1. Address \subseteq Nat
    BY WidthAssumption, PowerAssumption DEF Address
  <2> QED
    BY <1>3, <2>1
<1>5. parseSubnetInput(t) = IF isValid(s) THEN {normalized(s)} ELSE {}
  BY <1>1, <1>2, <1>3 DEF parseSubnetInput
<1>6. isValid(s) /\ r = normalized(s)
  BY <1>5
<1> QED
  BY <1>4, <1>6, Normalized

\* What a change of a list loses: nothing, or the element at the current row.
LEMMA SubnetsChange ==
  ASSUME DialogInv, handleSubnetRemove \/ \E t \in Typed : handleSubnetAdd(t)
  PROVE  /\ DialogInv'
         /\ \A r : Has(subnets, r) /\ ~Has(subnets', r) => current # 0 /\ r = items[current].token
         /\ blockedSubnets' = blockedSubnets
<1>1. mayChange /\ made /\ Tidy(subnets) /\ cachedSubnets = subnets
  BY DEF handleSubnetRemove, handleSubnetAdd, mayChange, DialogInv, DialogIsCopy, ListsAreTidy
<1>2. \A e : Has(subnets, e) => Clean(e)
  BY <1>1 DEF Tidy
<1>3. ASSUME NEW t \in Typed, handleSubnetAdd(t)
      PROVE  /\ DialogInv' /\ blockedSubnets' = blockedSubnets
             /\ \A r : Has(subnets, r) => Has(subnets', r)
  <2>1. PICK r \in parseSubnetInput(t) : setSubnets(Append(cachedSubnets, r))
    BY <1>3 DEF handleSubnetAdd
  <2>2. PICK list \in Seq(Subnet) :
          /\ setSubnets(list)
          /\ \A e : Has(list, e) <=> Has(subnets, e) \/ e = r
          /\ \A e : Has(list, e) => Clean(e)
    <3>1. r \in Subnet /\ Clean(r)
      BY Parsed
    <3> QED
      BY <1>1, <2>1, <3>1, Added
  <2>3. DialogInv'
    BY <1>1, <1>3, <2>2, SubnetsSet DEF handleSubnetAdd
  <2>4. subnets' = sanitizedList(list) /\ blockedSubnets' = blockedSubnets
    BY <2>2 DEF setSubnets
  <2>5. \A e : Has(sanitizedList(list), e) <=> Has(list, e)
    BY <2>2, Sanitized
  <2> QED
    BY <2>2, <2>3, <2>4, <2>5
<1>4. CASE handleSubnetRemove
  <2>1. PICK i : i = targetIndex /\ i # 0 /\ setSubnets(RemoveAt(subnets, i))
    BY <1>1, <1>4 DEF handleSubnetRemove
  <2>2. i \in 1..Len(subnets) /\ subnets[i] = items[current].token
    <3>1. PICK n \in Nat : n = Len(subnets)
      BY <1>1 DEF Tidy
    <3> DEFINE I == {k \in 1..n : subnets[k] = items[current].token}
    <3>2. i = IF I # {} THEN Min(I) ELSE 0
      BY <1>1, <2>1, <3>1 DEF targetIndex, SelectInSeq
    <3>3. I \in SUBSET (1..n)
      OBVIOUS
    <3>4. i \in I
      <4> HIDE DEF I
      <4> QED
        BY <2>1, <3>2, <3>3, Found
    <3> QED
      BY <3>1, <3>4
  <2>3. PICK list \in Seq(Subnet) :
          /\ setSubnets(list)
          /\ \A e : Has(list, e) => Has(subnets, e)
          /\ \A e : Has(subnets, e) => Has(list, e) \/ e = subnets[i]
    BY <1>1, <2>1, <2>2, Removed
  <2>4. DialogInv'
    BY <1>1, <1>4, <2>3, SubnetsSet DEF handleSubnetRemove
  <2>5. subnets' = sanitizedList(list) /\ blockedSubnets' = blockedSubnets
    BY <2>3 DEF setSubnets
  <2>6. \A e : Has(sanitizedList(list), e) <=> Has(list, e)
    BY <1>2, <2>3, Sanitized
  <2>7. current # 0
    BY <1>4 DEF handleSubnetRemove
  <2> QED
    BY <2>2, <2>3, <2>4, <2>5, <2>6, <2>7
<1> QED
  BY <1>3, <1>4

LEMMA BlockedChange ==
  ASSUME DialogInv, handleBlockedRemove \/ \E t \in Typed : handleBlockedAdd(t)
  PROVE  /\ DialogInv'
         /\ \A r : Has(blockedSubnets, r) /\ ~Has(blockedSubnets', r)
                     => blockRow # 0 /\ r = blockItems[blockRow]
         /\ subnets' = subnets
<1>1. /\ mayChange /\ made /\ Tidy(blockedSubnets)
      /\ cachedBlocked = blockedSubnets /\ blockItems = blockedSubnets
  BY DEF handleBlockedRemove, handleBlockedAdd, mayChange, DialogInv, DialogIsCopy, ListsAreTidy
<1>2. \A e : Has(blockedSubnets, e) => Clean(e)
  BY <1>1 DEF Tidy
<1>3. ASSUME NEW t \in Typed, handleBlockedAdd(t)
      PROVE  /\ DialogInv' /\ subnets' = subnets
             /\ \A r : Has(blockedSubnets, r) => Has(blockedSubnets', r)
  <2>1. PICK r \in parseSubnetInput(t) : setBlockedSubnets(Append(cachedBlocked, r))
    BY <1>3 DEF handleBlockedAdd
  <2>2. PICK list \in Seq(Subnet) :
          /\ setBlockedSubnets(list)
          /\ \A e : Has(list, e) <=> Has(blockedSubnets, e) \/ e = r
          /\ \A e : Has(list, e) => Clean(e)
    <3>1. r \in Subnet /\ Clean(r)
      BY Parsed
    <3> QED
      BY <1>1, <2>1, <3>1, Added
  <2>3. DialogInv'
    BY <1>1, <1>3, <2>2, BlockedSet DEF handleBlockedAdd
  <2>4. blockedSubnets' = sanitizedList(list) /\ subnets' = subnets
    BY <2>2 DEF setBlockedSubnets
  <2>5. \A e : Has(sanitizedList(list), e) <=> Has(list, e)
    BY <2>2, Sanitized
  <2> QED
    BY <2>2, <2>3, <2>4, <2>5
<1>4. CASE handleBlockedRemove
  <2>1. /\ blockRow \in 1..Len(blockedSubnets)
        /\ setBlockedSubnets(RemoveAt(blockedSubnets, blockRow))
    BY <1>1, <1>4 DEF handleBlockedRemove
  <2>2. PICK i \in 1..Len(blockedSubnets) : i = blockRow
    BY <2>1
  <2>3. PICK list \in Seq(Subnet) :
          /\ setBlockedSubnets(list)
          /\ \A e : Has(list, e) => Has(blockedSubnets, e)
          /\ \A e : Has(blockedSubnets, e) => Has(list, e) \/ e = blockedSubnets[i]
    BY <1>1, <2>1, <2>2, Removed
  <2>4. DialogInv'
    BY <1>1, <1>4, <2>3, BlockedSet DEF handleBlockedRemove
  <2>5. blockedSubnets' = sanitizedList(list) /\ subnets' = subnets
    BY <2>3 DEF setBlockedSubnets
  <2>6. \A e : Has(sanitizedList(list), e) <=> Has(list, e)
    BY <1>2, <2>3, Sanitized
  <2>7. blockRow # 0
    BY <2>2
  <2> QED
    BY <1>1, <2>2, <2>3, <2>4, <2>5, <2>6, <2>7
<1> QED
  BY <1>3, <1>4

LEMMA DialogNext ==
  ASSUME DialogInv, [Next]_vars
  PROVE  DialogInv'
BY Initialized, DialogOpened, Exited, Moved, SubnetsChange, BlockedChange DEF Next

(***************************************************************************)
(* Theorems.                                                                *)
(***************************************************************************)

\* Every list of segments keeps its type, in the controller, the database and the dialog,
\* and a current row is a row of its list.
THEOREM SegmentsTypeCorrect == Spec => []TypeOK
<1>1. Init => DialogInv
  BY DialogInit
<1>2. DialogInv /\ [Next]_vars => DialogInv'
  BY DialogNext
<1>3. DialogInv => TypeOK
  BY DialogType
<1> QED
  BY <1>1, <1>2, <1>3, PTL DEF Spec

\* refreshSubnetList: every listed segment has one row, and a row that can be removed is
\* a listed segment; the black list is shown as it is.
THEOREM DialogShowsTheLists == Spec => []DialogShowsLists
<1>1. Init => DialogInv
  BY DialogInit
<1>2. DialogInv /\ [Next]_vars => DialogInv'
  BY DialogNext
<1>3. DialogInv => DialogShowsLists
  <2> SUFFICES ASSUME DialogInv, made PROVE DialogShowsLists
    BY DEF DialogShowsLists
  <2>1. ItemRows(items, subnets) /\ blockItems = blockedSubnets
    BY DEF DialogInv, DialogIsCopy
  <2>2. subnets \in Seq(Subnet) /\ items \in Seq(Item)
    BY <2>1 DEF DialogInv, ListsAreTidy, Tidy, ItemRows
  <2>3. DOMAIN items = 1..Len(items) /\ DOMAIN subnets = 1..Len(subnets)
    BY <2>2
  <2>4. ASSUME NEW r \in ToSet(subnets)
        PROVE  \E i \in DOMAIN items : \A j \in DOMAIN items : items[j].token = r <=> i = j
    <3>1. Has(subnets, r)
      BY <2>3 DEF ToSet, Has
    <3>2. PICK i \in 1..Len(items) : items[i].token = r
      BY <2>1, <3>1 DEF ItemRows
    <3>3. \A j \in 1..Len(items) : items[j].token = r <=> i = j
      BY <2>1, <3>2 DEF ItemRows
    <3> QED
      BY <2>3, <3>3
  <2>5. \A i \in DOMAIN items : items[i].removable => Contains(subnets, items[i].token)
    BY <2>1, <2>3 DEF ItemRows, Has, Contains
  <2> QED
    BY <2>1, <2>4, <2>5 DEF DialogShowsLists
<1> QED
  BY <1>1, <1>2, <1>3, PTL DEF Spec

\* handleSubnetAdd .. handleBlockedRemove: while the process runs no segment is lost but
\* the one whose row is current, whatever the lists hold and however they were changed.
THEOREM OnlyTheChosenSegmentIsLost == Spec => OnlyTheChosenIsLost
<1> DEFINE Lost ==
      (running /\ running') =>
        /\ \A r \in ToSet(subnets) \ ToSet(subnets') : current # 0 /\ r = items[current].token
        /\ \A r \in ToSet(blockedSubnets) \ ToSet(blockedSubnets') :
             blockRow # 0 /\ r = blockItems[blockRow]
<1>1. Init => DialogInv
  BY DialogInit
<1>2. DialogInv /\ [Next]_vars => DialogInv'
  BY DialogNext
<1>3. DialogInv /\ DialogInv' /\ [Next]_vars => [Lost]_vars
  <2> SUFFICES ASSUME DialogInv, DialogInv', Next PROVE Lost
    OBVIOUS
  <2>1. ASSUME NEW s, s \in Seq(Subnet), NEW r PROVE r \in ToSet(s) <=> Has(s, r)
    <3>1. DOMAIN s = 1..Len(s)
      BY <2>1
    <3> QED
      BY <3>1 DEF ToSet, Has
  <2>2. /\ subnets \in Seq(Subnet) /\ subnets' \in Seq(Subnet)
        /\ blockedSubnets \in Seq(Subnet) /\ blockedSubnets' \in Seq(Subnet)
    BY DEF DialogInv, ListsAreTidy, Tidy
  <2>3. CASE initialize \/ exit
    BY <2>3 DEF initialize, exit
  <2>4. CASE openSettingsDialog \/ move \/ setCurrentRow
    BY <2>4 DEF openSettingsDialog, move, setCurrentRow, lists
  <2>5. CASE handleSubnetRemove \/ \E t \in Typed : handleSubnetAdd(t)
    BY <2>1, <2>2, <2>5, SubnetsChange
  <2>6. CASE handleBlockedRemove \/ \E t \in Typed : handleBlockedAdd(t)
    BY <2>1, <2>2, <2>6, BlockedChange
  <2> QED
    BY <2>3, <2>4, <2>5, <2>6 DEF Next
<1> QED
  BY <1>1, <1>2, <1>3, PTL DEF Spec, OnlyTheChosenIsLost
=============================================================================
