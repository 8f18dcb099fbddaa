--------------------------- MODULE StateRootProofs ---------------------------
(***************************************************************************)
(* What sorting and hashing do to lists of signers and to leaves of any    *)
(* length: a sorted list does not depend on the order it is made from, and *)
(* the rounds of hashing make the Merkle tree, which tells leaves apart;   *)
(* and a payload key tells lists of IDs of one length apart.               *)
(***************************************************************************)
EXTENDS StateRoot, FiniteSetTheorems, SequenceTheorems, WellFoundedInduction, TLAPS

(* A set of numbers that has one has a least one. *)
LEMMA LeastNumber == ASSUME NEW T \in SUBSET Nat, T # {} PROVE \E m \in T : \A k \in T : m <= k
<1>1. PICK R : IsWellFoundedOn(R, Nat) /\ \A k, m \in Nat : k < m => <<k, m>> \in R
  <2>1. \A k, m \in Nat : k < m => <<k, m>> \in OpToRel(<, Nat)
    BY DEF OpToRel
  <2> QED
    BY <2>1, NatLessThanWellFounded, Zenon
<1>2. PICK m \in T : \A k \in T : ~ (<<k, m>> \in R)
  <2>1. T \subseteq Nat /\ IsWellFoundedOn(R, Nat)
    BY <1>1
  <2>2. \E m \in T : \A k \in T : ~ (<<k, m>> \in R)
    BY <2>1, WFMin
  <2> QED
    BY <2>2
<1>3. \A k \in T : ~ (k < m)
  BY <1>1, <1>2
<1> QED
  BY <1>3

-----------------------------------------------------------------------------
(* The byte order of strings is a strict total order. *)
LEMMA BeforeIrreflexive == ASSUME NEW x \in Seq(Nat) PROVE ~Before(x, x)
BY DEF Before

LEMMA PlacesBefore ==
  ASSUME NEW k \in Nat, NEW m \in Nat, k >= 1, k < m
  PROVE  k \in 1 .. m - 1 /\ \A j \in 1 .. k - 1 : j \in 1 .. m - 1
OBVIOUS

LEMMA DomainBelow ==
  ASSUME NEW S, NEW x \in Seq(S), NEW k \in DOMAIN x, NEW m \in 1 .. k - 1
  PROVE  m \in DOMAIN x
OBVIOUS

LEMMA BeforeTransitive ==
  ASSUME NEW x \in Seq(Nat), NEW y \in Seq(Nat), NEW z \in Seq(Nat), Before(x, y), Before(y, z)
  PROVE  Before(x, z)
<1>1. PICK k \in DOMAIN y : /\ k \notin DOMAIN x \/ x[k] < y[k]
                            /\ \A j \in 1 .. k - 1 : j \in DOMAIN x /\ x[j] = y[j]
  BY DEF Before
<1>2. PICK m \in DOMAIN z : /\ m \notin DOMAIN y \/ y[m] < z[m]
                            /\ \A j \in 1 .. m - 1 : j \in DOMAIN y /\ y[j] = z[j]
  BY DEF Before
<1>3. k \in Nat /\ m \in Nat /\ k >= 1 /\ m >= 1
  OBVIOUS
<1>4. CASE k < m
  <2>1. k \in 1 .. m - 1 /\ \A j \in 1 .. k - 1 : j \in 1 .. m - 1
    BY <1>3, <1>4, PlacesBefore
  <2>2. k \in DOMAIN z
    BY <1>2, <2>1, DomainBelow
  <2> QED
    BY <1>1, <1>2, <2>1, <2>2 DEF Before
<1>5. CASE k = m
  <2>1. k \notin DOMAIN x \/ x[k] < z[k]
    BY <1>1, <1>2, <1>5
  <2> QED
    BY <1>1, <1>2, <1>5, <2>1 DEF Before
<1>6. CASE m < k
  <2>1. m \in 1 .. k - 1 /\ \A j \in 1 .. m - 1 : j \in 1 .. k - 1
    BY <1>3, <1>6, PlacesBefore
  <2>2. m \in DOMAIN y /\ m \in DOMAIN x /\ x[m] = y[m]
    <3>1. m \in DOMAIN y
      BY <1>1, <2>1, DomainBelow
    <3>2. m \in DOMAIN x /\ x[m] = y[m]
      BY <1>1, <2>1, Zenon
    <3> QED
      BY <3>1, <3>2
  <2> QED
    BY <1>1, <1>2, <2>1, <2>2 DEF Before
<1> QED
  BY <1>3, <1>4, <1>5, <1>6

LEMMA BeforeTotal ==
  ASSUME NEW x \in Seq(Nat), NEW y \in Seq(Nat), x # y PROVE Before(x, y) \/ Before(y, x)
<1> DEFINE differs(k) == \/ k \in DOMAIN x /\ k \notin DOMAIN y
                         \/ k \in DOMAIN y /\ k \notin DOMAIN x
                         \/ k \in DOMAIN x /\ k \in DOMAIN y /\ x[k] # y[k]
           D == {k \in Nat : differs(k)}
<1>1. D # {}
  <2>1. DOMAIN x # DOMAIN y \/ \E k \in DOMAIN x : x[k] # y[k]
    OBVIOUS
  <2>2. DOMAIN x \subseteq Nat /\ DOMAIN y \subseteq Nat
    OBVIOUS
  <2> QED
    BY <2>1, <2>2
<1>2. PICK k \in D : \A j \in D : k <= j
  BY <1>1, LeastNumber
<1>3. k >= 1 /\ differs(k)
  OBVIOUS
<1>4. \A j \in 1 .. k - 1 : ~differs(j)
  BY <1>2
<1>5. \A j \in 1 .. k - 1 : j \in DOMAIN x /\ j \in DOMAIN y /\ x[j] = y[j]
  <2>1. \A j \in 1 .. k - 1 : j \in DOMAIN x \/ j \in DOMAIN y
    BY <1>3
  <2> QED
    BY <1>4, <2>1
<1>6. CASE k \in DOMAIN x /\ k \notin DOMAIN y
  BY <1>5, <1>6 DEF Before
<1>7. CASE k \in DOMAIN y /\ k \notin DOMAIN x
  BY <1>5, <1>7 DEF Before
<1>8. CASE k \in DOMAIN x /\ k \in DOMAIN y /\ x[k] # y[k]
  <2>1. x[k] < y[k] \/ y[k] < x[k]
    BY <1>8
  <2> QED
    BY <1>5, <1>8, <2>1 DEF Before
<1> QED
  BY <1>3, <1>6, <1>7, <1>8

-----------------------------------------------------------------------------
Named(S) == \A a \in S : Name(a) \in Seq(Nat)
NamesApart(S) == \A a, b \in S : Name(a) = Name(b) => a = b

(* A proper part of a finite set is smaller. *)
LEMMA ProperPart ==
  ASSUME NEW S, IsFiniteSet(S), NEW T \in SUBSET S, T # S
  PROVE  Cardinality(T) \in Nat /\ Cardinality(S) \in Nat /\ Cardinality(T) < Cardinality(S)
<1>1. IsFiniteSet(T) /\ Cardinality(T) <= Cardinality(S) /\ Cardinality(T) # Cardinality(S)
  BY FS_Subset
<1>2. Cardinality(T) \in Nat /\ Cardinality(S) \in Nat
  BY <1>1, FS_CardinalityType
<1> QED
  BY <1>1, <1>2

(* Ranks: whoever is ahead is fewer places from the start, in any order in    *)
(* which nobody is ahead of himself; so a list can be put into that order.    *)
LEMMA RanksArePlaces ==
  ASSUME NEW n \in Nat, NEW Ahead \in SUBSET ((1 .. n) \X (1 .. n)),
         \A i \in 1 .. n : <<i, i>> \notin Ahead,
         \A i, j, k \in 1 .. n : <<i, j>> \in Ahead /\ <<j, k>> \in Ahead => <<i, k>> \in Ahead,
         \A i, j \in 1 .. n : i # j => <<i, j>> \in Ahead \/ <<j, i>> \in Ahead
  PROVE  \E p \in Injection(1 .. n, 1 .. n) :
           \A k, m \in 1 .. n : <<p[m], p[k]>> \in Ahead => m < k
<1> DEFINE D == 1 .. n
           Up(i) == {j \in D : <<j, i>> \in Ahead}
           rank == [i \in D |-> Cardinality(Up(i)) + 1]
<1>1. IsFiniteSet(D) /\ Cardinality(D) = n
  BY FS_Interval
<1>2. /\ \A i \in D : Up(i) \in SUBSET D /\ i \notin Up(i)
      /\ \A i, k \in D : <<i, k>> \in Ahead => Up(i) \subseteq Up(k) /\ i \in Up(k)
  OBVIOUS
<1> HIDE DEF Up
<1>3. \A i \in D : /\ rank[i] = Cardinality(Up(i)) + 1 /\ rank[i] \in D
                   /\ IsFiniteSet(Up(i)) /\ Cardinality(Up(i)) \in Nat
  <2> TAKE i \in D
  <2>1. Up(i) \in SUBSET D /\ Up(i) # D
    BY <1>2
  <2>2. Cardinality(Up(i)) \in Nat /\ Cardinality(Up(i)) < n /\ IsFiniteSet(Up(i))
    BY <1>1, <2>1, ProperPart, FS_Subset
  <2>3. rank[i] = Cardinality(Up(i)) + 1
    OBVIOUS
  <2> QED
    BY <2>2, <2>3
<1>4. ASSUME NEW i \in D, NEW k \in D, <<i, k>> \in Ahead PROVE rank[i] < rank[k]
  <2>1. Up(i) \in SUBSET Up(k) /\ Up(i) # Up(k)
    BY <1>2, <1>4
  <2>2. Cardinality(Up(i)) < Cardinality(Up(k))
    BY <1>3, <2>1, ProperPart
  <2> HIDE DEF rank
  <2> QED
    BY <1>3, <2>2
<1>5. rank \in Injection(D, D)
  <2>1. rank \in [D -> D]
    BY <1>3
  <2>2. \A i, k \in D : rank[i] = rank[k] => i = k
    <3>1. \A i \in D : rank[i] \in Nat
      BY <1>3
    <3>2. \A i, k \in D : i # k => rank[i] < rank[k] \/ rank[k] < rank[i]
      BY <1>4
    <3> HIDE DEF rank
    <3> QED
      BY <3>1, <3>2
  <2>3. DOMAIN rank = D
    OBVIOUS
  <2> HIDE DEF rank
  <2> QED
    BY <2>1, <2>2, <2>3 DEF Injection, IsInjective
<1> HIDE DEF rank
<1>6. \A k \in D : \E i \in D : rank[i] = k
  <2>1. rank \in Surjection(D, D)
    BY <1>1, <1>5, FS_Injection
  <2> QED
    BY <2>1 DEF Surjection
<1> DEFINE p == [k \in D |-> CHOOSE i \in D : rank[i] = k]
<1>7. \A k \in D : p[k] \in D /\ rank[p[k]] = k
  BY <1>6
<1>8. p \in [D -> D] /\ DOMAIN p = D
  BY <1>7
<1> HIDE DEF p
<1>9. p \in Injection(D, D)
  BY <1>7, <1>8 DEF Injection, IsInjective
<1>10. \A k, m \in D : <<p[m], p[k]>> \in Ahead => m < k
  BY <1>4, <1>7
<1> QED
  BY <1>9, <1>10

(* sort.Strings: there is a list that is sorted. *)
LEMMA SortedIsThere ==
  ASSUME NEW S, Named(S), NEW ids \in Seq(S)
  PROVE  Sorted(ids) \in Arrangements(ids) /\ Ascending(Sorted(ids))
<1> DEFINE n == Len(ids)
           D == 1 .. n
           ahead(j, i) == \/ Before(Name(ids[j]), Name(ids[i]))
                          \/ Name(ids[j]) = Name(ids[i]) /\ j < i
           Ahead == {r \in D \X D : ahead(r[1], r[2])}
<1>1. n \in Nat /\ DOMAIN ids = D /\ \A i \in D : Name(ids[i]) \in Seq(Nat)
  BY DEF Named
<1>2. \A i, j \in D : <<i, j>> \in Ahead <=> ahead(i, j)
  OBVIOUS
<1>3. \A i \in D : ~ahead(i, i)
  BY <1>1, BeforeIrreflexive
<1>4. \A i, j, k \in D : ahead(i, j) /\ ahead(j, k) => ahead(i, k)
  BY <1>1, BeforeTransitive
<1>5. \A i, j \in D : i # j => ahead(i, j) \/ ahead(j, i)
  BY <1>1, BeforeTotal
<1>6. PICK p \in Injection(D, D) : \A k, m \in D : <<p[m], p[k]>> \in Ahead => m < k
  <2>1. /\ Ahead \in SUBSET (D \X D) /\ \A i \in D : <<i, i>> \notin Ahead
        /\ \A i, j, k \in D : <<i, j>> \in Ahead /\ <<j, k>> \in Ahead => <<i, k>> \in Ahead
        /\ \A i, j \in D : i # j => <<i, j>> \in Ahead \/ <<j, i>> \in Ahead
    BY <1>2, <1>3, <1>4, <1>5
  <2> HIDE DEF Ahead
  <2> QED
    BY <1>1, <2>1, RanksArePlaces
<1> DEFINE s == [i \in D |-> ids[p[i]]]
<1>7. s \in Arrangements(ids)
  BY <1>1, <1>6 DEF Arrangements
<1>8. Ascending(s)
  <2>1. p \in [D -> D]
    BY <1>6 DEF Injection
  <2>2. ASSUME NEW k \in D, NEW m \in D, k < m, Before(Name(s[m]), Name(s[k])) PROVE FALSE
    <3>1. ahead(p[m], p[k]) /\ p[m] \in D /\ p[k] \in D
      BY <2>1, <2>2
    <3>2. m < k
      BY <1>2, <1>6, <3>1
    <3> QED
      BY <2>2, <3>2
  <2> QED
    BY <2>2 DEF Ascending
<1> QED
  BY <1>7, <1>8 DEF Sorted

-----------------------------------------------------------------------------
(* The places of an ID in a list, and lists that differ in order only.        *)
Places(s, a) == {i \in DOMAIN s : s[i] = a}

SameUpToOrder(S, s, t) ==
  Len(s) = Len(t) /\ \A a \in S : Cardinality(Places(s, a)) = Cardinality(Places(t, a))

LEMMA PlacesFinite ==
  ASSUME NEW S, NEW s \in Seq(S), NEW a
  PROVE  Places(s, a) \subseteq 1 .. Len(s) /\ IsFiniteSet(Places(s, a))
<1>1. Places(s, a) \subseteq 1 .. Len(s)
  BY DEF Places
<1>2. IsFiniteSet(1 .. Len(s))
  BY FS_Interval
<1> QED
  BY <1>1, <1>2, FS_Subset

LEMMA ArrangementKeepsCounts ==
  ASSUME NEW S, NEW ids \in Seq(S), NEW s \in Arrangements(ids)
  PROVE  s \in Seq(S) /\ SameUpToOrder(S, s, ids)
<1> DEFINE D == 1 .. Len(ids)
<1>1. DOMAIN ids = D /\ Len(ids) \in Nat /\ \A i \in D : ids[i] \in S
  OBVIOUS
<1>2. PICK p \in Injection(D, D) : s = [i \in D |-> ids[p[i]]]
  BY <1>1 DEF Arrangements
<1>3. /\ p \in [D -> D] /\ \A i, k \in D : p[i] = p[k] => i = k
      /\ \A k \in D : \E i \in D : p[i] = k
  <2>1. IsFiniteSet(D)
    BY <1>1, FS_Interval
  <2>2. p \in Surjection(D, D)
    BY <2>1, FS_Injection
  <2> QED
    BY <2>2 DEF Injection, IsInjective, Surjection
<1>4. s \in Seq(S) /\ Len(s) = Len(ids) /\ DOMAIN s = D
  <2>1. s = [i \in D |-> s[i]] /\ \A i \in D : s[i] \in S
    BY <1>1, <1>2, <1>3
  <2>2. s \in [1 .. Len(ids) -> S]
    BY <2>1
  <2> QED
    BY <1>1, <2>2
<1>5. ASSUME NEW a \in S PROVE Cardinality(Places(s, a)) = Cardinality(Places(ids, a))
  <2>1. \A i \in D : /\ i \in Places(s, a) <=> p[i] \in Places(ids, a)
                     /\ i \in Places(ids, a) <=> ids[i] = a
    BY <1>1, <1>2, <1>3, <1>4 DEF Places
  <2>2. PICK P, Q : P = Places(s, a) /\ Q = Places(ids, a)
    OBVIOUS
  <2>3. P \subseteq D /\ Q \subseteq D /\ IsFiniteSet(P) /\ IsFiniteSet(Q)
    BY <1>4, <2>2, PlacesFinite, Zenon
  <2> DEFINE f == [i \in P |-> p[i]]
  <2>4. \A i \in D : i \in P <=> p[i] \in Q
    BY <2>1, <2>2
  <2>5. f \in [P -> Q] /\ DOMAIN f = P
    BY <2>3, <2>4
  <2>6. \A i, k \in P : f[i] = f[k] => i = k
    BY <1>3, <2>3
  <2>7. \A k \in Q : \E i \in P : f[i] = k
    BY <1>3, <2>3, <2>4
  <2> HIDE DEF f
  <2>8. f \in Bijection(P, Q)
    BY <2>5, <2>6, <2>7 DEF Bijection, Injection, Surjection, IsInjective
  <2>9. ExistsBijection(P, Q)
    BY <2>8 DEF ExistsBijection
  <2> QED
    BY <2>2, <2>3, <2>9, FS_Bijection
<1> QED
  BY <1>4, <1>5 DEF SameUpToOrder

(* Where two sorted lists differ first, the one with the smaller ID has it     *)
(* once more than the other.                                                  *)
LEMMA FirstDifference ==
  ASSUME NEW S, Named(S), NEW s \in Seq(S), NEW t \in Seq(S), Len(s) = Len(t), Ascending(t),
         NEW k \in 1 .. Len(s), \A j \in 1 .. k - 1 : s[j] = t[j],
         Before(Name(s[k]), Name(t[k]))
  PROVE  Cardinality(Places(s, s[k])) # Cardinality(Places(t, s[k]))
<1>1. DOMAIN s = 1 .. Len(s) /\ DOMAIN t = 1 .. Len(s) /\ Len(s) \in Nat
  OBVIOUS
<1>2. ASSUME NEW j \in 1 .. Len(s), t[j] = s[k] PROVE j < k
  <2>1. ~Before(Name(s[k]), Name(s[k]))
    BY BeforeIrreflexive DEF Named
  <2>2. k < j => ~Before(Name(t[j]), Name(t[k]))
    BY <1>1 DEF Ascending
  <2>3. k # j /\ ~(k < j)
    BY <1>2, <2>1, <2>2
  <2> QED
    BY <1>1, <2>3
<1>3. Places(t, s[k]) \subseteq Places(s, s[k])
  BY <1>1, <1>2 DEF Places
<1>4. k \in Places(s, s[k]) /\ k \notin Places(t, s[k])
  BY <1>1, <1>2 DEF Places
<1>5. Cardinality(Places(t, s[k])) < Cardinality(Places(s, s[k]))
  BY <1>3, <1>4, PlacesFinite, ProperPart, Zenon
<1>6. Cardinality(Places(t, s[k])) \in Nat /\ Cardinality(Places(s, s[k])) \in Nat
  BY PlacesFinite, FS_CardinalityType
<1> QED
  BY <1>5, <1>6

LEMMA SortedListsAgree ==
  ASSUME NEW S, Named(S), NamesApart(S), NEW s \in Seq(S), NEW t \in Seq(S),
         SameUpToOrder(S, s, t), Ascending(s), Ascending(t)
  PROVE  s = t
<1> SUFFICES ASSUME s # t PROVE FALSE
  OBVIOUS
<1> DEFINE D == 1 .. Len(s)
           differing == {j \in D : s[j] # t[j]}
<1>1. DOMAIN s = D /\ DOMAIN t = D /\ Len(s) = Len(t) /\ Len(s) \in Nat
  BY DEF SameUpToOrder
<1>2. differing # {} /\ differing \in SUBSET Nat
  BY <1>1
<1>3. PICK k \in differing : \A j \in differing : k <= j
  BY <1>2, LeastNumber
<1>4. k \in D /\ s[k] \in S /\ t[k] \in S /\ s[k] # t[k] /\ \A j \in 1 .. k - 1 : s[j] = t[j]
  BY <1>1, <1>3
<1>5. CASE Before(Name(s[k]), Name(t[k]))
  BY <1>1, <1>4, <1>5, FirstDifference DEF SameUpToOrder
<1>6. CASE Before(Name(t[k]), Name(s[k]))
  <2>1. k \in 1 .. Len(t) /\ \A j \in 1 .. k - 1 : t[j] = s[j]
    BY <1>1, <1>4
  <2> QED
    BY <1>1, <1>4, <1>6, <2>1, FirstDifference DEF SameUpToOrder
<1>7. Name(s[k]) # Name(t[k]) /\ Name(s[k]) \in Seq(Nat) /\ Name(t[k]) \in Seq(Nat)
  BY <1>4 DEF Named, NamesApart
<1> QED
  BY <1>5, <1>6, <1>7, BeforeTotal

(* sort.Strings in computePayloadKey and ComputeStateRoot: IDs that come in    *)
(* another order, of a request or of a range over a map, sort to one list, and *)
(* that list is the only one in ascending order.                              *)
THEOREM SortingIgnoresOrder ==
  ASSUME NEW S, Named(S), NamesApart(S), NEW p \in Seq(S), NEW q \in Seq(S), SameUpToOrder(S, p, q)
  PROVE  /\ Sorted(p) = Sorted(q)
         /\ \A s \in Arrangements(p) : Ascending(s) => s = Sorted(p)
<1>1. ASSUME NEW s \in Arrangements(p), Ascending(s), NEW t \in Arrangements(q), Ascending(t)
      PROVE  s = t
  <2>1. s \in Seq(S) /\ t \in Seq(S) /\ SameUpToOrder(S, s, t)
    BY ArrangementKeepsCounts DEF SameUpToOrder
  <2> QED
    BY <1>1, <2>1, SortedListsAgree
<1>2. /\ Sorted(p) \in Arrangements(p) /\ Ascending(Sorted(p))
      /\ Sorted(q) \in Arrangements(q) /\ Ascending(Sorted(q))
  BY SortedIsThere
<1> QED
  BY <1>1, <1>2

(* manager.go:200, "deterministic": requests for one payload that name the     *)
(* same signers, each as often, in any order have one key.                    *)
THEOREM PayloadKeyIgnoresOrder ==
  ASSUME NEW S, Named(S), NamesApart(S), NEW p \in Seq(S), NEW q \in Seq(S),
         SameUpToOrder(S, p, q), NEW payload
  PROVE  ComputePayloadKey(payload, p) = ComputePayloadKey(payload, q)
BY SortingIgnoresOrder DEF ComputePayloadKey

-----------------------------------------------------------------------------
(* Induction up to a bound, for a set. *)
LEMMA UpTo ==
  ASSUME NEW n \in Nat, NEW T, 0 \in T, \A i \in 0 .. n - 1 : i \in T => i + 1 \in T
  PROVE  \A i \in 0 .. n : i \in T
<1> SUFFICES ASSUME {i \in 0 .. n : i \notin T} # {} PROVE FALSE
  OBVIOUS
<1>1. PICK m \in {i \in 0 .. n : i \notin T} : \A k \in {i \in 0 .. n : i \notin T} : m <= k
  <2>1. {i \in 0 .. n : i \notin T} \in SUBSET Nat
    OBVIOUS
  <2> QED
    BY <2>1, LeastNumber
<1>2. m # 0 /\ m - 1 \in 0 .. n - 1 /\ m - 1 \in T
  BY <1>1
<1> QED
  BY <1>1, <1>2

(* Two parts written one after the other. *)
Parts(z, x, u) ==
  /\ Len(z) = Len(x) + Len(u) /\ \A i \in 1 .. Len(x) : z[i] = x[i]
  /\ \A i \in 1 .. Len(u) : z[Len(x) + i] = u[i]

LEMMA PartsOfRun ==
  ASSUME NEW x \in Seq(Nat), NEW u \in Seq(Nat) PROVE Parts(x \o u, x, u)
<1>1. PICK z : z = x \o u
  OBVIOUS
<1>2. PICK n \in Nat, m \in Nat : n = Len(x) /\ m = Len(u)
  OBVIOUS
<1>3. Len(z) = n + m /\ \A i \in 1 .. n + m : z[i] = IF i <= n THEN x[i] ELSE u[i - n]
  <2>1. /\ Len(x \o u) = Len(x) + Len(u)
        /\ \A i \in 1 .. Len(x) + Len(u) :
             (x \o u)[i] = IF i <= Len(x) THEN x[i] ELSE u[i - Len(x)]
    BY ConcatProperties
  <2> QED
    BY <1>1, <1>2, <2>1, Zenon
<1>4. \A i \in 1 .. n : z[i] = x[i]
  BY <1>2, <1>3
<1>5. \A i \in 1 .. m : z[n + i] = u[i]
  <2> TAKE i \in 1 .. m
  <2>1. PICK k : k = n + i /\ k \in 1 .. n + m /\ ~(k <= n) /\ k - n = i
    <3>1. n + i \in 1 .. n + m /\ ~(n + i <= n) /\ n + i - n = i
      BY <1>2
    <3> QED
      BY <3>1
  <2>2. z[k] = u[k - n]
    BY <1>3, <2>1
  <2> QED
    BY <2>1, <2>2, Zenon
<1> QED
  BY <1>1, <1>2, <1>3, <1>4, <1>5, Zenon DEF Parts

(* Runs that are equal and end in parts of one length have equal parts. *)
RunsAlike(x, u, y, v) == Len(u) = Len(v) /\ x \o u = y \o v

LEMMA EndsCut ==
  ASSUME NEW x \in Seq(Nat), NEW u \in Seq(Nat), NEW y \in Seq(Nat), NEW v \in Seq(Nat),
         RunsAlike(x, u, y, v)
  PROVE  x = y /\ u = v
<1>1. PICK z : Parts(z, x, u) /\ Parts(z, y, v)
  <2>1. Parts(x \o u, x, u) /\ Parts(y \o v, y, v)
    BY PartsOfRun
  <2> QED
    BY <2>1, Zenon DEF RunsAlike
<1>2. Len(x) \in Nat /\ Len(u) \in Nat /\ Len(y) \in Nat /\ Len(u) = Len(v)
  BY DEF RunsAlike
<1>3. Len(x) = Len(y)
  BY <1>1, <1>2 DEF Parts
<1>4. /\ \A i \in 1 .. Len(x) : x[i] = y[i]
      /\ \A i \in 1 .. Len(u) : u[i] = v[i]
  <2>1. /\ \A i \in 1 .. Len(x) : z[i] = x[i]
        /\ \A i \in 1 .. Len(u) : z[Len(x) + i] = u[i]
    BY <1>1 DEF Parts
  <2>2. /\ \A i \in 1 .. Len(x) : z[i] = y[i]
        /\ \A i \in 1 .. Len(u) : z[Len(x) + i] = v[i]
    BY <1>1, <1>2, <1>3, Zenon DEF Parts
  <2> QED
    BY <2>1, <2>2, Zenon
<1> QED
  BY <1>2, <1>3, <1>4, SeqEqual

(* The powers of two, by doubling. *)
Doubles(n, f) == f = [i \in 0 .. n |-> IF i = 0 THEN 1 ELSE 2 * f[i - 1]]

LEMMA DoublesExist == ASSUME NEW n \in Nat PROVE \E f : Doubles(n, f)
<1> DEFINE T == {k \in 0 .. n : \E f : Doubles(k, f)}
<1>1. 0 \in T
  <2>1. Doubles(0, [i \in 0 .. 0 |-> 1])
    BY DEF Doubles
  <2> QED
    BY <2>1
<1>2. ASSUME NEW k \in 0 .. n - 1, k \in T PROVE k + 1 \in T
  <2>1. PICK f : Doubles(k, f)
    BY <1>2
  <2> DEFINE g == [i \in 0 .. k + 1 |-> IF i <= k THEN f[i] ELSE 2 * f[k]]
  <2>2. \A i \in 0 .. k + 1 : g[i] = IF i = 0 THEN 1 ELSE 2 * g[i - 1]
    BY <2>1 DEF Doubles
  <2>3. Doubles(k + 1, g)
    <3>1. g = [i \in 0 .. k + 1 |-> g[i]]
      OBVIOUS
    <3> HIDE DEF g
    <3> QED
      BY <2>2, <3>1 DEF Doubles
  <2> QED
    BY <2>3
<1>3. \A k \in 0 .. n : k \in T
  <2> HIDE DEF T
  <2> QED
    BY <1>1, <1>2, UpTo
<1> QED
  BY <1>3

(* They are numbers, at least doubled from one to any later one. *)
LEMMA DoublesGrow ==
  ASSUME NEW n \in Nat, NEW f, Doubles(n, f)
  PROVE  /\ f[0] = 1 /\ \A i \in 1 .. n : f[i] = 2 * f[i - 1]
         /\ \A i \in 0 .. n : f[i] \in Nat /\ f[i] >= i + 1
         /\ \A j \in 0 .. n : \A i \in 0 .. j - 1 : 2 * f[i] <= f[j]
<1>1. f[0] = 1 /\ \A i \in 1 .. n : f[i] = 2 * f[i - 1]
  BY DEF Doubles
<1>2. \A i \in 0 .. n : f[i] \in Nat /\ f[i] >= i + 1
  <2> DEFINE T == {i \in 0 .. n : f[i] \in Nat /\ f[i] >= i + 1}
  <2>1. 0 \in T
    BY <1>1
  <2>2. ASSUME NEW i \in 0 .. n - 1, i \in T PROVE i + 1 \in T
    <3>1. f[i + 1] = 2 * f[i] /\ f[i] \in Nat /\ f[i] >= i + 1
      BY <1>1, <2>2
    <3> QED
      BY <3>1
  <2>3. \A i \in 0 .. n : i \in T
    <3> HIDE DEF T
    <3> QED
      BY <2>1, <2>2, UpTo
  <2> QED
    BY <2>3
<1>3. \A j \in 0 .. n : \A i \in 0 .. j - 1 : 2 * f[i] <= f[j]
  <2> DEFINE T == {j \in 0 .. n : \A i \in 0 .. j - 1 : 2 * f[i] <= f[j]}
  <2>1. 0 \in T
    OBVIOUS
  <2>2. ASSUME NEW j \in 0 .. n - 1, j \in T PROVE j + 1 \in T
    <3>1. f[j + 1] = 2 * f[j] /\ f[j] \in Nat
      BY <1>1, <1>2
    <3>2. \A i \in 0 .. j - 1 : f[i] \in Nat /\ 2 * f[i] <= f[j]
      BY <1>2, <2>2
    <3>3. \A i \in 0 .. j : 2 * f[i] <= f[j + 1]
      BY <3>1, <3>2
    <3> QED
      BY <3>3
  <2>3. \A j \in 0 .. n : j \in T
    <3> HIDE DEF T
    <3> QED
      BY <2>1, <2>2, UpTo
  <2> QED
    BY <2>3
<1> QED
  BY <1>1, <1>2, <1>3

(* The function that PowersOfTwo takes its values from. *)
LEMMA PowersDouble ==
  ASSUME NEW n \in Nat PROVE \E f : Doubles(n, f) /\ PowersOfTwo(n) = {f[i] : i \in 0 .. n}
<1> DEFINE f == CHOOSE g : g = [i \in 0 .. n |-> IF i = 0 THEN 1 ELSE 2 * g[i - 1]]
<1>1. Doubles(n, f)
  BY DoublesExist DEF Doubles
<1>2. PowersOfTwo(n) = {f[i] : i \in 0 .. n}
  BY DEF PowersOfTwo
<1> QED
  BY <1>1, <1>2

(* The largest power of two below a number. *)
LEMMA LeftHalfIs ==
  ASSUME NEW n \in Nat, NEW m \in 2 .. n
  PROVE  LET k == LeftHalf(m, PowersOfTwo(n))
         IN  k \in PowersOfTwo(n) /\ k \in 1 .. m - 1 /\ m <= 2 * k
<1>1. PICK f : Doubles(n, f) /\ PowersOfTwo(n) = {f[i] : i \in 0 .. n}
  BY PowersDouble
<1>2. /\ f[0] = 1 /\ \A i \in 1 .. n : f[i] = 2 * f[i - 1]
      /\ \A i \in 0 .. n : f[i] \in Nat /\ f[i] >= i + 1
  BY <1>1, DoublesGrow
<1> DEFINE enough == {i \in 0 .. n : m <= 2 * f[i]}
<1>3. enough # {} /\ enough \in SUBSET Nat
  <2>1. f[n] \in Nat /\ f[n] >= n + 1
    BY <1>2
  <2>2. n \in enough
    BY <2>1
  <2> QED
    BY <2>2
<1>4. PICK i \in enough : \A j \in enough : i <= j
  BY <1>3, LeastNumber
<1>5. f[i] < m /\ m <= 2 * f[i] /\ f[i] \in Nat
  <2>1. CASE i = 0
    BY <1>2, <1>4, <2>1
  <2>2. CASE i # 0
    <3>1. i \in 1 .. n /\ i - 1 \in 0 .. n /\ i - 1 \notin enough
      BY <1>4, <2>2
    <3>2. ~(m <= 2 * f[i - 1]) /\ f[i] = 2 * f[i - 1] /\ f[i - 1] \in Nat
      BY <1>2, <3>1
    <3>3. f[i] < m
      BY <3>2
    <3> QED
      BY <1>2, <1>4, <3>3
  <2> QED
    BY <2>1, <2>2
<1>6. \E k \in PowersOfTwo(n) : k < m /\ m <= 2 * k
  BY <1>1, <1>4, <1>5
<1>7. \A k \in PowersOfTwo(n) : k \in Nat /\ k >= 1
  <2>1. \A j \in 0 .. n : f[j] \in Nat /\ f[j] >= 1
    BY <1>2
  <2> QED
    BY <1>1, <2>1
<1> DEFINE k == LeftHalf(m, PowersOfTwo(n))
<1>8. k \in PowersOfTwo(n) /\ k < m /\ m <= 2 * k
  BY <1>6 DEF LeftHalf
<1> HIDE DEF k
<1>9. k \in PowersOfTwo(n) /\ k \in 1 .. m - 1 /\ m <= 2 * k
  BY <1>7, <1>8
<1> QED
  BY <1>9 DEF k

(* There is one only. *)
LEMMA LeftHalfUnique ==
  ASSUME NEW n \in Nat, NEW m \in 2 .. n, NEW k \in PowersOfTwo(n), k < m, m <= 2 * k
  PROVE  LeftHalf(m, PowersOfTwo(n)) = k
<1>1. PICK f : Doubles(n, f) /\ PowersOfTwo(n) = {f[i] : i \in 0 .. n}
  BY PowersDouble
<1>2. PICK h : /\ h = LeftHalf(m, PowersOfTwo(n))
               /\ h \in PowersOfTwo(n) /\ h < m /\ m <= 2 * h
  BY LeftHalfIs
<1>3. PICK i \in 0 .. n, j \in 0 .. n : f[i] = k /\ f[j] = h
  BY <1>1, <1>2
<1>4. /\ f[i] \in Nat /\ f[j] \in Nat
      /\ i < j => 2 * f[i] <= f[j]
      /\ j < i => 2 * f[j] <= f[i]
  BY <1>1, DoublesGrow
<1>5. ~(i < j) /\ ~(j < i)
  BY <1>2, <1>3, <1>4
<1>6. i = j
  BY <1>5
<1> QED
  BY <1>2, <1>3, <1>6

-----------------------------------------------------------------------------
(* The tree hash satisfies its recursion. *)
Branch(leaves, tree, r) ==
  LET k == r[1] + LeftHalf(r[2] - r[1] + 1, PowersOfTwo(Len(leaves)))
  IN  IF r[1] = r[2] THEN leaves[r[1]]
      ELSE Hash(<<tree[<<r[1], k - 1>>], tree[<<k, r[2]>>]>>)

Shorter(n, d) == {r \in Segments(n) : r[2] - r[1] <= d}

(* A segment of more than one leaf splits into two shorter ones. *)
LEMMA Splits ==
  ASSUME NEW n \in Nat, NEW r \in Segments(n), r[1] # r[2]
  PROVE  LET k == r[1] + LeftHalf(r[2] - r[1] + 1, PowersOfTwo(n))
         IN  /\ k \in 1 .. n /\ r[1] <= k - 1 /\ k <= r[2]
             /\ <<r[1], k - 1>> \in Segments(n) /\ <<k, r[2]>> \in Segments(n)
             /\ k - 1 - r[1] < r[2] - r[1] /\ r[2] - k < r[2] - r[1]
<1>1. PICK a, b : a = r[1] /\ b = r[2] /\ a \in 1 .. n /\ b \in 1 .. n /\ a < b
  BY DEF Segments
<1>2. PICK m : m = b - a + 1 /\ m \in 2 .. n
  BY <1>1
<1>3. PICK h : h = LeftHalf(m, PowersOfTwo(n)) /\ h \in 1 .. m - 1
  BY <1>2, LeftHalfIs
<1>4. PICK k : k = a + h
  OBVIOUS
<1>5. /\ k \in 1 .. n /\ k - 1 \in 1 .. n /\ a <= k - 1 /\ k <= b
      /\ k - 1 - a < b - a /\ b - k < b - a
  BY <1>1, <1>2, <1>3, <1>4
<1>6. <<a, k - 1>> \in Segments(n) /\ <<k, b>> \in Segments(n)
  BY <1>1, <1>5 DEF Segments
<1>7. k = r[1] + LeftHalf(r[2] - r[1] + 1, PowersOfTwo(n))
  BY <1>1, <1>2, <1>3, <1>4
<1> QED
  BY <1>1, <1>5, <1>6, <1>7, Zenon

LEMMA TreeExists ==
  ASSUME NEW leaves, NEW n \in Nat, Len(leaves) = n
  PROVE  \E tree : tree = [r \in Segments(n) |-> Branch(leaves, tree, r)]
<1> DEFINE Grown(d, tree) == tree = [r \in Shorter(n, d) |-> Branch(leaves, tree, r)]
           T == {d \in 0 .. n : \E tree : Grown(d, tree)}
<1>1. 0 \in T
  <2> DEFINE t == [r \in Shorter(n, 0) |-> leaves[r[1]]]
  <2>1. \A r \in Shorter(n, 0) : t[r] = Branch(leaves, t, r)
    <3>1. \A r \in Shorter(n, 0) : r[1] = r[2]
      BY DEF Shorter, Segments
    <3> QED
      BY <3>1 DEF Branch
  <2>2. t = [r \in Shorter(n, 0) |-> t[r]]
    OBVIOUS
  <2> HIDE DEF t
  <2>3. Grown(0, t)
    BY <2>1, <2>2
  <2> QED
    BY <2>3
<1>2. ASSUME NEW d \in 0 .. n - 1, d \in T PROVE d + 1 \in T
  <2>1. PICK tree : Grown(d, tree)
    BY <1>2
  <2> DEFINE t == [r \in Shorter(n, d + 1) |-> Branch(leaves, tree, r)]
  <2>2. ASSUME NEW r \in Shorter(n, d + 1) PROVE t[r] = Branch(leaves, t, r)
    <3>1. t[r] = Branch(leaves, tree, r)
      BY <2>2
    <3>2. CASE r[1] = r[2]
      BY <3>1, <3>2 DEF Branch
    <3>3. CASE r[1] # r[2]
      <4>1. r \in Segments(n) /\ r[1] \in Nat /\ r[2] \in Nat /\ r[2] - r[1] <= d + 1
        BY DEF Shorter, Segments
      <4>2. PICK k : /\ k = r[1] + LeftHalf(r[2] - r[1] + 1, PowersOfTwo(n))
                     /\ <<r[1], k - 1>> \in Segments(n) /\ <<k, r[2]>> \in Segments(n)
                     /\ k \in 1 .. n
                     /\ k - 1 - r[1] < r[2] - r[1] /\ r[2] - k < r[2] - r[1]
        BY <3>3, <4>1, Splits
      <4>3. ASSUME NEW q \in {<<r[1], k - 1>>, <<k, r[2]>>} PROVE t[q] = tree[q]
        <5>1. /\ k - 1 - r[1] <= d /\ k - 1 - r[1] <= d + 1
              /\ r[2] - k <= d /\ r[2] - k <= d + 1
          BY <4>1, <4>2
        <5>2. q \in Segments(n) /\ q[2] - q[1] <= d /\ q[2] - q[1] <= d + 1
          BY <4>2, <5>1
        <5>3. q \in Shorter(n, d) /\ q \in Shorter(n, d + 1)
          BY <5>2 DEF Shorter
        <5> QED
          BY <2>1, <5>3
      <4>4. /\ t[<<r[1], k - 1>>] = tree[<<r[1], k - 1>>]
            /\ t[<<k, r[2]>>] = tree[<<k, r[2]>>]
        BY <4>3
      <4>5. Branch(leaves, tree, r) = Branch(leaves, t, r)
        <5> HIDE DEF t
        <5> QED
          BY <4>2, <4>4 DEF Branch
      <4> QED
        BY <3>1, <4>5
    <3> QED
      BY <3>2, <3>3
  <2>3. t = [r \in Shorter(n, d + 1) |-> t[r]]
    OBVIOUS
  <2> HIDE DEF t
  <2>4. Grown(d + 1, t)
    BY <2>2, <2>3
  <2> QED
    BY <2>4
<1>3. n \in T
  <2>1. \A d \in 0 .. n : d \in T
    <3> HIDE DEF T
    <3> QED
      BY <1>1, <1>2, UpTo
  <2> QED
    BY <2>1
<1>4. PICK tree : Grown(n, tree)
  BY <1>3
<1>5. Shorter(n, n) = Segments(n)
  BY DEF Shorter, Segments
<1> QED
  BY <1>4, <1>5

LEMMA TreeGrows ==
  ASSUME NEW leaves, NEW n \in Nat, Len(leaves) = n
  PROVE  /\ DOMAIN Tree(leaves) = Segments(n)
         /\ \A r \in Segments(n) : Tree(leaves)[r] = Branch(leaves, Tree(leaves), r)
<1> DEFINE tree == CHOOSE t : t = [r \in Segments(n) |-> Branch(leaves, t, r)]
<1>1. tree = [r \in Segments(n) |-> Branch(leaves, tree, r)]
  BY TreeExists
<1>2. Tree(leaves) = tree
  BY DEF Tree, Branch
<1> HIDE DEF tree
<1> QED
  BY <1>1, <1>2

-----------------------------------------------------------------------------
(* computeMerkleRoot, one round: half as many nodes. *)
LEMMA LevelHalves ==
  ASSUME NEW nodes, NEW m \in Nat, Len(nodes) = m
  PROVE  LET h == (m + 1) \div 2
         IN  /\ h \in Nat /\ Len(Level(nodes)) = h
             /\ \A i \in 1 .. h :
                  /\ 2 * i <= m => Level(nodes)[i] = Hash(<<nodes[2 * i - 1], nodes[2 * i]>>)
                  /\ ~(2 * i <= m) => Level(nodes)[i] = nodes[2 * i - 1]
<1>1. PICK h \in Nat : h = (m + 1) \div 2
  OBVIOUS
<1>2. Level(nodes) = [i \in 1 .. h |-> IF 2 * i <= m THEN Hash(<<nodes[2 * i - 1], nodes[2 * i]>>)
                                                     ELSE nodes[2 * i - 1]]
  BY <1>1 DEF Level
<1>3. Len(Level(nodes)) = h
  BY <1>2
<1> QED
  BY <1>1, <1>2, <1>3

Halves(leaves, n, f) == f = [k \in 0 .. n |-> IF k = 0 THEN leaves ELSE Level(f[k - 1])]

LEMMA RoundsExist == ASSUME NEW leaves, NEW n \in Nat PROVE \E f : Halves(leaves, n, f)
<1> DEFINE T == {k \in 0 .. n : \E f : Halves(leaves, k, f)}
<1>1. 0 \in T
  <2>1. Halves(leaves, 0, [i \in 0 .. 0 |-> leaves])
    BY DEF Halves
  <2> QED
    BY <2>1
<1>2. ASSUME NEW k \in 0 .. n - 1, k \in T PROVE k + 1 \in T
  <2>1. PICK f : Halves(leaves, k, f)
    BY <1>2
  <2> DEFINE g == [i \in 0 .. k + 1 |-> IF i <= k THEN f[i] ELSE Level(f[k])]
  <2>2. \A i \in 0 .. k + 1 : g[i] = IF i = 0 THEN leaves ELSE Level(g[i - 1])
    BY <2>1 DEF Halves
  <2>3. Halves(leaves, k + 1, g)
    <3>1. g = [i \in 0 .. k + 1 |-> g[i]]
      OBVIOUS
    <3> HIDE DEF g
    <3> QED
      BY <2>2, <3>1 DEF Halves
  <2> QED
    BY <2>3
<1>3. \A k \in 0 .. n : k \in T
  <2> HIDE DEF T
  <2> QED
    BY <1>1, <1>2, UpTo
<1> QED
  BY <1>3

LEMMA RoundByRound ==
  ASSUME NEW leaves, NEW n \in Nat, Len(leaves) = n
  PROVE  /\ Rounds(leaves)[0] = leaves
         /\ \A k \in 1 .. n : Rounds(leaves)[k] = Level(Rounds(leaves)[k - 1])
<1> DEFINE f == CHOOSE g : g = [k \in 0 .. n |-> IF k = 0 THEN leaves ELSE Level(g[k - 1])]
<1>1. Halves(leaves, n, f)
  BY RoundsExist DEF Halves
<1>2. Rounds(leaves) = f
  BY DEF Rounds
<1> HIDE DEF f
<1> QED
  BY <1>1, <1>2 DEF Halves

(* After some rounds, each of length p in leaves, there is one node for every  *)
(* segment of that length, and one for what is left over.                     *)
SegmentAt(n, p, i) == <<(i - 1) * p + 1, IF i * p <= n THEN i * p ELSE n>>

Covers(leaves, nodes, n, p) ==
  \E m \in Nat \ {0} :
    /\ Len(nodes) = m /\ (m - 1) * p < n /\ n <= m * p
    /\ \A i \in 1 .. m : nodes[i] = Tree(leaves)[SegmentAt(n, p, i)]

LEMMA TimesGrows == ASSUME NEW a \in Nat, NEW b \in Nat, NEW p \in Nat, a <= b PROVE a * p <= b * p
<1>1. (b - a) * p >= 0 /\ b * p - a * p = (b - a) * p /\ a * p \in Nat /\ b * p \in Nat
  OBVIOUS
<1> QED
  BY <1>1

(* A pair of neighbouring segments is the next longer one. *)
LEMMA SegmentsJoin ==
  ASSUME NEW n \in Nat, NEW p \in Nat \ {0}, NEW m \in Nat, (m - 1) * p < n,
         NEW i \in Nat \ {0}, 2 * i <= m
  PROVE  /\ SegmentAt(n, p, 2 * i - 1) = <<(2 * i - 2) * p + 1, (2 * i - 1) * p>>
         /\ SegmentAt(n, p, 2 * i)[1] = (2 * i - 1) * p + 1
         /\ SegmentAt(n, 2 * p, i)
              = <<(2 * i - 2) * p + 1, SegmentAt(n, p, 2 * i)[2]>>
         /\ SegmentAt(n, p, 2 * i)[2] \in 1 .. n
         /\ SegmentAt(n, p, 2 * i)[2] - (2 * i - 2) * p > p
         /\ SegmentAt(n, p, 2 * i)[2] - (2 * i - 2) * p <= 2 * p
<1>1. PICK a, b, c : /\ a = (2 * i - 2) * p /\ b = (2 * i - 1) * p /\ c = (2 * i) * p
                     /\ a \in Nat /\ b = a + p /\ c = b + p
  <2>1. (2 * i - 1) * p = (2 * i - 2) * p + p /\ (2 * i) * p = (2 * i - 1) * p + p
    OBVIOUS
  <2>2. 2 * i - 2 \in Nat /\ (2 * i - 2) * p \in Nat
    OBVIOUS
  <2> QED
    BY <2>1, <2>2
<1>2. b < n
  <2>1. 2 * i - 1 \in Nat /\ m - 1 \in Nat /\ 2 * i - 1 <= m - 1
    OBVIOUS
  <2>2. (2 * i - 1) * p <= (m - 1) * p
    BY <2>1, TimesGrows
  <2>3. (m - 1) * p \in Nat
    BY <2>1
  <2> QED
    BY <1>1, <2>2, <2>3
<1>3. (i - 1) * (2 * p) = a /\ i * (2 * p) = c
  BY <1>1
<1>4. 2 * i - 1 - 1 = 2 * i - 2
  OBVIOUS
<1> QED
  BY <1>1, <1>2, <1>3, <1>4 DEF SegmentAt

LEMMA RoundCovers ==
  ASSUME NEW leaves, NEW n \in Nat \ {0}, Len(leaves) = n,
         NEW p \in Nat \ {0}, p \in PowersOfTwo(n),
         NEW nodes, Covers(leaves, nodes, n, p)
  PROVE  Covers(leaves, Level(nodes), n, 2 * p)
<1>1. PICK m \in Nat \ {0} : /\ Len(nodes) = m /\ (m - 1) * p < n /\ n <= m * p
                             /\ \A i \in 1 .. m : nodes[i] = Tree(leaves)[SegmentAt(n, p, i)]
  BY DEF Covers
<1>2. PICK h : /\ h = (m + 1) \div 2 /\ h \in Nat \ {0}
               /\ 2 * h - 2 <= m - 1 /\ m <= 2 * h
  OBVIOUS
<1>3. /\ Len(Level(nodes)) = h
      /\ \A i \in 1 .. h :
           /\ 2 * i <= m => Level(nodes)[i] = Hash(<<nodes[2 * i - 1], nodes[2 * i]>>)
           /\ ~(2 * i <= m) => Level(nodes)[i] = nodes[2 * i - 1]
  BY <1>1, <1>2, LevelHalves
<1>4. (h - 1) * (2 * p) < n /\ n <= h * (2 * p)
  <2>1. (2 * h - 2) * p <= (m - 1) * p /\ m * p <= (2 * h) * p
    <3>1. 2 * h - 2 \in Nat /\ m - 1 \in Nat /\ 2 * h \in Nat
      BY <1>2
    <3> QED
      BY <1>2, <3>1, TimesGrows
  <2>2. (h - 1) * (2 * p) = (2 * h - 2) * p /\ h * (2 * p) = (2 * h) * p
    BY <1>2
  <2>3. (2 * h - 2) * p \in Nat /\ (m - 1) * p \in Nat /\ m * p \in Nat /\ (2 * h) * p \in Nat
    BY <1>2
  <2> QED
    BY <1>1, <2>1, <2>2, <2>3
<1>5. ASSUME NEW i \in 1 .. h, 2 * i <= m
      PROVE  Level(nodes)[i] = Tree(leaves)[SegmentAt(n, 2 * p, i)]
  <2>1. PICK a, b, e : /\ a = (2 * i - 2) * p /\ b = (2 * i - 1) * p
                       /\ e = SegmentAt(n, p, 2 * i)[2]
    OBVIOUS
  <2>2. a \in Nat /\ b = a + p
    <3>1. (2 * i - 1) * p = (2 * i - 2) * p + p /\ 2 * i - 2 \in Nat
      OBVIOUS
    <3> QED
      BY <2>1, <3>1
  <2>3. /\ SegmentAt(n, p, 2 * i - 1) = <<a + 1, b>>
        /\ SegmentAt(n, p, 2 * i) = <<b + 1, e>>
        /\ SegmentAt(n, 2 * p, i) = <<a + 1, e>>
        /\ e \in 1 .. n /\ e - a > p /\ e - a <= 2 * p
    <3>1. i \in Nat \ {0}
      OBVIOUS
    <3>2. SegmentAt(n, p, 2 * i) = <<SegmentAt(n, p, 2 * i)[1], SegmentAt(n, p, 2 * i)[2]>>
      BY DEF SegmentAt
    <3> QED
      <4>1. /\ SegmentAt(n, p, 2 * i - 1) = <<(2 * i - 2) * p + 1, (2 * i - 1) * p>>
            /\ SegmentAt(n, p, 2 * i)[1] = (2 * i - 1) * p + 1
            /\ SegmentAt(n, 2 * p, i) = <<(2 * i - 2) * p + 1, SegmentAt(n, p, 2 * i)[2]>>
            /\ SegmentAt(n, p, 2 * i)[2] \in 1 .. n
            /\ SegmentAt(n, p, 2 * i)[2] - (2 * i - 2) * p > p
            /\ SegmentAt(n, p, 2 * i)[2] - (2 * i - 2) * p <= 2 * p
        BY <1>1, <1>5, <3>1, SegmentsJoin
      <4> QED
        BY <2>1, <3>2, <4>1, Zenon
  <2>4. PICK w : w = e - a /\ w \in 2 .. n /\ p < w /\ w <= 2 * p
    BY <2>2, <2>3
  <2>5. LeftHalf(w, PowersOfTwo(n)) = p
    BY <2>4, LeftHalfUnique
  <2>6. PICK r : r = <<a + 1, e>>
    OBVIOUS
  <2>7. r \in Segments(n) /\ r[1] # r[2]
    BY <2>2, <2>3, <2>4, <2>6 DEF Segments
  <2>8. r[2] - r[1] + 1 = w /\ r[1] + p = b + 1 /\ b + 1 - 1 = b
    BY <2>2, <2>3, <2>4, <2>6
  <2>9. Tree(leaves)[r] = Hash(<<Tree(leaves)[<<a + 1, b>>], Tree(leaves)[<<b + 1, e>>]>>)
    <3>1. Tree(leaves)[r] = Branch(leaves, Tree(leaves), r)
      BY <2>7, TreeGrows
    <3>2. PICK k : k = r[1] + LeftHalf(r[2] - r[1] + 1, PowersOfTwo(Len(leaves)))
      OBVIOUS
    <3>3. Tree(leaves)[r] = Hash(<<Tree(leaves)[<<r[1], k - 1>>], Tree(leaves)[<<k, r[2]>>]>>)
      BY <2>7, <3>1, <3>2 DEF Branch
    <3>4. k = b + 1 /\ k - 1 = b
      <4>1. LeftHalf(r[2] - r[1] + 1, PowersOfTwo(Len(leaves))) = p
        BY <2>5, <2>8, Zenon
      <4>2. k = r[1] + p
        BY <3>2, <4>1, Zenon
      <4> QED
        <5>1. k = b + 1
          BY <2>8, <4>2
        <5> QED
          BY <2>2, <5>1
    <3>5. r[1] = a + 1 /\ r[2] = e
      BY <2>6
    <3> QED
      BY <3>3, <3>4, <3>5, Zenon
  <2>10. Level(nodes)[i] = Hash(<<nodes[2 * i - 1], nodes[2 * i]>>)
    BY <1>3, <1>5
  <2>11. /\ nodes[2 * i - 1] = Tree(leaves)[<<a + 1, b>>]
         /\ nodes[2 * i] = Tree(leaves)[<<b + 1, e>>]
    <3>1. 2 * i - 1 \in 1 .. m /\ 2 * i \in 1 .. m
      BY <1>5
    <3> QED
      BY <1>1, <2>3, <3>1
  <2> QED
    BY <2>3, <2>6, <2>9, <2>10, <2>11
<1>6. ASSUME NEW i \in 1 .. h, ~(2 * i <= m)
      PROVE  Level(nodes)[i] = Tree(leaves)[SegmentAt(n, 2 * p, i)]
  <2>1. m = 2 * i - 1
    BY <1>2, <1>6
  <2>2. Level(nodes)[i] = Tree(leaves)[SegmentAt(n, p, m)]
    <3>1. Level(nodes)[i] = nodes[2 * i - 1]
      BY <1>3, <1>6, Zenon
    <3>2. m \in 1 .. m
      OBVIOUS
    <3> QED
      BY <1>1, <2>1, <3>1, <3>2, Zenon
  <2>3. PICK a, b, c : /\ a = (m - 1) * p /\ b = m * p /\ c = (m + 1) * p
                       /\ c = b + p /\ a \in Nat /\ b \in Nat
    <3>1. (m + 1) * p = m * p + p /\ m - 1 \in Nat /\ m * p \in Nat
      OBVIOUS
    <3> QED
      BY <3>1
  <2>4. (i - 1) * (2 * p) = a /\ i * (2 * p) = c
    BY <2>1, <2>3
  <2>5. SegmentAt(n, p, m) = <<a + 1, n>> /\ SegmentAt(n, 2 * p, i) = <<a + 1, n>>
    <3>1. n <= b
      BY <1>1, <2>3, Zenon
    <3>2. (IF b <= n THEN b ELSE n) = n /\ (IF c <= n THEN c ELSE n) = n
      BY <2>3, <3>1
    <3>3. SegmentAt(n, p, m) = <<a + 1, IF b <= n THEN b ELSE n>>
      BY <2>3, Zenon DEF SegmentAt
    <3>4. SegmentAt(n, 2 * p, i) = <<a + 1, IF c <= n THEN c ELSE n>>
      BY <2>4, Zenon DEF SegmentAt
    <3> QED
      BY <3>2, <3>3, <3>4, Zenon
  <2> QED
    BY <2>2, <2>5
<1> QED
  BY <1>2, <1>3, <1>4, <1>5, <1>6 DEF Covers

(* state.go:208: hashing level by level, with the odd node carried forward,    *)
(* makes the Merkle tree of the leaves, however many there are.               *)
THEOREM RoundsMakeTree ==
  ASSUME NEW leaves, NEW n \in Nat \ {0}, Len(leaves) = n PROVE MerkleRoot(leaves) = TreeOf(leaves)
<1>1. PICK f : Doubles(n, f) /\ PowersOfTwo(n) = {f[i] : i \in 0 .. n}
  BY PowersDouble
<1>2. /\ f[0] = 1 /\ \A k \in 1 .. n : f[k] = 2 * f[k - 1]
      /\ \A k \in 0 .. n : f[k] \in Nat \ {0} /\ f[k] >= k + 1
  <2>1. \A k \in 0 .. n : f[k] \in Nat /\ f[k] >= k + 1
    BY <1>1, DoublesGrow
  <2>2. f[0] = 1 /\ \A k \in 1 .. n : f[k] = 2 * f[k - 1]
    BY <1>1, DoublesGrow
  <2> QED
    BY <2>1, <2>2
<1> DEFINE T == {k \in 0 .. n : Covers(leaves, Rounds(leaves)[k], n, f[k])}
<1>3. 0 \in T
  <2>1. Rounds(leaves)[0] = leaves
    BY RoundByRound
  <2>2. ASSUME NEW i \in 1 .. n PROVE leaves[i] = Tree(leaves)[SegmentAt(n, 1, i)]
    <3>1. (i - 1) * 1 + 1 = i /\ i * 1 = i /\ i <= n
      OBVIOUS
    <3>2. SegmentAt(n, 1, i) = <<i, i>>
      BY <3>1 DEF SegmentAt
    <3>3. <<i, i>> \in Segments(n)
      BY DEF Segments
    <3>4. Tree(leaves)[<<i, i>>] = Branch(leaves, Tree(leaves), <<i, i>>)
      BY <3>3, TreeGrows
    <3> QED
      BY <3>2, <3>4 DEF Branch
  <2>3. (n - 1) * 1 < n /\ n <= n * 1
    OBVIOUS
  <2>4. Covers(leaves, leaves, n, 1)
    BY <2>2, <2>3 DEF Covers
  <2>5. Covers(leaves, Rounds(leaves)[0], n, f[0])
    BY <1>2, <2>1, <2>4, Zenon
  <2> QED
    BY <2>5
<1>4. ASSUME NEW k \in 0 .. n - 1, k \in T PROVE k + 1 \in T
  <2>1. Rounds(leaves)[k + 1] = Level(Rounds(leaves)[k]) /\ f[k + 1] = 2 * f[k]
    <3>1. k + 1 \in 1 .. n /\ k + 1 - 1 = k
      OBVIOUS
    <3> QED
      BY <1>2, <3>1, RoundByRound
  <2>2. f[k] \in PowersOfTwo(n) /\ f[k] \in Nat \ {0}
    BY <1>1, <1>2
  <2>3. Covers(leaves, Rounds(leaves)[k], n, f[k])
    BY <1>4
  <2>4. Covers(leaves, Level(Rounds(leaves)[k]), n, 2 * f[k])
    BY <2>2, <2>3, RoundCovers
  <2> QED
    BY <2>1, <2>4
<1>5. Covers(leaves, Rounds(leaves)[n], n, f[n])
  <2>1. \A k \in 0 .. n : k \in T
    <3> HIDE DEF T
    <3> QED
      BY <1>3, <1>4, UpTo
  <2> QED
    BY <2>1
<1>6. PICK m \in Nat \ {0} :
        /\ Len(Rounds(leaves)[n]) = m /\ (m - 1) * f[n] < n /\ n <= m * f[n]
        /\ \A i \in 1 .. m : Rounds(leaves)[n][i] = Tree(leaves)[SegmentAt(n, f[n], i)]
  BY <1>5 DEF Covers
<1>7. PICK p : p = f[n] /\ p \in Nat /\ p > n
  BY <1>2
<1>8. SegmentAt(n, p, 1) = <<1, n>>
  <2>1. (1 - 1) * p + 1 = 1 /\ 1 * p = p
    BY <1>7
  <2> QED
    BY <1>7, <2>1 DEF SegmentAt
<1>9. Rounds(leaves)[n][1] = Tree(leaves)[<<1, n>>]
  BY <1>6, <1>7, <1>8
<1> QED
  BY <1>9 DEF MerkleRoot, TreeOf

-----------------------------------------------------------------------------
(* A leaf is a hash, and not one of two hashes. *)
LeafHash(x) ==
  /\ \E run : x = Hash(run)
  /\ \A u, v : x # Hash(<<Hash(u), Hash(v)>>)

LEMMA HashInjective == ASSUME NEW u, NEW v, Hash(u) = Hash(v) PROVE u = v
BY DEF Hash

(* The node above two segments that meet at k. *)
Joins(leaves, a, k, b) ==
  /\ k \in a + 1 .. b
  /\ Tree(leaves)[<<a, b>>] = Hash(<<Tree(leaves)[<<a, k - 1>>], Tree(leaves)[<<k, b>>]>>)

LEMMA NodeJoins ==
  ASSUME NEW leaves, NEW n \in Nat \ {0}, Len(leaves) = n,
         NEW a \in Nat, NEW b \in Nat, <<a, b>> \in Segments(n), a # b
  PROVE  \E k : Joins(leaves, a, k, b)
<1>1. PICK r : r = <<a, b>> /\ r \in Segments(n) /\ r[1] = a /\ r[2] = b
  OBVIOUS
<1>2. PICK k : /\ k = r[1] + LeftHalf(r[2] - r[1] + 1, PowersOfTwo(n))
               /\ k \in 1 .. n /\ r[1] <= k - 1 /\ k <= r[2]
               /\ <<r[1], k - 1>> \in Segments(n) /\ <<k, r[2]>> \in Segments(n)
               /\ k - 1 - r[1] < r[2] - r[1] /\ r[2] - k < r[2] - r[1]
  BY <1>1, Splits
<1>3. Tree(leaves)[r] = Branch(leaves, Tree(leaves), r)
  BY <1>1, TreeGrows
<1>4. Tree(leaves)[r] = Hash(<<Tree(leaves)[<<r[1], k - 1>>], Tree(leaves)[<<k, r[2]>>]>>)
  BY <1>1, <1>2, <1>3 DEF Branch
<1>5. k \in a + 1 .. b
  BY <1>1, <1>2
<1> QED
  BY <1>1, <1>4, <1>5 DEF Joins

LEMMA PartsOfSegment ==
  ASSUME NEW n \in Nat, NEW a \in Nat, NEW b \in Nat, <<a, b>> \in Segments(n),
         NEW k \in a + 1 .. b
  PROVE  <<a, k - 1>> \in Segments(n) /\ <<k, b>> \in Segments(n)
<1>1. a \in 1 .. n /\ b \in 1 .. n
  BY DEF Segments
<1>2. k - 1 \in 1 .. n /\ k \in 1 .. n /\ a <= k - 1 /\ k <= b
  BY <1>1
<1> QED
  BY <1>1, <1>2 DEF Segments

(* A tree is a leaf, or the hash of two trees, and so a hash. *)
LEMMA TreeCases ==
  ASSUME NEW leaves, NEW n \in Nat \ {0}, Len(leaves) = n,
         \A i \in 1 .. n : LeafHash(leaves[i]), NEW r \in Segments(n)
  PROVE  /\ \E run : Tree(leaves)[r] = Hash(run)
         /\ r[1] = r[2] => Tree(leaves)[r] = leaves[r[1]] /\ LeafHash(Tree(leaves)[r])
<1>1. Tree(leaves)[r] = Branch(leaves, Tree(leaves), r)
  BY TreeGrows
<1>2. r[1] \in 1 .. n /\ r[2] \in 1 .. n
  BY DEF Segments
<1>3. CASE r[1] = r[2]
  BY <1>1, <1>2, <1>3 DEF Branch, LeafHash
<1>4. CASE r[1] # r[2]
  <2>1. PICK a \in Nat, b \in Nat : r = <<a, b>> /\ <<a, b>> \in Segments(n) /\ a # b
    BY <1>4 DEF Segments
  <2>2. PICK k : Joins(leaves, a, k, b)
    BY <2>1, NodeJoins
  <2> QED
    BY <1>4, <2>1, <2>2 DEF Joins
<1> QED
  BY <1>3, <1>4

(* A leaf is no hash of two trees. *)
LEMMA LeafIsNoNode ==
  ASSUME NEW l, NEW n \in Nat \ {0}, Len(l) = n, \A i \in 1 .. n : LeafHash(l[i]),
         NEW p, NEW m \in Nat \ {0}, Len(p) = m, \A i \in 1 .. m : LeafHash(p[i]),
         NEW r \in Segments(n), NEW q \in Segments(m), Tree(l)[r] = Tree(p)[q], r[1] = r[2]
  PROVE  q[1] = q[2]
<1> SUFFICES ASSUME q[1] # q[2] PROVE FALSE
  OBVIOUS
<1>1. LeafHash(Tree(l)[r])
  BY TreeCases
<1>2. PICK a \in Nat, b \in Nat : q = <<a, b>> /\ <<a, b>> \in Segments(m) /\ a # b
  BY DEF Segments
<1>3. PICK k : Joins(p, a, k, b)
  BY <1>2, NodeJoins
<1>4. <<a, k - 1>> \in Segments(m) /\ <<k, b>> \in Segments(m)
  BY <1>2, <1>3, PartsOfSegment DEF Joins
<1>5. PICK u : Tree(p)[<<a, k - 1>>] = Hash(u)
  BY <1>4, TreeCases
<1>6. PICK v : Tree(p)[<<k, b>>] = Hash(v)
  BY <1>4, TreeCases
<1>7. Tree(l)[r] = Hash(<<Hash(u), Hash(v)>>)
  BY <1>2, <1>3, <1>5, <1>6 DEF Joins
<1> QED
  BY <1>1, <1>7, Zenon DEF LeafHash

(* Two segments whose halves have the same trees. *)
SplitAlike(l, a, k, b, p, c, h, d) ==
  /\ k \in a + 1 .. b /\ h \in c + 1 .. d
  /\ Tree(l)[<<a, k - 1>>] = Tree(p)[<<c, h - 1>>]
  /\ Tree(l)[<<k, b>>] = Tree(p)[<<h, d>>]

LEMMA NodesSplit ==
  ASSUME NEW l, NEW n \in Nat \ {0}, Len(l) = n, \A i \in 1 .. n : LeafHash(l[i]),
         NEW p, NEW m \in Nat \ {0}, Len(p) = m, \A i \in 1 .. m : LeafHash(p[i]),
         NEW a \in Nat, NEW b \in Nat, <<a, b>> \in Segments(n), a # b,
         NEW c \in Nat, NEW d \in Nat, <<c, d>> \in Segments(m),
         Tree(l)[<<a, b>>] = Tree(p)[<<c, d>>]
  PROVE  \E k, h : SplitAlike(l, a, k, b, p, c, h, d)
<1>1. c # d
  <2>1. PICK q : q = <<c, d>> /\ q \in Segments(m) /\ q[1] = c /\ q[2] = d
    OBVIOUS
  <2>2. PICK r : r = <<a, b>> /\ r \in Segments(n) /\ r[1] = a /\ r[2] = b
    OBVIOUS
  <2>3. q[1] = q[2] => r[1] = r[2]
    BY <2>1, <2>2, LeafIsNoNode
  <2> QED
    BY <2>1, <2>2, <2>3
<1>2. PICK k : Joins(l, a, k, b)
  BY NodeJoins
<1>3. PICK h : Joins(p, c, h, d)
  BY <1>1, NodeJoins
<1>4. <<Tree(l)[<<a, k - 1>>], Tree(l)[<<k, b>>]>> = <<Tree(p)[<<c, h - 1>>], Tree(p)[<<h, d>>]>>
  BY <1>2, <1>3, HashInjective DEF Joins
<1>5. Tree(l)[<<a, k - 1>>] = Tree(p)[<<c, h - 1>>] /\ Tree(l)[<<k, b>>] = Tree(p)[<<h, d>>]
  BY <1>4
<1> QED
  BY <1>2, <1>3, <1>5 DEF Joins, SplitAlike

(* Segments of two lists hold the same leaves. *)
SameLeaves(l, r, p, q) ==
  /\ r[2] - r[1] = q[2] - q[1]
  /\ \A i \in 0 .. r[2] - r[1] : l[r[1] + i] = p[q[1] + i]

(* Two segments after two others. *)
LEMMA LeavesJoin ==
  ASSUME NEW l, NEW p, NEW r1 \in Nat, NEW r2 \in Nat, NEW q1 \in Nat, NEW q2 \in Nat,
         NEW k \in r1 + 1 .. r2, NEW m \in q1 + 1 .. q2,
         SameLeaves(l, <<r1, k - 1>>, p, <<q1, m - 1>>),
         SameLeaves(l, <<k, r2>>, p, <<m, q2>>)
  PROVE  SameLeaves(l, <<r1, r2>>, p, <<q1, q2>>)
<1>1. k - 1 - r1 = m - 1 - q1 /\ r2 - k = q2 - m
  BY DEF SameLeaves
<1>2. /\ \A i \in 0 .. k - 1 - r1 : l[r1 + i] = p[q1 + i]
      /\ \A i \in 0 .. r2 - k : l[k + i] = p[m + i]
  BY DEF SameLeaves
<1>3. r2 - r1 = q2 - q1
  BY <1>1
<1>4. ASSUME NEW i \in 0 .. r2 - r1 PROVE l[r1 + i] = p[q1 + i]
  <2>1. CASE i <= k - 1 - r1
    BY <1>2, <2>1
  <2>2. CASE i > k - 1 - r1
    <3>1. PICK j : j = i - (k - r1) /\ j \in 0 .. r2 - k
      BY <2>2
    <3>2. k + j = r1 + i /\ m + j = q1 + i
      BY <1>1, <3>1
    <3> QED
      BY <1>2, <3>1, <3>2
  <2> QED
    BY <2>1, <2>2
<1> QED
  BY <1>3, <1>4 DEF SameLeaves

LEMMA PartsShorter ==
  ASSUME NEW a \in Nat, NEW b \in Nat, NEW w \in Nat, b - a <= w + 1, NEW k \in a + 1 .. b
  PROVE  k - 1 - a <= w /\ b - k <= w
OBVIOUS

LEMMA NodesTellApart ==
  ASSUME NEW l, NEW n \in Nat \ {0}, Len(l) = n, \A i \in 1 .. n : LeafHash(l[i]),
         NEW p, NEW m \in Nat \ {0}, Len(p) = m, \A i \in 1 .. m : LeafHash(p[i]),
         NEW w \in Nat,
         \A r \in Shorter(n, w), q \in Segments(m) :
           Tree(l)[r] = Tree(p)[q] => SameLeaves(l, r, p, q),
         NEW s \in Shorter(n, w + 1), NEW t \in Segments(m), Tree(l)[s] = Tree(p)[t],
         s[1] # s[2]
  PROVE  SameLeaves(l, s, p, t)
<1>1. PICK a \in Nat, b \in Nat : s = <<a, b>> /\ <<a, b>> \in Segments(n) /\ a # b /\ b - a <= w + 1
  BY DEF Shorter, Segments
<1>2. PICK c \in Nat, d \in Nat : t = <<c, d>> /\ <<c, d>> \in Segments(m)
  BY DEF Segments
<1>3. PICK k, h : SplitAlike(l, a, k, b, p, c, h, d)
  <2>1. Tree(l)[<<a, b>>] = Tree(p)[<<c, d>>]
    BY <1>1, <1>2
  <2>2. <<a, b>> \in Segments(n) /\ <<c, d>> \in Segments(m) /\ a # b
    BY <1>1, <1>2
  <2> QED
    BY <2>1, <2>2, NodesSplit
<1>4. <<a, k - 1>> \in Segments(n) /\ <<k, b>> \in Segments(n)
  BY <1>1, <1>3, PartsOfSegment DEF SplitAlike
<1>5. <<c, h - 1>> \in Segments(m) /\ <<h, d>> \in Segments(m)
  BY <1>2, <1>3, PartsOfSegment DEF SplitAlike
<1>6. <<a, k - 1>> \in Shorter(n, w) /\ <<k, b>> \in Shorter(n, w)
  <2>1. k - 1 - a <= w /\ b - k <= w
    <3>1. k \in a + 1 .. b /\ b - a <= w + 1
      BY <1>1, <1>3, Zenon DEF SplitAlike
    <3> QED
      BY <3>1, PartsShorter
  <2> QED
    BY <1>4, <2>1 DEF Shorter
<1>7. /\ SameLeaves(l, <<a, k - 1>>, p, <<c, h - 1>>)
      /\ SameLeaves(l, <<k, b>>, p, <<h, d>>)
  BY <1>3, <1>5, <1>6 DEF SplitAlike
<1>8. SameLeaves(l, <<a, b>>, p, <<c, d>>)
  BY <1>3, <1>7, LeavesJoin DEF SplitAlike
<1> QED
  BY <1>1, <1>2, <1>8

LEMMA TreesTellApart ==
  ASSUME NEW l, NEW n \in Nat \ {0}, Len(l) = n, \A i \in 1 .. n : LeafHash(l[i]),
         NEW p, NEW m \in Nat \ {0}, Len(p) = m, \A i \in 1 .. m : LeafHash(p[i])
  PROVE  \A d \in 0 .. n : \A r \in Shorter(n, d), q \in Segments(m) :
           Tree(l)[r] = Tree(p)[q] => SameLeaves(l, r, p, q)
<1> DEFINE Apart(d) == \A r \in Shorter(n, d), q \in Segments(m) :
                         Tree(l)[r] = Tree(p)[q] => SameLeaves(l, r, p, q)
           T == {d \in 0 .. n : Apart(d)}
<1>1. ASSUME NEW r \in Segments(n), NEW q \in Segments(m), Tree(l)[r] = Tree(p)[q], r[1] = r[2]
      PROVE  SameLeaves(l, r, p, q)
  <2>1. q[1] = q[2]
    BY <1>1, LeafIsNoNode
  <2>2. l[r[1]] = p[q[1]]
    BY <1>1, <2>1, TreeCases
  <2>3. r[1] \in Nat /\ r[2] \in Nat /\ q[1] \in Nat /\ q[2] \in Nat
    BY DEF Segments
  <2> QED
    BY <1>1, <2>1, <2>2, <2>3 DEF SameLeaves
<1>2. 0 \in T
  <2>1. \A r \in Shorter(n, 0) : r \in Segments(n) /\ r[1] = r[2]
    BY DEF Shorter, Segments
  <2> QED
    BY <1>1, <2>1
<1>3. ASSUME NEW d \in 0 .. n - 1, d \in T PROVE d + 1 \in T
  <2>1. ASSUME NEW r \in Shorter(n, d + 1), NEW q \in Segments(m), Tree(l)[r] = Tree(p)[q],
               r[1] # r[2]
        PROVE  SameLeaves(l, r, p, q)
    <3>1. Apart(d) /\ d \in Nat
      BY <1>3
    <3> HIDE DEF Apart
    <3> QED
      BY <2>1, <3>1, NodesTellApart DEF Apart
  <2>2. \A r \in Shorter(n, d + 1) : r \in Segments(n)
    BY DEF Shorter
  <2> QED
    BY <1>1, <2>1, <2>2
<1>4. \A d \in 0 .. n : d \in T
  <2> HIDE DEF T
  <2> QED
    BY <1>2, <1>3, UpTo
<1> QED
  BY <1>4

(* state.go:155-186: a Merkle root tells the lists of leaves apart, also those *)
(* of different lengths: the odd node that is carried forward is in it too.    *)
THEOREM TreeNamesLeaves ==
  ASSUME NEW l, NEW n \in Nat \ {0}, Len(l) = n, \A i \in 1 .. n : LeafHash(l[i]),
         NEW p, NEW m \in Nat \ {0}, Len(p) = m, \A i \in 1 .. m : LeafHash(p[i]),
         TreeOf(l) = TreeOf(p)
  PROVE  n = m /\ \A i \in 1 .. n : l[i] = p[i]
<1>1. <<1, n>> \in Shorter(n, n) /\ <<1, m>> \in Segments(m)
  BY DEF Shorter, Segments
<1>2. SameLeaves(l, <<1, n>>, p, <<1, m>>)
  BY <1>1, TreesTellApart DEF TreeOf
<1>3. n - 1 = m - 1 /\ \A i \in 0 .. n - 1 : l[1 + i] = p[1 + i]
  BY <1>2 DEF SameLeaves
<1>4. ASSUME NEW i \in 1 .. n PROVE l[i] = p[i]
  <2>1. i - 1 \in 0 .. n - 1 /\ 1 + (i - 1) = i
    OBVIOUS
  <2> QED
    BY <1>3, <2>1
<1> QED
  BY <1>3, <1>4

-----------------------------------------------------------------------------
(* The orders a range over a map takes. *)
LEMMA SetsHaveOrders ==
  ASSUME NEW S, IsFiniteSet(S) PROVE SetToSeq(S) \in SetToSeqs(S)
<1>1. ExistsBijection(1 .. Cardinality(S), S)
  BY FS_NatBijection, FS_CardinalityType
<1>2. PICK f : f \in [1 .. Cardinality(S) -> S] /\ IsInjective(f)
  BY <1>1 DEF ExistsBijection, Bijection, Injection
<1>3. SetToSeq(S) \in [1 .. Cardinality(S) -> S] /\ IsInjective(SetToSeq(S))
  BY <1>2, Zenon DEF SetToSeq
<1> QED
  BY <1>3 DEF SetToSeqs, IsInjective

LEMMA OrdersHoldAll ==
  ASSUME NEW S, IsFiniteSet(S), NEW order \in SetToSeqs(S)
  PROVE  /\ order \in Seq(S) /\ Len(order) = Cardinality(S) /\ Cardinality(S) \in Nat
         /\ \A a \in S : Cardinality(Places(order, a)) = 1
<1>1. PICK n \in Nat : n = Cardinality(S)
  BY FS_CardinalityType
<1>2. order \in [1 .. n -> S] /\ \A i, j \in 1 .. n : i # j => order[i] # order[j]
  BY <1>1 DEF SetToSeqs
<1>3. order \in Seq(S) /\ Len(order) = n
  BY <1>2
<1>4. \A a \in S : \E i \in 1 .. n : order[i] = a
  <2>1. order \in Injection(1 .. n, S)
    BY <1>2 DEF Injection, IsInjective
  <2>2. Cardinality(1 .. n) = Cardinality(S)
    BY <1>1, FS_Interval
  <2>3. order \in Surjection(1 .. n, S)
    BY <2>1, <2>2, FS_Injection
  <2> QED
    BY <2>3 DEF Surjection
<1>5. ASSUME NEW a \in S PROVE Cardinality(Places(order, a)) = 1
  <2>1. PICK i \in 1 .. n : order[i] = a
    BY <1>4
  <2>2. Places(order, a) = {i}
    BY <1>2, <2>1 DEF Places
  <2> QED
    BY <2>2, FS_Singleton
<1> QED
  BY <1>1, <1>3, <1>5

LEMMA OrdersAlike ==
  ASSUME NEW S, IsFiniteSet(S), NEW o \in SetToSeqs(S), NEW p \in SetToSeqs(S)
  PROVE  SameUpToOrder(S, o, p)
BY OrdersHoldAll DEF SameUpToOrder

LEMMA SortedHoldsAll ==
  ASSUME NEW S, IsFiniteSet(S), Named(S), NEW order \in SetToSeqs(S)
  PROVE  /\ Sorted(order) \in Seq(S) /\ Len(Sorted(order)) = Cardinality(S)
         /\ \A a \in S : \E i \in 1 .. Cardinality(S) : Sorted(order)[i] = a
<1>1. PICK ids : ids = Sorted(order)
  OBVIOUS
<1>2. order \in Seq(S) /\ Len(order) = Cardinality(S) /\ Cardinality(S) \in Nat
  BY OrdersHoldAll
<1>3. ids \in Seq(S) /\ SameUpToOrder(S, ids, order)
  BY <1>1, <1>2, SortedIsThere, ArrangementKeepsCounts
<1>4. Len(ids) = Cardinality(S)
  BY <1>2, <1>3 DEF SameUpToOrder
<1>5. ASSUME NEW a \in S PROVE \E i \in 1 .. Cardinality(S) : ids[i] = a
  <2>1. Cardinality(Places(ids, a)) = 1
    BY <1>3, OrdersHoldAll DEF SameUpToOrder
  <2>2. Places(ids, a) # {}
    BY <2>1, FS_EmptySet
  <2> QED
    BY <1>3, <1>4, <2>2 DEF Places
<1> QED
  BY <1>1, <1>3, <1>4, <1>5

-----------------------------------------------------------------------------
(* The leaves of a policy: the configuration, then a leaf for every signer. *)
SignerLeaves(policy, ids) == [i \in DOMAIN ids |-> SignerLeaf(ids[i], policy[ids[i]])]

HoldsLeaves(leaves, policy, ids, n) ==
  /\ n \in Nat /\ Len(leaves) = n + 1 /\ leaves[1] = ConfigLeaf
  /\ \A i \in 1 .. n : leaves[i + 1] = SignerLeaf(ids[i], policy[ids[i]])

LEMMA LeavesAre ==
  ASSUME NEW policy, NEW S, IsFiniteSet(S), Named(S), NEW order \in SetToSeqs(S)
  PROVE  HoldsLeaves(Leaves(policy, order), policy, Sorted(order), Cardinality(S))
<1>1. PICK ids, n : ids = Sorted(order) /\ n = Cardinality(S)
  OBVIOUS
<1>2. n \in Nat /\ ids \in Seq(S) /\ Len(ids) = n
  BY <1>1, FS_CardinalityType, SortedHoldsAll
<1>3. PICK s : s = SignerLeaves(policy, ids)
  OBVIOUS
<1>4. DOMAIN s = 1 .. n /\ \A i \in 1 .. n : s[i] = SignerLeaf(ids[i], policy[ids[i]])
  BY <1>2, <1>3 DEF SignerLeaves
<1>5. s \in Seq({s[i] : i \in 1 .. n}) /\ Len(s) = n
  <2>1. s = [i \in 1 .. n |-> s[i]]
    BY <1>3, <1>4, Zenon DEF SignerLeaves
  <2> QED
    BY <1>2, <1>4, <2>1
<1>6. Leaves(policy, order) = <<ConfigLeaf>> \o s
  BY <1>1, <1>3, Zenon DEF Leaves, SignerLeaves
<1>7. Len(<<ConfigLeaf>> \o s) = n + 1 /\ (<<ConfigLeaf>> \o s)[1] = ConfigLeaf
  <2>1. <<ConfigLeaf>> \in Seq({ConfigLeaf})
    OBVIOUS
  <2> QED
    BY <1>2, <1>5, <2>1
<1>8. \A i \in 1 .. n : (<<ConfigLeaf>> \o s)[i + 1] = s[i]
  BY <1>2, <1>5
<1>9. HoldsLeaves(<<ConfigLeaf>> \o s, policy, ids, n)
  BY <1>2, <1>4, <1>7, <1>8 DEF HoldsLeaves
<1> QED
  BY <1>1, <1>6, <1>9, Zenon

(* What a signer's leaf is the hash of. *)
Enrollment(bytes, status) == Symbols(bytes) \o <<Symbol(status)>>

Symbolic(S) == \A a \in S : Name(a) \in Seq(Nat) /\ Key(a) \in Seq(Nat)

Bytes == {Symbol(i) : i \in Nat}

LEMMA SymbolsAre ==
  ASSUME NEW x \in Seq(Nat)
  PROVE  /\ Symbols(x) \in Seq(Bytes) /\ Len(Symbols(x)) = Len(x)
         /\ \A i \in 1 .. Len(x) : Symbols(x)[i] = Symbol(x[i])
<1>1. PICK n \in Nat : n = Len(x) /\ DOMAIN x = 1 .. n
  OBVIOUS
<1>2. Symbols(x) = [i \in 1 .. n |-> Symbol(x[i])]
  BY <1>1 DEF Symbols
<1>3. \A i \in 1 .. n : Symbol(x[i]) \in Bytes
  BY <1>1 DEF Bytes
<1> QED
  BY <1>1, <1>2, <1>3

LEMMA SymbolsJoin ==
  ASSUME NEW x \in Seq(Nat), NEW y \in Seq(Nat)
  PROVE  Symbols(x \o y) = Symbols(x) \o Symbols(y)
<1>1. /\ x \o y \in Seq(Nat) /\ Len(x \o y) = Len(x) + Len(y)
      /\ \A i \in 1 .. Len(x) + Len(y) :
           (x \o y)[i] = IF i <= Len(x) THEN x[i] ELSE y[i - Len(x)]
  BY ConcatProperties
<1>2. PICK u, v : u = Symbols(x) /\ v = Symbols(y)
  OBVIOUS
<1>3. /\ u \in Seq(Bytes) /\ Len(u) = Len(x) /\ \A i \in 1 .. Len(x) : u[i] = Symbol(x[i])
      /\ v \in Seq(Bytes) /\ Len(v) = Len(y) /\ \A i \in 1 .. Len(y) : v[i] = Symbol(y[i])
  BY <1>2, SymbolsAre
<1>4. PICK w : w = u \o v
  OBVIOUS
<1>5. PICK z : z = Symbols(x \o y)
  OBVIOUS
<1>6. PICK n \in Nat, m \in Nat : n = Len(x) /\ m = Len(y)
  OBVIOUS
<1>7. /\ w \in Seq(Bytes) /\ Len(w) = n + m
      /\ \A i \in 1 .. n + m : w[i] = IF i <= n THEN u[i] ELSE v[i - n]
  <2>1. u \in Seq(Bytes) /\ v \in Seq(Bytes) /\ Len(u) = n /\ Len(v) = m
    BY <1>3, <1>6
  <2>2. /\ u \o v \in Seq(Bytes) /\ Len(u \o v) = Len(u) + Len(v)
        /\ \A i \in 1 .. Len(u) + Len(v) :
             (u \o v)[i] = IF i <= Len(u) THEN u[i] ELSE v[i - Len(u)]
    BY <2>1, ConcatProperties
  <2> QED
    BY <1>4, <2>1, <2>2
<1>8. z \in Seq(Bytes) /\ Len(z) = n + m
  BY <1>1, <1>5, <1>6, SymbolsAre
<1>9. \A i \in 1 .. n + m : z[i] = Symbol(IF i <= n THEN x[i] ELSE y[i - n])
  <2>1. PICK xy : xy = x \o y /\ xy \in Seq(Nat) /\ Len(xy) = n + m
    BY <1>1, <1>6
  <2>2. \A i \in 1 .. n + m : z[i] = Symbol(xy[i])
    BY <1>5, <2>1, SymbolsAre
  <2>3. \A i \in 1 .. n + m : xy[i] = IF i <= n THEN x[i] ELSE y[i - n]
    BY <1>1, <1>6, <2>1
  <2> QED
    BY <2>2, <2>3
<1>10. ASSUME NEW i \in 1 .. n + m PROVE z[i] = w[i]
  <2>1. ASSUME i <= n PROVE z[i] = w[i]
    <3>1. i \in 1 .. n
      BY <2>1
    <3>2. z[i] = Symbol(x[i]) /\ w[i] = u[i] /\ u[i] = Symbol(x[i])
      BY <1>3, <1>6, <1>7, <1>9, <2>1, <3>1
    <3> QED
      BY <3>2
  <2>2. ASSUME ~(i <= n) PROVE z[i] = w[i]
    <3>1. i - n \in 1 .. m
      BY <2>2
    <3>2. z[i] = Symbol(y[i - n]) /\ w[i] = v[i - n] /\ v[i - n] = Symbol(y[i - n])
      BY <1>3, <1>6, <1>7, <1>9, <2>2, <3>1
    <3> QED
      BY <3>2
  <2> QED
    BY <2>1, <2>2, Zenon
<1>11. z = w
  BY <1>7, <1>8, <1>10, SeqEqual
<1> QED
  BY <1>2, <1>4, <1>5, <1>11

LEMMA SignerLeafIs ==
  ASSUME NEW S, Symbolic(S), NEW a \in S, NEW status
  PROVE  SignerLeaf(a, status) = Hash(Enrollment(Name(a) \o Key(a), status))
<1>1. Symbols(Name(a) \o Key(a)) = Symbols(Name(a)) \o Symbols(Key(a))
  BY SymbolsJoin DEF Symbolic
<1> QED
  BY <1>1, Zenon DEF SignerLeaf, Enrollment

(* The last symbol is the status, the others are the bytes before it. *)
LEMMA EnrollmentIs ==
  ASSUME NEW x \in Seq(Nat), NEW status
  PROVE  /\ Len(Enrollment(x, status)) = Len(x) + 1
         /\ \A i \in 1 .. Len(x) : Enrollment(x, status)[i] = Symbol(x[i])
         /\ Enrollment(x, status)[Len(x) + 1] = Symbol(status)
<1>1. PICK u : u = Symbols(x) /\ Len(u) = Len(x) /\ \A i \in 1 .. Len(x) : u[i] = Symbol(x[i])
  BY SymbolsAre
<1>2. u \in Seq(Bytes \cup {Symbol(status)}) /\ <<Symbol(status)>> \in Seq(Bytes \cup {Symbol(status)})
  BY <1>1, SymbolsAre
<1>3. PICK n \in Nat : n = Len(x)
  OBVIOUS
<1>4. PICK v : v = <<Symbol(status)>>
  OBVIOUS
<1>5. PICK z : z = u \o v /\ Len(z) = n + 1
               /\ \A i \in 1 .. n + 1 : z[i] = IF i <= n THEN u[i] ELSE v[i - n]
  <2>1. PICK S : u \in Seq(S) /\ v \in Seq(S)
    BY <1>2, <1>4
  <2>2. Len(u) = n /\ Len(v) = 1
    BY <1>1, <1>3, <1>4
  <2>3. /\ Len(u \o v) = Len(u) + Len(v)
        /\ \A i \in 1 .. Len(u) + Len(v) :
             (u \o v)[i] = IF i <= Len(u) THEN u[i] ELSE v[i - Len(u)]
    BY <2>1, ConcatProperties
  <2> QED
    BY <2>2, <2>3
<1>6. \A i \in 1 .. n : z[i] = Symbol(x[i])
  BY <1>1, <1>3, <1>5
<1>7. z[n + 1] = Symbol(status)
  <2>1. n + 1 \in 1 .. n + 1 /\ ~(n + 1 <= n) /\ n + 1 - n = 1
    OBVIOUS
  <2>2. v[1] = Symbol(status)
    BY <1>4
  <2> QED
    BY <1>5, <2>1, <2>2
<1>8. z = Enrollment(x, status)
  BY <1>1, <1>4, <1>5 DEF Enrollment
<1> QED
  BY <1>3, <1>5, <1>6, <1>7, <1>8

LEMMA EnrollmentNames ==
  ASSUME NEW x \in Seq(Nat), NEW y \in Seq(Nat), NEW status, NEW other,
         Enrollment(x, status) = Enrollment(y, other)
  PROVE  x = y /\ status = other
<1>1. PICK n \in Nat : n = Len(x) /\ Len(Enrollment(x, status)) = n + 1
  BY EnrollmentIs
<1>2. Len(y) = n
  <2>1. Len(y) \in Nat /\ Len(Enrollment(y, other)) = Len(y) + 1
    BY EnrollmentIs
  <2> QED
    BY <1>1, <2>1
<1>3. PICK run : run = Enrollment(x, status)
  OBVIOUS
<1>4. /\ \A i \in 1 .. n : run[i] = Symbol(x[i])
      /\ run[n + 1] = Symbol(status)
  BY <1>1, <1>3, EnrollmentIs
<1>5. /\ \A i \in 1 .. n : run[i] = Symbol(y[i])
      /\ run[n + 1] = Symbol(other)
  <2>1. run = Enrollment(y, other)
    BY <1>3
  <2> QED
    <3>1. /\ \A i \in 1 .. Len(y) : Enrollment(y, other)[i] = Symbol(y[i])
          /\ Enrollment(y, other)[Len(y) + 1] = Symbol(other)
      BY EnrollmentIs
    <3> QED
      BY <1>2, <2>1, <3>1, Zenon
<1>6. Symbol(status) = Symbol(other) /\ \A i \in 1 .. n : Symbol(x[i]) = Symbol(y[i])
  BY <1>4, <1>5
<1>7. \A i \in 1 .. n : x[i] = y[i]
  BY <1>6 DEF Symbol
<1>8. x = y
  BY <1>1, <1>2, <1>7, SeqEqual
<1> QED
  BY <1>6, <1>8 DEF Symbol

-----------------------------------------------------------------------------
(* ID and key, written one after the other, name the signer. *)
IDsAndKeysApart(S) ==
  \A a, b \in S : Name(a) \o Key(a) = Name(b) \o Key(b) => a = b

(* They do when no ID is used twice and all keys have one length, like the     *)
(* keys of one signature scheme.                                               *)
LEMMA KeysOfOneLength ==
  ASSUME NEW S, Symbolic(S), NamesApart(S), \A a, b \in S : Len(Key(a)) = Len(Key(b))
  PROVE  IDsAndKeysApart(S)
<1> SUFFICES ASSUME NEW a \in S, NEW b \in S, Name(a) \o Key(a) = Name(b) \o Key(b)
             PROVE  Name(a) = Name(b)
  BY DEF IDsAndKeysApart, NamesApart
<1>1. PICK x, u : x = Name(a) /\ u = Key(a) /\ x \in Seq(Nat) /\ u \in Seq(Nat)
  BY DEF Symbolic
<1>2. PICK y, v : y = Name(b) /\ v = Key(b) /\ y \in Seq(Nat) /\ v \in Seq(Nat)
  BY DEF Symbolic
<1>3. RunsAlike(x, u, y, v)
  BY <1>1, <1>2 DEF RunsAlike
<1>4. x = y
  BY <1>1, <1>2, <1>3, EndsCut
<1> QED
  BY <1>1, <1>2, <1>4

LEMMA SignerLeafNames ==
  ASSUME NEW S, Symbolic(S), IDsAndKeysApart(S), NEW a \in S, NEW b \in S, NEW status, NEW other,
         SignerLeaf(a, status) = SignerLeaf(b, other)
  PROVE  a = b /\ status = other
<1>1. PICK x, y : x = Name(a) \o Key(a) /\ y = Name(b) \o Key(b) /\ x \in Seq(Nat) /\ y \in Seq(Nat)
  BY ConcatProperties DEF Symbolic
<1>2. Enrollment(x, status) = Enrollment(y, other)
  BY <1>1, SignerLeafIs, HashInjective
<1>3. x = y /\ status = other
  <2>1. x \in Seq(Nat) /\ y \in Seq(Nat)
    BY <1>1
  <2> QED
    BY <1>2, <2>1, EnrollmentNames
<1> QED
  BY <1>1, <1>3 DEF IDsAndKeysApart

(* A leaf is a hash of symbols, and a symbol is no hash. *)
LEMMA SymbolIsNoHash == ASSUME NEW x, NEW u PROVE Symbol(x) # Hash(u)
<1>1. Len(<<x>>) = 1 /\ Len(<<"sha256", u>>) = 2
  OBVIOUS
<1> QED
  BY <1>1 DEF Symbol, Hash

LEMMA EndIsNoNode ==
  ASSUME NEW run, NEW n \in Nat, Len(run) = n + 1, NEW x, run[n + 1] = Symbol(x)
  PROVE  LeafHash(Hash(run))
<1>1. ASSUME NEW u, NEW v, Hash(run) = Hash(<<Hash(u), Hash(v)>>) PROVE FALSE
  <2>1. run = <<Hash(u), Hash(v)>>
    BY <1>1, HashInjective
  <2>2. Len(run) = 2 /\ run[2] = Hash(v)
    BY <2>1
  <2>3. n + 1 = 2
    BY <2>2
  <2>4. run[2] = Symbol(x)
    BY <2>3
  <2> QED
    BY <2>2, <2>4, SymbolIsNoHash
<1> QED
  BY <1>1 DEF LeafHash

LEMMA ConfigLeafIsLeaf == LeafHash(ConfigLeaf)
<1>1. PICK x : x = Symbol("config")
  OBVIOUS
<1>2. PICK run : run = <<x>>
  OBVIOUS
<1>3. Len(run) = 0 + 1 /\ run[0 + 1] = x
  BY <1>2
<1>4. LeafHash(Hash(run))
  BY <1>1, <1>3, EndIsNoNode
<1> QED
  BY <1>1, <1>2, <1>4 DEF ConfigLeaf

LEMMA SignerLeafIsLeaf ==
  ASSUME NEW S, Symbolic(S), NEW a \in S, NEW status PROVE LeafHash(SignerLeaf(a, status))
<1>1. PICK x : x = Name(a) \o Key(a) /\ x \in Seq(Nat)
  BY ConcatProperties DEF Symbolic
<1>2. PICK n \in Nat : n = Len(x)
  BY <1>1
<1>3. /\ Len(Enrollment(x, status)) = n + 1
      /\ Enrollment(x, status)[n + 1] = Symbol(status)
  BY <1>1, <1>2, EnrollmentIs
<1>4. LeafHash(Hash(Enrollment(x, status)))
  BY <1>3, EndIsNoNode
<1> QED
  BY <1>1, <1>4, SignerLeafIs

LEMMA LeavesAreLeaves ==
  ASSUME NEW policy, NEW S, IsFiniteSet(S), Symbolic(S), NEW order \in SetToSeqs(S)
  PROVE  \A i \in 1 .. Cardinality(S) + 1 : LeafHash(Leaves(policy, order)[i])
<1>1. Named(S)
  BY DEF Named, Symbolic
<1>2. PICK n \in Nat : n = Cardinality(S)
  BY FS_CardinalityType
<1>3. PICK ids : ids = Sorted(order) /\ \A i \in 1 .. n : ids[i] \in S
  <2>1. Sorted(order) \in Seq(S) /\ Len(Sorted(order)) = n
    BY <1>1, <1>2, SortedHoldsAll
  <2> QED
    BY <2>1
<1>4. PICK leaves : leaves = Leaves(policy, order)
  OBVIOUS
<1>5. /\ leaves[1] = ConfigLeaf
      /\ \A i \in 1 .. n : leaves[i + 1] = SignerLeaf(ids[i], policy[ids[i]])
  <2>1. HoldsLeaves(Leaves(policy, order), policy, Sorted(order), Cardinality(S))
    BY <1>1, LeavesAre
  <2> QED
    BY <1>2, <1>3, <1>4, <2>1 DEF HoldsLeaves
<1>6. \A i \in 1 .. n : LeafHash(leaves[i + 1])
  BY <1>3, <1>5, SignerLeafIsLeaf
<1>7. ASSUME NEW i \in 1 .. n + 1 PROVE LeafHash(leaves[i])
  <2>1. CASE i = 1
    BY <1>5, <2>1, ConfigLeafIsLeaf
  <2>2. CASE i # 1
    <3>1. i - 1 \in 1 .. n /\ (i - 1) + 1 = i
      BY <2>2
    <3> QED
      BY <1>6, <3>1
  <2> QED
    BY <2>1, <2>2
<1> QED
  BY <1>2, <1>4, <1>7

-----------------------------------------------------------------------------
(* state.go:155, "Merkle root", and 161, "sort for deterministic ordering":   *)
(* whatever order the range over the map of signers takes, the root is the    *)
(* Merkle tree hash of the leaves in the order of the IDs.                    *)
THEOREM StateRootIsTree ==
  ASSUME NEW policy, NEW S, IsFiniteSet(S), Named(S), NamesApart(S),
         NEW o \in SetToSeqs(S), NEW p \in SetToSeqs(S)
  PROVE  ComputeStateRoot(policy, o) = TreeOf(Leaves(policy, p))
<1>1. o \in Seq(S) /\ p \in Seq(S) /\ SameUpToOrder(S, o, p)
  BY OrdersHoldAll, OrdersAlike
<1>2. Sorted(o) = Sorted(p)
  BY <1>1, SortingIgnoresOrder
<1>3. Leaves(policy, o) = Leaves(policy, p)
  BY <1>2 DEF Leaves
<1>4. PICK n \in Nat \ {0} : Len(Leaves(policy, p)) = n
  <2>1. Cardinality(S) \in Nat /\ Len(Leaves(policy, p)) = Cardinality(S) + 1
    BY LeavesAre DEF HoldsLeaves
  <2> QED
    BY <2>1
<1>5. MerkleRoot(Leaves(policy, p)) = TreeOf(Leaves(policy, p))
  BY <1>4, RoundsMakeTree
<1> QED
  BY <1>3, <1>5 DEF ComputeStateRoot

LEMMA RootsTellLeavesApart ==
  ASSUME NEW x, NEW S, IsFiniteSet(S), NEW o \in SetToSeqs(S),
         NEW y, NEW T, IsFiniteSet(T), NEW p \in SetToSeqs(T),
         Symbolic(S), NamesApart(S), Symbolic(T), NamesApart(T),
         ComputeStateRoot(x, o) = ComputeStateRoot(y, p)
  PROVE  /\ Cardinality(S) = Cardinality(T)
         /\ \A i \in 1 .. Cardinality(S) :
              SignerLeaf(Sorted(o)[i], x[Sorted(o)[i]]) = SignerLeaf(Sorted(p)[i], y[Sorted(p)[i]])
<1>1. Named(S) /\ Named(T)
  BY DEF Named, Symbolic
<1>2. PICK n \in Nat, m \in Nat : n = Cardinality(S) /\ m = Cardinality(T)
  BY FS_CardinalityType
<1>3. PICK l, k : l = Leaves(x, o) /\ k = Leaves(y, p)
  OBVIOUS
<1>4. HoldsLeaves(l, x, Sorted(o), n) /\ HoldsLeaves(k, y, Sorted(p), m)
  BY <1>1, <1>2, <1>3, LeavesAre
<1>5. /\ \A i \in 1 .. n + 1 : LeafHash(l[i])
      /\ \A i \in 1 .. m + 1 : LeafHash(k[i])
  BY <1>2, <1>3, LeavesAreLeaves
<1>6. TreeOf(l) = TreeOf(k)
  BY <1>1, <1>3, StateRootIsTree
<1>7. n + 1 \in Nat \ {0} /\ m + 1 \in Nat \ {0}
  OBVIOUS
<1>8. n + 1 = m + 1 /\ \A i \in 1 .. n + 1 : l[i] = k[i]
  <2>1. Len(l) = n + 1 /\ Len(k) = m + 1
    BY <1>4 DEF HoldsLeaves
  <2> QED
    BY <1>5, <1>6, <1>7, <2>1, TreeNamesLeaves
<1>9. \A i \in 1 .. n : l[i + 1] = k[i + 1]
  BY <1>8
<1>10. n = m
  BY <1>8
<1>11. /\ \A i \in 1 .. n : l[i + 1] = SignerLeaf(Sorted(o)[i], x[Sorted(o)[i]])
       /\ \A i \in 1 .. m : k[i + 1] = SignerLeaf(Sorted(p)[i], y[Sorted(p)[i]])
  BY <1>4 DEF HoldsLeaves
<1> QED
  BY <1>2, <1>9, <1>10, <1>11

LEMMA RootHoldsSigner ==
  ASSUME NEW x, NEW S, IsFiniteSet(S), NEW o \in SetToSeqs(S),
         NEW y, NEW T, IsFiniteSet(T), NEW p \in SetToSeqs(T),
         Symbolic(S \cup T), NamesApart(S \cup T), IDsAndKeysApart(S \cup T),
         ComputeStateRoot(x, o) = ComputeStateRoot(y, p), NEW a \in S
  PROVE  a \in T /\ x[a] = y[a]
<1>1. Symbolic(S) /\ NamesApart(S) /\ Symbolic(T) /\ NamesApart(T) /\ Named(S) /\ Named(T)
  BY DEF Symbolic, NamesApart, Named
<1>2. PICK ids, jds : ids = Sorted(o) /\ jds = Sorted(p)
  OBVIOUS
<1>3. PICK n \in Nat : n = Cardinality(S) /\ n = Cardinality(T)
  <2>1. Cardinality(S) = Cardinality(T)
    BY <1>1, RootsTellLeavesApart
  <2>2. Cardinality(S) \in Nat
    BY FS_CardinalityType
  <2> QED
    BY <2>1, <2>2
<1>4. \A i \in 1 .. n : SignerLeaf(ids[i], x[ids[i]]) = SignerLeaf(jds[i], y[jds[i]])
  BY <1>1, <1>2, <1>3, RootsTellLeavesApart
<1>5. PICK i \in 1 .. n : ids[i] = a
  <2>1. \E i \in 1 .. Cardinality(S) : Sorted(o)[i] = a
    BY <1>1, SortedHoldsAll
  <2> QED
    BY <1>2, <1>3, <2>1, Zenon
<1>6. jds[i] \in T
  <2>1. jds \in Seq(T) /\ Len(jds) = n
    BY <1>1, <1>2, <1>3, SortedHoldsAll
  <2> QED
    BY <2>1
<1>7. SignerLeaf(a, x[a]) = SignerLeaf(jds[i], y[jds[i]])
  BY <1>4, <1>5
<1>8. a = jds[i] /\ x[a] = y[jds[i]]
  <2>1. a \in S \cup T /\ jds[i] \in S \cup T
    BY <1>6
  <2> QED
    BY <1>7, <2>1, SignerLeafNames
<1> QED
  BY <1>6, <1>8

(* validator.go: what guardians sign.  Two policies have one root only when   *)
(* they enroll the same signers in the same status, as long as no signer's ID *)
(* and key, written one after the other, are those of another one.            *)
THEOREM StateRootNamesPolicy ==
  ASSUME NEW x, NEW S, IsFiniteSet(S), NEW o \in SetToSeqs(S),
         NEW y, NEW T, IsFiniteSet(T), NEW p \in SetToSeqs(T),
         Symbolic(S \cup T), NamesApart(S \cup T), IDsAndKeysApart(S \cup T),
         ComputeStateRoot(x, o) = ComputeStateRoot(y, p)
  PROVE  S = T /\ \A a \in S : x[a] = y[a]
<1>1. \A a \in S : a \in T /\ x[a] = y[a]
  BY RootHoldsSigner
<1>2. \A a \in T : a \in S
  <2>1. T \cup S = S \cup T
    OBVIOUS
  <2> QED
    BY <2>1, RootHoldsSigner
<1> QED
  BY <1>1, <1>2

-----------------------------------------------------------------------------
(* Blocks of one length written one after the other, up to each of them.       *)
Blocks(L) == {x \in Seq(Nat) : Len(x) = L}

BlockList(seqs, n, L) == \A i \in 1 .. n : seqs[i] \in Blocks(L)

Strung(seqs, n, f) == f = [i \in 1 .. n |-> IF i = 1 THEN seqs[i] ELSE f[i - 1] \o seqs[i]]

LEMMA StringsExist == ASSUME NEW seqs, NEW n \in Nat PROVE \E f : Strung(seqs, n, f)
<1> DEFINE T == {k \in 0 .. n : \E f : Strung(seqs, k, f)}
<1>1. 0 \in T
  <2>1. Strung(seqs, 0, [i \in 1 .. 0 |-> seqs[i]])
    BY DEF Strung
  <2> QED
    BY <2>1
<1>2. ASSUME NEW k \in 0 .. n - 1, k \in T PROVE k + 1 \in T
  <2>1. PICK f : Strung(seqs, k, f)
    BY <1>2
  <2> DEFINE last == IF k = 0 THEN seqs[1] ELSE f[k] \o seqs[k + 1]
             g == [i \in 1 .. k + 1 |-> IF i <= k THEN f[i] ELSE last]
  <2>2. \A i \in 1 .. k : g[i] = IF i = 1 THEN seqs[i] ELSE g[i - 1] \o seqs[i]
    <3>1. \A i \in 1 .. k : f[i] = IF i = 1 THEN seqs[i] ELSE f[i - 1] \o seqs[i]
      BY <2>1 DEF Strung
    <3>2. \A i \in 1 .. k : /\ g[i] = f[i]
                            /\ i # 1 => g[i - 1] = f[i - 1]
      OBVIOUS
    <3> HIDE DEF g
    <3> QED
      BY <3>1, <3>2
  <2>3. g[k + 1] = IF k + 1 = 1 THEN seqs[k + 1] ELSE g[k] \o seqs[k + 1]
    OBVIOUS
  <2>4. g = [i \in 1 .. k + 1 |-> g[i]]
    OBVIOUS
  <2>5. Strung(seqs, k + 1, g)
    <3> HIDE DEF g
    <3>1. \A i \in 1 .. k + 1 : g[i] = IF i = 1 THEN seqs[i] ELSE g[i - 1] \o seqs[i]
      BY <2>2, <2>3
    <3> QED
      BY <2>4, <3>1 DEF Strung
  <2> QED
    BY <2>5
<1>3. \A k \in 0 .. n : k \in T
  <2> HIDE DEF T
  <2> QED
    BY <1>1, <1>2, UpTo
<1> QED
  BY <1>3

(* The loop over the sorted IDs: what is written is the last of the strings. *)
LEMMA FlattenIsStrung ==
  ASSUME NEW seqs, Len(seqs) \in Nat, Len(seqs) # 0
  PROVE  \E f : Strung(seqs, Len(seqs), f) /\ FlattenSeq(seqs) = f[Len(seqs)]
<1> DEFINE f == CHOOSE g : g = [i \in 1 .. Len(seqs) |->
                                  IF i = 1 THEN seqs[i] ELSE g[i - 1] \o seqs[i]]
<1>1. Strung(seqs, Len(seqs), f)
  BY StringsExist DEF Strung
<1>2. FlattenSeq(seqs) = f[Len(seqs)]
  BY DEF FlattenSeq
<1> QED
  BY <1>1, <1>2

(* Every string is the one before with a block behind it, and so longer. *)
Grows(seqs, n, L, f) ==
  /\ \A i \in 1 .. n : f[i] \in Seq(Nat)
  /\ n # 0 => f[1] = seqs[1] /\ Len(f[1]) = L
  /\ \A i \in 1 .. n - 1 : f[i + 1] = f[i] \o seqs[i + 1]
  /\ \A i \in 1 .. n - 1 : Len(f[i + 1]) = Len(f[i]) + L

LEMMA StringsGrow ==
  ASSUME NEW L \in Nat, L # 0, NEW n \in Nat, NEW seqs, BlockList(seqs, n, L),
         NEW f, Strung(seqs, n, f)
  PROVE  Grows(seqs, n, L, f)
<1>1. /\ \A i \in 1 .. n : i = 1 => f[i] = seqs[i]
      /\ \A i \in 1 .. n - 1 : f[i + 1] = f[i] \o seqs[i + 1]
  <2>1. \A i \in 1 .. n : f[i] = IF i = 1 THEN seqs[i] ELSE f[i - 1] \o seqs[i]
    BY DEF Strung
  <2>2. \A i \in 1 .. n - 1 : f[i + 1] = f[i] \o seqs[i + 1]
    <3> TAKE i \in 1 .. n - 1
    <3>1. PICK j \in 1 .. n : j = i + 1 /\ j # 1 /\ j - 1 = i
      OBVIOUS
    <3>2. f[j] = f[j - 1] \o seqs[j]
      BY <2>1, <3>1
    <3> QED
      BY <3>1, <3>2, Zenon
  <2> QED
    BY <2>1, <2>2
<1>2. \A i \in 1 .. n : seqs[i] \in Seq(Nat) /\ Len(seqs[i]) = L
  BY DEF BlockList, Blocks
<1>3. \A i \in 1 .. n : f[i] \in Seq(Nat)
  <2> DEFINE T == {i \in 0 .. n : i = 0 \/ f[i] \in Seq(Nat)}
  <2>1. 0 \in T
    OBVIOUS
  <2>2. ASSUME NEW i \in 0 .. n - 1, i \in T PROVE i + 1 \in T
    <3>1. i + 1 \in 1 .. n /\ seqs[i + 1] \in Seq(Nat)
      BY <1>2
    <3>2. CASE i = 0
      BY <1>1, <3>1, <3>2
    <3>3. CASE i # 0
      <4>1. i \in 1 .. n - 1 /\ f[i] \in Seq(Nat)
        BY <2>2, <3>3
      <4>2. f[i + 1] = f[i] \o seqs[i + 1]
        BY <1>1, <4>1
      <4>3. f[i] \o seqs[i + 1] \in Seq(Nat)
        BY <3>1, <4>1, ConcatProperties
      <4>4. f[i + 1] \in Seq(Nat)
        BY <4>2, <4>3, Zenon
      <4> QED
        BY <3>1, <4>4
    <3> QED
      BY <3>2, <3>3
  <2>3. \A i \in 0 .. n : i \in T
    <3> HIDE DEF T
    <3> QED
      BY <2>1, <2>2, UpTo
  <2> QED
    BY <2>3
<1>4. \A i \in 1 .. n - 1 : Len(f[i + 1]) = Len(f[i]) + L
  <2> TAKE i \in 1 .. n - 1
  <2>1. f[i] \in Seq(Nat) /\ seqs[i + 1] \in Seq(Nat) /\ Len(seqs[i + 1]) = L
    BY <1>2, <1>3
  <2>2. Len(f[i] \o seqs[i + 1]) = Len(f[i]) + Len(seqs[i + 1])
    BY <2>1, ConcatProperties
  <2> QED
    BY <1>1, <2>1, <2>2
<1>5. n # 0 => f[1] = seqs[1] /\ Len(f[1]) = L
  <2>1. n # 0 => 1 \in 1 .. n
    OBVIOUS
  <2> QED
    BY <1>1, <1>2, <2>1
<1> QED
  BY <1>1, <1>3, <1>4, <1>5 DEF Grows

(* As long as the number of blocks says, and no longer. *)
LEMMA StringsAsLong ==
  ASSUME NEW L \in Nat, L # 0, NEW n \in Nat, NEW m \in Nat, n <= m, n # 0,
         NEW s, BlockList(s, n, L), NEW f, Strung(s, n, f),
         NEW t, BlockList(t, m, L), NEW g, Strung(t, m, g),
         Len(f[n]) = Len(g[m])
  PROVE  n = m
<1>1. /\ \A i \in 1 .. n : Len(f[i]) \in Nat
      /\ Len(f[1]) = L /\ \A i \in 1 .. n - 1 : Len(f[i + 1]) = Len(f[i]) + L
  <2>1. Grows(s, n, L, f)
    BY StringsGrow
  <2> QED
    BY <2>1 DEF Grows
<1>2. /\ \A i \in 1 .. m : Len(g[i]) \in Nat
      /\ Len(g[1]) = L /\ \A i \in 1 .. m - 1 : Len(g[i + 1]) = Len(g[i]) + L
  <2>1. Grows(t, m, L, g) /\ m # 0
    BY StringsGrow
  <2> QED
    BY <2>1 DEF Grows
<1>3. \A i \in 0 .. n : i # 0 => Len(f[i]) = Len(g[i])
  <2> DEFINE T == {i \in 0 .. n : i # 0 => Len(f[i]) = Len(g[i])}
  <2>1. 0 \in T
    OBVIOUS
  <2>2. ASSUME NEW i \in 0 .. n - 1, i \in T PROVE i + 1 \in T
    <3>1. CASE i = 0
      BY <1>1, <1>2, <3>1
    <3>2. CASE i # 0
      <4>1. i \in 1 .. n - 1 /\ i \in 1 .. m - 1 /\ Len(f[i]) = Len(g[i])
        BY <2>2, <3>2
      <4>2. Len(f[i + 1]) = Len(f[i]) + L /\ Len(g[i + 1]) = Len(g[i]) + L
        BY <1>1, <1>2, <4>1, Zenon
      <4>3. Len(f[i + 1]) = Len(g[i + 1])
        BY <4>1, <4>2, Zenon
      <4> QED
        BY <4>3
    <3> QED
      BY <3>1, <3>2
  <2>3. \A i \in 0 .. n : i \in T
    <3> HIDE DEF T
    <3> QED
      BY <2>1, <2>2, UpTo
  <2> QED
    BY <2>3
<1>4. \A k \in 0 .. m - n : k # 0 => Len(g[n]) < Len(g[n + k])
  <2> DEFINE T == {k \in 0 .. m - n : k # 0 => Len(g[n]) < Len(g[n + k])}
  <2>1. 0 \in T
    OBVIOUS
  <2>2. ASSUME NEW k \in 0 .. (m - n) - 1, k \in T PROVE k + 1 \in T
    <3>1. n + k \in 1 .. m - 1 /\ n + k \in 1 .. m /\ n \in 1 .. m /\ n + (k + 1) = (n + k) + 1
      OBVIOUS
    <3>2. Len(g[n + (k + 1)]) = Len(g[n + k]) + L
      BY <1>2, <3>1
    <3>3. Len(g[n]) \in Nat /\ Len(g[n + k]) \in Nat
      BY <1>2, <3>1, Zenon
    <3>4. CASE k = 0
      BY <3>2, <3>3, <3>4
    <3>5. CASE k # 0
      BY <2>2, <3>2, <3>3, <3>5
    <3> QED
      BY <3>4, <3>5
  <2>3. m - n \in Nat
    OBVIOUS
  <2>4. \A k \in 0 .. m - n : k \in T
    <3> HIDE DEF T
    <3> QED
      BY <2>1, <2>2, <2>3, UpTo
  <2> QED
    BY <2>4
<1>5. CASE n < m
  <2>1. m - n \in 0 .. m - n /\ m - n # 0 /\ n + (m - n) = m
    BY <1>5
  <2>2. Len(g[n]) < Len(g[m])
    BY <1>4, <2>1
  <2>3. Len(f[n]) = Len(g[n]) /\ Len(g[n]) \in Nat
    BY <1>2, <1>3
  <2> QED
    BY <2>2, <2>3
<1> QED
  BY <1>5

(* Strings that are equal in the end were made of equal blocks. *)
LEMMA StringsNameBlocks ==
  ASSUME NEW L \in Nat, L # 0, NEW n \in Nat, n # 0,
         NEW s, BlockList(s, n, L), NEW f, Strung(s, n, f),
         NEW t, BlockList(t, n, L), NEW g, Strung(t, n, g),
         f[n] = g[n]
  PROVE  \A i \in 1 .. n : s[i] = t[i]
<1>1. /\ \A i \in 1 .. n : f[i] \in Seq(Nat)
      /\ f[1] = s[1]
      /\ \A i \in 1 .. n - 1 : f[i + 1] = f[i] \o s[i + 1]
  <2>1. Grows(s, n, L, f)
    BY StringsGrow
  <2> QED
    BY <2>1 DEF Grows
<1>2. /\ \A i \in 1 .. n : g[i] \in Seq(Nat)
      /\ g[1] = t[1]
      /\ \A i \in 1 .. n - 1 : g[i + 1] = g[i] \o t[i + 1]
  <2>1. Grows(t, n, L, g)
    BY StringsGrow
  <2> QED
    BY <2>1 DEF Grows
<1>3. \A i \in 1 .. n : /\ s[i] \in Seq(Nat) /\ t[i] \in Seq(Nat)
                        /\ Len(s[i]) = Len(t[i])
  BY DEF BlockList, Blocks
<1>4. ASSUME NEW i \in 1 .. n - 1, f[i + 1] = g[i + 1] PROVE f[i] = g[i] /\ s[i + 1] = t[i + 1]
  <2>1. i \in 1 .. n /\ i + 1 \in 1 .. n
    OBVIOUS
  <2>2. f[i] \o s[i + 1] = g[i] \o t[i + 1]
    BY <1>1, <1>2, <1>4, Zenon
  <2>3. /\ f[i] \in Seq(Nat) /\ s[i + 1] \in Seq(Nat)
        /\ g[i] \in Seq(Nat) /\ t[i + 1] \in Seq(Nat) /\ Len(s[i + 1]) = Len(t[i + 1])
    BY <1>1, <1>2, <1>3, <2>1
  <2>4. RunsAlike(f[i], s[i + 1], g[i], t[i + 1])
    BY <2>2, <2>3, Zenon DEF RunsAlike
  <2> QED
    BY <2>3, <2>4, EndsCut
<1>5. \A k \in 0 .. n - 1 : f[n - k] = g[n - k]
  <2> DEFINE T == {k \in 0 .. n - 1 : f[n - k] = g[n - k]}
  <2>1. 0 \in T
    OBVIOUS
  <2>2. ASSUME NEW k \in 0 .. (n - 1) - 1, k \in T PROVE k + 1 \in T
    <3>1. n - (k + 1) \in 1 .. n - 1 /\ (n - (k + 1)) + 1 = n - k /\ k + 1 \in 0 .. n - 1
      OBVIOUS
    <3>2. f[n - (k + 1)] = g[n - (k + 1)]
      BY <1>4, <2>2, <3>1
    <3> QED
      BY <3>1, <3>2
  <2>3. n - 1 \in Nat
    OBVIOUS
  <2>4. \A k \in 0 .. n - 1 : k \in T
    <3> HIDE DEF T
    <3> QED
      BY <2>1, <2>2, <2>3, UpTo
  <2> QED
    BY <2>4
<1>6. \A i \in 1 .. n : f[i] = g[i]
  <2> TAKE i \in 1 .. n
  <2>1. n - i \in 0 .. n - 1 /\ n - (n - i) = i
    OBVIOUS
  <2> QED
    BY <1>5, <2>1
<1> QED
  <2> TAKE i \in 1 .. n
  <2>1. CASE i = 1
    BY <1>1, <1>2, <1>6, <2>1
  <2>2. CASE i # 1
    <3>1. i - 1 \in 1 .. n - 1 /\ (i - 1) + 1 = i
      BY <2>2
    <3> QED
      BY <1>4, <1>6, <3>1
  <2> QED
    BY <2>1, <2>2

-----------------------------------------------------------------------------
(* IDs of one length: what the collision of the payload key cannot happen to.  *)
OfOneLength(S, L) == \A a \in S : Len(Name(a)) = L

WrittenAs(s, b, f) ==
  /\ Strung(b, Len(s), f) /\ Written(s) = f[Len(s)]
  /\ \A i \in 1 .. Len(s) : b[i] = Name(s[i])

LEMMA WrittenIsStrung ==
  ASSUME NEW S, Named(S), NEW L \in Nat, OfOneLength(S, L), NEW s \in Seq(S), Len(s) # 0
  PROVE  \E b, f : WrittenAs(s, b, f) /\ BlockList(b, Len(s), L)
<1> DEFINE b == [i \in DOMAIN s |-> Name(s[i])]
<1>1. PICK n \in Nat : n = Len(s) /\ n # 0 /\ DOMAIN s = 1 .. n
  OBVIOUS
<1>2. /\ b \in [1 .. n -> Seq(Nat)]
      /\ \A i \in 1 .. n : b[i] = Name(s[i]) /\ b[i] \in Seq(Nat) /\ Len(b[i]) = L
  <2>1. \A i \in 1 .. n : s[i] \in S
    BY <1>1
  <2>2. \A i \in 1 .. n : Name(s[i]) \in Seq(Nat) /\ Len(Name(s[i])) = L
    BY <2>1 DEF Named, OfOneLength
  <2> QED
    BY <1>1, <2>2
<1>3. Written(s) = FlattenSeq(b)
  BY DEF Written
<1> HIDE DEF b
<1>4. Len(b) = n
  BY <1>1, <1>2
<1>5. PICK f : Strung(b, n, f) /\ FlattenSeq(b) = f[n]
  BY <1>1, <1>4, FlattenIsStrung
<1>6. BlockList(b, n, L)
  BY <1>2 DEF BlockList, Blocks
<1>7. WrittenAs(s, b, f)
  BY <1>1, <1>2, <1>3, <1>5 DEF WrittenAs
<1> QED
  BY <1>1, <1>6, <1>7

LEMMA StringsNotEmpty ==
  ASSUME NEW L \in Nat, L # 0, NEW n \in Nat, n # 0, NEW b, BlockList(b, n, L),
         NEW f, Strung(b, n, f)
  PROVE  f[n] \in Seq(Nat) /\ Len(f[n]) # 0
<1>1. Grows(b, n, L, f)
  BY StringsGrow
<1>2. \A i \in 1 .. n : f[i] \in Seq(Nat) /\ Len(f[i]) \in Nat
  BY <1>1 DEF Grows
<1>3. CASE n = 1
  BY <1>1, <1>2, <1>3 DEF Grows
<1>4. CASE n # 1
  <2>1. PICK m \in 1 .. n - 1 : m + 1 = n /\ m \in 1 .. n /\ n \in 1 .. n
    BY <1>4
  <2>2. Len(f[m + 1]) = Len(f[m]) + L
    BY <1>1, <2>1 DEF Grows
  <2>3. Len(f[n]) = Len(f[m]) + L /\ Len(f[m]) \in Nat /\ f[n] \in Seq(Nat)
    BY <1>2, <2>1, <2>2, Zenon
  <2> QED
    BY <2>3
<1> QED
  BY <1>3, <1>4

LEMMA WrittenNamesList ==
  ASSUME NEW S, Named(S), NamesApart(S), NEW L \in Nat, L # 0, OfOneLength(S, L),
         NEW s \in Seq(S), NEW t \in Seq(S), Written(s) = Written(t)
  PROVE  s = t
<1>1. ASSUME NEW r \in Seq(S), Len(r) = 0 PROVE Len(Written(r)) = 0
  <2>1. DOMAIN r = {} /\ r = << >>
    BY <1>1
  <2>2. [i \in DOMAIN r |-> Name(r[i])] = << >>
    BY <2>1
  <2> QED
    BY <2>2 DEF Written, FlattenSeq
<1>2. ASSUME NEW r \in Seq(S), Len(r) # 0 PROVE Len(Written(r)) # 0
  <2>1. PICK b, f : WrittenAs(r, b, f) /\ BlockList(b, Len(r), L)
    BY <1>2, WrittenIsStrung
  <2>2. PICK n \in Nat : n = Len(r) /\ n # 0
    BY <1>2
  <2>3. Strung(b, n, f) /\ BlockList(b, n, L) /\ Written(r) = f[n]
    BY <2>1, <2>2 DEF WrittenAs
  <2>4. Len(f[n]) # 0
    BY <2>2, <2>3, StringsNotEmpty
  <2> QED
    BY <2>3, <2>4, Zenon
<1>3. Len(s) = 0 <=> Len(t) = 0
  BY <1>1, <1>2
<1>4. CASE Len(s) = 0
  BY <1>3, <1>4
<1>5. CASE Len(s) # 0
  <2>1. PICK n \in Nat, m \in Nat : n = Len(s) /\ m = Len(t) /\ n # 0 /\ m # 0
    BY <1>3, <1>5
  <2>2. PICK b, f : WrittenAs(s, b, f) /\ BlockList(b, n, L)
    BY <1>5, <2>1, WrittenIsStrung
  <2>3. PICK c, g : WrittenAs(t, c, g) /\ BlockList(c, m, L)
    BY <1>3, <1>5, <2>1, WrittenIsStrung
  <2>4. Strung(b, n, f) /\ Strung(c, m, g) /\ f[n] = g[m]
    BY <2>1, <2>2, <2>3 DEF WrittenAs
  <2>5. Len(f[n]) = Len(g[m])
    BY <2>4, Zenon
  <2>6. ASSUME n <= m PROVE n = m
    BY <2>1, <2>2, <2>3, <2>4, <2>5, <2>6, StringsAsLong
  <2>7. ASSUME m <= n PROVE n = m
    BY <2>1, <2>2, <2>3, <2>4, <2>5, <2>7, StringsAsLong
  <2>8. n = m
    BY <2>1, <2>6, <2>7
  <2>9. \A i \in 1 .. n : b[i] = c[i]
    BY <2>1, <2>2, <2>3, <2>4, <2>8, StringsNameBlocks
  <2>10. \A i \in 1 .. n : Name(s[i]) = Name(t[i]) /\ s[i] \in S /\ t[i] \in S
    <3>1. \A i \in 1 .. n : b[i] = Name(s[i]) /\ c[i] = Name(t[i])
      BY <2>1, <2>2, <2>3, <2>8 DEF WrittenAs
    <3>2. \A i \in 1 .. n : s[i] \in S /\ t[i] \in S
      <4>1. /\ \A i \in 1 .. Len(s) : s[i] \in S
            /\ \A i \in 1 .. Len(t) : t[i] \in S
        OBVIOUS
      <4> QED
        BY <2>1, <2>8, <4>1
    <3> QED
      BY <2>9, <3>1, <3>2, Zenon
  <2>11. \A i \in 1 .. n : s[i] = t[i]
    BY <2>10 DEF NamesApart
  <2> QED
    BY <2>1, <2>8, <2>11, SeqEqual
<1> QED
  BY <1>4, <1>5

(* manager.go:200-214: with IDs of one length, none used twice, requests have  *)
(* one key only if they are for one payload and name the same signers, each    *)
(* as often.  IDs of different lengths can run together.                      *)
THEOREM PayloadKeyNamesWork ==
  ASSUME NEW S, Named(S), NamesApart(S), NEW L \in Nat, L # 0, OfOneLength(S, L),
         NEW p \in Seq(S), NEW q \in Seq(S), NEW x, NEW y,
         ComputePayloadKey(x, p) = ComputePayloadKey(y, q)
  PROVE  x = y /\ SameUpToOrder(S, p, q)
<1>1. x = y /\ Written(Sorted(p)) = Written(Sorted(q))
  BY DEF ComputePayloadKey
<1>2. /\ Sorted(p) \in Seq(S) /\ SameUpToOrder(S, Sorted(p), p)
      /\ Sorted(q) \in Seq(S) /\ SameUpToOrder(S, Sorted(q), q)
  BY SortedIsThere, ArrangementKeepsCounts
<1>3. Sorted(p) = Sorted(q)
  BY <1>1, <1>2, WrittenNamesList
<1> QED
  BY <1>1, <1>2, <1>3 DEF SameUpToOrder

=============================================================================
