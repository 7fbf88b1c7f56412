---------------------------- MODULE QueuesProofs ----------------------------
(***************************************************************************)
(* Lemmas about queues from which elements are taken, for the proofs of    *)
(* the modules that have such queues.                                      *)
(***************************************************************************)
EXTENDS Queues, FiniteSetTheorems, TLAPS

\* A set of places is finite.
LEMMA PlacesFinite ==
    ASSUME NEW m \in Nat, NEW P \in SUBSET (1..m)
    PROVE  IsFiniteSet(P) /\ Cardinality(P) \in Nat
<1>1. IsFiniteSet(1..m)
  BY FS_Interval
<1>2. IsFiniteSet(P)
  BY <1>1, FS_Subset
<1> QED  BY <1>2, FS_CardinalityType

\* The rank of a place is one of 1..Cardinality(P), and grows with the place.
LEMMA RankType ==
    ASSUME NEW m \in Nat, NEW P \in SUBSET (1..m), NEW i \in P
    PROVE  /\ IsFiniteSet(P)
           /\ Cardinality(P) \in Nat
           /\ Rank(P, i) \in 1..Cardinality(P)
<1>1. IsFiniteSet(P)
  BY PlacesFinite
<1> DEFINE L == {j \in P : j <= i}
<1>2. /\ IsFiniteSet(L)
      /\ Cardinality(L) <= Cardinality(P)
  BY <1>1, FS_Subset
<1>3. Cardinality(L) \in Nat /\ Cardinality(P) \in Nat
  BY <1>1, <1>2, FS_CardinalityType
<1>4. i \in L
  OBVIOUS
<1>5. Cardinality(L) # 0
  BY <1>2, <1>4, FS_EmptySet
<1> QED  BY <1>1, <1>2, <1>3, <1>5 DEF Rank

LEMMA RankGrows ==
    ASSUME NEW m \in Nat, NEW P \in SUBSET (1..m), NEW i \in P, NEW j \in P, i < j
    PROVE  Rank(P, i) < Rank(P, j)
<1> DEFINE L == {k \in P : k <= i}
           M == {k \in P : k <= j}
<1>1. IsFiniteSet(P)
  BY RankType
<1>2. IsFiniteSet(M)
  BY <1>1, FS_Subset
<1>3. L \in SUBSET M
  <2>1. ASSUME NEW k \in P, k <= i  PROVE k <= j
    <3>1. k \in Int /\ i \in Int /\ j \in Int
      OBVIOUS
    <3> QED  BY <3>1, <2>1
  <2> QED  BY <2>1
<1>4. L # M
  <2>1. j \in M /\ j \notin L
    OBVIOUS
  <2> QED  BY <2>1
<1>5. /\ IsFiniteSet(L)
      /\ Cardinality(L) <= Cardinality(M)
      /\ Cardinality(L) # Cardinality(M)
  BY <1>2, <1>3, <1>4, FS_Subset
<1>6. Cardinality(L) \in Nat /\ Cardinality(M) \in Nat
  BY <1>2, <1>5, FS_CardinalityType
<1> QED  BY <1>5, <1>6 DEF Rank

\* So every number up to Cardinality(P) is the rank of exactly one place.
LEMMA NthExists ==
    ASSUME NEW m \in Nat, NEW P \in SUBSET (1..m), NEW n \in 1..Cardinality(P)
    PROVE  Nth(P, n) \in P /\ Rank(P, Nth(P, n)) = n
<1> DEFINE f == [i \in P |-> Rank(P, i)]
           T == 1..Cardinality(P)
<1>1. IsFiniteSet(P) /\ Cardinality(P) \in Nat
  BY PlacesFinite
<1>2. f \in [P -> T]
  BY RankType
<1>3. \A i, j \in P : f[i] = f[j] => i = j
  <2> SUFFICES ASSUME NEW i \in P, NEW j \in P, f[i] = f[j], i # j  PROVE FALSE
    OBVIOUS
  <2>1. f[i] = Rank(P, i) /\ f[j] = Rank(P, j)
    OBVIOUS
  <2>2. Rank(P, i) \in Int /\ Rank(P, j) \in Int
    <3>1. Rank(P, i) \in T /\ Rank(P, j) \in T
      BY RankType
    <3> QED  BY <3>1
  <2>3. i < j \/ j < i
    OBVIOUS
  <2>4. Rank(P, i) < Rank(P, j) \/ Rank(P, j) < Rank(P, i)
    BY <2>3, RankGrows
  <2> QED  BY <2>1, <2>2, <2>4
<1>4. f \in Injection(P, T)
  BY <1>2, <1>3 DEF Injection, IsInjective
<1>5. IsFiniteSet(T) /\ Cardinality(T) = Cardinality(P)
  BY <1>1, FS_Interval
<1>6. f \in Surjection(P, T)
  BY <1>1, <1>4, <1>5, FS_Injection
<1>7. \E i \in P : f[i] = n
  BY <1>6 DEF Surjection
<1>8. \E i \in P : Rank(P, i) = n
  BY <1>7
<1> QED  BY <1>8 DEF Nth

\* The places that stay, in their order.
Places(q, U) ==
    IF Staying(q, U) = 1..Len(q) THEN [n \in 1..Len(q) |-> n]
    ELSE [n \in 1..Len(Without(q, U)) |-> Nth(Staying(q, U), n)]

LEMMA WithoutPlaces ==
    ASSUME NEW S, NEW q \in Seq(S), NEW U
    PROVE  /\ Without(q, U) \in Seq(S)
           /\ Len(Without(q, U)) = Cardinality(Staying(q, U))
           /\ Places(q, U) \in [1..Len(Without(q, U)) -> Staying(q, U)]
           /\ \A n \in 1..Len(Without(q, U)) : Without(q, U)[n] = q[Places(q, U)[n]]
           /\ \A n, k \in 1..Len(Without(q, U)) :
                 n < k => Places(q, U)[n] < Places(q, U)[k]
           /\ \A i \in Staying(q, U) : \E n \in 1..Len(Without(q, U)) : Places(q, U)[n] = i
<1> DEFINE P == Staying(q, U)
           w == Without(q, U)
<1>1. Len(q) \in Nat /\ P \in SUBSET (1..Len(q))
  BY DEF Staying
<1>2. IsFiniteSet(P) /\ Cardinality(P) \in Nat
  BY <1>1, PlacesFinite
<1>0. CASE P = 1..Len(q)
  <2>1. w = q /\ Places(q, U) = [n \in 1..Len(q) |-> n]
    BY <1>0 DEF Without, Places
  <2>2. Cardinality(P) = Len(q)
    BY <1>0, <1>1, FS_Interval
  <2> QED  BY <1>0, <1>1, <2>1, <2>2
<1> HIDE DEF P
<1> SUFFICES ASSUME P # 1..Len(q)
             PROVE  /\ w \in Seq(S)
                    /\ Len(w) = Cardinality(P)
                    /\ Places(q, U) \in [1..Len(w) -> P]
                    /\ \A n \in 1..Len(w) : w[n] = q[Places(q, U)[n]]
                    /\ \A n, k \in 1..Len(w) :
                          n < k => Places(q, U)[n] < Places(q, U)[k]
                    /\ \A i \in P : \E n \in 1..Len(w) : Places(q, U)[n] = i
  BY <1>0 DEF P
<1>3. \A n \in 1..Cardinality(P) : Nth(P, n) \in P /\ Rank(P, Nth(P, n)) = n
  BY <1>1, NthExists
<1>4. w = [n \in 1..Cardinality(P) |-> q[Nth(P, n)]]
  BY DEF P, Without
<1>5. ASSUME NEW n \in 1..Cardinality(P)  PROVE q[Nth(P, n)] \in S
  <2>1. Nth(P, n) \in 1..Len(q)
    BY <1>1, <1>3
  <2> QED  BY <2>1
<1>6. w \in Seq(S) /\ Len(w) = Cardinality(P)
  BY <1>2, <1>4, <1>5
<1> DEFINE p == Places(q, U)
<1>7. p = [n \in 1..Cardinality(P) |-> Nth(P, n)]
  BY <1>6 DEF P, Places
<1>8. p \in [1..Cardinality(P) -> P]
  BY <1>3, <1>7
<1>9. \A n \in 1..Cardinality(P) : w[n] = q[p[n]] /\ Rank(P, p[n]) = n
  BY <1>3, <1>4, <1>7
<1> HIDE DEF w, p
<1>10. ASSUME NEW n \in 1..Cardinality(P), NEW k \in 1..Cardinality(P), n < k
       PROVE  p[n] < p[k]
  <2>1. p[n] \in P /\ p[k] \in P
    BY <1>8
  <2>2. Rank(P, p[n]) = n /\ Rank(P, p[k]) = k
    BY <1>9
  <2>3. p[n] \in 1..Len(q) /\ p[k] \in 1..Len(q)
    BY <1>1, <2>1
  <2>4. p[k] < p[n] => Rank(P, p[k]) < Rank(P, p[n])
    BY <1>1, <2>1, RankGrows
  <2>5. p[n] # p[k]
    BY <2>2, <1>10
  <2>6. ~ (p[k] < p[n])
    BY <2>2, <2>4, <1>10, <1>2
  <2> QED  BY <2>3, <2>5, <2>6
<1>11. ASSUME NEW i \in P
       PROVE  \E n \in 1..Cardinality(P) : p[n] = i
  <2> DEFINE n == Rank(P, i)
  <2>1. n \in 1..Cardinality(P)
    BY <1>1, RankType
  <2>2. p[n] \in P /\ Rank(P, p[n]) = n
    BY <1>8, <1>9, <2>1
  <2>3. i \in 1..Len(q) /\ p[n] \in 1..Len(q)
    BY <1>1, <2>2
  <2>4. i < p[n] => Rank(P, i) < Rank(P, p[n])
    BY <1>1, <2>2, RankGrows
  <2>5. p[n] < i => Rank(P, p[n]) < Rank(P, i)
    BY <1>1, <2>2, RankGrows
  <2>6. Rank(P, i) \in Int
    BY <2>1
  <2>7. p[n] = i
    BY <2>2, <2>3, <2>4, <2>5, <2>6
  <2> QED  BY <2>1, <2>7
<1> QED  BY <1>6, <1>8, <1>9, <1>10, <1>11 DEF w, p, P

\* The elements that stay are those not taken.
LEMMA WithoutElements ==
    ASSUME NEW S, NEW q \in Seq(S), NEW U
    PROVE  ToSet(Without(q, U)) = ToSet(q) \ U
<1> DEFINE w == Without(q, U)
           p == Places(q, U)
<1>1. /\ w \in Seq(S)
      /\ p \in [1..Len(w) -> Staying(q, U)]
      /\ \A n \in 1..Len(w) : w[n] = q[p[n]]
      /\ \A i \in Staying(q, U) : \E n \in 1..Len(w) : p[n] = i
  BY WithoutPlaces
<1> HIDE DEF w, p
<1>2. ASSUME NEW e \in ToSet(w)  PROVE e \in ToSet(q) \ U
  <2>1. PICK n \in 1..Len(w) : w[n] = e
    BY <1>1 DEF ToSet
  <2>2. p[n] \in 1..Len(q) /\ q[p[n]] \notin U
    BY <1>1 DEF Staying
  <2>3. q[p[n]] \in ToSet(q)
    BY <2>2 DEF ToSet
  <2> QED  BY <1>1, <2>1, <2>2, <2>3
<1>3. ASSUME NEW e \in ToSet(q) \ U  PROVE e \in ToSet(w)
  <2>1. PICK i \in 1..Len(q) : q[i] = e
    BY DEF ToSet
  <2>2. i \in Staying(q, U)
    BY <2>1 DEF Staying
  <2>3. PICK n \in 1..Len(w) : p[n] = i
    BY <1>1, <2>2
  <2> QED  BY <1>1, <2>1, <2>3 DEF ToSet
<1> QED  BY <1>2, <1>3 DEF w

\* A head that is not taken stays the head.
LEMMA WithoutHead ==
    ASSUME NEW S, NEW q \in Seq(S), NEW U, q # <<>>, Head(q) \notin U
    PROVE  Without(q, U) # <<>> /\ Head(Without(q, U)) = Head(q)
<1> DEFINE w == Without(q, U)
           p == Places(q, U)
<1>1. /\ w \in Seq(S)
      /\ p \in [1..Len(w) -> Staying(q, U)]
      /\ \A n \in 1..Len(w) : w[n] = q[p[n]]
      /\ \A n, k \in 1..Len(w) : n < k => p[n] < p[k]
      /\ \A i \in Staying(q, U) : \E n \in 1..Len(w) : p[n] = i
  BY WithoutPlaces
<1> HIDE DEF w, p
<1>2. 1 \in 1..Len(q) /\ q[1] = Head(q)
  OBVIOUS
<1>3. 1 \in Staying(q, U)
  BY <1>2 DEF Staying
<1>4. PICK n \in 1..Len(w) : p[n] = 1
  BY <1>1, <1>3
<1>5. 1 \in 1..Len(w) /\ w # <<>>
  BY <1>1, <1>4
<1>6. p[1] \in 1..Len(q)
  BY <1>1, <1>5 DEF Staying
<1>7. ~ (1 < n)
  BY <1>1, <1>4, <1>5, <1>6
<1>8. n = 1
  BY <1>4, <1>7
<1>9. w[1] = q[1]
  BY <1>1, <1>4, <1>5, <1>8
<1> QED  BY <1>1, <1>2, <1>5, <1>9 DEF w

\* In a queue without duplicates an element has one place.
LEMMA PlaceIs ==
    ASSUME NEW S, NEW q \in Seq(S), IsInjective(q), NEW i \in 1..Len(q)
    PROVE  PlaceOf(q, q[i]) = i
BY DEF PlaceOf, IsInjective

\* The elements that stay are still without duplicates, and in their order.
LEMMA WithoutOrder ==
    ASSUME NEW S, NEW q \in Seq(S), IsInjective(q), NEW U
    PROVE  /\ IsInjective(Without(q, U))
           /\ \A a, b \in ToSet(Without(q, U)) :
                 PlaceOf(q, a) < PlaceOf(q, b)
                    => PlaceOf(Without(q, U), a) < PlaceOf(Without(q, U), b)
<1> DEFINE w == Without(q, U)
           p == Places(q, U)
<1>1. /\ w \in Seq(S)
      /\ p \in [1..Len(w) -> Staying(q, U)]
      /\ \A n \in 1..Len(w) : w[n] = q[p[n]]
      /\ \A n, k \in 1..Len(w) : n < k => p[n] < p[k]
  BY WithoutPlaces
<1> HIDE DEF w, p
<1>2. \A n \in 1..Len(w) : p[n] \in 1..Len(q)
  BY <1>1 DEF Staying
<1>3. ASSUME NEW n \in 1..Len(w), NEW k \in 1..Len(w), w[n] = w[k]  PROVE n = k
  <2>1. p[n] = p[k]
    <3>1. q[p[n]] = q[p[k]]
      BY <1>1, <1>3
    <3>2. p[n] \in DOMAIN q /\ p[k] \in DOMAIN q
      BY <1>2
    <3> QED  BY <3>1, <3>2 DEF IsInjective
  <2>2. ~ (n < k) /\ ~ (k < n)
    BY <1>1, <1>2, <2>1
  <2> QED  BY <2>2
<1>4. IsInjective(w)
  BY <1>1, <1>3 DEF IsInjective
<1>5. ASSUME NEW a \in ToSet(w), NEW b \in ToSet(w), PlaceOf(q, a) < PlaceOf(q, b)
      PROVE  PlaceOf(w, a) < PlaceOf(w, b)
  <2>1. PICK n \in 1..Len(w) : w[n] = a
    BY <1>1 DEF ToSet
  <2>2. PICK k \in 1..Len(w) : w[k] = b
    BY <1>1 DEF ToSet
  <2>3. PlaceOf(w, a) = n /\ PlaceOf(w, b) = k
    BY <1>1, <1>4, <2>1, <2>2, PlaceIs
  <2>4. PlaceOf(q, a) = p[n] /\ PlaceOf(q, b) = p[k]
    BY <1>1, <1>2, <2>1, <2>2, PlaceIs
  <2>5. p[n] < p[k]
    BY <1>5, <2>4
  <2>6. ~ (k < n) /\ n # k
    BY <1>1, <1>2, <2>5
  <2> QED  BY <2>3, <2>6
<1> QED  BY <1>4, <1>5 DEF w

\* Who comes last stands behind all others.
LEMMA AppendOrder ==
    ASSUME NEW S, NEW q \in Seq(S), IsInjective(q), NEW e \in S, e \notin ToSet(q)
    PROVE  /\ Append(q, e) \in Seq(S)
           /\ IsInjective(Append(q, e))
           /\ ToSet(Append(q, e)) = ToSet(q) \cup {e}
           /\ q # <<>> => Append(q, e) # <<>> /\ Head(Append(q, e)) = Head(q)
           /\ \A a \in ToSet(q) : /\ PlaceOf(Append(q, e), a) = PlaceOf(q, a)
                                  /\ PlaceOf(q, a) < PlaceOf(Append(q, e), e)
<1> DEFINE r == Append(q, e)
<1>1. /\ r \in Seq(S)
      /\ Len(r) = Len(q) + 1
      /\ \A i \in 1..Len(q) : r[i] = q[i]
      /\ r[Len(q) + 1] = e
  OBVIOUS
<1> HIDE DEF r
<1>2. \A i \in 1..Len(q) : q[i] # e
  BY DEF ToSet
<1>3. Len(q) \in Nat /\ 1..Len(r) = 1..Len(q) \cup {Len(q) + 1}
  BY <1>1
<1>4. IsInjective(r)
  BY <1>1, <1>2, <1>3 DEF IsInjective
<1>5. DOMAIN q = 1..Len(q) /\ DOMAIN r = 1..Len(r)
  BY <1>1
<1>6. ToSet(r) = ToSet(q) \cup {e}
  BY <1>1, <1>3, <1>5 DEF ToSet
<1>7. ASSUME q # <<>>  PROVE r # <<>> /\ Head(r) = Head(q)
  BY <1>1, <1>7
<1>8. ASSUME NEW a \in ToSet(q)
      PROVE  PlaceOf(r, a) = PlaceOf(q, a) /\ PlaceOf(q, a) < PlaceOf(r, e)
  <2>1. PICK i \in 1..Len(q) : q[i] = a
    BY <1>5 DEF ToSet
  <2>2. PlaceOf(q, a) = i
    BY <2>1, PlaceIs
  <2>3. i \in 1..Len(r) /\ Len(q) + 1 \in 1..Len(r)
    BY <1>3
  <2>4. PlaceOf(r, a) = i /\ PlaceOf(r, e) = Len(q) + 1
    BY <1>1, <1>4, <2>1, <2>3, PlaceIs
  <2> QED  BY <1>3, <2>2, <2>4
<1> QED  BY <1>1, <1>4, <1>6, <1>7, <1>8 DEF r
=============================================================================
