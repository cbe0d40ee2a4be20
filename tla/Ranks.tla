------------------------------- MODULE Ranks --------------------------------
(***************************************************************************)
(* What ordering a finite set by a key and cutting pages out of it gives:  *)
(* facts the proofs about lists and their pages rest on.                   *)
(***************************************************************************)
EXTENDS Integers, FiniteSets, FiniteSetTheorems, WellFoundedInduction, TLAPS

\* A set of naturals that is not empty has a least element.
LEMMA NatHasLeast ==
  ASSUME NEW T, T \subseteq Nat, T # {}
  PROVE  \E n \in T : \A m \in T : n <= m
<1> DEFINE R == OpToRel(<, Nat)
<1>1. IsWellFoundedOn(R, Nat)
  BY NatLessThanWellFounded
<1>2. \A m, n \in Nat : <<m, n>> \in R <=> m < n
  BY DEF OpToRel
<1> HIDE DEF R
<1>3. \E n \in T : \A m \in T : ~(<<m, n>> \in R)
  BY <1>1, WFMin
<1>4. PICK n \in T : \A m \in T : ~(<<m, n>> \in R)
  BY <1>3
<1>5. \A m \in T : ~(m < n)
  BY <1>2, <1>4
<1>6. \A m \in T : n <= m
  BY <1>5
<1> QED
  BY <1>6

\* A set of positions of a sequence has a last one.
LEMMA LastPosition ==
  ASSUME NEW n \in Nat, NEW P, P \subseteq 1 .. n, P # {}
  PROVE  \E i \in P : \A j \in P : j <= i
<1> DEFINE D == {m \in Nat : n - m \in P}
<1>1. D # {}
  <2>1. PICK i \in P : i \in 1 .. n
    OBVIOUS
  <2>2. n - i \in Nat /\ n - (n - i) = i
    BY <2>1
  <2> QED
    BY <2>2
<1>2. D \subseteq Nat
  OBVIOUS
<1> HIDE DEF D
<1>3. \E d \in D : \A e \in D : d <= e
  BY <1>1, <1>2, NatHasLeast
<1>4. PICK d \in D : \A e \in D : d <= e
  BY <1>3
<1>5. n - d \in P /\ d \in Nat
  BY DEF D
<1>6. ASSUME NEW j \in P
      PROVE  j <= n - d
  <2>1. j \in 1 .. n
    OBVIOUS
  <2>2. n - j \in D
    BY <2>1 DEF D
  <2>3. d <= n - j
    BY <1>4, <2>2
  <2> QED
    BY <1>5, <2>1, <2>3
<1> QED
  BY <1>5, <1>6

-----------------------------------------------------------------------------
(* Places and pages                                                        *)

\* The place of p in the order of S by key.
Place(S, key, p) == Cardinality({o \in S : key[o] <= key[p]})

\* The members of S whose place is one of A.
AtPlaces(S, key, A) == {p \in S : Place(S, key, p) \in A}

Keyed(S, key) ==
  /\ IsFiniteSet(S)
  /\ \A p \in S : key[p] \in Int
  /\ \A p, o \in S : key[p] = key[o] => p = o

\* A place is a number from 1 to that of the members, and no two have the same.
LEMMA PlaceIs ==
  ASSUME NEW S, NEW key, Keyed(S, key)
  PROVE  /\ Cardinality(S) \in Nat
         /\ \A p \in S : Place(S, key, p) \in 1 .. Cardinality(S)
         /\ \A p, o \in S : key[p] < key[o] => Place(S, key, p) < Place(S, key, o)
         /\ \A p, o \in S : Place(S, key, p) = Place(S, key, o) => p = o
<1> DEFINE Below(p) == {o \in S : key[o] <= key[p]}
<1>1. Cardinality(S) \in Nat
  BY FS_CardinalityType DEF Keyed
<1>2. ASSUME NEW p \in S
      PROVE  /\ IsFiniteSet(Below(p)) /\ p \in Below(p)
             /\ Cardinality(Below(p)) \in 1 .. Cardinality(S)
  <2>1. Below(p) \in SUBSET S /\ p \in Below(p)
    BY DEF Keyed
  <2>2. IsFiniteSet(Below(p)) /\ Cardinality(Below(p)) <= Cardinality(S)
    BY <2>1, FS_Subset DEF Keyed
  <2>3. Cardinality(Below(p)) \in Nat /\ Cardinality(Below(p)) # 0
    BY <2>1, <2>2, FS_CardinalityType, FS_EmptySet
  <2> QED
    BY <1>1, <2>1, <2>2, <2>3
<1>3. ASSUME NEW p \in S, NEW o \in S, key[p] < key[o]
      PROVE  Cardinality(Below(p)) < Cardinality(Below(o))
  <2>1. Below(p) \in SUBSET Below(o) /\ o \notin Below(p) /\ o \in Below(o)
    BY <1>3 DEF Keyed
  <2>2. Cardinality(Below(p)) <= Cardinality(Below(o))
    BY <1>2, <2>1, FS_Subset
  <2>3. Cardinality(Below(p)) # Cardinality(Below(o))
    BY <1>2, <2>1, FS_Subset
  <2> QED
    BY <1>1, <1>2, <2>2, <2>3
<1>4. \A p \in S : Place(S, key, p) = Cardinality(Below(p))
  BY DEF Place
<1> HIDE DEF Below
<1>5. ASSUME NEW p \in S, NEW o \in S, Place(S, key, p) = Place(S, key, o)
      PROVE  p = o
  <2>1. ~(key[p] < key[o]) /\ ~(key[o] < key[p])
    BY <1>1, <1>2, <1>3, <1>4, <1>5
  <2> QED
    BY <2>1 DEF Keyed
<1> QED
  BY <1>1, <1>2, <1>3, <1>4, <1>5

\* Every place is taken: as many members have a place of A as A has numbers.
LEMMA AsManyAsPlaces ==
  ASSUME NEW S, NEW key, Keyed(S, key), NEW A, A \subseteq 1 .. Cardinality(S)
  PROVE  /\ IsFiniteSet(AtPlaces(S, key, A)) /\ IsFiniteSet(A)
         /\ Cardinality(AtPlaces(S, key, A)) = Cardinality(A)
<1> DEFINE N == 1 .. Cardinality(S)
           f == [p \in S |-> Place(S, key, p)]
           P == AtPlaces(S, key, A)
           g == [p \in P |-> Place(S, key, p)]
<1>1. Cardinality(S) \in Nat /\ IsFiniteSet(N) /\ Cardinality(N) = Cardinality(S)
  <2>1. Cardinality(S) \in Nat
    BY PlaceIs
  <2> QED
    BY <2>1, FS_Interval
<1>2. f \in Injection(S, N)
  BY PlaceIs DEF Injection, IsInjective
<1>3. f \in Surjection(S, N)
  BY <1>1, <1>2, FS_Injection
<1>4. \A n \in N : \E p \in S : Place(S, key, p) = n
  BY <1>3 DEF Surjection
<1>5. g \in Bijection(P, A)
  <2>1. g \in [P -> A]
    BY DEF AtPlaces
  <2>2. \A p, o \in P : g[p] = g[o] => p = o
    BY PlaceIs DEF AtPlaces
  <2>3. \A n \in A : \E p \in P : g[p] = n
    BY <1>4 DEF AtPlaces
  <2> QED
    BY <2>1, <2>2, <2>3 DEF Bijection, Injection, Surjection, IsInjective
<1>6. IsFiniteSet(P)
  <2>1. P \in SUBSET S
    BY DEF AtPlaces
  <2> QED
    BY <2>1, FS_Subset DEF Keyed
<1>7. ExistsBijection(P, A)
  BY <1>5 DEF ExistsBijection
<1> QED
  BY <1>6, <1>7, FS_Bijection

\* A page, of size members from the place after n on, is full if a member
\* comes after it.
THEOREM PageFull ==
  ASSUME NEW S, NEW key, Keyed(S, key), NEW n \in Nat, NEW size \in Nat,
         NEW p \in S, Place(S, key, p) \notin 1 .. n + size
  PROVE  Cardinality(AtPlaces(S, key, n + 1 .. n + size)) = size
<1>1. Cardinality(S) \in Nat /\ Place(S, key, p) \in 1 .. Cardinality(S)
  BY PlaceIs
<1>2. n + 1 .. n + size \subseteq 1 .. Cardinality(S)
  BY <1>1
<1>3. Cardinality(n + 1 .. n + size) = size
  BY FS_Interval
<1> QED
  BY <1>2, <1>3, AsManyAsPlaces

\* A page that is not empty and all that comes before it are of the set.
THEOREM PageWithin ==
  ASSUME NEW S, NEW key, Keyed(S, key), NEW n \in Nat, NEW size \in Nat,
         AtPlaces(S, key, n + 1 .. n + size) # {}
  PROVE  n + Cardinality(AtPlaces(S, key, n + 1 .. n + size)) <= Cardinality(S)
<1> DEFINE last == IF n + size <= Cardinality(S) THEN n + size ELSE Cardinality(S)
<1>1. Cardinality(S) \in Nat /\ \A p \in S : Place(S, key, p) \in 1 .. Cardinality(S)
  BY PlaceIs
<1>2. n + 1 <= last /\ last \in Nat /\ last <= Cardinality(S)
  BY <1>1 DEF AtPlaces
<1>3. AtPlaces(S, key, n + 1 .. n + size) = AtPlaces(S, key, n + 1 .. last)
  BY <1>1 DEF AtPlaces
<1> HIDE DEF last
<1>4. n + 1 .. last \subseteq 1 .. Cardinality(S)
  BY <1>1, <1>2
<1>5. Cardinality(n + 1 .. last) = last - n
  BY <1>2, FS_Interval
<1>6. Cardinality(AtPlaces(S, key, n + 1 .. last)) = last - n
  BY <1>4, <1>5, AsManyAsPlaces
<1> QED
  BY <1>1, <1>2, <1>3, <1>6

\* A list of the members in order has each at its place.
LEMMA OrderedPlaces ==
  ASSUME NEW S, NEW key, Keyed(S, key), NEW o \in [1 .. Cardinality(S) -> S],
         \A i, j \in DOMAIN o : i < j => key[o[i]] < key[o[j]], NEW A
  PROVE  {o[i] : i \in A \cap DOMAIN o} = AtPlaces(S, key, A)
<1> DEFINE n == Cardinality(S)
<1>1. n \in Nat /\ IsFiniteSet(1 .. n) /\ Cardinality(1 .. n) = n /\ DOMAIN o = 1 .. n
  <2>1. n \in Nat
    BY PlaceIs
  <2> QED
    BY <2>1, FS_Interval
<1>2. ASSUME NEW i \in 1 .. n, NEW j \in 1 .. n, key[o[i]] <= key[o[j]]
      PROVE  i <= j
  <2>1. o[i] \in S /\ o[j] \in S /\ key[o[i]] \in Int /\ key[o[j]] \in Int
    BY DEF Keyed
  <2>2. j < i => key[o[j]] < key[o[i]]
    BY <1>1
  <2> QED
    BY <1>1, <1>2, <2>1, <2>2
<1>3. \A i, j \in 1 .. n : o[i] = o[j] => i = j
  <2>1. ASSUME NEW i \in 1 .. n, NEW j \in 1 .. n, o[i] = o[j]
        PROVE  i = j
    <3>1. key[o[i]] <= key[o[j]] /\ key[o[j]] <= key[o[i]]
      <4>1. o[i] \in S /\ key[o[i]] \in Int
        BY DEF Keyed
      <4> QED
        BY <2>1, <4>1
    <3> QED
      BY <1>1, <1>2, <3>1
  <2> QED
    BY <2>1
<1>4. \A p \in S : \E i \in 1 .. n : o[i] = p
  <2>1. o \in Injection(1 .. n, S)
    BY <1>1, <1>3 DEF Injection, IsInjective
  <2>2. o \in Surjection(1 .. n, S)
    BY <1>1, <2>1, FS_Injection DEF Keyed
  <2> QED
    BY <2>2 DEF Surjection
<1>5. ASSUME NEW i \in 1 .. n
      PROVE  Place(S, key, o[i]) = i
  <2> DEFINE T == {p \in S : key[p] <= key[o[i]]}
             g == [j \in 1 .. i |-> o[j]]
  <2>1. ASSUME NEW j \in 1 .. i
        PROVE  o[j] \in T
    <3>1. j \in 1 .. n /\ (j < i \/ j = i)
      BY <1>1
    <3>2. key[o[j]] \in Int /\ key[o[i]] \in Int
      BY <3>1 DEF Keyed
    <3> QED
      BY <1>1, <3>1, <3>2
  <2>2. \A p \in T : \E j \in 1 .. i : g[j] = p
    <3>1. ASSUME NEW p \in T
          PROVE  \E j \in 1 .. i : g[j] = p
      <4>1. PICK j \in 1 .. n : o[j] = p
        BY <1>4
      <4>2. j <= i
        BY <1>2, <3>1, <4>1
      <4> QED
        BY <1>1, <4>1, <4>2
    <3> QED
      BY <3>1
  <2>3. \A j, k \in 1 .. i : g[j] = g[k] => j = k
    BY <1>1, <1>3
  <2>4. g \in Bijection(1 .. i, T)
    <3>1. g \in [1 .. i -> T]
      BY <2>1
    <3> HIDE DEF g, T
    <3> QED
      BY <2>2, <2>3, <3>1 DEF Bijection, Injection, Surjection, IsInjective
  <2>5. ExistsBijection(1 .. i, T)
    BY <2>4 DEF ExistsBijection
  <2>6. IsFiniteSet(1 .. i) /\ Cardinality(1 .. i) = i
    BY <1>1, FS_Interval
  <2>7. Cardinality(T) = i
    BY <2>5, <2>6, FS_Bijection
  <2> QED
    BY <2>7 DEF Place
<1>6. \A p \in S : \E i \in 1 .. n : o[i] = p /\ Place(S, key, p) = i
  BY <1>4, <1>5
<1> QED
  BY <1>1, <1>5, <1>6 DEF AtPlaces

\* A finite set of integers that is not empty has a least element.
LEMMA IntHasLeast ==
  ASSUME NEW S, IsFiniteSet(S), S \subseteq Int, S # {}
  PROVE  \E p \in S : \A o \in S : p <= o
<1> DEFINE key == [p \in S |-> p]
<1>1. Keyed(S, key)
  BY DEF Keyed
<1>2. Cardinality(S) \in Nat /\ Cardinality(S) # 0
  BY FS_CardinalityType, FS_EmptySet
<1> HIDE DEF key
<1>3. Cardinality({1}) = 1 /\ {1} \subseteq 1 .. Cardinality(S)
  BY <1>2, FS_Singleton
<1>4. Cardinality(AtPlaces(S, key, {1})) = 1
  BY <1>1, <1>3, AsManyAsPlaces
<1>5. PICK p \in S : Place(S, key, p) = 1
  <2>1. AtPlaces(S, key, {1}) # {}
    BY <1>4, FS_EmptySet
  <2> QED
    BY <2>1 DEF AtPlaces
<1>6. ASSUME NEW o \in S
      PROVE  p <= o
  <2>1. ~(key[o] < key[p])
    BY <1>1, <1>5, PlaceIs
  <2> QED
    BY <2>1 DEF key
<1> QED
  BY <1>6

=============================================================================
