--------------------------- MODULE Numbers_proofs ---------------------------
(***************************************************************************)
(* Facts about numbers that several proofs need: least elements, induction *)
(* for a set of numbers, recursion along a rank, and going round a ring.   *)
(***************************************************************************)
EXTENDS LeastElement, FiniteSetTheorems, WellFoundedInduction, TLAPS

\* A non-empty set of numbers has a least element.  (Of the sets 0..k for k in S,
\* one is minimal under strict inclusion; its k is the least.)
LEMMA LeastIn ==
  ASSUME NEW S, S \subseteq Nat, S # {}
  PROVE  Least(S) \in S /\ \A j \in S : Least(S) <= j
<1> DEFINE Below == {0 .. k : k \in S}
<1>1. Below \subseteq FiniteSubsetsOf(Nat) /\ Below # {}
  <2>1. \A k \in S : IsFiniteSet(0 .. k)
    BY FS_Interval
  <2>2. \A k \in S : 0 .. k \in FiniteSubsetsOf(Nat)
    BY <2>1 DEF FiniteSubsetsOf
  <2> QED BY <2>2
<1>2. PICK B \in Below : \A C \in Below : ~(<<C, B>> \in StrictSubsetOrdering(Nat))
  <2> HIDE DEF Below
  <2> QED BY <1>1, WFMin, FS_StrictSubsetOrderingWellFounded
<1>3. PICK x \in S : B = 0 .. x
  OBVIOUS
<1>4. ASSUME NEW y \in S PROVE x <= y
  <2>1. <<0 .. y, B>> \notin StrictSubsetOrdering(Nat)
    BY <1>2
  <2>2. ~(0 .. y \subseteq 0 .. x /\ 0 .. y # 0 .. x)
    BY <2>1, <1>1, <1>3 DEF StrictSubsetOrdering, FiniteSubsetsOf
  <2> QED BY <2>2
<1> QED BY <1>4 DEF Least

\* Induction, for the set of the numbers of which something holds.
LEMMA Induct ==
  ASSUME NEW P, 0 \in P, \A n \in Nat : n \in P => n + 1 \in P
  PROVE  \A n \in Nat : n \in P
<1> SUFFICES ASSUME NEW k \in Nat, k \notin P PROVE FALSE
  OBVIOUS
<1> DEFINE Rest == Nat \ P
           l == Least(Rest)
<1>1. l \in Rest /\ \A j \in Rest : l <= j
  <2>1. Rest \subseteq Nat /\ Rest # {}
    OBVIOUS
  <2> HIDE DEF Rest
  <2> QED BY <2>1, LeastIn
<1> HIDE DEF l
<1>2. l - 1 \in Nat /\ l - 1 \notin Rest
  BY <1>1
<1>3. (l - 1) + 1 \in P
  BY <1>2
<1> QED BY <1>1, <1>3

\* The argument d of a recursive function calls prev[d], until its rank is zero.
Descends(D, n, rank, prev) ==
  /\ n \in Nat
  /\ rank \in [D -> 0 .. n]
  /\ prev \in [D -> D]
  /\ \A d \in D : rank[d] # 0 => rank[prev[d]] < rank[d]

LEMMA RankInduct ==
  ASSUME NEW D, NEW n, NEW rank, NEW prev, Descends(D, n, rank, prev), NEW Q,
         \A d \in D : rank[d] = 0 \/ prev[d] \in Q => d \in Q
  PROVE  D \subseteq Q
<1> USE DEF Descends
<1> DEFINE P == {k \in Nat : \A d \in D : rank[d] <= k => d \in Q}
<1>1. 0 \in P
  OBVIOUS
<1>2. \A k \in Nat : k \in P => k + 1 \in P
  OBVIOUS
<1> HIDE DEF P
<1>3. n \in P
  BY <1>1, <1>2, Induct
<1> USE DEF P
<1> QED BY <1>3

\* Such a function exists.
Recursion(D, n, V, rank, prev, base, step) ==
  Descends(D, n, rank, prev) /\ base \in [D -> V] /\ step \in [D -> [V -> V]]

Solves(f, D, V, rank, prev, base, step) ==
  /\ f \in [D -> V]
  /\ \A d \in D : rank[d] = 0 => f[d] = base[d]
  /\ \A d \in D : rank[d] # 0 => f[d] = step[d][f[prev[d]]]

LEMMA RecursiveFunction ==
  ASSUME NEW D, NEW n, NEW V, NEW rank, NEW prev, NEW base, NEW step,
         Recursion(D, n, V, rank, prev, base, step)
  PROVE  \E f : Solves(f, D, V, rank, prev, base, step)
<1> USE DEF Recursion, Descends
<1> DEFINE Right(f, d) == f[d] = IF rank[d] = 0 THEN base[d] ELSE step[d][f[prev[d]]]
           P == {k \in Nat : \E f \in [D -> V] : \A d \in D : rank[d] <= k => Right(f, d)}
<1>1. 0 \in P
  <2>1. \A d \in D : rank[d] <= 0 => Right(base, d)
    OBVIOUS
  <2> QED BY <2>1
<1>2. ASSUME NEW k \in Nat, k \in P PROVE k + 1 \in P
  <2>1. PICK f \in [D -> V] : \A d \in D : rank[d] <= k => Right(f, d)
    BY <1>2
  <2> DEFINE g == [d \in D |-> IF rank[d] = 0 THEN base[d] ELSE step[d][f[prev[d]]]]
  <2>2. g \in [D -> V]
    OBVIOUS
  <2>3. \A d \in D : rank[d] <= k => g[d] = f[d]
    BY <2>1
  <2>4. ASSUME NEW d \in D, rank[d] <= k + 1 PROVE Right(g, d)
    <3>1. CASE rank[d] = 0
      BY <3>1
    <3>2. CASE rank[d] # 0
      <4>1. prev[d] \in D /\ rank[prev[d]] <= k
        BY <2>4, <3>2
      <4>2. g[prev[d]] = f[prev[d]]
        BY <2>3, <4>1
      <4> QED BY <3>2, <4>2
    <3> QED BY <3>1, <3>2
  <2> HIDE DEF g
  <2> QED BY <2>2, <2>4
<1> HIDE DEF P
<1>3. n \in P
  BY <1>1, <1>2, Induct
<1>4. PICK f \in [D -> V] : \A d \in D : Right(f, d)
  <2> USE DEF P
  <2> QED BY <1>3
<1> QED BY <1>4 DEF Solves

\* A number has one remainder.
LEMMA RemainderIsUnique ==
  ASSUME NEW m \in Nat, m > 0, NEW k \in Nat, NEW r \in 0 .. m - 1
  PROVE  (m * k + r) % m = r
<1> DEFINE x == m * k + r
           q == x \div m
           s == x % m
<1>1. x \in Nat
  OBVIOUS
<1>2. q \in Int /\ s \in 0 .. m - 1 /\ x = m * q + s
  <2> HIDE DEF x
  <2> QED BY <1>1
<1>3. m * (q - k) = r - s
  <2>1. m * k + r = m * q + s
    BY <1>2
  <2> HIDE DEF q, s
  <2> QED BY <1>2, <2>1
<1> HIDE DEF q, s, x
<1>4. ~(q - k >= 1) /\ ~(q - k <= -1)
  <2> DEFINE e == q - k
  <2>1. e \in Int /\ m * e = r - s
    BY <1>2, <1>3
  <2> HIDE DEF e
  <2>2. e >= 1 => m * e >= m
    BY <2>1
  <2>3. e <= -1 => m * e <= -m
    BY <2>1
  <2>4. r - s < m /\ r - s > -m
    BY <1>2
  <2> QED BY <1>2, <2>1, <2>2, <2>3, <2>4 DEF e
<1>5. q = k
  BY <1>2, <1>4
<1> QED BY <1>2, <1>3, <1>5 DEF s, x

\* One step round the ring of m nodes, from any start.
LEMMA RingStep ==
  ASSUME NEW m \in Nat, m > 0, NEW v \in Nat, NEW i \in 0 .. m - 1
  PROVE  /\ v % m \in 0 .. m - 1
         /\ (v + i) % m = IF (v % m) + i < m THEN (v % m) + i ELSE (v % m) + i - m
<1> DEFINE q == v \div m
           s == v % m
<1>1. q \in Nat /\ s \in 0 .. m - 1 /\ v = m * q + s
  BY Z3
<1> HIDE DEF q, s
<1>2. CASE s + i < m
  <2>1. v + i = m * q + (s + i) /\ s + i \in 0 .. m - 1
    BY <1>1, <1>2
  <2>2. (v + i) % m = s + i
    BY <1>1, <2>1, RemainderIsUnique
  <2> QED BY <1>1, <1>2, <2>2 DEF s
<1>3. CASE ~(s + i < m)
  <2>1. v + i = m * (q + 1) + (s + i - m) /\ s + i - m \in 0 .. m - 1 /\ q + 1 \in Nat
    BY <1>1, <1>3
  <2>2. (v + i) % m = s + i - m
    BY <1>1, <2>1, RemainderIsUnique
  <2> QED BY <1>1, <1>3, <2>2 DEF s
<1> QED BY <1>2, <1>3

\* The r places that follow from v on, round a ring of m nodes, are different.
LEMMA RingPlaces ==
  ASSUME NEW m \in Nat, NEW r \in 1 .. m, NEW v \in Nat
  PROVE  /\ {(v + i) % m : i \in 0 .. r - 1} \subseteq 0 .. m - 1
         /\ IsFiniteSet({(v + i) % m : i \in 0 .. r - 1})
         /\ Cardinality({(v + i) % m : i \in 0 .. r - 1}) = r
<1> DEFINE node(i) == (v + i) % m
           f == [i \in 0 .. r - 1 |-> node(i)]
           places == {node(i) : i \in 0 .. r - 1}
           s == v % m
<1>1. s \in 0 .. m - 1
  BY RingStep
<1>2. \A i \in 0 .. r - 1 :
        node(i) = IF s + i < m THEN s + i ELSE s + i - m
  <2> SUFFICES ASSUME NEW i \in 0 .. r - 1
               PROVE  node(i) = IF s + i < m THEN s + i ELSE s + i - m
    OBVIOUS
  <2>1. i \in 0 .. m - 1 /\ m > 0
    OBVIOUS
  <2>2. (v + i) % m = IF (v % m) + i < m THEN (v % m) + i ELSE (v % m) + i - m
    BY <2>1, RingStep
  <2> QED BY <2>2
<1>3. places \subseteq 0 .. m - 1
  BY <1>1, <1>2
<1>4. f \in Bijection(0 .. r - 1, places)
  <2>1. f \in [0 .. r - 1 -> places]
    OBVIOUS
  <2>2. ASSUME NEW i \in 0 .. r - 1, NEW j \in 0 .. r - 1, f[i] = f[j]
        PROVE  i = j
    <3>1. node(i) = node(j)
      BY <2>2
    <3> HIDE DEF node, s
    <3> QED BY <1>1, <1>2, <3>1
  <2>3. \A y \in places : \E i \in 0 .. r - 1 : f[i] = y
    OBVIOUS
  <2> HIDE DEF f, places
  <2> QED BY <2>1, <2>2, <2>3 DEF Bijection, Injection, Surjection, IsInjective
<1>5. IsFiniteSet(0 .. r - 1) /\ Cardinality(0 .. r - 1) = r
  BY FS_Interval
<1>6. IsFiniteSet(places) /\ Cardinality(places) = r
  <2> HIDE DEF f, places
  <2>1. ExistsBijection(0 .. r - 1, places)
    BY <1>4 DEF ExistsBijection
  <2> QED BY <1>5, <2>1, FS_Bijection
<1> QED BY <1>3, <1>6
=============================================================================
