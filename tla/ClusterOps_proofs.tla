------------------------- MODULE ClusterOps_proofs -------------------------
(***************************************************************************)
(* Facts about the operators of ClusterOps, for every set of chunks, every *)
(* hash function, every replication factor and every number of nodes: what *)
(* the proofs about Cluster, FaultTolerance, Cli and CliTolerance share.   *)
(***************************************************************************)
EXTENDS ClusterOps, Numbers_proofs, FiniteSetTheorems, TLAPS

-----------------------------------------------------------------------------
(***************************************************************************)
(* Sets of nodes.                                                          *)
(***************************************************************************)
LEMMA NodesAreFinite ==
  ASSUME NEW m \in Nat, NEW S, S \subseteq Ids(m)
  PROVE  IsFiniteSet(S) /\ Cardinality(S) \in Nat
<1>1. IsFiniteSet(Ids(m))
  BY FS_Interval DEF Ids
<1>2. IsFiniteSet(S)
  BY <1>1, FS_Subset
<1> QED BY <1>2, FS_CardinalityType

\* Disjoint sets have together as many elements as both.
LEMMA DisjointUnion ==
  ASSUME NEW S, NEW T, IsFiniteSet(S), IsFiniteSet(T), S \cap T = {}
  PROVE  /\ IsFiniteSet(S \cup T)
         /\ Cardinality(S \cup T) = Cardinality(S) + Cardinality(T)
<1> DEFINE a == Cardinality(S)
           b == Cardinality(T)
<1>1. a \in Nat /\ b \in Nat
  BY FS_CardinalityType
<1>2. PICK f : f \in Bijection(1 .. a, S)
  BY FS_CardinalityType DEF ExistsBijection
<1>3. PICK g : g \in Bijection(1 .. b, T)
  BY FS_CardinalityType DEF ExistsBijection
<1> HIDE DEF a, b
<1>4. /\ f \in [1 .. a -> S]
      /\ \A i, j \in 1 .. a : f[i] = f[j] => i = j
      /\ \A x \in S : \E i \in 1 .. a : f[i] = x
  BY <1>2 DEF Bijection, Injection, Surjection, IsInjective
<1>5. /\ g \in [1 .. b -> T]
      /\ \A i, j \in 1 .. b : g[i] = g[j] => i = j
      /\ \A x \in T : \E i \in 1 .. b : g[i] = x
  BY <1>3 DEF Bijection, Injection, Surjection, IsInjective
<1> DEFINE k == [i \in 1 .. a + b |-> IF i <= a THEN f[i] ELSE g[i - a]]
<1>6. \A i \in 1 .. a + b : /\ i <= a => i \in 1 .. a /\ k[i] = f[i] /\ k[i] \in S
                            /\ ~(i <= a) => i - a \in 1 .. b /\ k[i] = g[i - a] /\ k[i] \in T
  BY <1>1, <1>4, <1>5
<1>7. k \in [1 .. a + b -> S \cup T]
  BY <1>6
<1>8. \A i, j \in 1 .. a + b : k[i] = k[j] => i = j
  <2> SUFFICES ASSUME NEW i \in 1 .. a + b, NEW j \in 1 .. a + b, k[i] = k[j]
               PROVE  i = j
    OBVIOUS
  <2> HIDE DEF k
  <2>1. (i <= a) <=> (j <= a)
    BY <1>6
  <2>2. CASE i <= a
    BY <1>4, <1>6, <2>1, <2>2
  <2>3. CASE ~(i <= a)
    <3>1. i - a = j - a
      BY <1>5, <1>6, <2>1, <2>3
    <3> QED BY <1>1, <3>1
  <2> QED BY <2>2, <2>3
<1>9. \A x \in S \cup T : \E i \in 1 .. a + b : k[i] = x
  <2>1. ASSUME NEW x \in S PROVE \E i \in 1 .. a + b : k[i] = x
    <3>1. PICK i \in 1 .. a : f[i] = x
      BY <1>4
    <3>2. i \in 1 .. a + b /\ i <= a
      BY <1>1
    <3> QED BY <3>1, <3>2
  <2>2. ASSUME NEW x \in T PROVE \E i \in 1 .. a + b : k[i] = x
    <3>1. PICK i \in 1 .. b : g[i] = x
      BY <1>5
    <3>2. a + i \in 1 .. a + b /\ ~(a + i <= a) /\ (a + i) - a = i
      BY <1>1
    <3> QED BY <3>1, <3>2
  <2> QED BY <2>1, <2>2
<1>10. ExistsBijection(1 .. a + b, S \cup T)
  <2> HIDE DEF k
  <2>1. k \in Bijection(1 .. a + b, S \cup T)
    BY <1>7, <1>8, <1>9 DEF Bijection, Injection, Surjection, IsInjective
  <2> QED BY <2>1 DEF ExistsBijection
<1>11. IsFiniteSet(1 .. a + b) /\ Cardinality(1 .. a + b) = a + b
  <2> DEFINE c == a + b
  <2>1. c \in Nat /\ c \in Int /\ 1 \in Int
    BY <1>1
  <2> HIDE DEF c
  <2>2. IsFiniteSet(1 .. c) /\ Cardinality(1 .. c) = IF 1 > c THEN 0 ELSE c - 1 + 1
    BY <2>1, FS_Interval
  <2>3. Cardinality(1 .. c) = c
    BY <2>1, <2>2
  <2> QED BY <2>2, <2>3 DEF c
<1> QED BY <1>10, <1>11, FS_Bijection DEF a, b

\* More intact replicas are at least as many; one fewer is one fewer.
LEMMA IntactGrows ==
  ASSUME NEW m \in Nat, NEW S, S \subseteq Ids(m), NEW T, T \subseteq S
  PROVE  /\ Cardinality(S) \in Nat /\ Cardinality(T) \in Nat
         /\ Cardinality(S) >= Cardinality(T)
<1>1. T \subseteq Ids(m)
  OBVIOUS
<1>2. IsFiniteSet(S) /\ Cardinality(S) \in Nat /\ Cardinality(T) \in Nat
  BY <1>1, NodesAreFinite
<1> QED BY <1>2, FS_Subset

LEMMA LosesOne ==
  ASSUME NEW m \in Nat, NEW S, S \subseteq Ids(m), NEW id
  PROVE  /\ Cardinality(S) \in Nat /\ Cardinality(S \ {id}) \in Nat
         /\ Cardinality(S \ {id}) >= Cardinality(S) - 1
<1>1. S \ {id} \subseteq Ids(m)
  OBVIOUS
<1>2. IsFiniteSet(S) /\ Cardinality(S) \in Nat /\ Cardinality(S \ {id}) \in Nat
  BY <1>1, NodesAreFinite
<1>3. Cardinality(S \ {id}) = IF id \in S THEN Cardinality(S) - 1 ELSE Cardinality(S)
  BY <1>2, FS_RemoveElement
<1> QED BY <1>2, <1>3

\* Every node is up or down.
LEMMA UpPlusDown ==
  ASSUME NEW m \in Nat, NEW ups \in [Ids(m) -> BOOLEAN]
  PROVE  LET U == {i \in Ids(m) : ups[i]}
             D == {i \in Ids(m) : ~ups[i]}
         IN  /\ Cardinality(U) \in Nat /\ Cardinality(D) \in Nat
             /\ Cardinality(U) = m - Cardinality(D)
<1> DEFINE U == {i \in Ids(m) : ups[i]}
           D == {i \in Ids(m) : ~ups[i]}
<1>1. U \subseteq Ids(m) /\ D \subseteq Ids(m) /\ U \cap D = {} /\ U \cup D = Ids(m)
  OBVIOUS
<1> HIDE DEF U, D
<1>2. /\ IsFiniteSet(U) /\ IsFiniteSet(D)
      /\ Cardinality(U) \in Nat /\ Cardinality(D) \in Nat
  BY <1>1, NodesAreFinite
<1>3. Cardinality(Ids(m)) = Cardinality(U) + Cardinality(D)
  BY <1>1, <1>2, DisjointUnion
<1>4. Cardinality(Ids(m)) = m
  BY FS_Interval DEF Ids
<1>5. Cardinality(U) = m - Cardinality(D)
  BY <1>2, <1>3, <1>4
<1> QED BY <1>2, <1>5 DEF U, D

-----------------------------------------------------------------------------
(***************************************************************************)
(* The walk and the placement set.                                         *)
(***************************************************************************)
\* Every node the walk round the ring meets is a node of the ring.
LEMMA WalkInRing ==
  ASSUME NEW h \in Chunk, NEW m \in Nat, m > 0, NEW i \in Nat
  PROVE  WalkNode(h, m, i) \in Ids(m)
<1>1. Hash[h] \in Nat
  BY HashAssumption
<1>2. placementStart(h, m) \in Nat
  BY <1>1 DEF placementStart
<1> QED BY <1>2 DEF WalkNode, Ids

\* The walk meets no node twice in one turn.
LEMMA WalkInjective ==
  ASSUME NEW h \in Chunk, NEW m \in Nat, m > 0,
         NEW i \in 0 .. m-1, NEW j \in 0 .. m-1,
         WalkNode(h, m, i) = WalkNode(h, m, j)
  PROVE  i = j
<1> DEFINE s == placementStart(h, m)
<1>1. s \in 0 .. m-1
  BY HashAssumption DEF placementStart
<1> HIDE DEF s
<1>2. (s + i) % m = IF s + i < m THEN s + i ELSE s + i - m
  BY <1>1
<1>3. (s + j) % m = IF s + j < m THEN s + j ELSE s + j - m
  BY <1>1
<1>4. (s + i) % m = (s + j) % m
  BY DEF WalkNode, s
<1> QED BY <1>1, <1>2, <1>3, <1>4

\* Every node is met within one turn of the walk.
LEMMA WalkReaches ==
  ASSUME NEW h \in Chunk, NEW m \in Nat, NEW u \in Ids(m)
  PROVE  \E k \in Ids(m) : WalkNode(h, m, k) = u
<1> DEFINE s == placementStart(h, m)
           k == IF u >= s THEN u - s ELSE u - s + m
<1>1. m > 0 /\ u \in 0 .. m - 1
  BY DEF Ids
<1>2. s \in 0 .. m - 1
  BY <1>1, HashAssumption DEF placementStart
<1> HIDE DEF s
<1>3. k \in Ids(m) /\ (s + k = u \/ s + k = u + m)
  BY <1>1, <1>2 DEF Ids
<1> HIDE DEF k
<1>4. (s + k) % m = IF s + k < m THEN s + k ELSE s + k - m
  BY <1>1, <1>2, <1>3 DEF Ids
<1>5. WalkNode(h, m, k) = u
  BY <1>1, <1>3, <1>4 DEF WalkNode, s
<1> QED BY <1>3, <1>5

\* Cluster.Placement: R distinct nodes of the ring, for every hash and every
\* number of nodes from R up ("so the r replicas are always distinct").
THEOREM PlacementIsRDistinctNodes ==
  ASSUME NEW h \in Chunk, NEW m \in Nat, m >= R
  PROVE  /\ Placement(h, m) \subseteq Ids(m)
         /\ IsFiniteSet(Placement(h, m))
         /\ Cardinality(Placement(h, m)) = R
<1> USE ReplicationAssumption
<1>1. Placement(h, m) \subseteq Ids(m)
  BY WalkInRing DEF Placement
<1> DEFINE f == [i \in 0 .. R-1 |-> WalkNode(h, m, i)]
<1>2. f \in Bijection(0 .. R-1, Placement(h, m))
  <2>1. f \in [0 .. R-1 -> Placement(h, m)]
    BY DEF Placement
  <2>2. \A i, j \in 0 .. R-1 : f[i] = f[j] => i = j
    BY WalkInjective
  <2>3. \A y \in Placement(h, m) : \E i \in 0 .. R-1 : f[i] = y
    BY DEF Placement
  <2> HIDE DEF f
  <2> QED BY <2>1, <2>2, <2>3 DEF Bijection, Injection, Surjection, IsInjective
<1>3. IsFiniteSet(0 .. R-1) /\ Cardinality(0 .. R-1) = R
  BY FS_Interval
<1>4. ExistsBijection(0 .. R-1, Placement(h, m))
  BY <1>2 DEF ExistsBijection
<1> QED BY <1>1, <1>3, <1>4, FS_Bijection

\* A placement set has at most as many nodes down as the ring has, so it has an
\* up node for each of its R beyond those.
LEMMA PlacedUp ==
  ASSUME NEW h \in Chunk, NEW m \in Nat, m >= R, NEW ups \in [Ids(m) -> BOOLEAN]
  PROVE  LET P == {i \in Placement(h, m) : ups[i]}
             k == Cardinality({i \in Ids(m) : ~ups[i]})
         IN  /\ P \subseteq Ids(m)
             /\ Cardinality(P) \in Nat /\ k \in Nat
             /\ Cardinality(P) + k >= R
<1> DEFINE P == {i \in Placement(h, m) : ups[i]}
           Q == {i \in Placement(h, m) : ~ups[i]}
           D == {i \in Ids(m) : ~ups[i]}
<1>1. Placement(h, m) \subseteq Ids(m) /\ Cardinality(Placement(h, m)) = R
  BY PlacementIsRDistinctNodes
<1>2. /\ P \subseteq Ids(m) /\ Q \subseteq D /\ D \subseteq Ids(m)
      /\ P \cap Q = {} /\ P \cup Q = Placement(h, m)
  BY <1>1
<1> HIDE DEF P, Q, D
<1>3. /\ IsFiniteSet(P) /\ IsFiniteSet(Q) /\ IsFiniteSet(D)
      /\ Cardinality(P) \in Nat /\ Cardinality(Q) \in Nat /\ Cardinality(D) \in Nat
  <2>1. Q \subseteq Ids(m)
    BY <1>2
  <2> QED BY <1>2, <2>1, NodesAreFinite
<1>4. R = Cardinality(P) + Cardinality(Q)
  BY <1>1, <1>2, <1>3, DisjointUnion
<1>5. Cardinality(Q) <= Cardinality(D)
  BY <1>2, <1>3, FS_Subset
<1>6. Cardinality(P) + Cardinality(D) >= R
  BY <1>3, <1>4, <1>5, ReplicationAssumption
<1> QED BY <1>2, <1>3, <1>6 DEF P, D

\* With fewer than R of m nodes down, a placement set has an up node.
LEMMA PlacedUpNode ==
  ASSUME NEW h \in Chunk, NEW m \in Nat, m >= R, NEW ups \in [Ids(m) -> BOOLEAN],
         Cardinality({i \in Ids(m) : ~ups[i]}) < R
  PROVE  \E i \in Placement(h, m) : ups[i]
<1> DEFINE P == {i \in Placement(h, m) : ups[i]}
           k == Cardinality({i \in Ids(m) : ~ups[i]})
<1>1. Cardinality(P) \in Nat /\ k \in Nat /\ Cardinality(P) + k >= R /\ k < R
  BY PlacedUp
<1>2. P # {}
  <2> HIDE DEF P, k
  <2>1. Cardinality(P) # 0
    BY <1>1, ReplicationAssumption
  <2> QED BY <2>1, FS_EmptySet
<1> QED BY <1>2

-----------------------------------------------------------------------------
(***************************************************************************)
(* The column operators take columns to columns.                           *)
(***************************************************************************)
LEMMA StoredType ==
  ASSUME NEW m \in Nat, NEW col \in [Ids(m) -> Replica], NEW r \in Replica, NEW ids
  PROVE  Stored(ids, r, col) \in [Ids(m) -> Replica]
BY DEF Stored

LEMMA RepairedType ==
  ASSUME NEW m \in Nat, NEW col \in [Ids(m) -> Replica], NEW ups, NEW h
  PROVE  Repaired(h, m, ups, col) \in [Ids(m) -> Replica]
<1>1. "intact" \in Replica
  BY DEF Replica
<1> QED BY <1>1, StoredType DEF Repaired

LEMMA LiveIsIds ==
  ASSUME NEW m \in Nat, NEW col \in [Ids(m) -> Replica], NEW ups
  PROVE  Live(ups, col) \subseteq Ids(m) /\ Live(ups, col) \subseteq Nat
BY DEF Live, Holders, Ids

LEMMA AvailableIsLive ==
  ASSUME NEW col, NEW ups
  PROVE  ChunkAvailable(ups, col) <=> Live(ups, col) # {}
BY DEF ChunkAvailable, Live, Holders

LEMMA RebalancedType ==
  ASSUME NEW m \in Nat, NEW col \in [Ids(m) -> Replica], NEW ups, NEW h
  PROVE  Rebalanced(h, m, ups, col) \in [Ids(m) -> Replica]
<1>1. CASE Live(ups, col) = {}
  BY <1>1 DEF Rebalanced
<1>2. CASE Live(ups, col) # {}
  <2>1. Least(Live(ups, col)) \in Ids(m)
    BY <1>2, LeastIn, LiveIsIds
  <2>2. col[Least(Live(ups, col))] \in Replica
    BY <2>1
  <2> QED BY <1>2, <2>2 DEF Rebalanced, Replica
<1> QED BY <1>1, <1>2

LEMMA DrainedType ==
  ASSUME NEW m \in Nat, NEW col \in [Ids(m) -> Replica], NEW ups, NEW id \in Ids(m)
  PROVE  Drained(id, ups, col) \in [Ids(m) -> Replica]
BY DEF Drained

LEMMA GrownType ==
  ASSUME NEW m \in Nat, NEW T, NEW f \in [Ids(m) -> T], NEW new \in T
  PROVE  Grown(f, m, new) \in [Ids(m+1) -> T]
BY DEF Grown, Ids

LEMMA ShrunkType ==
  ASSUME NEW m \in Nat, NEW T, NEW f \in [Ids(m) -> T], NEW id \in Ids(m)
  PROVE  Shrunk(f, m, id) \in [Ids(m-1) -> T]
BY DEF Shrunk, Ids

-----------------------------------------------------------------------------
(***************************************************************************)
(* Rebalance, drain and renumbering.                                       *)
(***************************************************************************)
\* Rebalance keeps a chunk that an up node holds on some up node, if fewer than
\* R nodes are down.
LEMMA RebalancedKeepsLive ==
  ASSUME NEW h \in Chunk, NEW m \in Nat, m >= R, NEW ups \in [Ids(m) -> BOOLEAN],
         NEW col \in [Ids(m) -> Replica],
         Cardinality({i \in Ids(m) : ~ups[i]}) < R,
         Live(ups, col) # {}
  PROVE  Live(ups, Rebalanced(h, m, ups, col)) # {}
<1>1. PICK i \in Placement(h, m) : ups[i]
  BY PlacedUpNode
<1>2. i \in Ids(m)
  BY PlacementIsRDistinctNodes
<1>3. Least(Live(ups, col)) \in Live(ups, col)
  BY LeastIn, LiveIsIds
<1>4. col[Least(Live(ups, col))] # "absent"
  BY <1>3 DEF Live, Holders
<1>5. Rebalanced(h, m, ups, col)[i] # "absent"
  BY <1>1, <1>2, <1>4 DEF Rebalanced
<1>6. i \in DOMAIN Rebalanced(h, m, ups, col)
  BY <1>2, RebalancedType
<1> QED BY <1>1, <1>5, <1>6 DEF Live, Holders

\* Rebalance leaves the live replicas of a chunk that has any on the up nodes of
\* its placement set, all of them and no others.
LEMMA RebalancedPlaces ==
  ASSUME NEW h \in Chunk, NEW m \in Nat, m >= R, NEW ups \in [Ids(m) -> BOOLEAN],
         NEW col \in [Ids(m) -> Replica]
  PROVE  Live(ups, Rebalanced(h, m, ups, col)) =
           IF Live(ups, col) # {} THEN {i \in Placement(h, m) : ups[i]} ELSE {}
<1>1. CASE Live(ups, col) = {}
  BY <1>1 DEF Rebalanced
<1>2. CASE Live(ups, col) # {}
  <2>1. Least(Live(ups, col)) \in Live(ups, col)
    BY <1>2, LeastIn, LiveIsIds
  <2>2. col[Least(Live(ups, col))] # "absent"
    BY <2>1 DEF Live, Holders
  <2>3. Placement(h, m) \subseteq Ids(m)
    BY PlacementIsRDistinctNodes
  <2>4. \A i \in Ids(m) : i \in Live(ups, Rebalanced(h, m, ups, col))
                            <=> ups[i] /\ i \in Placement(h, m)
    BY <1>2, <2>2 DEF Live, Holders, Rebalanced
  <2>5. Live(ups, Rebalanced(h, m, ups, col)) \subseteq Ids(m)
    BY RebalancedType, LiveIsIds
  <2> QED BY <1>2, <2>3, <2>4, <2>5
<1> QED BY <1>1, <1>2

\* The new node is up, so exactly the nodes that were down are down.
LEMMA GrownDown ==
  ASSUME NEW m \in Nat, NEW ups \in [Ids(m) -> BOOLEAN]
  PROVE  /\ Grown(ups, m, TRUE) \in [Ids(m + 1) -> BOOLEAN]
         /\ {i \in Ids(m + 1) : ~Grown(ups, m, TRUE)[i]} = {i \in Ids(m) : ~ups[i]}
         /\ \A i \in Ids(m) : i \in Ids(m + 1) /\ Grown(ups, m, TRUE)[i] = ups[i]
<1>1. Grown(ups, m, TRUE) \in [Ids(m + 1) -> BOOLEAN]
  BY GrownType
<1>2. Ids(m + 1) = Ids(m) \cup {m} /\ m \notin Ids(m)
  BY DEF Ids
<1>3. Grown(ups, m, TRUE)[m]
  BY <1>2 DEF Grown
<1>4. \A i \in Ids(m) : i \in Ids(m + 1) /\ Grown(ups, m, TRUE)[i] = ups[i]
  BY <1>2 DEF Grown
<1> QED BY <1>1, <1>2, <1>3, <1>4

\* Drain leaves a chunk that any node holds on a node other than the victim,
\* if there is an up node to drain to.
LEMMA DrainedKeepsHolder ==
  ASSUME NEW m \in Nat, NEW ups, NEW col \in [Ids(m) -> Replica], NEW id \in Ids(m),
         \E j \in Ids(m) \ {id} : ups[j],
         Holders(col) # {}
  PROVE  \E j \in Ids(m) \ {id} : Drained(id, ups, col)[j] # "absent"
<1> DEFINE targets == {j \in DOMAIN col \ {id} : ups[j]}
<1>1. targets # {} /\ targets \subseteq Ids(m) \ {id} /\ targets \subseteq Nat
  BY DEF Ids
<1>2. CASE \E j \in Ids(m) \ {id} : col[j] # "absent"
  BY <1>2 DEF Drained
<1>3. CASE \A j \in Ids(m) \ {id} : col[j] = "absent"
  <2>1. col[id] # "absent"
    BY <1>3 DEF Holders
  <2>2. Least(targets) \in targets
    <3> HIDE DEF targets
    <3> QED BY <1>1, LeastIn
  <2>3. Drained(id, ups, col) = [col EXCEPT ![Least(targets)] = col[id]]
    BY <1>1, <1>3, <2>1 DEF Drained
  <2> HIDE DEF targets
  <2> QED BY <1>1, <2>1, <2>2, <2>3
<1> QED BY <1>2, <1>3

\* Drain never touches a chunk that another node holds.
LEMMA DrainedLeavesHeld ==
  ASSUME NEW m \in Nat, NEW ups, NEW col \in [Ids(m) -> Replica], NEW id \in Ids(m),
         NEW j \in Ids(m) \ {id}, col[j] # "absent"
  PROVE  Drained(id, ups, col) = col
BY DEF Drained

\* After the drain some up node other than the victim holds the chunk exactly if
\* one did before or it was the victim's alone and there is one to drain to.
LEMMA DrainedSource ==
  ASSUME NEW m \in Nat, NEW ups, NEW col \in [Ids(m) -> Replica], NEW id \in Ids(m)
  PROVE  (\E j \in Ids(m) \ {id} : ups[j] /\ Drained(id, ups, col)[j] # "absent")
           <=> \/ Live(ups, col) \ {id} # {}
               \/ Holders(col) = {id} /\ \E j \in Ids(m) \ {id} : ups[j]
<1> DEFINE targets == {j \in Ids(m) \ {id} : ups[j]}
<1>1. CASE \E j \in Ids(m) \ {id} : col[j] # "absent"
  <2>1. PICK j \in Ids(m) \ {id} : col[j] # "absent"
    BY <1>1
  <2>2. Drained(id, ups, col) = col
    BY <2>1, DrainedLeavesHeld
  <2>3. Holders(col) # {id}
    BY <2>1 DEF Holders
  <2> QED BY <2>2, <2>3 DEF Live, Holders
<1>2. CASE \A j \in Ids(m) \ {id} : col[j] = "absent"
  <2>1. Live(ups, col) \ {id} = {}
    BY <1>2 DEF Live, Holders
  <2>2. CASE col[id] = "absent" \/ targets = {}
    <3>1. Drained(id, ups, col) = col
      BY <2>2 DEF Drained
    <3>2. col[id] = "absent" => Holders(col) # {id}
      BY DEF Holders
    <3> QED BY <1>2, <2>1, <2>2, <3>1, <3>2
  <2>3. CASE col[id] # "absent" /\ targets # {}
    <3>1. Drained(id, ups, col) = [col EXCEPT ![Least(targets)] = col[id]]
      BY <1>2, <2>3 DEF Drained
    <3>2. Least(targets) \in targets
      <4>1. targets \subseteq Nat
        BY DEF Ids
      <4> HIDE DEF targets
      <4> QED BY <2>3, <4>1, LeastIn
    <3>3. Drained(id, ups, col)[Least(targets)] # "absent"
      BY <2>3, <3>1, <3>2
    <3>4. Holders(col) = {id}
      BY <1>2, <2>3 DEF Holders
    <3>5. \E j \in targets : Drained(id, ups, col)[j] # "absent"
      BY <3>2, <3>3
    <3> QED BY <3>4, <3>5
  <2> QED BY <2>2, <2>3
<1> QED BY <1>1, <1>2

\* Renumbering takes the node j # id to j, or to j - 1.
LEMMA ShrunkKeeps ==
  ASSUME NEW m \in Nat, NEW id \in Ids(m), NEW f, NEW j \in Ids(m) \ {id}
  PROVE  \E i \in Ids(m - 1) : Shrunk(f, m, id)[i] = f[j]
<1>1. CASE j < id
  BY <1>1 DEF Shrunk, Ids
<1>2. CASE j > id
  <2>1. j - 1 \in Ids(m - 1) /\ ~(j - 1 < id) /\ (j - 1) + 1 = j
    BY <1>2 DEF Ids
  <2>2. Shrunk(f, m, id)[j - 1] = f[j]
    BY <2>1 DEF Shrunk
  <2> QED BY <2>1, <2>2
<1> QED BY <1>1, <1>2 DEF Ids

\* No more nodes are down after the removal than were among the others before.
LEMMA ShrunkDown ==
  ASSUME NEW m \in Nat, NEW id \in Ids(m), NEW ups \in [Ids(m) -> BOOLEAN]
  PROVE  LET before == {i \in Ids(m) : ~ups[i]} \ {id}
             after  == {i \in Ids(m - 1) : ~Shrunk(ups, m, id)[i]}
         IN  /\ IsFiniteSet(before) /\ IsFiniteSet(after)
             /\ Cardinality(after) <= Cardinality(before)
<1> DEFINE before == {i \in Ids(m) : ~ups[i]} \ {id}
           after  == {i \in Ids(m - 1) : ~Shrunk(ups, m, id)[i]}
           old(i) == IF i < id THEN i ELSE i + 1
           f      == [i \in after |-> old(i)]
<1>1. IsFiniteSet(before)
  <2>1. IsFiniteSet(Ids(m)) /\ before \subseteq Ids(m)
    BY FS_Interval DEF Ids
  <2> QED BY <2>1, FS_Subset
<1>2. f \in Injection(after, before)
  <2>1. \A i \in after : old(i) \in before
    BY DEF Shrunk, Ids
  <2>2. \A i, j \in after : old(i) = old(j) => i = j
    BY DEF Ids
  <2> HIDE DEF before, after, old
  <2> QED BY <2>1, <2>2 DEF Injection, IsInjective
<1> HIDE DEF before, after, f
<1>3. IsFiniteSet(after) /\ Cardinality(after) <= Cardinality(before)
  BY <1>1, <1>2, FS_Injection
<1> QED BY <1>1, <1>3 DEF before, after

\* Renumbering invents no replica.
LEMMA ShrunkFrom ==
  ASSUME NEW m \in Nat, NEW id \in Ids(m), NEW f, NEW i \in Ids(m - 1)
  PROVE  \E j \in Ids(m) : Shrunk(f, m, id)[i] = f[j]
<1>1. i \in Ids(m) /\ i + 1 \in Ids(m)
  BY DEF Ids
<1> QED BY <1>1 DEF Shrunk

\* An intact replica on an up node other than the victim is still there, on a
\* node that is still up, once the nodes are renumbered.
LEMMA ShrunkKeepsLive ==
  ASSUME NEW m \in Nat, NEW id \in Ids(m), NEW ups \in [Ids(m) -> BOOLEAN],
         NEW col \in [Ids(m) -> Replica],
         NEW j \in Ids(m) \ {id}, ups[j], col[j] # "absent"
  PROVE  Live(Shrunk(ups, m, id), Shrunk(col, m, id)) # {}
<1>1. PICK i \in Ids(m - 1) : Shrunk(ups, m, id)[i] = ups[j] /\ Shrunk(col, m, id)[i] = col[j]
  <2>1. CASE j < id
    <3>1. j \in Ids(m - 1)
      BY <2>1 DEF Ids
    <3>2. Shrunk(ups, m, id)[j] = ups[j] /\ Shrunk(col, m, id)[j] = col[j]
      BY <2>1, <3>1 DEF Shrunk
    <3> QED BY <3>1, <3>2
  <2>2. CASE j > id
    <3>1. j - 1 \in Ids(m - 1) /\ ~(j - 1 < id) /\ (j - 1) + 1 = j
      BY <2>2 DEF Ids
    <3>2. Shrunk(ups, m, id)[j - 1] = ups[j] /\ Shrunk(col, m, id)[j - 1] = col[j]
      BY <3>1 DEF Shrunk
    <3> QED BY <3>1, <3>2
  <2>3. j < id \/ j > id
    BY DEF Ids
  <2> QED BY <2>1, <2>2, <2>3
<1>2. DOMAIN Shrunk(col, m, id) = Ids(m - 1)
  BY DEF Shrunk
<1> QED BY <1>1, <1>2 DEF Live, Holders

\* Renumbering leaves some live replica exactly if an up node that stays has one.
LEMMA ShrunkLive ==
  ASSUME NEW m \in Nat, NEW id \in Ids(m), NEW ups \in [Ids(m) -> BOOLEAN],
         NEW col \in [Ids(m) -> Replica]
  PROVE  Live(Shrunk(ups, m, id), Shrunk(col, m, id)) # {}
           <=> \E j \in Ids(m) \ {id} : ups[j] /\ col[j] # "absent"
<1>1. ASSUME NEW i \in Live(Shrunk(ups, m, id), Shrunk(col, m, id))
      PROVE  \E j \in Ids(m) \ {id} : ups[j] /\ col[j] # "absent"
  <2> DEFINE j == IF i < id THEN i ELSE i + 1
  <2>1. i \in Ids(m - 1) /\ Shrunk(ups, m, id)[i] /\ Shrunk(col, m, id)[i] # "absent"
    BY <1>1 DEF Live, Holders, Shrunk
  <2>2. j \in Ids(m) \ {id}
    BY <2>1 DEF Ids
  <2>3. Shrunk(ups, m, id)[i] = ups[j] /\ Shrunk(col, m, id)[i] = col[j]
    BY <2>1 DEF Shrunk
  <2> HIDE DEF j
  <2> QED BY <2>1, <2>2, <2>3
<1>2. ASSUME NEW j \in Ids(m) \ {id}, ups[j], col[j] # "absent"
      PROVE  Live(Shrunk(ups, m, id), Shrunk(col, m, id)) # {}
  BY <1>2, ShrunkKeepsLive
<1> QED BY <1>1, <1>2

-----------------------------------------------------------------------------
(***************************************************************************)
(* The walk of one repair: a count of the nodes that it fills before R     *)
(* replicas are live.                                                      *)
(***************************************************************************)

\* Up nodes without a replica.
Spare(m, ups, col) == {i \in Ids(m) : ups[i] /\ col[i] = "absent"}

\* Those met in the first k steps.
Before(h, m, ups, col, k) == {WalkNode(h, m, j) : j \in 0 .. k-1} \cap Spare(m, ups, col)

LiveCount(ups, col) == Cardinality(Intact(ups, col)) + Cardinality(Bad(ups, col))

\* The steps at which a node is filled, and the nodes.
Turns(h, m, ups, col) ==
  {k \in Ids(m) : /\ WalkNode(h, m, k) \in Spare(m, ups, col)
                  /\ LiveCount(ups, col) + Cardinality(Before(h, m, ups, col, k)) < R}

Filled(h, m, ups, col) == {WalkNode(h, m, k) : k \in Turns(h, m, ups, col)}

LEMMA RepairedIs ==
  ASSUME NEW h, NEW m, NEW ups, NEW col
  PROVE  Repaired(h, m, ups, col) =
           IF Intact(ups, col) = {} THEN col
           ELSE Stored(Bad(ups, col) \cup Filled(h, m, ups, col), "intact", col)
<1> DEFINE live == LiveCount(ups, col)
           spare == Spare(m, ups, col)
           filled == {i \in spare : \E k \in Ids(m) :
                        /\ WalkNode(h, m, k) = i
                        /\ live + Cardinality(Before(h, m, ups, col, k)) < R}
<1>1. filled = Filled(h, m, ups, col)
  BY DEF Filled, Turns
<1>2. Repaired(h, m, ups, col) =
        IF Intact(ups, col) = {} THEN col ELSE Stored(Bad(ups, col) \cup filled, "intact", col)
  BY DEF Repaired, LiveCount, Spare, Before
<1> QED BY <1>1, <1>2

LEMMA LiveParts ==
  ASSUME NEW m \in Nat, NEW ups, NEW col \in [Ids(m) -> Replica]
  PROVE  /\ Live(ups, col) = Intact(ups, col) \cup Bad(ups, col)
         /\ Intact(ups, col) \cap Bad(ups, col) = {}
         /\ Live(ups, col) = {i \in Ids(m) : ups[i] /\ col[i] # "absent"}
         /\ LiveCount(ups, col) = Cardinality(Live(ups, col))
         /\ LiveCount(ups, col) \in Nat
<1>1. /\ Live(ups, col) = Intact(ups, col) \cup Bad(ups, col)
      /\ Intact(ups, col) \cap Bad(ups, col) = {}
      /\ Live(ups, col) = {i \in Ids(m) : ups[i] /\ col[i] # "absent"}
  BY DEF Live, Holders, Intact, Bad, Replica
<1>2. /\ Live(ups, col) \subseteq Ids(m)
      /\ Intact(ups, col) \subseteq Ids(m)
      /\ Bad(ups, col) \subseteq Ids(m)
  BY <1>1
<1>3. /\ IsFiniteSet(Intact(ups, col)) /\ IsFiniteSet(Bad(ups, col))
      /\ Cardinality(Intact(ups, col)) \in Nat /\ Cardinality(Bad(ups, col)) \in Nat
  BY <1>2, NodesAreFinite
<1>4. LiveCount(ups, col) = Cardinality(Live(ups, col))
  BY <1>1, <1>3, DisjointUnion DEF LiveCount
<1> QED BY <1>1, <1>3, <1>4 DEF LiveCount

LEMMA FilledNodes ==
  ASSUME NEW h, NEW m \in Nat, NEW ups, NEW col
  PROVE  /\ Filled(h, m, ups, col) \subseteq Spare(m, ups, col)
         /\ Spare(m, ups, col) \subseteq Ids(m)
         /\ \A k : Before(h, m, ups, col, k) \subseteq Ids(m)
BY DEF Filled, Turns, Spare, Before

\* The walk does not stop early: R replicas are live or every up node has one.
LEMMA FilledEnough ==
  ASSUME NEW h \in Chunk, NEW m \in Nat, NEW ups, NEW col \in [Ids(m) -> Replica]
  PROVE  \/ LiveCount(ups, col) + Cardinality(Filled(h, m, ups, col)) >= R
         \/ Spare(m, ups, col) \subseteq Filled(h, m, ups, col)
<1> DEFINE live == LiveCount(ups, col)
           filled == Filled(h, m, ups, col)
           seen(k) == Before(h, m, ups, col, k)
           Full == {k \in Ids(m) : ~(live + Cardinality(seen(k)) < R)}
<1> SUFFICES ASSUME NEW u \in Spare(m, ups, col), u \notin filled
             PROVE  live + Cardinality(filled) >= R
  OBVIOUS
<1>1. /\ live \in Nat /\ R \in Nat
      /\ filled \subseteq Ids(m) /\ u \in Ids(m)
      /\ \A k : seen(k) \subseteq Ids(m)
  BY LiveParts, FilledNodes, ReplicationAssumption
<1>2. PICK k \in Ids(m) : WalkNode(h, m, k) = u
  BY <1>1, WalkReaches
<1>3. k \in Full
  BY <1>2 DEF Filled, Turns
<1>4. Full \subseteq Nat
  BY DEF Ids
<1>5. Least(Full) \in Full /\ \A j \in Full : Least(Full) <= j
  <2> HIDE DEF Full
  <2> QED BY <1>3, <1>4, LeastIn
<1> DEFINE k0 == Least(Full)
<1>6. seen(k0) \subseteq filled
  <2> SUFFICES ASSUME NEW x \in seen(k0)
               PROVE  x \in filled
    OBVIOUS
  <2>1. PICK j \in 0 .. k0 - 1 : WalkNode(h, m, j) = x
    BY DEF Before
  <2>2. x \in Spare(m, ups, col)
    BY DEF Before
  <2>3. k0 \in 0 .. m - 1
    BY <1>5 DEF Ids
  <2> HIDE DEF k0
  <2>4. j \in Ids(m) /\ j < k0
    BY <2>1, <2>3 DEF Ids
  <2>5. j \notin Full
    <3> HIDE DEF Full
    <3>1. ~(k0 <= j)
      BY <2>1, <2>3
    <3> QED BY <1>5, <3>1 DEF k0
  <2>6. j \in Turns(h, m, ups, col)
    BY <2>1, <2>2, <2>4, <2>5 DEF Turns
  <2> QED BY <2>1, <2>6 DEF Filled
<1>7. Cardinality(seen(k0)) <= Cardinality(filled)
  <2>1. IsFiniteSet(filled)
    BY <1>1, NodesAreFinite
  <2> HIDE DEF filled, seen, k0
  <2> QED BY <1>6, <2>1, FS_Subset
<1>8. Cardinality(seen(k0)) \in Nat /\ Cardinality(filled) \in Nat
  <2> HIDE DEF filled, seen, k0
  <2> QED BY <1>1, NodesAreFinite
<1>9. ~(live + Cardinality(seen(k0)) < R)
  BY <1>5
<1> HIDE DEF live, filled, seen, k0
<1> QED BY <1>1, <1>7, <1>8, <1>9

\* Nor does it go on: it never makes more than R live.
LEMMA FilledFew ==
  ASSUME NEW h \in Chunk, NEW m \in Nat, NEW ups, NEW col \in [Ids(m) -> Replica],
         Filled(h, m, ups, col) # {}
  PROVE  LiveCount(ups, col) + Cardinality(Filled(h, m, ups, col)) <= R
<1> DEFINE live == LiveCount(ups, col)
           filled == Filled(h, m, ups, col)
           seen(k) == Before(h, m, ups, col, k)
           T == Turns(h, m, ups, col)
           Back == {m - 1 - k : k \in T}
<1>1. /\ live \in Nat /\ R \in Nat
      /\ filled \subseteq Ids(m) /\ T \subseteq Ids(m) /\ T # {}
      /\ \A k : seen(k) \subseteq Ids(m)
  BY LiveParts, FilledNodes, ReplicationAssumption DEF Turns, Filled
<1>2. Back \subseteq Nat /\ Back # {}
  <2> HIDE DEF T
  <2>1. \A k \in T : k \in 0 .. m - 1
    BY <1>1 DEF Ids
  <2>2. \A k \in T : m - 1 - k \in Nat
    BY <2>1
  <2>3. PICK k : k \in T
    BY <1>1
  <2> QED BY <2>2, <2>3
<1>3. Least(Back) \in Back /\ \A j \in Back : Least(Back) <= j
  <2> HIDE DEF Back
  <2> QED BY <1>2, LeastIn
<1>4. PICK k \in T : Least(Back) = m - 1 - k
  BY <1>3
<1>5. ASSUME NEW j \in T PROVE j <= k
  <2>1. m - 1 - j \in Back
    OBVIOUS
  <2>2. m - 1 - k <= m - 1 - j
    BY <1>3, <1>4, <2>1
  <2>3. j \in 0 .. m - 1 /\ k \in 0 .. m - 1
    BY <1>1 DEF Ids
  <2> QED BY <2>2, <2>3
<1>6. filled \subseteq seen(k) \cup {WalkNode(h, m, k)}
  <2> SUFFICES ASSUME NEW x \in filled, x # WalkNode(h, m, k)
               PROVE  x \in seen(k)
    OBVIOUS
  <2>1. PICK j \in T : x = WalkNode(h, m, j)
    BY DEF Filled
  <2>2. j \in 0 .. k - 1
    <3>1. j \in 0 .. m - 1 /\ k \in 0 .. m - 1 /\ j # k
      BY <1>1, <2>1 DEF Ids
    <3> QED BY <1>5, <3>1
  <2>3. x \in Spare(m, ups, col)
    BY FilledNodes
  <2> QED BY <2>1, <2>2, <2>3 DEF Before
<1>7. live + Cardinality(seen(k)) < R
  BY DEF Turns
<1> HIDE DEF live, filled, seen, T, Back
<1>8. IsFiniteSet(seen(k)) /\ Cardinality(seen(k)) \in Nat /\ Cardinality(filled) \in Nat
  BY <1>1, NodesAreFinite
<1>9. /\ IsFiniteSet(seen(k) \cup {WalkNode(h, m, k)})
      /\ Cardinality(seen(k) \cup {WalkNode(h, m, k)}) <= Cardinality(seen(k)) + 1
  <2> DEFINE S == seen(k)
             w == WalkNode(h, m, k)
  <2>1. IsFiniteSet(S) /\ Cardinality(S) \in Nat
    BY <1>8
  <2> HIDE DEF S, w
  <2>2. /\ IsFiniteSet(S \cup {w})
        /\ Cardinality(S \cup {w}) = IF w \in S THEN Cardinality(S) ELSE Cardinality(S) + 1
    BY <2>1, FS_AddElement
  <2>3. Cardinality(S \cup {w}) <= Cardinality(S) + 1
    BY <2>1, <2>2
  <2> QED BY <2>2, <2>3 DEF S, w
<1>10. /\ Cardinality(filled) <= Cardinality(seen(k) \cup {WalkNode(h, m, k)})
       /\ Cardinality(seen(k) \cup {WalkNode(h, m, k)}) \in Nat
  BY <1>6, <1>9, FS_Subset, FS_CardinalityType
<1>11. live + Cardinality(filled) <= R
  BY <1>1, <1>7, <1>8, <1>9, <1>10
<1> QED BY <1>11 DEF live, filled

\* What a repair leaves: with an intact source every live replica is intact, and
\* the live ones are those there were and the nodes filled.
LEMMA HealedColumn ==
  ASSUME NEW h \in Chunk, NEW m \in Nat, NEW ups, NEW col \in [Ids(m) -> Replica],
         Intact(ups, col) # {}
  PROVE  LET healed == Repaired(h, m, ups, col)
         IN  /\ healed \in [Ids(m) -> Replica]
             /\ Bad(ups, healed) = {}
             /\ Intact(ups, healed) = Live(ups, col) \cup Filled(h, m, ups, col)
             /\ Live(ups, healed) = Intact(ups, healed)
             /\ Cardinality(Intact(ups, healed))
                  = LiveCount(ups, col) + Cardinality(Filled(h, m, ups, col))
<1> DEFINE healed == Repaired(h, m, ups, col)
           filled == Filled(h, m, ups, col)
           bad == Bad(ups, col)
<1>1. healed \in [Ids(m) -> Replica]
  BY RepairedType
<1>2. healed = [i \in Ids(m) |-> IF i \in bad \cup filled THEN "intact" ELSE col[i]]
  BY RepairedIs DEF Stored
<1>3. \A i \in filled : i \in Ids(m) /\ ups[i] /\ col[i] = "absent"
  BY FilledNodes DEF Spare
<1>4. /\ Live(ups, col) = Intact(ups, col) \cup bad
      /\ Live(ups, col) = {i \in Ids(m) : ups[i] /\ col[i] # "absent"}
      /\ LiveCount(ups, col) = Cardinality(Live(ups, col))
  BY LiveParts
<1>5. /\ Live(ups, healed) = {i \in Ids(m) : ups[i] /\ healed[i] # "absent"}
      /\ Live(ups, healed) = Intact(ups, healed) \cup Bad(ups, healed)
      /\ Intact(ups, healed) \cap Bad(ups, healed) = {}
  BY <1>1, LiveParts
<1>6. \A i : i \in bad <=> i \in Ids(m) /\ ups[i] /\ col[i] = "corrupt"
  BY <1>4 DEF Bad
<1> HIDE DEF healed, filled, bad
<1>7. \A i \in Ids(m) : ups[i] => healed[i] # "corrupt"
  BY <1>2, <1>6
<1>8. Bad(ups, healed) = {}
  BY <1>5, <1>7 DEF Bad
<1>9. Live(ups, healed) = Live(ups, col) \cup filled
  BY <1>2, <1>3, <1>4, <1>5, <1>6
<1>10. Live(ups, col) \cap filled = {}
  BY <1>3, <1>4
<1>11. IsFiniteSet(Live(ups, col)) /\ IsFiniteSet(filled)
  BY <1>3, <1>4, NodesAreFinite
<1>12. Cardinality(Live(ups, col) \cup filled) = Cardinality(Live(ups, col)) + Cardinality(filled)
  BY <1>10, <1>11, DisjointUnion
<1>13. Intact(ups, healed) = Live(ups, healed)
  BY <1>5, <1>8
<1> QED BY <1>1, <1>4, <1>8, <1>9, <1>12, <1>13 DEF healed, filled

LEMMA HealedEnough ==
  ASSUME NEW h \in Chunk, NEW m \in Nat, NEW ups, NEW col \in [Ids(m) -> Replica],
         Intact(ups, col) # {}
  PROVE  LET healed == Repaired(h, m, ups, col)
         IN  \/ Cardinality(Intact(ups, healed)) >= R
             \/ Intact(ups, healed) = {i \in Ids(m) : ups[i]}
<1> DEFINE healed == Repaired(h, m, ups, col)
<1>1. /\ Intact(ups, healed) = Live(ups, col) \cup Filled(h, m, ups, col)
      /\ Cardinality(Intact(ups, healed))
           = LiveCount(ups, col) + Cardinality(Filled(h, m, ups, col))
  BY HealedColumn
<1>2. CASE LiveCount(ups, col) + Cardinality(Filled(h, m, ups, col)) >= R
  BY <1>1, <1>2
<1>3. CASE Spare(m, ups, col) \subseteq Filled(h, m, ups, col)
  <2>1. Live(ups, col) = {i \in Ids(m) : ups[i] /\ col[i] # "absent"}
    BY LiveParts
  <2>2. Filled(h, m, ups, col) = {i \in Ids(m) : ups[i] /\ col[i] = "absent"}
    BY <1>3, FilledNodes DEF Spare
  <2> QED BY <1>1, <2>1, <2>2
<1> QED BY <1>2, <1>3, FilledEnough
=============================================================================
