--------------------------- MODULE Cluster_proofs ---------------------------
(***************************************************************************)
(* Theorems about Cluster and FaultTolerance, for every set of chunks,     *)
(* every hash function, every replication factor, every number of nodes    *)
(* and every history of failures, recoveries, rot, uploads, repairs and    *)
(* topology changes.                                                       *)
(***************************************************************************)
EXTENDS FaultTolerance, ClusterOps_proofs

-----------------------------------------------------------------------------
(***************************************************************************)
(* Type correctness.                                                       *)
(***************************************************************************)
LEMMA InitTypeOK == Init => TypeOK
BY DEF Init, TypeOK, Replica

LEMMA NextTypeOK == TypeOK /\ [Next]_vars => TypeOK'
<1> SUFFICES ASSUME TypeOK, [Next]_vars
             PROVE  TypeOK'
  OBVIOUS
<1> USE ReplicationAssumption, MaxNodesAssumption DEF TypeOK
<1>0. n \in Nat /\ "intact" \in Replica /\ "absent" \in Replica /\ "corrupt" \in Replica
  BY DEF Replica
<1>1. ASSUME NEW h \in Chunk, Put(h) PROVE TypeOK'
  BY <1>0, <1>1, StoredType DEF Put
<1>2. ASSUME NEW id \in Ids(n), NEW flag \in BOOLEAN, SetUp(id, flag) PROVE TypeOK'
  BY <1>2 DEF SetUp
<1>3. CASE RecoverAll
  BY <1>3 DEF RecoverAll
<1>4. ASSUME NEW id \in Ids(n), NEW h \in Chunk, Corrupt(id, h) PROVE TypeOK'
  BY <1>0, <1>4 DEF Corrupt
<1>5. CASE Repair
  BY <1>0, <1>5, RepairedType DEF Repair
<1>6. CASE AddNode
  <2>1. n' = n + 1 /\ n + 1 \in R .. MaxNodes /\ n + 1 \in Nat
    BY <1>6 DEF AddNode
  <2>2. up' \in [Ids(n + 1) -> BOOLEAN]
    BY <1>0, <1>6, GrownType DEF AddNode
  <2>3. \A h \in Chunk : Grown(data[h], n, "absent") \in [Ids(n + 1) -> Replica]
    BY <1>0, GrownType
  <2>4. \A h \in Chunk : Rebalanced(h, n + 1, up', Grown(data[h], n, "absent"))
                           \in [Ids(n + 1) -> Replica]
    BY <2>1, <2>3, RebalancedType
  <2>5. data' \in [Chunk -> [Ids(n + 1) -> Replica]]
    BY <1>6, <2>4 DEF AddNode
  <2> QED BY <2>1, <2>2, <2>5
<1>7. ASSUME NEW id \in Ids(n), RemoveNode(id) PROVE TypeOK'
  <2>1. n' = n - 1 /\ n - 1 \in R .. MaxNodes /\ n - 1 \in Nat
    BY <1>7 DEF RemoveNode
  <2>2. up' \in [Ids(n - 1) -> BOOLEAN]
    BY <1>0, <1>7, ShrunkType DEF RemoveNode
  <2>3. \A h \in Chunk : Shrunk(Drained(id, up, data[h]), n, id) \in [Ids(n - 1) -> Replica]
    BY <1>0, DrainedType, ShrunkType
  <2>4. \A h \in Chunk :
          Rebalanced(h, n - 1, up', Shrunk(Drained(id, up, data[h]), n, id))
            \in [Ids(n - 1) -> Replica]
    BY <2>1, <2>3, RebalancedType
  <2>5. data' \in [Chunk -> [Ids(n - 1) -> Replica]]
    BY <1>7, <2>4 DEF RemoveNode
  <2> QED BY <2>1, <2>2, <2>5
<1>8. CASE UNCHANGED vars
  BY <1>8 DEF vars
<1> QED BY <1>1, <1>2, <1>3, <1>4, <1>5, <1>6, <1>7, <1>8 DEF Next

\* No sequence of operations takes the cluster out of its types: the ring keeps
\* between R and MaxNodes nodes, every map has an entry per node.
THEOREM TypeCorrect == Spec => []TypeOK
BY InitTypeOK, NextTypeOK, PTL DEF Spec

-----------------------------------------------------------------------------
(***************************************************************************)
(* Reads.                                                                  *)
(***************************************************************************)
LEMMA TypeOKGet == TypeOK => GetFindsAnyLiveReplica
<1> SUFFICES ASSUME TypeOK, NEW h \in Chunk
             PROVE  LET id == Get(h, n, up, data[h])
                    IN  /\ ChunkAvailable(up, data[h]) <=> id # -1
                        /\ id # -1 => /\ id \in Live(up, data[h])
                                      /\ \/ id \in Placement(h, n)
                                         \/ Live(up, data[h]) \cap Placement(h, n) = {}
  BY DEF GetFindsAnyLiveReplica
<1> DEFINE L == Live(up, data[h])
           P == L \cap Placement(h, n)
<1>1. n \in Nat /\ data[h] \in [Ids(n) -> Replica]
  BY ReplicationAssumption, MaxNodesAssumption DEF TypeOK
<1>2. L \subseteq Nat /\ P \subseteq Nat
  BY <1>1, LiveIsIds
<1>3. ChunkAvailable(up, data[h]) <=> L # {}
  BY AvailableIsLive
<1>4. Get(h, n, up, data[h]) = IF P # {} THEN Least(P) ELSE IF L # {} THEN Least(L) ELSE -1
  BY DEF Get
<1>5. P # {} => Least(P) \in P
  BY <1>2, LeastIn
<1>6. L # {} => Least(L) \in L
  BY <1>2, LeastIn
<1> HIDE DEF L
<1>7. -1 \notin L
  BY <1>2
<1> QED BY <1>3, <1>4, <1>5, <1>6, <1>7 DEF L

\* Cluster.Get reads a chunk exactly when an up node holds it, in every state
\* that failures, repairs and topology changes can reach.
THEOREM GetIsComplete == Spec => []GetFindsAnyLiveReplica
BY TypeCorrect, TypeOKGet, PTL

-----------------------------------------------------------------------------
(***************************************************************************)
(* Topology changes.                                                       *)
(***************************************************************************)
\* AddNode with fewer than R nodes down keeps every available chunk available.
THEOREM GrowthIsSafe == Spec => GrowthKeepsAvailable
<1>1. ASSUME TypeOK, AddNode, Cardinality(Down) < R,
             NEW h \in Chunk, ChunkAvailable(up, data[h])
      PROVE  ChunkAvailable(up', data'[h])
  <2> DEFINE col == Grown(data[h], n, "absent")
  <2>1. n \in Nat /\ n + 1 \in Nat /\ n + 1 >= R /\ R \in Nat
    BY <1>1, ReplicationAssumption, MaxNodesAssumption DEF TypeOK
  <2>2. col \in [Ids(n + 1) -> Replica]
    BY <1>1, <2>1, GrownType DEF TypeOK, Replica
  <2>3. up' \in [Ids(n + 1) -> BOOLEAN] /\ up' = Grown(up, n, TRUE)
    BY <1>1, <2>1, GrownType DEF AddNode, TypeOK
  <2>4. {i \in Ids(n + 1) : ~up'[i]} = Down
    <3>1. up'[n]
      <4>1. n \in Ids(n + 1)
        BY <2>1 DEF Ids
      <4> QED BY <2>3, <4>1 DEF Grown
    <3>3. \A i \in Ids(n) : up'[i] <=> up[i]
      <4>1. ASSUME NEW i \in Ids(n) PROVE up'[i] <=> up[i]
        <5>1. i \in Ids(n + 1) /\ i # n
          BY <2>1 DEF Ids
        <5> QED BY <2>3, <5>1 DEF Grown
      <4> QED BY <4>1
    <3>2. Ids(n + 1) = Ids(n) \cup {n}
      BY <2>1 DEF Ids
    <3> QED BY <3>1, <3>2, <3>3 DEF Down
  <2>5. Live(up', col) # {}
    <3>1. PICK i \in Ids(n) : up[i] /\ data[h][i] # "absent"
      BY <1>1 DEF ChunkAvailable, TypeOK
    <3>2. i \in Ids(n + 1) /\ up'[i] /\ col[i] # "absent"
      BY <2>1, <2>3, <3>1 DEF Grown, Ids
    <3> QED BY <2>2, <3>2 DEF Live, Holders
  <2>6. data'[h] = Rebalanced(h, n + 1, up', col)
    BY <1>1 DEF AddNode
  <2> HIDE DEF col
  <2>7. Live(up', data'[h]) # {}
    BY <1>1, <2>1, <2>2, <2>3, <2>4, <2>5, <2>6, RebalancedKeepsLive
  <2> QED BY <2>7, AvailableIsLive
<1>2. TypeOK /\ [Next]_vars =>
        [AddNode /\ Cardinality(Down) < R =>
           \A h \in Chunk : ChunkAvailable(up, data[h]) => ChunkAvailable(up', data'[h])]_vars
  BY <1>1
<1> QED BY <1>2, TypeCorrect, PTL DEF Spec, GrowthKeepsAvailable

\* rebalanceLocked leaves the live replicas of every chunk exactly on the up nodes
\* of its new placement set, all of them, whenever there was one to copy from: an
\* up node's that stays, or the one the drain made; and none when there was not.
THEOREM RebalanceIsExact == Spec => RebalanceMatchesPlacement
<1> USE ReplicationAssumption, MaxNodesAssumption
<1>1. ASSUME TypeOK, AddNode, NEW h \in Chunk
      PROVE  Live(up', data'[h]) =
               IF Live(up, data[h]) # {} THEN {i \in Placement(h, n') : up'[i]} ELSE {}
  <2> DEFINE m == n + 1
             ups == Grown(up, n, TRUE)
             col == Grown(data[h], n, "absent")
  <2>1. n \in Nat /\ data[h] \in [Ids(n) -> Replica] /\ up \in [Ids(n) -> BOOLEAN]
        /\ m \in Nat /\ m >= R
    BY <1>1 DEF TypeOK
  <2>2. /\ ups \in [Ids(m) -> BOOLEAN]
        /\ \A i \in Ids(n) : i \in Ids(m) /\ ups[i] = up[i]
    BY <2>1, GrownDown
  <2>3. col \in [Ids(m) -> Replica]
    BY <2>1, GrownType DEF Replica
  <2>4. n' = m /\ up' = ups /\ data'[h] = Rebalanced(h, m, ups, col)
    BY <1>1 DEF AddNode
  <2>5. Live(ups, col) # {} <=> Live(up, data[h]) # {}
    <3>1. Ids(m) = Ids(n) \cup {n} /\ n \notin Ids(n)
      BY <2>1 DEF Ids
    <3>2. col[n] = "absent" /\ \A i \in Ids(n) : col[i] = data[h][i]
      BY <3>1 DEF Grown
    <3> HIDE DEF m, ups, col
    <3> QED BY <2>1, <2>2, <2>3, <3>1, <3>2 DEF Live, Holders
  <2> HIDE DEF m, ups, col
  <2>6. Live(ups, Rebalanced(h, m, ups, col)) =
          IF Live(ups, col) # {} THEN {i \in Placement(h, m) : ups[i]} ELSE {}
    BY <2>1, <2>2, <2>3, RebalancedPlaces
  <2> QED BY <2>4, <2>5, <2>6
<1>2. ASSUME TypeOK, NEW id \in Ids(n), RemoveNode(id), NEW h \in Chunk
      PROVE  Live(up', data'[h]) =
               IF \/ Live(up, data[h]) \ {id} # {}
                  \/ Holders(data[h]) = {id} /\ \E j \in Ids(n) \ {id} : up[j]
               THEN {i \in Placement(h, n') : up'[i]} ELSE {}
  <2> DEFINE drained == Drained(id, up, data[h])
             m == n - 1
             ups == Shrunk(up, n, id)
             col == Shrunk(drained, n, id)
  <2>1. n \in Nat /\ data[h] \in [Ids(n) -> Replica] /\ up \in [Ids(n) -> BOOLEAN]
        /\ m \in Nat /\ m >= R
    BY <1>2 DEF RemoveNode, TypeOK
  <2>2. drained \in [Ids(n) -> Replica]
    BY <2>1, DrainedType
  <2>3. ups \in [Ids(m) -> BOOLEAN] /\ col \in [Ids(m) -> Replica]
    BY <2>1, <2>2, ShrunkType
  <2>4. n' = m /\ up' = ups /\ data'[h] = Rebalanced(h, m, ups, col)
    BY <1>2 DEF RemoveNode
  <2>5. (\E j \in Ids(n) \ {id} : up[j] /\ drained[j] # "absent")
          <=> \/ Live(up, data[h]) \ {id} # {}
              \/ Holders(data[h]) = {id} /\ \E j \in Ids(n) \ {id} : up[j]
    BY <2>1, DrainedSource
  <2> HIDE DEF drained
  <2>6. Live(ups, col) # {} <=> \E j \in Ids(n) \ {id} : up[j] /\ drained[j] # "absent"
    BY <2>1, <2>2, ShrunkLive
  <2> HIDE DEF m, ups, col
  <2>7. Live(ups, Rebalanced(h, m, ups, col)) =
          IF Live(ups, col) # {} THEN {i \in Placement(h, m) : ups[i]} ELSE {}
    BY <2>1, <2>3, RebalancedPlaces
  <2> QED BY <2>4, <2>5, <2>6, <2>7
<1>3. TypeOK /\ [Next]_vars =>
        [\A h \in Chunk :
           LET placed == {i \in Placement(h, n') : up'[i]}
               drainedTo(id) == Holders(data[h]) = {id} /\ \E j \in Ids(n) \ {id} : up[j]
           IN  /\ AddNode =>
                    Live(up', data'[h]) = IF Live(up, data[h]) # {} THEN placed ELSE {}
               /\ \A id \in Ids(n) : RemoveNode(id) =>
                    Live(up', data'[h]) =
                      IF Live(up, data[h]) \ {id} # {} \/ drainedTo(id)
                      THEN placed ELSE {}]_vars
  BY <1>1, <1>2
<1> QED BY <1>3, TypeCorrect, PTL DEF Spec, RebalanceMatchesPlacement

\* RemoveNode with fewer than R of the other nodes down loses no chunk.
THEOREM RemovalIsSafe == Spec => RemovalKeepsEveryChunk
<1> USE ReplicationAssumption, MaxNodesAssumption
<1>1. ASSUME TypeOK, NEW id \in Ids(n), RemoveNode(id), Cardinality(Down \ {id}) < R,
             NEW h \in Chunk, Holders(data[h]) # {}
      PROVE  Holders(data'[h]) # {}
  <2> DEFINE drained == Drained(id, up, data[h])
             col == Shrunk(drained, n, id)
             m == n - 1
             downs == {i \in Ids(m) : ~up'[i]}
  <2>1. n \in Nat /\ m \in Nat /\ m >= R /\ R \in Nat
    BY <1>1 DEF TypeOK, RemoveNode
  <2>2. data[h] \in [Ids(n) -> Replica] /\ drained \in [Ids(n) -> Replica]
        /\ col \in [Ids(m) -> Replica]
    BY <1>1, <2>1, DrainedType, ShrunkType DEF TypeOK
  <2>3. up \in [Ids(n) -> BOOLEAN] /\ up' \in [Ids(m) -> BOOLEAN] /\ up' = Shrunk(up, n, id)
    BY <1>1, <2>1, ShrunkType DEF TypeOK, RemoveNode
  <2>4. IsFiniteSet(downs) /\ IsFiniteSet(Down \ {id})
        /\ Cardinality(downs) <= Cardinality(Down \ {id})
    BY <1>1, <2>1, <2>3, ShrunkDown DEF Down
  <2>5. Cardinality(downs) < R
    <3>1. Cardinality(downs) \in Nat /\ Cardinality(Down \ {id}) \in Nat
      BY <2>4, FS_CardinalityType
    <3> QED BY <1>1, <2>1, <2>4, <3>1
  <2>6. \E j \in Ids(n) \ {id} : up[j]
    <3>1. PICK i \in Placement(h, m) : up'[i]
      BY <2>1, <2>3, <2>5, PlacedUpNode
    <3>2. i \in Ids(m)
      BY <2>1, PlacementIsRDistinctNodes
    <3>3. up'[i] = up[IF i < id THEN i ELSE i + 1]
      BY <2>3, <3>2 DEF Shrunk
    <3>4. (IF i < id THEN i ELSE i + 1) \in Ids(n) \ {id}
      BY <2>1, <3>2, <1>1 DEF Ids
    <3> QED BY <3>1, <3>3, <3>4
  <2>7. PICK j \in Ids(n) \ {id} : drained[j] # "absent"
    BY <1>1, <2>1, <2>2, <2>6, DrainedKeepsHolder
  <2>8. PICK i \in Ids(m) : col[i] = drained[j]
    BY <1>1, <2>1, ShrunkKeeps
  <2>9. data'[h] = Rebalanced(h, m, up', col)
    BY <1>1 DEF RemoveNode
  <2> HIDE DEF drained, col, m
  <2>10. CASE Live(up', col) = {}
    <3>1. data'[h] = col
      BY <2>9, <2>10 DEF Rebalanced
    <3> QED BY <2>2, <2>7, <2>8, <3>1 DEF Holders
  <2>11. CASE Live(up', col) # {}
    <3>1. Live(up', data'[h]) # {}
      BY <2>1, <2>2, <2>3, <2>5, <2>9, <2>11, RebalancedKeepsLive
    <3> QED BY <3>1 DEF Live
  <2> QED BY <2>10, <2>11
<1>2. TypeOK /\ [Next]_vars =>
        [\A id \in Ids(n) :
           RemoveNode(id) /\ Cardinality(Down \ {id}) < R =>
             \A h \in Chunk : Holders(data[h]) # {} => Holders(data'[h]) # {}]_vars
  BY <1>1
<1> QED BY <1>2, TypeCorrect, PTL DEF Spec, RemovalKeepsEveryChunk

-----------------------------------------------------------------------------
(***************************************************************************)
(* Repair.                                                                 *)
(***************************************************************************)
LEMMA TypeOKHeals == TypeOK => RepairHeals
<1> SUFFICES ASSUME TypeOK, NEW h \in Chunk, Intact(up, data[h]) # {}
             PROVE  LET healed == Repaired(h, n, up, data[h])
                    IN  /\ Bad(up, healed) = {}
                        /\ \/ Cardinality(Intact(up, healed)) >= R
                           \/ Intact(up, healed) = Ids(n) \ Down
  BY DEF RepairHeals
<1>1. n \in Nat /\ data[h] \in [Ids(n) -> Replica]
  BY ReplicationAssumption, MaxNodesAssumption DEF TypeOK
<1>2. Ids(n) \ Down = {i \in Ids(n) : up[i]}
  BY DEF Down
<1> QED BY <1>1, <1>2, HealedColumn, HealedEnough

\* Cluster.Repair heals every chunk that has an intact live replica: afterwards
\* none is corrupt, and R are intact or one on every up node.
THEOREM RepairIsComplete == Spec => []RepairHeals
BY TypeCorrect, TypeOKHeals, PTL

LEMMA TypeOKIdempotent == TypeOK => RepairIsIdempotent
<1> SUFFICES ASSUME TypeOK, NEW h \in Chunk
             PROVE  LET once == Repaired(h, n, up, data[h])
                    IN  Repaired(h, n, up, once) = once
  BY DEF RepairIsIdempotent
<1> DEFINE once == Repaired(h, n, up, data[h])
<1>1. n \in Nat /\ data[h] \in [Ids(n) -> Replica]
  BY ReplicationAssumption, MaxNodesAssumption DEF TypeOK
<1>2. CASE Intact(up, data[h]) = {}
  BY <1>2, RepairedIs
<1>3. CASE Intact(up, data[h]) # {}
  <2>1. /\ once \in [Ids(n) -> Replica] /\ Bad(up, once) = {}
        /\ \/ Cardinality(Intact(up, once)) >= R
           \/ Intact(up, once) = {i \in Ids(n) : up[i]}
    BY <1>1, <1>3, HealedColumn, HealedEnough
  <2> HIDE DEF once
  <2>2. Filled(h, n, up, once) = {}
    <3>1. CASE Intact(up, once) = {i \in Ids(n) : up[i]}
      <4>1. Spare(n, up, once) = {}
        BY <3>1 DEF Spare, Intact
      <4> QED BY <1>1, <4>1, FilledNodes
    <3>2. CASE Cardinality(Intact(up, once)) >= R
      <4>1. SUFFICES ASSUME Filled(h, n, up, once) # {}
                     PROVE  FALSE
        OBVIOUS
      <4>2. PICK k : k \in Turns(h, n, up, once)
        BY <4>1 DEF Filled
      <4>3. LiveCount(up, once) + Cardinality(Before(h, n, up, once, k)) < R
        BY <4>2 DEF Turns
      <4>4. /\ Cardinality(Before(h, n, up, once, k)) \in Nat
            /\ Cardinality(Intact(up, once)) \in Nat
            /\ LiveCount(up, once) = Cardinality(Intact(up, once))
        <5>1. Before(h, n, up, once, k) \subseteq Ids(n)
          BY <1>1, FilledNodes
        <5>2. n \in Nat /\ once \in [Ids(n) -> Replica]
          BY <1>1, <2>1
        <5>3. /\ Live(up, once) = Intact(up, once) \cup Bad(up, once)
              /\ Live(up, once) = {i \in Ids(n) : up[i] /\ once[i] # "absent"}
              /\ LiveCount(up, once) = Cardinality(Live(up, once))
          BY <5>2, LiveParts
        <5>4. Live(up, once) = Intact(up, once)
          BY <2>1, <5>3
        <5>5. Intact(up, once) \subseteq Ids(n)
          BY <5>3, <5>4
        <5>6. Cardinality(Before(h, n, up, once, k)) \in Nat
          BY <5>1, <5>2, NodesAreFinite
        <5>7. Cardinality(Intact(up, once)) \in Nat
          BY <5>2, <5>5, NodesAreFinite
        <5> QED BY <5>3, <5>4, <5>6, <5>7
      <4> QED BY <3>2, <4>3, <4>4, ReplicationAssumption
    <3> QED BY <2>1, <3>1, <3>2
  <2>3. Repaired(h, n, up, once) \in {once, Stored({}, "intact", once)}
    BY <2>1, <2>2, RepairedIs
  <2>4. Stored({}, "intact", once) = once
    BY <2>1 DEF Stored
  <2> QED BY <2>3, <2>4 DEF once
<1> QED BY <1>2, <1>3

\* "Repair is idempotent": a second repair changes no replica of any chunk.
THEOREM RepairTwiceIsOnce == Spec => []RepairIsIdempotent
BY TypeCorrect, TypeOKIdempotent, PTL

\* Repair changes replicas on up nodes only, and only to intact ones; it makes no
\* more than R replicas live.
THEOREM RepairIsHarmless == Spec => RepairHarmsNothing
<1> DEFINE Kept(h) ==
             /\ \A i \in Ids(n) :
                  data'[h][i] # data[h][i] => /\ up[i]
                                              /\ data[h][i] # "intact"
                                              /\ data'[h][i] = "intact"
             /\ \/ Cardinality(Live(up', data'[h])) <= R
                \/ Live(up', data'[h]) = Live(up, data[h])
<1>1. ASSUME TypeOK, Repair, NEW h \in Chunk PROVE Kept(h)
  <2> DEFINE col == data[h]
             filled == Filled(h, n, up, col)
  <2>1. n \in Nat /\ col \in [Ids(n) -> Replica]
    BY <1>1, ReplicationAssumption, MaxNodesAssumption DEF TypeOK
  <2>2. data'[h] = Repaired(h, n, up, col) /\ up' = up
    BY <1>1 DEF Repair
  <2>3. CASE Intact(up, col) = {}
    <3>1. data'[h] = col
      BY <2>2, <2>3, RepairedIs
    <3> QED BY <2>2, <3>1
  <2>4. CASE Intact(up, col) # {}
    <3>1. data'[h] = Stored(Bad(up, col) \cup filled, "intact", col)
      BY <2>2, <2>4, RepairedIs
    <3>2. \A i \in filled : up[i] /\ col[i] = "absent"
      BY <2>1, FilledNodes DEF Spare
    <3>3. \A i \in Bad(up, col) : up[i] /\ col[i] = "corrupt"
      BY DEF Bad, Live
    <3>4. /\ Live(up, data'[h]) = Live(up, col) \cup filled
          /\ Cardinality(Live(up, data'[h])) = LiveCount(up, col) + Cardinality(filled)
      BY <2>1, <2>2, <2>4, HealedColumn
    <3>5. filled # {} => LiveCount(up, col) + Cardinality(filled) <= R
      BY <2>1, FilledFew
    <3> HIDE DEF filled, col
    <3>6. \A i \in Ids(n) : data'[h][i] # col[i] =>
            up[i] /\ col[i] # "intact" /\ data'[h][i] = "intact"
      BY <2>1, <3>1, <3>2, <3>3 DEF Stored
    <3>7. \/ Cardinality(Live(up', data'[h])) <= R
          \/ Live(up', data'[h]) = Live(up, col)
      BY <2>2, <3>4, <3>5
    <3> QED BY <3>6, <3>7 DEF col
  <2> QED BY <2>3, <2>4
<1>2. TypeOK /\ [Next]_vars => [Repair => \A h \in Chunk : Kept(h)]_vars
  BY <1>1
<1> QED BY <1>2, TypeCorrect, PTL DEF Spec, RepairHarmsNothing

-----------------------------------------------------------------------------
(***************************************************************************)
(* The account of FaultTolerance.                                          *)
(***************************************************************************)
FTInv == /\ TypeOK
         /\ margin \in [Chunk -> Nat]
         /\ MarginIsCovered

\* The intact live replicas of h.
Good(h) == Intact(up, data[h])

LEMMA SpendIsLess ==
  ASSUME NEW k \in Nat
  PROVE  Spend(k) \in Nat /\ Spend(k) <= k /\ (Spend(k) > 0 => k >= 2)
BY DEF Spend

LEMMA CoveredFalls ==
  ASSUME NEW a \in Nat, NEW b \in Nat, a <= b
  PROVE  Covered(a) \in Nat /\ Covered(b) \in Nat /\ Covered(b) <= Covered(a)
BY ReplicationAssumption DEF Covered

\* A placement set has at least as many up nodes as Covered says.
LEMMA PlacedUpNodes ==
  ASSUME NEW h \in Chunk, NEW m \in Nat, m >= R, NEW ups \in [Ids(m) -> BOOLEAN]
  PROVE  LET P == {i \in Placement(h, m) : ups[i]}
             k == Cardinality({i \in Ids(m) : ~ups[i]})
         IN  /\ P \subseteq Ids(m)
             /\ Cardinality(P) \in Nat /\ k \in Nat /\ Covered(k) \in Nat
             /\ Cardinality(P) >= Covered(k)
<1> DEFINE P == {i \in Placement(h, m) : ups[i]}
           k == Cardinality({i \in Ids(m) : ~ups[i]})
<1>1. /\ P \subseteq Ids(m)
      /\ Cardinality(P) \in Nat /\ k \in Nat /\ Cardinality(P) + k >= R
  BY PlacedUp
<1> HIDE DEF P, k
<1>2. Covered(k) \in Nat /\ Cardinality(P) >= Covered(k)
  BY <1>1, ReplicationAssumption DEF Covered
<1> QED BY <1>1, <1>2 DEF P, k

LEMMA IntactLosesOne ==
  ASSUME NEW m \in Nat, NEW S, S \subseteq Ids(m), NEW id
  PROVE  /\ Cardinality(S) \in Nat /\ Cardinality(S \ {id}) \in Nat
         /\ Cardinality(S \ {id}) >= Spend(Cardinality(S))
<1>1. /\ Cardinality(S) \in Nat /\ Cardinality(S \ {id}) \in Nat
      /\ Cardinality(S \ {id}) >= Cardinality(S) - 1
  BY LosesOne
<1> QED BY <1>1 DEF Spend

\* Rebalance puts an intact replica of a clean, readable chunk on every up node
\* of its placement set.
LEMMA RebalancedRenews ==
  ASSUME NEW h \in Chunk, NEW m \in Nat, m >= R, NEW ups \in [Ids(m) -> BOOLEAN],
         NEW col \in [Ids(m) -> Replica],
         Live(ups, col) # {}, \A i \in Ids(m) : col[i] # "corrupt"
  PROVE  LET fresh == Intact(ups, Rebalanced(h, m, ups, col))
         IN  /\ Cardinality(fresh) \in Nat
             /\ Cardinality(fresh) >= Covered(Cardinality({i \in Ids(m) : ~ups[i]}))
<1> DEFINE P == {i \in Placement(h, m) : ups[i]}
           fresh == Intact(ups, Rebalanced(h, m, ups, col))
<1>1. /\ P \subseteq Ids(m)
      /\ Cardinality(P) >= Covered(Cardinality({i \in Ids(m) : ~ups[i]}))
      /\ Cardinality(P) \in Nat
      /\ Covered(Cardinality({i \in Ids(m) : ~ups[i]})) \in Nat
  BY PlacedUpNodes
<1>2. Least(Live(ups, col)) \in Live(ups, col)
  BY LeastIn, LiveIsIds
<1>3. col[Least(Live(ups, col))] = "intact"
  BY <1>2 DEF Live, Holders, Replica
<1>4. \A i \in P : Rebalanced(h, m, ups, col)[i] = "intact"
  BY <1>1, <1>3 DEF Rebalanced, Replica
<1>5. Rebalanced(h, m, ups, col) \in [Ids(m) -> Replica]
  BY RebalancedType
<1>6. P \subseteq fresh /\ fresh \subseteq Ids(m)
  BY <1>1, <1>4, <1>5 DEF Intact, Live, Holders
<1>7. /\ Cardinality(fresh) \in Nat /\ Cardinality(P) \in Nat
      /\ Cardinality(fresh) >= Cardinality(P)
  <2> HIDE DEF P, fresh
  <2> QED BY <1>6, IntactGrows
<1> HIDE DEF P, fresh
<1>8. Cardinality(fresh) >= Covered(Cardinality({i \in Ids(m) : ~ups[i]}))
  BY <1>1, <1>7
<1> QED BY <1>7, <1>8 DEF fresh

\* What each action may use of the state it starts in.
LEMMA Account ==
  ASSUME FTInv, NEW h \in Chunk
  PROVE  /\ n \in Nat /\ n >= R /\ R \in Nat \ {0}
         /\ up \in [Ids(n) -> BOOLEAN] /\ data[h] \in [Ids(n) -> Replica]
         /\ Good(h) \subseteq Ids(n)
         /\ Cardinality(Good(h)) \in Nat
         /\ margin[h] \in Nat /\ Cardinality(Good(h)) >= margin[h]
<1>1. /\ n \in Nat /\ n >= R /\ R \in Nat \ {0}
      /\ up \in [Ids(n) -> BOOLEAN] /\ data[h] \in [Ids(n) -> Replica]
  BY ReplicationAssumption, MaxNodesAssumption DEF FTInv, TypeOK
<1>2. Good(h) \subseteq Ids(n)
  BY <1>1 DEF Good, Intact, Live, Holders
<1>3. Cardinality(Good(h)) \in Nat
  BY <1>1, <1>2, NodesAreFinite
<1> QED BY <1>1, <1>2, <1>3 DEF FTInv, MarginIsCovered, Good

\* Reading of the conclusion chunk by chunk.
LEMMA CoveredStep ==
  ASSUME TypeOK', margin' \in [Chunk -> Nat],
         \A h \in Chunk : Cardinality(Good(h)') >= margin'[h]
  PROVE  FTInv'
BY DEF FTInv, MarginIsCovered, Good

LEMMA InitFTInv == FTInit => FTInv
<1> SUFFICES ASSUME FTInit PROVE FTInv
  OBVIOUS
<1>1. TypeOK /\ margin = [h \in Chunk |-> 0]
  BY InitTypeOK DEF FTInit
<1>2. ASSUME NEW h \in Chunk PROVE Cardinality(Intact(up, data[h])) >= margin[h]
  <2>1. n \in Nat /\ data[h] \in [Ids(n) -> Replica]
    BY <1>1, ReplicationAssumption, MaxNodesAssumption DEF TypeOK
  <2>2. Intact(up, data[h]) \subseteq Ids(n)
    BY <2>1 DEF Intact, Live, Holders
  <2>3. Cardinality(Intact(up, data[h])) \in Nat
    BY <2>1, <2>2, NodesAreFinite
  <2> QED BY <1>1, <2>3
<1> QED BY <1>1, <1>2 DEF FTInv, MarginIsCovered

LEMMA PutFTInv ==
  ASSUME FTInv, TypeOK', NEW g \in Chunk, FTPut(g)
  PROVE  FTInv'
<1>1. /\ data' = [data EXCEPT ![g] = Stored(Placement(g, n), "intact", @)]
      /\ n' = n /\ up' = up
      /\ margin' = [margin EXCEPT ![g] = Larger(@, Covered(Cardinality(Down)))]
  BY DEF FTPut, Put
<1>2. /\ n \in Nat /\ n >= R /\ up \in [Ids(n) -> BOOLEAN]
      /\ data[g] \in [Ids(n) -> Replica]
      /\ margin[g] \in Nat
  BY Account
<1>3. LET P == {i \in Placement(g, n) : up[i]}
      IN  /\ P \subseteq Ids(n)
          /\ Cardinality(P) \in Nat /\ Covered(Cardinality(Down)) \in Nat
          /\ Cardinality(P) >= Covered(Cardinality(Down))
  BY <1>2, PlacedUpNodes DEF Down
<1>4. margin' \in [Chunk -> Nat]
  BY <1>1, <1>2, <1>3 DEF FTInv, Larger
<1>5. data \in [Chunk -> [Ids(n) -> Replica]] /\ margin \in [Chunk -> Nat]
  BY DEF FTInv, TypeOK
<1>6. ASSUME NEW h \in Chunk PROVE Cardinality(Good(h)') >= margin'[h]
  <2>1. CASE h = g
    <3>1. data'[g] = Stored(Placement(g, n), "intact", data[g])
      BY <1>1, <1>5
    <3>2. /\ {i \in Placement(g, n) : up[i]} \subseteq Good(g)'
          /\ Good(g) \subseteq Good(g)'
          /\ Good(g)' \subseteq Ids(n)
      BY <1>1, <1>2, <1>3, <3>1 DEF Good, Intact, Live, Holders, Stored
    <3>3. /\ Cardinality(Good(g)') >= Cardinality({i \in Placement(g, n) : up[i]})
          /\ Cardinality(Good(g)') >= Cardinality(Good(g))
          /\ Cardinality(Good(g)') \in Nat
      BY <1>2, <3>2, IntactGrows
    <3>4. Cardinality(Good(g)) \in Nat /\ Cardinality(Good(g)) >= margin[g]
      BY Account
    <3>5. margin'[g] = Larger(margin[g], Covered(Cardinality(Down)))
      BY <1>1, <1>5
    <3> QED BY <1>2, <1>3, <2>1, <3>3, <3>4, <3>5 DEF Larger
  <2>2. CASE h # g
    <3>1. data'[h] = data[h] /\ margin'[h] = margin[h]
      BY <1>1, <1>5, <2>2
    <3> QED BY <1>1, <3>1, Account DEF Good
  <2> QED BY <2>1, <2>2
<1> QED BY <1>4, <1>6, CoveredStep

LEMMA FailFTInv ==
  ASSUME FTInv, TypeOK', NEW id \in Ids(n), NodeFails(id)
  PROVE  FTInv'
<1>1. /\ up' = [up EXCEPT ![id] = FALSE] /\ n' = n /\ data' = data
      /\ margin' = [h \in Chunk |-> Spend(margin[h])]
  BY DEF NodeFails, SetUp
<1>2. margin' \in [Chunk -> Nat]
  BY <1>1, SpendIsLess DEF FTInv
<1>3. ASSUME NEW h \in Chunk PROVE Cardinality(Good(h)') >= margin'[h]
  <2>1. /\ n \in Nat /\ up \in [Ids(n) -> BOOLEAN] /\ data[h] \in [Ids(n) -> Replica]
        /\ Good(h) \subseteq Ids(n) /\ Cardinality(Good(h)) \in Nat
        /\ margin[h] \in Nat /\ Cardinality(Good(h)) >= margin[h]
    BY Account
  <2>2. Good(h)' = Good(h) \ {id}
    BY <1>1, <2>1 DEF Good, Intact, Live, Holders
  <2>3. /\ Cardinality(Good(h) \ {id}) \in Nat
        /\ Cardinality(Good(h) \ {id}) >= Spend(Cardinality(Good(h)))
    BY <2>1, IntactLosesOne
  <2>4. margin'[h] = Spend(margin[h])
    BY <1>1
  <2> QED BY <2>1, <2>2, <2>3, <2>4 DEF Spend
<1> QED BY <1>2, <1>3, CoveredStep

\* A node that comes back takes no intact replica away.
LEMMA ReturnFTInv ==
  ASSUME FTInv, TypeOK', n' = n, data' = data, margin' = margin,
         \A i \in Ids(n) : up[i] => up'[i]
  PROVE  FTInv'
<1>1. margin' \in [Chunk -> Nat]
  BY DEF FTInv
<1>2. ASSUME NEW h \in Chunk PROVE Cardinality(Good(h)') >= margin'[h]
  <2>1. /\ n \in Nat /\ data[h] \in [Ids(n) -> Replica]
        /\ Good(h) \subseteq Ids(n) /\ Cardinality(Good(h)) \in Nat
        /\ margin[h] \in Nat /\ Cardinality(Good(h)) >= margin[h]
    BY Account
  <2>2. Good(h) \subseteq Good(h)' /\ Good(h)' \subseteq Ids(n)
    BY <2>1 DEF Good, Intact, Live, Holders
  <2>3. /\ Cardinality(Good(h)') \in Nat
        /\ Cardinality(Good(h)') >= Cardinality(Good(h))
    BY <2>1, <2>2, IntactGrows
  <2> QED BY <2>1, <2>3
<1> QED BY <1>1, <1>2, CoveredStep

LEMMA CorruptFTInv ==
  ASSUME FTInv, TypeOK', NEW id \in Ids(n), NEW g \in Chunk, FTCorrupt(id, g)
  PROVE  FTInv'
<1>1. /\ data' = [data EXCEPT ![g][id] = "corrupt"] /\ n' = n /\ up' = up
      /\ margin' = [margin EXCEPT ![g] = Spend(@)]
  BY DEF FTCorrupt, Corrupt
<1>2. data \in [Chunk -> [Ids(n) -> Replica]] /\ margin \in [Chunk -> Nat]
  BY DEF FTInv, TypeOK
<1>3. margin' \in [Chunk -> Nat]
  BY <1>1, <1>2, SpendIsLess
<1>4. ASSUME NEW h \in Chunk PROVE Cardinality(Good(h)') >= margin'[h]
  <2>1. /\ n \in Nat /\ data[h] \in [Ids(n) -> Replica]
        /\ Good(h) \subseteq Ids(n) /\ Cardinality(Good(h)) \in Nat
        /\ margin[h] \in Nat /\ Cardinality(Good(h)) >= margin[h]
    BY Account
  <2>2. CASE h = g
    <3>1. data'[g] = [data[g] EXCEPT ![id] = "corrupt"] /\ margin'[g] = Spend(margin[g])
      BY <1>1, <1>2
    <3>2. Good(h)' = Good(h) \ {id}
      BY <1>1, <2>1, <2>2, <3>1 DEF Good, Intact, Live, Holders
    <3>3. /\ Cardinality(Good(h) \ {id}) \in Nat
          /\ Cardinality(Good(h) \ {id}) >= Spend(Cardinality(Good(h)))
      BY <2>1, IntactLosesOne
    <3> QED BY <2>1, <2>2, <3>1, <3>2, <3>3 DEF Spend
  <2>3. CASE h # g
    <3>1. data'[h] = data[h] /\ margin'[h] = margin[h]
      BY <1>1, <1>2, <2>3
    <3> QED BY <1>1, <2>1, <3>1 DEF Good
  <2> QED BY <2>2, <2>3
<1> QED BY <1>3, <1>4, CoveredStep

LEMMA RepairFTInv ==
  ASSUME FTInv, TypeOK', FTRepair
  PROVE  FTInv'
<1> DEFINE ups == n - Cardinality(Down)
<1>1. /\ data' = [h \in Chunk |-> Repaired(h, n, up, data[h])] /\ n' = n /\ up' = up
      /\ margin' = [h \in Chunk |-> IF margin[h] = 0 THEN 0 ELSE IF ups < R THEN ups ELSE R]
  BY DEF FTRepair, Repair
<1>2. ASSUME NEW h \in Chunk
      PROVE  margin'[h] \in Nat /\ Cardinality(Good(h)') >= margin'[h]
  <2>1. /\ n \in Nat /\ n >= R /\ R \in Nat \ {0}
        /\ up \in [Ids(n) -> BOOLEAN] /\ data[h] \in [Ids(n) -> Replica]
        /\ margin[h] \in Nat /\ Cardinality(Good(h)) >= margin[h]
    BY Account
  <2>2. Good(h)' = Intact(up, Repaired(h, n, up, data[h]))
    BY <1>1 DEF Good
  <2>3. /\ Cardinality({i \in Ids(n) : up[i]}) = ups
        /\ Cardinality({i \in Ids(n) : up[i]}) \in Nat
    BY <2>1, UpPlusDown DEF Down
  <2>4. Cardinality(Good(h)') \in Nat
    <3>1. data'[h] \in [Ids(n) -> Replica] /\ data'[h] = Repaired(h, n, up, data[h])
      BY <1>1, <2>1, RepairedType
    <3>2. Good(h)' \subseteq Ids(n)
      BY <2>2, <3>1 DEF Intact, Live, Holders
    <3> QED BY <2>1, <3>2, NodesAreFinite
  <2>5. CASE margin[h] = 0
    <3>1. margin'[h] = 0
      BY <1>1, <2>5
    <3> QED BY <2>4, <3>1
  <2>6. CASE margin[h] # 0
    <3>1. margin'[h] = IF ups < R THEN ups ELSE R
      BY <1>1, <2>6
    <3>2. Good(h) # {}
      BY <2>1, <2>6, FS_EmptySet
    <3>3. Cardinality(Good(h)') >= R \/ Cardinality(Good(h)') = ups
      <4>1. Intact(up, data[h]) # {}
        BY <3>2 DEF Good
      <4>2. \/ Cardinality(Intact(up, Repaired(h, n, up, data[h]))) >= R
            \/ Intact(up, Repaired(h, n, up, data[h])) = {i \in Ids(n) : up[i]}
        BY <2>1, <4>1, HealedEnough
      <4> QED BY <2>2, <2>3, <4>2
    <3> HIDE DEF ups
    <3> QED BY <2>1, <2>3, <2>4, <3>1, <3>3
  <2> QED BY <2>5, <2>6
<1>3. margin' \in [Chunk -> Nat]
  <2>1. margin' = [h \in Chunk |-> margin'[h]]
    BY <1>1
  <2> QED BY <1>2, <2>1
<1> QED BY <1>2, <1>3, CoveredStep

LEMMA AddNodeFTInv ==
  ASSUME FTInv, TypeOK', FTAddNode
  PROVE  FTInv'
<1>1. /\ n' = n + 1 /\ up' = Grown(up, n, TRUE)
      /\ data' = [h \in Chunk |-> Rebalanced(h, n + 1, up', Grown(data[h], n, "absent"))]
      /\ margin' = [h \in Chunk |->
           IF margin[h] > 0 /\ Clean(h) THEN Covered(Cardinality(Down)) ELSE 0]
  BY DEF FTAddNode, AddNode
<1>2. ASSUME NEW h \in Chunk
      PROVE  margin'[h] \in Nat /\ Cardinality(Good(h)') >= margin'[h]
  <2> DEFINE col == Grown(data[h], n, "absent")
  <2>1. /\ n \in Nat /\ n + 1 \in Nat /\ n + 1 >= R /\ R \in Nat \ {0}
        /\ up \in [Ids(n) -> BOOLEAN] /\ data[h] \in [Ids(n) -> Replica]
        /\ Good(h) \subseteq Ids(n)
        /\ margin[h] \in Nat /\ Cardinality(Good(h)) >= margin[h]
    BY Account
  <2>2. /\ up' \in [Ids(n + 1) -> BOOLEAN]
        /\ {i \in Ids(n + 1) : ~up'[i]} = Down
        /\ \A i \in Ids(n) : i \in Ids(n + 1) /\ up'[i] = up[i]
    <3>1. /\ Grown(up, n, TRUE) \in [Ids(n + 1) -> BOOLEAN]
          /\ {i \in Ids(n + 1) : ~Grown(up, n, TRUE)[i]} = {i \in Ids(n) : ~up[i]}
          /\ \A i \in Ids(n) : i \in Ids(n + 1) /\ Grown(up, n, TRUE)[i] = up[i]
      BY <2>1, GrownDown
    <3>2. {i \in Ids(n + 1) : ~up'[i]} = {i \in Ids(n + 1) : ~Grown(up, n, TRUE)[i]}
      BY <1>1
    <3>3. {i \in Ids(n + 1) : ~up'[i]} = Down
      BY <3>1, <3>2 DEF Down
    <3> QED BY <1>1, <3>1, <3>3
  <2>3. col \in [Ids(n + 1) -> Replica]
    BY <2>1, GrownType DEF Replica
  <2>4. Good(h)' = Intact(up', Rebalanced(h, n + 1, up', col))
    BY <1>1 DEF Good
  <2>5. Cardinality(Good(h)') \in Nat
    <3>1. Rebalanced(h, n + 1, up', col) \in [Ids(n + 1) -> Replica]
      BY <2>1, <2>3, RebalancedType
    <3>2. Good(h)' \subseteq Ids(n + 1)
      BY <2>4, <3>1 DEF Intact, Live, Holders
    <3> QED BY <2>1, <3>2, NodesAreFinite
  <2>6. CASE margin[h] > 0 /\ Clean(h)
    <3>1. margin'[h] = Covered(Cardinality(Down))
      BY <1>1, <2>6
    <3>2. PICK i \in Ids(n) : up[i] /\ data[h][i] = "intact"
      <4>1. Good(h) # {}
        BY <2>1, <2>6, FS_EmptySet
      <4> QED BY <2>1, <4>1 DEF Good, Intact, Live
    <3>3. col[i] = data[h][i] /\ i \in Ids(n + 1) /\ up'[i]
      <4>1. i # n
        BY <2>1 DEF Ids
      <4> QED BY <2>2, <3>2, <4>1 DEF Grown
    <3>4. Live(up', col) # {}
      BY <2>3, <3>2, <3>3 DEF Live, Holders
    <3>5. \A j \in Ids(n + 1) : col[j] # "corrupt"
      BY <2>1, <2>6 DEF Grown, Clean, Ids
    <3>6. Cardinality(Good(h)') >= Covered(Cardinality(Down))
      <4> HIDE DEF col
      <4> QED BY <2>1, <2>2, <2>3, <2>4, <3>4, <3>5, RebalancedRenews
    <3>7. Cardinality(Down) \in Nat
      BY <2>1, UpPlusDown DEF Down
    <3>8. Covered(Cardinality(Down)) \in Nat
      BY <3>7, CoveredFalls
    <3> QED BY <3>1, <3>6, <3>8
  <2>7. CASE ~(margin[h] > 0 /\ Clean(h))
    <3>1. margin'[h] = 0
      BY <1>1, <2>7
    <3> QED BY <2>5, <3>1
  <2> QED BY <2>6, <2>7
<1>3. margin' \in [Chunk -> Nat]
  <2>1. margin' = [h \in Chunk |-> margin'[h]]
    BY <1>1
  <2> QED BY <1>2, <2>1
<1> QED BY <1>2, <1>3, CoveredStep

LEMMA RemoveNodeFTInv ==
  ASSUME FTInv, TypeOK', NEW id \in Ids(n), FTRemoveNode(id)
  PROVE  FTInv'
<1> DEFINE m == n - 1
           k == Cardinality(Down \ {id})
           downs == {i \in Ids(m) : ~up'[i]}
<1>1. /\ m >= R /\ n' = m /\ up' = Shrunk(up, n, id)
      /\ data' = [h \in Chunk |->
                    Rebalanced(h, m, up', Shrunk(Drained(id, up, data[h]), n, id))]
      /\ margin' = [h \in Chunk |->
           IF Spend(margin[h]) > 0 /\ Clean(h) THEN Covered(k) ELSE 0]
  BY DEF FTRemoveNode, RemoveNode
<1>2. ASSUME NEW h \in Chunk
      PROVE  margin'[h] \in Nat /\ Cardinality(Good(h)') >= margin'[h]
  <2> DEFINE drained == Drained(id, up, data[h])
             col == Shrunk(drained, n, id)
  <2>1. /\ n \in Nat /\ m \in Nat /\ R \in Nat \ {0}
        /\ up \in [Ids(n) -> BOOLEAN] /\ data[h] \in [Ids(n) -> Replica]
        /\ Good(h) \subseteq Ids(n) /\ Cardinality(Good(h)) \in Nat
        /\ margin[h] \in Nat /\ Cardinality(Good(h)) >= margin[h]
    BY <1>1, Account
  <2>2. up' \in [Ids(m) -> BOOLEAN]
    BY <1>1, <2>1, ShrunkType
  <2>3. drained \in [Ids(n) -> Replica] /\ col \in [Ids(m) -> Replica]
    BY <2>1, DrainedType, ShrunkType
  <2>4. Good(h)' = Intact(up', Rebalanced(h, m, up', col))
    BY <1>1 DEF Good
  <2>5. Cardinality(Good(h)') \in Nat
    <3>1. Rebalanced(h, m, up', col) \in [Ids(m) -> Replica]
      BY <2>1, <2>3, RebalancedType
    <3>2. Good(h)' \subseteq Ids(m)
      BY <2>4, <3>1 DEF Intact, Live, Holders
    <3> QED BY <2>1, <3>2, NodesAreFinite
  <2>6. /\ Cardinality(downs) \in Nat /\ k \in Nat /\ Cardinality(downs) <= k
    <3>1. IsFiniteSet(downs) /\ IsFiniteSet(Down \ {id}) /\ Cardinality(downs) <= k
      BY <1>1, <2>1, ShrunkDown DEF Down
    <3> QED BY <3>1, FS_CardinalityType
  <2>7. Covered(k) \in Nat /\ Covered(Cardinality(downs)) \in Nat
        /\ Covered(k) <= Covered(Cardinality(downs))
    BY <2>6, CoveredFalls
  <2>8. CASE Spend(margin[h]) > 0 /\ Clean(h)
    <3>1. margin'[h] = Covered(k)
      BY <1>1, <2>8
    <3>2. PICK j \in Ids(n) \ {id} : up[j] /\ data[h][j] = "intact"
      <4>1. /\ Cardinality(Good(h) \ {id}) \in Nat
            /\ Cardinality(Good(h) \ {id}) >= Spend(Cardinality(Good(h)))
        BY <2>1, IntactLosesOne
      <4>2. Cardinality(Good(h) \ {id}) > 0
        BY <2>1, <2>8, <4>1 DEF Spend
      <4>3. Good(h) \ {id} # {}
        BY <4>2, FS_EmptySet
      <4> QED BY <2>1, <4>3 DEF Good, Intact, Live
    <3>3. drained = data[h]
      BY <2>1, <3>2, DrainedLeavesHeld
    <3>4. Live(up', col) # {}
      BY <1>1, <2>1, <3>2, <3>3, ShrunkKeepsLive
    <3>5. \A i \in Ids(m) : col[i] # "corrupt"
      BY <2>1, <2>8, <3>3, ShrunkFrom DEF Clean
    <3>6. Cardinality(Good(h)') >= Covered(Cardinality(downs))
      <4> HIDE DEF col, m
      <4> QED BY <1>1, <2>1, <2>2, <2>3, <2>4, <3>4, <3>5, RebalancedRenews
    <3> HIDE DEF k, downs
    <3> QED BY <2>5, <2>7, <3>1, <3>6
  <2>9. CASE ~(Spend(margin[h]) > 0 /\ Clean(h))
    <3>1. margin'[h] = 0
      BY <1>1, <2>9
    <3> QED BY <2>5, <3>1
  <2> QED BY <2>8, <2>9
<1>3. margin' \in [Chunk -> Nat]
  <2>1. margin' = [h \in Chunk |-> margin'[h]]
    BY <1>1
  <2> QED BY <1>2, <2>1
<1> QED BY <1>2, <1>3, CoveredStep

\* Keeping the account changes nothing about the cluster.
LEMMA AccountOnly == [FTNext]_ftVars => [Next]_vars
BY DEF FTNext, Next, ftVars, vars, FTPut, NodeFails, NodeReturns, FTRecoverAll,
       FTCorrupt, FTRepair, FTAddNode, FTRemoveNode

LEMMA NextFTInv == FTInv /\ [FTNext]_ftVars => FTInv'
<1> SUFFICES ASSUME FTInv, [FTNext]_ftVars PROVE FTInv'
  OBVIOUS
<1>1. TypeOK /\ TypeOK'
  BY AccountOnly, NextTypeOK DEF FTInv
<1>2. CASE \E id \in Ids(n) : NodeReturns(id)
  <2>1. n' = n /\ data' = data /\ margin' = margin /\ \A i \in Ids(n) : up[i] => up'[i]
    BY <1>1, <1>2 DEF NodeReturns, SetUp, TypeOK
  <2> QED BY <1>1, <2>1, ReturnFTInv
<1>3. CASE FTRecoverAll
  <2>1. n' = n /\ data' = data /\ margin' = margin /\ \A i \in Ids(n) : up[i] => up'[i]
    BY <1>3 DEF FTRecoverAll, RecoverAll
  <2> QED BY <1>1, <2>1, ReturnFTInv
<1>4. CASE UNCHANGED ftVars
  <2>1. n' = n /\ data' = data /\ margin' = margin /\ \A i \in Ids(n) : up[i] => up'[i]
    BY <1>4 DEF ftVars
  <2> QED BY <1>1, <2>1, ReturnFTInv
<1>5. CASE \/ \E h \in Chunk : FTPut(h)
           \/ \E id \in Ids(n) : NodeFails(id)
           \/ \E id \in Ids(n), h \in Chunk : FTCorrupt(id, h)
           \/ FTRepair
           \/ FTAddNode
           \/ \E id \in Ids(n) : FTRemoveNode(id)
  BY <1>1, <1>5, PutFTInv, FailFTInv, CorruptFTInv, RepairFTInv, AddNodeFTInv, RemoveNodeFTInv
<1> QED BY <1>2, <1>3, <1>4, <1>5 DEF FTNext

\* "A chunk survives up to R-1 node failures", and after a repair the next R-1
\* again: the account of a chunk is covered by intact replicas on up nodes after
\* any history of failures, recoveries, rot, uploads, repairs and topology changes.
THEOREM AccountIsCovered == FTSpec => []MarginIsCovered
<1>1. FTInv => MarginIsCovered
  BY DEF FTInv
<1> QED BY <1>1, InitFTInv, NextFTInv, PTL DEF FTSpec
=============================================================================
