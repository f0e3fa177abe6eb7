------------------------------ MODULE Cluster ------------------------------
(***************************************************************************)
(* internal/cluster as a state machine: a cluster in memory, its exported  *)
(* operations in any order, nodes that fail and come back, and replicas    *)
(* whose bytes rot.  Every mutating method holds c.mu for its whole body,  *)
(* so each is one action.                                                  *)
(***************************************************************************)
EXTENDS ClusterOps

CONSTANT MaxNodes      \* bound: AddNode stops at this many nodes

ASSUME MaxNodesAssumption == MaxNodes \in Nat /\ MaxNodes >= R

VARIABLES n,           \* len(c.nodes)
          up,          \* up[i]: c.nodes[i].up
          data         \* data[h][i]: what c.nodes[i].data holds under h

vars == <<n, up, data>>

TypeOK == /\ n \in R .. MaxNodes
          /\ up \in [Ids(n) -> BOOLEAN]
          /\ data \in [Chunk -> [Ids(n) -> Replica]]

\* New accepts 1 <= r <= n.
Init == /\ n \in R .. MaxNodes
        /\ up = [i \in Ids(n) |-> TRUE]
        /\ data = [h \in Chunk |-> [i \in Ids(n) |-> "absent"]]

-----------------------------------------------------------------------------
Put(h) ==
  /\ data' = [data EXCEPT ![h] = Stored(Placement(h, n), "intact", @)]
  /\ UNCHANGED <<n, up>>

SetUp(id, flag) ==
  /\ up' = [up EXCEPT ![id] = flag]
  /\ UNCHANGED <<n, data>>

RecoverAll ==
  /\ up' = [i \in Ids(n) |-> TRUE]
  /\ UNCHANGED <<n, data>>

\* The fault verify --deep and repair exist for: bytes of one replica change
\* under the node, up or not.
Corrupt(id, h) ==
  /\ data[h][id] = "intact"
  /\ data' = [data EXCEPT ![h][id] = "corrupt"]
  /\ UNCHANGED <<n, up>>

Repair ==
  /\ data' = [h \in Chunk |-> Repaired(h, n, up, data[h])]
  /\ UNCHANGED <<n, up>>

AddNode ==
  /\ n < MaxNodes
  /\ n' = n + 1
  /\ up' = Grown(up, n, TRUE)
  /\ data' = [h \in Chunk |->
                Rebalanced(h, n + 1, up', Grown(data[h], n, "absent"))]

\* Mutation of RemoveNode: any removal is accepted while a node is left.
RemoveNode_Unguarded(id) ==
  /\ n > 1
  /\ n' = n - 1
  /\ up' = Shrunk(up, n, id)
  /\ data' = [h \in Chunk |->
                Rebalanced(h, n - 1, up', Shrunk(Drained(id, up, data[h]), n, id))]

\* The guard is the refusal "n-1 nodes would not satisfy replication".
RemoveNode(id) ==
  /\ n - 1 >= R
  /\ n' = n - 1
  /\ up' = Shrunk(up, n, id)
  /\ data' = [h \in Chunk |->
                Rebalanced(h, n - 1, up', Shrunk(Drained(id, up, data[h]), n, id))]

Next ==
  \/ \E h \in Chunk : Put(h)
  \/ \E id \in Ids(n), flag \in BOOLEAN : SetUp(id, flag)
  \/ RecoverAll
  \/ \E id \in Ids(n), h \in Chunk : Corrupt(id, h)
  \/ Repair
  \/ AddNode
  \/ \E id \in Ids(n) : RemoveNode(id)

Spec == Init /\ [][Next]_vars

-----------------------------------------------------------------------------
Down == {i \in Ids(n) : ~up[i]}

\* Get's fallback past the placement set (Cluster.Get): a chunk is readable
\* exactly while some up node holds it, wherever repair has put that replica,
\* and the placement set is preferred.
GetFindsAnyLiveReplica ==
  \A h \in Chunk :
    LET id == Get(h, n, up, data[h])
    IN  /\ ChunkAvailable(up, data[h]) <=> id # -1
        /\ id # -1 => /\ id \in Live(up, data[h])
                      /\ \/ id \in Placement(h, n)
                         \/ Live(up, data[h]) \cap Placement(h, n) = {}

\* Cluster.Repair, called in any state, heals all it can: a chunk with an intact
\* live replica ends with no corrupt live one, and with R intact live ones, or
\* one on every up node when fewer than R are up.
RepairHeals ==
  \A h \in Chunk :
    LET healed == Repaired(h, n, up, data[h])
    IN  Intact(up, data[h]) # {} =>
          /\ Bad(up, healed) = {}
          /\ \/ Cardinality(Intact(up, healed)) >= R
             \/ Intact(up, healed) = Ids(n) \ Down

\* Cluster.Repair harms nothing: no replica on a down node changes, no intact
\* replica is overwritten or dropped, no corrupt bytes are copied anywhere, and
\* no chunk gets more than R live replicas because of it.
RepairHarmsNothing ==
  [][Repair => \A h \in Chunk :
       /\ \A i \in Ids(n) :
            data'[h][i] # data[h][i] => /\ up[i]
                                        /\ data[h][i] # "intact"
                                        /\ data'[h][i] = "intact"
       /\ \/ Cardinality(Live(up', data'[h])) <= R
          \/ Live(up', data'[h]) = Live(up, data[h])]_vars

\* A second repair finds nothing to do (TestRepairIsIdempotent), in every state
\* a mix of failures, rot and topology changes can reach.
RepairIsIdempotent ==
  \A h \in Chunk :
    LET once == Repaired(h, n, up, data[h])
    IN  Repaired(h, n, up, once) = once

\* Cluster.AddNode while fewer than R nodes are down never makes an available
\* chunk unavailable, although rebalance deletes every live replica that is off
\* the new placement set, those repair made included.
GrowthKeepsAvailable ==
  [][AddNode /\ Cardinality(Down) < R =>
       \A h \in Chunk : ChunkAvailable(up, data[h]) => ChunkAvailable(up', data'[h])]_vars

\* Cluster.RemoveNode while fewer than R of the other nodes are down: drain and
\* rebalance together lose no chunk, so one that any node held before, some
\* node still holds after.
RemovalKeepsEveryChunk ==
  [][\A id \in Ids(n) :
       RemoveNode(id) /\ Cardinality(Down \ {id}) < R =>
         \A h \in Chunk : Holders(data[h]) # {} => Holders(data'[h]) # {}]_vars

\* After a topology change (rebalanceLocked) a chunk is held by all up nodes of
\* its new placement set and by no other up node, unless there was nothing to
\* copy from: no up node held it and, in a removal, none was drained to.
RebalanceMatchesPlacement ==
  [][\A h \in Chunk :
       LET placed == {i \in Placement(h, n') : up'[i]}
           drainedTo(id) == Holders(data[h]) = {id} /\ \E j \in Ids(n) \ {id} : up[j]
       IN  /\ AddNode =>
                Live(up', data'[h]) = IF Live(up, data[h]) # {} THEN placed ELSE {}
           /\ \A id \in Ids(n) : RemoveNode(id) =>
                Live(up', data'[h]) =
                  IF Live(up, data[h]) \ {id} # {} \/ drainedTo(id) THEN placed ELSE {}]_vars

\* The comment on RemoveNode's drain: "any chunk held only by the victim must
\* survive somewhere before the node disappears".
DrainSavesOnlyCopies ==
  [][\A id \in Ids(n) :
       RemoveNode(id) => \A h \in Chunk :
         Holders(data[h]) = {id} => Holders(data'[h]) # {}]_vars

\* repair_test.go of remove-node: no chunk is "lost or corrupted by removal".
\* One that has an intact replica on an up node other than the victim still
\* has an intact replica afterwards.
RemovalKeepsIntactBytes ==
  [][\A id \in Ids(n) :
       RemoveNode(id) /\ Cardinality(Down \ {id}) < R =>
         \A h \in Chunk :
           Intact(up, data[h]) \ {id} # {} => "intact" \in {data'[h][i] : i \in Ids(n')}]_vars
=============================================================================
