----------------------------- MODULE ClusterOps -----------------------------
(***************************************************************************)
(* The data operations of internal/cluster, one chunk at a time.           *)
(*                                                                         *)
(* A cluster of n nodes is two functions on the node ids 0 .. n-1: up[i],  *)
(* node i's flag, and, for each chunk h, a column col[i], what node i's    *)
(* map holds under h.  Repair, rebalance, drain, put and get treat the     *)
(* chunks one by one and no chunk's treatment reads another's, so each is  *)
(* an operator that takes the old column of a chunk to the new one.        *)
(***************************************************************************)
EXTENDS Integers, FiniteSets, LeastElement

CONSTANTS Chunk,   \* chunk hashes (their content addresses)
          R,       \* the replication factor, Cluster.replic
          Hash     \* Hash[h]: the FNV-1a value of h

\* New refuses r < 1.
ASSUME ReplicationAssumption == R \in Nat \ {0}

ASSUME HashAssumption == Hash \in [Chunk -> Nat]

\* What a node holds under a hash: nothing, bytes that reproduce the hash, or
\* bytes that do not.
Replica == {"absent", "intact", "corrupt"}

Ids(n) == 0 .. n-1

-----------------------------------------------------------------------------
placementStart(h, n) == Hash[h] % n

\* The i-th node met when walking the ring of n nodes from h's start.
WalkNode(h, n, i) == (placementStart(h, n) + i) % n

Placement(h, n) == {WalkNode(h, n, i) : i \in 0 .. R-1}

-----------------------------------------------------------------------------
\* The nodes that hold a replica, the up ones among them, and those of the
\* latter whose bytes hash to the chunk's address.
Holders(col) == {i \in DOMAIN col : col[i] # "absent"}

Live(up, col) == {i \in Holders(col) : up[i]}

Intact(up, col) == {i \in Live(up, col) : col[i] = "intact"}

Bad(up, col) == {i \in Live(up, col) : col[i] = "corrupt"}

ChunkAvailable(up, col) == \E i \in DOMAIN col : up[i] /\ col[i] # "absent"

UnderReplicated(up, col) == /\ Holders(col) # {}
                            /\ Cardinality(Live(up, col)) < R

\* Mutation of Get: no fallback to nodes outside the placement set.
Get_PlacedOnly(h, n, up, col) ==
  LET placed == Live(up, col) \cap Placement(h, n)
  IN  IF placed # {} THEN Least(placed) ELSE -1

\* The node Get reads from; -1 stands for ErrChunkUnavailable.
Get(h, n, up, col) ==
  LET placed == Live(up, col) \cap Placement(h, n)
  IN  IF placed # {} THEN Least(placed)
      ELSE IF Live(up, col) # {} THEN Least(Live(up, col))
      ELSE -1

-----------------------------------------------------------------------------
\* The column once r is stored on every node of ids, whether up or down.
Stored(ids, r, col) == [i \in DOMAIN col |-> IF i \in ids THEN r ELSE col[i]]

\* Mutation of Repaired: corrupt replicas are deleted, not overwritten, and
\* still counted as live.
Repaired_DeletesCorrupt(h, n, up, col) ==
  LET live      == Cardinality(Live(up, col))
      spare     == {i \in Ids(n) : up[i] /\ col[i] = "absent"}
      before(k) == {WalkNode(h, n, j) : j \in 0 .. k-1} \cap spare
      filled    == {i \in spare : \E k \in Ids(n) :
                      WalkNode(h, n, k) = i /\ live + Cardinality(before(k)) < R}
  IN  IF Intact(up, col) = {}
      THEN col
      ELSE Stored(Bad(up, col), "absent", Stored(filled, "intact", col))

\* Mutation of Repaired: a chunk with R intact live replicas is skipped whether
\* or not it has corrupt ones.
Repaired_SkipsFullChunks(h, n, up, col) ==
  LET live      == Cardinality(Live(up, col))
      spare     == {i \in Ids(n) : up[i] /\ col[i] = "absent"}
      before(k) == {WalkNode(h, n, j) : j \in 0 .. k-1} \cap spare
      filled    == {i \in spare : \E k \in Ids(n) :
                      WalkNode(h, n, k) = i /\ live + Cardinality(before(k)) < R}
  IN  IF Intact(up, col) = {} \/ Cardinality(Intact(up, col)) >= R
      THEN col
      ELSE Stored(Bad(up, col) \cup filled, "intact", col)

\* Mutation of Repaired: the source is the first up holder, its hash unchecked.
Repaired_UncheckedSource(h, n, up, col) ==
  LET live      == Cardinality(Live(up, col))
      spare     == {i \in Ids(n) : up[i] /\ col[i] = "absent"}
      before(k) == {WalkNode(h, n, j) : j \in 0 .. k-1} \cap spare
      filled    == {i \in spare : \E k \in Ids(n) :
                      WalkNode(h, n, k) = i /\ live + Cardinality(before(k)) < R}
  IN  IF Live(up, col) = {} THEN col
      ELSE Stored(filled, col[Least(Live(up, col))], col)

\* Mutation of Repaired: replicas on down nodes count as live.
Repaired_CountsDownNodes(h, n, up, col) ==
  LET held      == Cardinality(Holders(col))
      spare     == {i \in Ids(n) : up[i] /\ col[i] = "absent"}
      before(k) == {WalkNode(h, n, j) : j \in 0 .. k-1} \cap spare
      filled    == {i \in spare : \E k \in Ids(n) :
                      WalkNode(h, n, k) = i /\ held + Cardinality(before(k)) < R}
  IN  IF Intact(up, col) = {}
      THEN col
      ELSE Stored(Bad(up, col) \cup filled, "intact", col)

\* Repair of one chunk.  The corrupt live replicas are overwritten; then the
\* up nodes without a replica get one in walk order while fewer than R are
\* live.  (The skip of a healthy chunk is the case where both are no-ops.)
Repaired(h, n, up, col) ==
  LET live      == Cardinality(Intact(up, col)) + Cardinality(Bad(up, col))
      spare     == {i \in Ids(n) : up[i] /\ col[i] = "absent"}
      before(k) == {WalkNode(h, n, j) : j \in 0 .. k-1} \cap spare
      filled    == {i \in spare : \E k \in Ids(n) :
                      /\ WalkNode(h, n, k) = i
                      /\ live + Cardinality(before(k)) < R}
  IN  IF Intact(up, col) = {}
      THEN col                                          \* unrepairable
      ELSE Stored(Bad(up, col) \cup filled, "intact", col)

\* Mutation of Rebalanced: vacated nodes are emptied, new ones not filled.
Rebalanced_NoCopy(h, n, up, col) ==
  [i \in DOMAIN col |-> IF up[i] /\ i \notin Placement(h, n) THEN "absent" ELSE col[i]]

\* Mutation of Rebalanced: the vacated nodes are emptied before a source is
\* looked for among the up nodes that still hold the chunk.
Rebalanced_DeletesFirst(h, n, up, col) ==
  LET kept == [i \in DOMAIN col |->
                 IF up[i] /\ i \notin Placement(h, n) THEN "absent" ELSE col[i]]
      src  == kept[Least(Live(up, kept))]
  IN  IF Live(up, kept) = {} THEN kept
      ELSE [i \in DOMAIN col |->
              IF up[i] /\ i \in Placement(h, n) /\ kept[i] = "absent"
              THEN src ELSE kept[i]]

\* Rebalance of one chunk.  The bytes copied are those of the first up
\* holder, whatever they hash to; with no up holder the chunk is skipped.
Rebalanced(h, n, up, col) ==
  LET desired == Placement(h, n)
      src     == col[Least(Live(up, col))]
  IN  IF Live(up, col) = {}
      THEN col
      ELSE [i \in DOMAIN col |->
              IF ~up[i] THEN col[i]
              ELSE IF i \notin desired THEN "absent"
              ELSE IF col[i] = "absent" THEN src
              ELSE col[i]]

\* Mutation of Drained: the node goes without a drain.
Drained_Never(id, up, col) == col

\* Drain of one chunk from the node id: a copy goes to the first other up
\* node unless some other node, up or not, already has one.
Drained(id, up, col) ==
  LET others  == DOMAIN col \ {id}
      targets == {j \in others : up[j]}
      needed  == /\ col[id] # "absent"
                 /\ \A j \in others : col[j] = "absent"
  IN  IF needed /\ targets # {}
      THEN [col EXCEPT ![Least(targets)] = col[id]]
      ELSE col

\* f on n+1 nodes, one of them new; f on n-1 nodes, node id taken out and the
\* later ones renumbered.
Grown(f, n, new) == [i \in Ids(n+1) |-> IF i = n THEN new ELSE f[i]]

Shrunk(f, n, id) == [i \in Ids(n-1) |-> IF i < id THEN f[i] ELSE f[i+1]]
=============================================================================
