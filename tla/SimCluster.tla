----------------------------- MODULE SimCluster -----------------------------
(***************************************************************************)
(* The cluster of the web demo (web/src/sim/cluster.ts) and the two        *)
(* functions that move a manifest's chunks through it (distribute.ts).     *)
(*                                                                         *)
(* Unlike internal/cluster it is never resized or repaired, and its get    *)
(* looks at the placement set only.  up[id] is a node's flag, data[id] its *)
(* map from hashes to bytes, a function on the hashes the node has.        *)
(***************************************************************************)
EXTENDS Integers, Sequences, LeastElement

CONSTANTS NODES,      \* n of new Cluster(n, r)
          REPLICAS,   \* r
          Hash,       \* content addresses; numbers, in the order of their strings
          Fnv         \* Fnv[h]: the FNV-1a value of h

\* The constructor throws otherwise.
ASSUME SizeAssumption == NODES \in Nat \ {0} /\ REPLICAS \in 1 .. NODES

ASSUME FnvAssumption == Hash \subseteq Nat /\ Fnv \in [Hash -> Nat]

Ids == 0 .. NODES - 1

AllUp == [id \in Ids |-> TRUE]

NoData == [id \in Ids |-> <<>>]

-----------------------------------------------------------------------------
placement(h) == {(Fnv[h] + i) % NODES : i \in 0 .. REPLICAS - 1}

\* Mutation of get: the first placed node, whether it is up or not.
get_IgnoresUp(up, data, h) ==
  LET replicas == {id \in placement(h) : h \in DOMAIN data[id]}
  IN  IF replicas = {} THEN -1 ELSE Least(replicas)

\* The node that serves h; -1 stands for the throw of ErrChunkUnavailable.
get(up, data, h) ==
  LET replicas == {id \in placement(h) : up[id] /\ h \in DOMAIN data[id]}
  IN  IF replicas = {} THEN -1 ELSE Least(replicas)

chunkAvailable(up, data, h) ==
  \E id \in placement(h) : up[id] /\ h \in DOMAIN data[id]

-----------------------------------------------------------------------------
\* Mutation of distribute: only the first placed node receives the chunk.
distribute_FirstOnly(data, store, hashes) ==
  [id \in Ids |->
     LET sent == {h \in hashes : id = Least(placement(h))}
     IN  [h \in DOMAIN data[id] \cup sent |->
            IF h \in sent THEN store[h] ELSE data[id][h]]]

\* The nodes' maps after a put of every hash of hashes from the store, up or not.
distribute(data, store, hashes) ==
  [id \in Ids |->
     LET sent == {h \in hashes : id \in placement(h)}
     IN  [h \in DOMAIN data[id] \cup sent |->
            IF h \in sent THEN store[h] ELSE data[id][h]]]

\* Mutation of planRestore: any placed node that has the chunk, up or down.
planRestore_IgnoresUp(up, data, unique) ==
  [i \in DOMAIN unique |->
     LET node == get(AllUp, data, unique[i])
     IN  [hash |-> unique[i], node |-> node, available |-> node # -1]]

\* Which node will serve each unique chunk, in the order of the hashes.
planRestore(up, data, unique) ==
  [i \in DOMAIN unique |->
     LET node == get(up, data, unique[i])
     IN  [hash |-> unique[i], node |-> node, available |-> node # -1]]
=============================================================================
