------------------------------ MODULE SimVault ------------------------------
(***************************************************************************)
(* An Engine and a Cluster of the web demo, as web/src/useVault.ts and     *)
(* web/src/sim/selfcheck.ts use them: snapshots of trees into one content  *)
(* store, distribution of a snapshot over a cluster, node failures, and    *)
(* restores that verify each chunk (distribute.ts).                        *)
(***************************************************************************)
EXTENDS SimEngine, SimCluster

CONSTANTS Name,   \* snapshot names
          Tree    \* the trees that snapshots are taken of

\* A tree is a finite set of files, and SHA-256 is defined for every chunk.
ASSUME TreeAssumption ==
  \A tree \in Tree :
    /\ IsFiniteSet(DOMAIN tree) /\ DOMAIN tree \subseteq Nat
    /\ \A path \in DOMAIN tree :
         /\ tree[path] \in Seq(0 .. 255)
         /\ \A d \in ToSet(chunkBuffer(tree[path])) : d \in DOMAIN Digest /\ Digest[d] \in Hash

VARIABLES store,      \* the engine's content store
          manifests,  \* Engine.manifests: a function on the names taken so far
          taken,      \* the tree each name was last taken of
          result,     \* the name and the trace of the last SnapshotResult
          up, data    \* the cluster

vars == <<store, manifests, taken, result, up, data>>

clusterVars == <<up, data>>
engineVars == <<store, manifests, taken, result>>

-----------------------------------------------------------------------------
(* distribute.restore.                                                     *)

\* The event that one turn of the loop reports: the chunk's bytes come from the
\* serving node and must reproduce its hash.
Fetch(flags, nodes, h) ==
  LET node == get(flags, nodes, h)
  IN  [hash |-> h, node |-> node,
       ok |-> IF node = -1 THEN FALSE ELSE Digest[nodes[node][h]] = h]

\* Mutation of clusterRestore: a chunk that cannot be had is skipped.
clusterRestore_Skips(flags, nodes, manifest) ==
  LET unique == uniqueChunks(manifest)
      events == [i \in DOMAIN unique |-> Fetch(flags, nodes, unique[i])]
  IN  [ok |-> TRUE, events |-> SelectSeq(events, LAMBDA e : e.ok)]

\* The loop stops at the first event that is not ok and reports it last.
clusterRestore(flags, nodes, manifest) ==
  LET unique == uniqueChunks(manifest)
      events == [i \in DOMAIN unique |-> Fetch(flags, nodes, unique[i])]
      failed == {i \in DOMAIN unique : ~events[i].ok}
  IN  IF failed = {} THEN [ok |-> TRUE, events |-> events]
      ELSE [ok |-> FALSE, events |-> SubSeq(events, 1, Least(failed))]

Verified(r) == Cardinality({i \in DOMAIN r.events : r.events[i].ok})

-----------------------------------------------------------------------------
(* Steps 5 and 6 of runSelfCheck, on a fresh cluster each.                 *)

Distributed(manifest) == distribute(NoData, store, HashesOf(manifest))

\* One node down: the restore succeeds, and so does the engine's.
survivedFailureOk(name, node) ==
  LET m      == manifests[name]
      r      == clusterRestore([AllUp EXCEPT ![node] = FALSE], Distributed(m), m)
  IN  /\ r.ok
      /\ Verified(r) = Len(uniqueChunks(m))
      /\ treesEqual(FilesOf(taken[name]), restore(store, m))

\* Every replica of the first chunk down: the restore fails for want of it.
cleanFailureOk(name) ==
  LET m      == manifests[name]
      first  == uniqueChunks(m)[1]
      flags  == [id \in Ids |-> id \notin placement(first)]
      r      == clusterRestore(flags, Distributed(m), m)
  IN  ~r.ok /\ Last(r.events) = [hash |-> first, node |-> -1, ok |-> FALSE]

-----------------------------------------------------------------------------
Init ==
  /\ store = <<>>
  /\ manifests = <<>>
  /\ taken = <<>>
  /\ result = [name |-> "", trace |-> <<>>]
  /\ up = AllUp
  /\ data = NoData

\* The list of manifests with that of name replaced, or added.
replace(entries, name, entry) ==
  [x \in DOMAIN entries \cup {name} |-> IF x = name THEN entry ELSE entries[x]]

\* Engine.snapshot; a name that exists is replaced.
Snapshot(name, tree) ==
  LET outcome == snapshot(store, tree)
  IN  /\ store' = outcome.store
      /\ result' = [name |-> name, trace |-> outcome.trace]
      /\ manifests' = replace(manifests, name, manifestOf(tree))
      /\ taken' = replace(taken, name, tree)
      /\ UNCHANGED clusterVars

NewCluster ==
  /\ up' = AllUp
  /\ data' = NoData
  /\ UNCHANGED engineVars

\* Every chunk of a snapshot to the cluster, in the order of the hashes.
Distribute(name) ==
  /\ data' = distribute(data, store, HashesOf(manifests[name]))
  /\ UNCHANGED <<up, engineVars>>

SetUp(id, flag) ==
  /\ up' = [up EXCEPT ![id] = flag]
  /\ UNCHANGED <<data, engineVars>>

RecoverAll ==
  /\ up' = AllUp
  /\ UNCHANGED <<data, engineVars>>

Next ==
  \/ \E name \in Name, tree \in Tree : Snapshot(name, tree)
  \/ NewCluster
  \/ \E name \in DOMAIN manifests : Distribute(name)
  \/ \E id \in Ids, flag \in BOOLEAN : SetUp(id, flag)
  \/ RecoverAll

Spec == Init /\ [][Next]_vars

-----------------------------------------------------------------------------
(* Properties.                                                             *)

\* Every hash that some snapshot refers to.
Referenced == UNION {HashesOf(manifests[name]) : name \in DOMAIN manifests}

\* "Rebuild every file of snapshot name, byte-for-byte": whatever was taken or
\* replaced since, every snapshot's chunks are in the store, verify finds none
\* of them bad, and it restores to the tree it was taken of.
RestoreReturnsTheTree ==
  /\ Referenced \subseteq DOMAIN store
  /\ verify(store, {manifests[name] : name \in DOMAIN manifests}).bad = {}
  /\ \A name \in DOMAIN manifests :
       treesEqual(FilesOf(taken[name]), restore(store, manifests[name]))

\* "A later snapshot only writes chunks whose hash is new; unchanged content is
\* referenced, not re-stored": a chunk reported as new was not in the store, is
\* reported once however often the tree repeats it, and never belongs to a file
\* that an earlier snapshot has with the same content.
OnlyNewContentIsWritten ==
  [][LET fresh == newChunks(result'.trace)
         tree  == taken'[result'.name]
         chunk(k) == result'.trace[k]
     IN  /\ {chunk(k).hash : k \in fresh} = DOMAIN store' \ DOMAIN store
         /\ \A j, k \in fresh : chunk(j).hash = chunk(k).hash => j = k
         /\ \A k \in fresh, name \in DOMAIN taken :
              chunk(k).path \in DOMAIN taken[name] =>
                taken[name][chunk(k).path] # tree[chunk(k).path]]_engineVars

\* The snapshots whose chunks have all been sent to this cluster.
OnCluster == {name \in DOMAIN manifests :
                \A h \in HashesOf(manifests[name]) : \E id \in Ids : h \in DOMAIN data[id]}

\* "Fetches each unique chunk, verifies its hash, and aborts on the first
\* failure": a restore of a distributed snapshot succeeds unless some chunk has
\* every replica on a down node, so always while fewer than REPLICAS nodes are
\* down; it then has verified every chunk, and else all that come before the
\* first lost one.
RestoreFollowsFailures ==
  \A name \in OnCluster :
    LET m    == manifests[name]
        lost == {h \in HashesOf(m) : \A id \in placement(h) : ~up[id]}
        r    == clusterRestore(up, data, m)
    IN  /\ r.ok <=> lost = {}
        /\ Cardinality({id \in Ids : ~up[id]}) < REPLICAS => r.ok
        /\ Verified(r) = Cardinality({h \in HashesOf(m) : \A l \in lost : h < l})

\* The plan that the page animates and the restore behind it agree: the plan
\* has every chunk available exactly if the restore succeeds, and up to where
\* that stops each chunk comes from the planned node.
PlanForetellsRestore ==
  \A name \in DOMAIN manifests :
    LET m    == manifests[name]
        plan == planRestore(up, data, uniqueChunks(m))
        r    == clusterRestore(up, data, m)
    IN  /\ r.ok <=> \A i \in DOMAIN plan : plan[i].available
        /\ \A i \in DOMAIN r.events :
             r.events[i].hash = plan[i].hash /\ r.events[i].node = plan[i].node

\* The console self-check reports success for every snapshot with a chunk and
\* whichever node it takes down.
SelfCheckPasses ==
  \A name \in DOMAIN manifests :
    HashesOf(manifests[name]) # {} =>
      /\ \A node \in Ids : survivedFailureOk(name, node)
      /\ cleanFailureOk(name)
=============================================================================
