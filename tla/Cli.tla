-------------------------------- MODULE Cli --------------------------------
(***************************************************************************)
(* The snapvault commands over one store directory.  A command rebuilds    *)
(* its cluster from cluster.json and from svcore's files, changes it in    *)
(* memory and writes cluster.json back; the cluster itself dies with the   *)
(* process.  One snapvault command runs at a time; svcore may run between  *)
(* any two of its steps, and it may be killed between any two.             *)
(***************************************************************************)
EXTENDS ClusterOps

CONSTANTS Snapshot,    \* names of svcore's snapshots
          Refs,        \* Refs[m]: the chunks snapshot m references
          MaxNodes     \* bound on put --nodes and add-node

ASSUME RefsAssumption == Refs \in [Snapshot -> SUBSET Chunk]

ASSUME MaxNodesAssumption == MaxNodes \in Nat /\ MaxNodes >= R

VARIABLES chunk,       \* chunk[h]: the file chunks/<h>, as a Replica
          taken,       \* the snapshots with a manifest
          file,        \* cluster.json
          pc,          \* "idle", "save" or "write": inside os.WriteFile
          mem          \* the running command's cluster

vars == <<chunk, taken, file, pc, mem>>

NoExtra == [h \in Chunk |-> {}]

NoState == [text |-> "absent", n |-> 0, down |-> {}, extra |-> NoExtra]
TornState == [text |-> "torn", n |-> 0, down |-> {}, extra |-> NoExtra]

NoCluster == [cmd |-> "none", n |-> 0, up |-> <<>>, data |-> <<>>, extra |-> NoExtra]

Referenced == UNION {Refs[m] : m \in taken}

\* A whole cluster.json is one LoadState accepts.
TypeOK ==
  /\ chunk \in [Chunk -> Replica]
  /\ taken \subseteq Snapshot
  /\ \A h \in Referenced : chunk[h] # "absent"
  /\ file.text \in {"absent", "torn", "whole"}
  /\ file.text = "whole" => /\ file.n \in R .. MaxNodes
                            /\ file.down \subseteq Ids(file.n)
  /\ pc \in {"idle", "save", "write"}
  /\ pc # "idle" => /\ mem.n \in R .. MaxNodes
                    /\ mem.up \in [Ids(mem.n) -> BOOLEAN]
                    /\ mem.data \in [Chunk -> [Ids(mem.n) -> Replica]]

Init ==
  /\ chunk = [h \in Chunk |-> "absent"]
  /\ taken = {}
  /\ file = NoState
  /\ pc = "idle"
  /\ mem = NoCluster

-----------------------------------------------------------------------------
Empty(k) == [h \in Chunk |-> [i \in Ids(k) |-> "absent"]]

LoadState(f) == [cmd |-> "none", n |-> f.n, up |-> [i \in Ids(f.n) |-> i \notin f.down],
                 data |-> Empty(f.n), extra |-> f.extra]

\* The column of h with the bytes of its chunk file on the placement set and on
\* the recorded extra nodes, those that no longer exist skipped.
Rematerialize(h, c) ==
  Stored(Ids(c.n) \cap (Placement(h, c.n) \cup c.extra[h]), chunk[h], c.data[h])

rehydrate(c) ==
  [c EXCEPT !.data = [h \in Chunk |-> IF h \in Referenced THEN Rematerialize(h, c)
                                                          ELSE c.data[h]]]

Held(c) == \E h \in Chunk : Holders(c.data[h]) # {}

OffPlacement(c) == [h \in Chunk |-> Holders(c.data[h]) \ Placement(h, c.n)]

\* Mutation of SaveState: no case for a cluster loaded without its chunks.
SaveState_ForgetsExtra(c) ==
  [text |-> "whole", n |-> c.n, down |-> {i \in Ids(c.n) : ~c.up[i]},
   extra |-> OffPlacement(c)]

\* Mutation of SaveState: down nodes are passed over when replicas are recorded.
SaveState_UpNodesOnly(c) ==
  [text |-> "whole", n |-> c.n, down |-> {i \in Ids(c.n) : ~c.up[i]},
   extra |-> IF Held(c) THEN [h \in Chunk |-> {i \in OffPlacement(c)[h] : c.up[i]}]
                        ELSE c.extra]

SaveState(c) ==
  [text |-> "whole", n |-> c.n, down |-> {i \in Ids(c.n) : ~c.up[i]},
   extra |-> IF Held(c) THEN OffPlacement(c) ELSE c.extra]

-----------------------------------------------------------------------------
\* A command has its changed cluster and comes to SaveState.
Ready(cmd, c) == /\ mem' = [c EXCEPT !.cmd = cmd]
                 /\ pc' = "save"
                 /\ UNCHANGED <<chunk, taken, file>>

Loadable == pc = "idle" /\ file.text = "whole"

\* put looks at no earlier cluster.json.
cmdPut(m, k) ==
  /\ pc = "idle"
  /\ m \in taken
  /\ k >= R
  /\ Ready("put", [LoadState([NoState EXCEPT !.n = k]) EXCEPT
       !.data = [h \in Chunk |-> IF h \in Refs[m] THEN Stored(Placement(h, k), chunk[h], @[h])
                                                  ELSE @[h]]])

\* fail-node and recover load the state and no chunks.
cmdFailNode(id) ==
  /\ Loadable
  /\ id \in Ids(file.n)
  /\ Ready("fail-node", [LoadState(file) EXCEPT !.up[id] = FALSE])

cmdRecover ==
  /\ Loadable
  /\ Ready("recover", [LoadState(file) EXCEPT !.up = [i \in Ids(file.n) |-> TRUE]])

cmdRepair ==
  /\ Loadable
  /\ LET c == rehydrate(LoadState(file))
     IN  Ready("repair", [c EXCEPT !.data = [h \in Chunk |-> Repaired(h, c.n, c.up, @[h])]])

cmdAddNode ==
  /\ Loadable
  /\ file.n < MaxNodes
  /\ LET c   == rehydrate(LoadState(file))
         ups == Grown(c.up, c.n, TRUE)
     IN  Ready("add-node",
           [c EXCEPT !.n = c.n + 1, !.up = ups,
                     !.data = [h \in Chunk |->
                        Rebalanced(h, c.n + 1, ups, Grown(c.data[h], c.n, "absent"))]])

\* Mutation of cmdRemoveNode: the refusal below replication is missing.
cmdRemoveNode_Unguarded(id) ==
  /\ Loadable
  /\ id \in Ids(file.n)
  /\ file.n > 1
  /\ LET c   == rehydrate(LoadState(file))
         ups == Shrunk(c.up, c.n, id)
     IN  Ready("remove-node",
           [c EXCEPT !.n = c.n - 1, !.up = ups,
                     !.data = [h \in Chunk |->
                        Rebalanced(h, c.n - 1, ups,
                                   Shrunk(Drained(id, c.up, c.data[h]), c.n, id))]])

cmdRemoveNode(id) ==
  /\ Loadable
  /\ id \in Ids(file.n)
  /\ file.n - 1 >= R
  /\ LET c   == rehydrate(LoadState(file))
         ups == Shrunk(c.up, c.n, id)
     IN  Ready("remove-node",
           [c EXCEPT !.n = c.n - 1, !.up = ups,
                     !.data = [h \in Chunk |->
                        Rebalanced(h, c.n - 1, ups,
                                   Shrunk(Drained(id, c.up, c.data[h]), c.n, id))]])

\* os.WriteFile truncates, then writes.
Truncate ==
  /\ pc = "save"
  /\ file' = TornState
  /\ pc' = "write"
  /\ UNCHANGED <<chunk, taken, mem>>

Write ==
  /\ pc = "write"
  /\ file' = SaveState(mem)
  /\ pc' = "idle"
  /\ mem' = NoCluster
  /\ UNCHANGED <<chunk, taken>>

\* The command fails or is killed; what it wrote stays.
Abandon ==
  /\ pc # "idle"
  /\ pc' = "idle"
  /\ mem' = NoCluster
  /\ UNCHANGED <<chunk, taken, file>>

-----------------------------------------------------------------------------
\* svcore's commands as one step each; Engine has them in detail.
TakeSnapshot(m) ==
  /\ m \notin taken
  /\ taken' = taken \cup {m}
  /\ chunk' = [h \in Chunk |-> IF h \in Refs[m] /\ chunk[h] = "absent" THEN "intact"
                                                                     ELSE chunk[h]]
  /\ UNCHANGED <<file, pc, mem>>

Drop(m) ==
  /\ m \in taken
  /\ taken' = taken \ {m}
  /\ UNCHANGED <<chunk, file, pc, mem>>

Gc ==
  /\ chunk' = [h \in Chunk |-> IF h \in Referenced THEN chunk[h] ELSE "absent"]
  /\ UNCHANGED <<taken, file, pc, mem>>

\* A chunk file rots on disk.
Rot(h) ==
  /\ chunk[h] = "intact"
  /\ chunk' = [chunk EXCEPT ![h] = "corrupt"]
  /\ UNCHANGED <<taken, file, pc, mem>>

Next ==
  \/ \E m \in Snapshot, k \in 1 .. MaxNodes : cmdPut(m, k)
  \/ \E id \in 0 .. MaxNodes - 1 : cmdFailNode(id)
  \/ cmdRecover
  \/ cmdRepair
  \/ cmdAddNode
  \/ \E id \in 0 .. MaxNodes - 1 : cmdRemoveNode(id)
  \/ Truncate
  \/ Write
  \/ Abandon
  \/ \E m \in Snapshot : TakeSnapshot(m)
  \/ \E m \in Snapshot : Drop(m)
  \/ Gc
  \/ \E h \in Chunk : Rot(h)

Spec == Init /\ [][Next]_vars

-----------------------------------------------------------------------------
\* The cluster the next command would work on.
Reloaded == rehydrate(LoadState(file))

\* ARCHITECTURE.md: the down-set and the locations of repaired replicas
\* "persist in cluster.json".  Whatever command writes it, the next one finds
\* the same nodes down and, of every chunk, the replicas this one left (or had
\* on record, when it loaded no chunks), with the placement set filled up again.
ReloadKeepsReplicas ==
  [][Write =>
       LET left == IF Held(mem) THEN mem ELSE rehydrate(mem)
       IN  /\ Reloaded'.up = mem.up
           /\ \A h \in Referenced :
                Holders(Reloaded'.data[h]) = Holders(left.data[h]) \cup Placement(h, mem.n)]_vars

\* README.md: verify --deep reports corruption, "and a follow-up `repair`
\* overwrites corrupt replicas from a good copy".  A repair command run with all
\* nodes up leaves its cluster without a corrupt replica.
RepairFollowsDeepVerify ==
  [][cmdRepair /\ file.down = {} =>
       \A h \in Chunk : Bad(mem'.up, mem'.data[h]) = {}]_vars
=============================================================================
