----------------------------- MODULE Cli_proofs -----------------------------
(***************************************************************************)
(* Theorems about Cli and CliTolerance, for every set of chunks and of     *)
(* snapshots, every replication factor and every interleaving of snapvault *)
(* with svcore and with kills.                                             *)
(***************************************************************************)
EXTENDS CliTolerance, ClusterOps_proofs

Fields == {"cmd", "n", "up", "data", "extra"}

Commands == {"put", "fail-node", "recover", "repair", "add-node", "remove-node"}

-----------------------------------------------------------------------------
\* The up nodes on which the next command would put the bytes of h: those of the
\* placement set and those on record.
Sources(c, h) == {i \in Ids(c.n) \cap (Placement(h, c.n) \cup c.extra[h]) : c.up[i]}

\* What cluster.json is worth to the margins.
FileCovers ==
  file.text = "whole" =>
    \A h \in Chunk : Cardinality(Sources(LoadState(file), h)) >= margin[h]

\* What the running command's cluster is worth once it is written: a new ring is
\* all up; a repair has filled each column it could; fail-node and recover loaded
\* no chunks, so what they write back is what they read.
MemCovers ==
  pc # "idle" =>
    /\ mem.cmd \in Commands
    /\ mem.cmd = "put" => \A i \in Ids(mem.n) : mem.up[i]
    /\ mem.cmd = "repair" =>
         \A h \in Chunk : Intact(mem.up, mem.data[h]) # {} =>
           Cardinality(Live(mem.up, mem.data[h])) >= Least2(R, Ups(mem))
    /\ mem.cmd \in {"fail-node", "recover"} =>
         /\ ~Held(mem)
         /\ \A h \in Chunk : Cardinality(Sources(mem, h)) >= margin[h]

\* Only a chunk that is referenced, and whose file is intact, has a margin.
MarginIsOfGoodChunks ==
  \A h \in Chunk : margin[h] > 0 => h \in Referenced /\ chunk[h] = "intact"

CliInv == /\ TypeOK
          /\ margin \in [Chunk -> Nat]
          /\ MarginIsOfGoodChunks
          /\ FileCovers
          /\ MemCovers

-----------------------------------------------------------------------------
(***************************************************************************)
(* What each command has in memory when it comes to SaveState.             *)
(***************************************************************************)
Blank(k) == [i \in Ids(k) |-> "absent"]

\* The column of h that rehydrate makes on k nodes from the record extra.
Loaded(h, k, extra) ==
  IF h \in Referenced THEN Stored(Ids(k) \cap (Placement(h, k) \cup extra[h]), chunk[h], Blank(k))
                      ELSE Blank(k)

LEMMA RehydratedIs ==
  ASSUME NEW f
  PROVE  LET c == rehydrate(LoadState(f))
         IN  /\ c.n = f.n
             /\ c.up = [i \in Ids(f.n) |-> i \notin f.down]
             /\ c.extra = f.extra
             /\ c.data = [h \in Chunk |-> Loaded(h, f.n, f.extra)]
<1> DEFINE d == LoadState(f)
<1>1. /\ d.n = f.n /\ d.up = [i \in Ids(f.n) |-> i \notin f.down]
      /\ d.extra = f.extra /\ d.data = Empty(f.n)
      /\ DOMAIN d = Fields
  BY DEF LoadState, Fields
<1>2. \A h \in Chunk : d.data[h] = Blank(f.n)
  BY <1>1 DEF Empty, Blank
<1> HIDE DEF d
<1>3. \A h \in Chunk : (IF h \in Referenced THEN Rematerialize(h, d) ELSE d.data[h])
                         = Loaded(h, f.n, f.extra)
  BY <1>1, <1>2 DEF Loaded, Rematerialize
<1>4. rehydrate(d).data = [h \in Chunk |-> Loaded(h, f.n, f.extra)]
  BY <1>1, <1>3 DEF rehydrate, Fields
<1>5. rehydrate(d).n = d.n /\ rehydrate(d).up = d.up /\ rehydrate(d).extra = d.extra
  BY <1>1 DEF rehydrate, Fields
<1> QED BY <1>1, <1>4, <1>5 DEF d

LEMMA PutMem ==
  ASSUME NEW m, NEW k, cmdPut(m, k)
  PROVE  /\ mem'.cmd = "put" /\ mem'.n = k
         /\ mem'.up = [i \in Ids(k) |-> TRUE]
         /\ mem'.data = [h \in Chunk |-> IF h \in Refs[m] THEN Stored(Placement(h, k), chunk[h], Blank(k))
                                                          ELSE Blank(k)]
         /\ pc' = "save" /\ DOMAIN mem' = Fields /\ UNCHANGED <<chunk, taken, file>>
<1> DEFINE f == [NoState EXCEPT !.n = k]
           d == LoadState(f)
           c == [d EXCEPT !.data = [h \in Chunk |->
                   IF h \in Refs[m] THEN Stored(Placement(h, k), chunk[h], @[h]) ELSE @[h]]]
<1>1. f.n = k /\ f.down = {}
  BY DEF NoState
<1>2. Ready("put", c)
  BY DEF cmdPut
<1> HIDE DEF f
<1>3. /\ d.n = k /\ d.up = [i \in Ids(k) |-> TRUE] /\ d.data = Empty(k)
      /\ DOMAIN d = Fields
  BY <1>1 DEF LoadState, Fields
<1> HIDE DEF d
<1>4. /\ c.n = k /\ c.up = [i \in Ids(k) |-> TRUE]
      /\ c.data = [h \in Chunk |-> IF h \in Refs[m] THEN Stored(Placement(h, k), chunk[h], Blank(k))
                                                    ELSE Blank(k)]
      /\ DOMAIN c = Fields
  BY <1>3 DEF Empty, Blank, Fields
<1> HIDE DEF c
<1> QED BY <1>2, <1>4 DEF Ready, Fields

LEMMA FailMem ==
  ASSUME NEW id, cmdFailNode(id)
  PROVE  /\ mem'.cmd = "fail-node" /\ mem'.n = file.n /\ mem'.extra = file.extra
         /\ mem'.up = [i \in Ids(file.n) |-> i \notin file.down /\ i # id]
         /\ mem'.data = Empty(file.n)
         /\ pc' = "save" /\ DOMAIN mem' = Fields /\ UNCHANGED <<chunk, taken, file>>
<1>1. mem' = [[LoadState(file) EXCEPT !.up[id] = FALSE] EXCEPT !.cmd = "fail-node"]
  BY DEF cmdFailNode, Ready
<1>2. pc' = "save" /\ UNCHANGED <<chunk, taken, file>>
  BY DEF cmdFailNode, Ready
<1> QED BY <1>1, <1>2 DEF LoadState, Fields

LEMMA RecoverMem ==
  ASSUME cmdRecover
  PROVE  /\ mem'.cmd = "recover" /\ mem'.n = file.n /\ mem'.extra = file.extra
         /\ mem'.up = [i \in Ids(file.n) |-> TRUE]
         /\ mem'.data = Empty(file.n)
         /\ pc' = "save" /\ DOMAIN mem' = Fields /\ UNCHANGED <<chunk, taken, file>>
BY DEF cmdRecover, Ready, LoadState, Fields

LEMMA RepairMem ==
  ASSUME cmdRepair
  PROVE  /\ mem'.cmd = "repair" /\ mem'.n = file.n
         /\ mem'.up = [i \in Ids(file.n) |-> i \notin file.down]
         /\ mem'.data = [h \in Chunk |->
                           Repaired(h, file.n, mem'.up, Loaded(h, file.n, file.extra))]
         /\ pc' = "save" /\ DOMAIN mem' = Fields /\ UNCHANGED <<chunk, taken, file>>
<1> DEFINE c == rehydrate(LoadState(file))
           d == [c EXCEPT !.data = [h \in Chunk |-> Repaired(h, c.n, c.up, @[h])]]
<1>1. Ready("repair", d)
  BY DEF cmdRepair
<1>2. /\ c.n = file.n /\ c.up = [i \in Ids(file.n) |-> i \notin file.down]
      /\ c.data = [h \in Chunk |-> Loaded(h, file.n, file.extra)]
  BY RehydratedIs
<1>3. DOMAIN c = Fields
  BY DEF rehydrate, LoadState, Fields
<1> HIDE DEF c
<1>4. /\ d.n = c.n /\ d.up = c.up /\ DOMAIN d = DOMAIN c
      /\ d.data = [h \in Chunk |-> Repaired(h, c.n, c.up, c.data[h])]
  BY <1>3 DEF Fields
<1> HIDE DEF d
<1>5. /\ mem'.cmd = "repair" /\ mem'.n = d.n /\ mem'.up = d.up /\ mem'.data = d.data
      /\ pc' = "save" /\ DOMAIN mem' = Fields /\ UNCHANGED <<chunk, taken, file>>
  BY <1>1, <1>3, <1>4 DEF Ready, Fields
<1> QED BY <1>2, <1>4, <1>5

LEMMA AddNodeMem ==
  ASSUME cmdAddNode
  PROVE  LET ups == Grown([i \in Ids(file.n) |-> i \notin file.down], file.n, TRUE)
         IN  /\ mem'.cmd = "add-node" /\ mem'.n = file.n + 1
             /\ mem'.up = ups
             /\ mem'.data = [h \in Chunk |->
                  Rebalanced(h, file.n + 1, ups,
                             Grown(Loaded(h, file.n, file.extra), file.n, "absent"))]
             /\ pc' = "save" /\ DOMAIN mem' = Fields /\ UNCHANGED <<chunk, taken, file>>
<1> DEFINE c == rehydrate(LoadState(file))
           ups == Grown(c.up, c.n, TRUE)
           d == [c EXCEPT !.n = c.n + 1, !.up = ups,
                          !.data = [h \in Chunk |->
                             Rebalanced(h, c.n + 1, ups, Grown(c.data[h], c.n, "absent"))]]
<1>1. Ready("add-node", d)
  BY DEF cmdAddNode
<1>2. /\ c.n = file.n /\ c.up = [i \in Ids(file.n) |-> i \notin file.down]
      /\ c.data = [h \in Chunk |-> Loaded(h, file.n, file.extra)]
  BY RehydratedIs
<1>3. DOMAIN c = Fields
  BY DEF rehydrate, LoadState, Fields
<1> HIDE DEF c
<1>4. /\ d.n = c.n + 1 /\ d.up = ups /\ DOMAIN d = DOMAIN c
      /\ d.data = [h \in Chunk |->
                     Rebalanced(h, c.n + 1, ups, Grown(c.data[h], c.n, "absent"))]
  BY <1>3 DEF Fields
<1> HIDE DEF d
<1>5. /\ mem'.cmd = "add-node" /\ mem'.n = d.n /\ mem'.up = d.up /\ mem'.data = d.data
      /\ pc' = "save" /\ DOMAIN mem' = Fields /\ UNCHANGED <<chunk, taken, file>>
  BY <1>1, <1>3, <1>4 DEF Ready, Fields
<1> QED BY <1>2, <1>4, <1>5

LEMMA RemoveNodeMem ==
  ASSUME NEW id, cmdRemoveNode(id)
  PROVE  LET old == [i \in Ids(file.n) |-> i \notin file.down]
             ups == Shrunk(old, file.n, id)
         IN  /\ mem'.cmd = "remove-node" /\ mem'.n = file.n - 1
             /\ mem'.up = ups
             /\ mem'.data = [h \in Chunk |->
                  Rebalanced(h, file.n - 1, ups,
                             Shrunk(Drained(id, old, Loaded(h, file.n, file.extra)), file.n, id))]
             /\ pc' = "save" /\ DOMAIN mem' = Fields /\ UNCHANGED <<chunk, taken, file>>
<1> DEFINE c == rehydrate(LoadState(file))
           ups == Shrunk(c.up, c.n, id)
           d == [c EXCEPT !.n = c.n - 1, !.up = ups,
                          !.data = [h \in Chunk |->
                             Rebalanced(h, c.n - 1, ups,
                                        Shrunk(Drained(id, c.up, c.data[h]), c.n, id))]]
<1>1. Ready("remove-node", d)
  BY DEF cmdRemoveNode
<1>2. /\ c.n = file.n /\ c.up = [i \in Ids(file.n) |-> i \notin file.down]
      /\ c.data = [h \in Chunk |-> Loaded(h, file.n, file.extra)]
  BY RehydratedIs
<1>3. DOMAIN c = Fields
  BY DEF rehydrate, LoadState, Fields
<1> HIDE DEF c
<1>4. /\ d.n = c.n - 1 /\ d.up = ups /\ DOMAIN d = DOMAIN c
      /\ d.data = [h \in Chunk |->
                     Rebalanced(h, c.n - 1, ups,
                                Shrunk(Drained(id, c.up, c.data[h]), c.n, id))]
  BY <1>3 DEF Fields
<1> HIDE DEF d
<1>5. /\ mem'.cmd = "remove-node" /\ mem'.n = d.n /\ mem'.up = d.up /\ mem'.data = d.data
      /\ pc' = "save" /\ DOMAIN mem' = Fields /\ UNCHANGED <<chunk, taken, file>>
  BY <1>1, <1>3, <1>4 DEF Ready, Fields
<1> QED BY <1>2, <1>4, <1>5

-----------------------------------------------------------------------------
(***************************************************************************)
(* Type correctness.                                                       *)
(***************************************************************************)
LEMMA LoadedType ==
  ASSUME chunk \in [Chunk -> Replica], NEW h \in Chunk, NEW k \in Nat, NEW extra
  PROVE  Loaded(h, k, extra) \in [Ids(k) -> Replica]
<1>1. Blank(k) \in [Ids(k) -> Replica]
  BY DEF Blank, Replica
<1>2. chunk[h] \in Replica
  OBVIOUS
<1> QED BY <1>1, <1>2, StoredType DEF Loaded

\* What a command may use of the cluster.json it loads.
LEMMA FileFacts ==
  ASSUME TypeOK, Loadable
  PROVE  /\ file.n \in Nat /\ file.n \in R .. MaxNodes
         /\ [i \in Ids(file.n) |-> i \notin file.down] \in [Ids(file.n) -> BOOLEAN]
         /\ chunk \in [Chunk -> Replica]
BY ReplicationAssumption, MaxNodesAssumption DEF TypeOK, Loadable

LEMMA ReadyTypeOK ==
  ASSUME TypeOK, UNCHANGED <<chunk, taken, file>>, pc' = "save",
         mem'.n \in R .. MaxNodes,
         mem'.up \in [Ids(mem'.n) -> BOOLEAN],
         mem'.data \in [Chunk -> [Ids(mem'.n) -> Replica]]
  PROVE  TypeOK'
BY DEF TypeOK, Referenced

LEMMA PutTypeOK ==
  ASSUME TypeOK, NEW m \in Snapshot, NEW k \in 1 .. MaxNodes, cmdPut(m, k)
  PROVE  TypeOK'
<1>1. k \in Nat /\ k \in R .. MaxNodes
  BY ReplicationAssumption, MaxNodesAssumption DEF cmdPut
<1>2. Blank(k) \in [Ids(k) -> Replica]
  BY DEF Blank, Replica
<1>3. \A h \in Chunk : Stored(Placement(h, k), chunk[h], Blank(k)) \in [Ids(k) -> Replica]
  BY <1>1, <1>2, StoredType DEF TypeOK
<1>4. /\ mem'.n = k /\ mem'.up = [i \in Ids(k) |-> TRUE]
      /\ mem'.data = [h \in Chunk |->
                        IF h \in Refs[m] THEN Stored(Placement(h, k), chunk[h], Blank(k)) ELSE Blank(k)]
      /\ pc' = "save" /\ UNCHANGED <<chunk, taken, file>>
  BY PutMem
<1>5. mem'.data \in [Chunk -> [Ids(k) -> Replica]]
  BY <1>2, <1>3, <1>4
<1> QED BY <1>1, <1>4, <1>5, ReadyTypeOK

LEMMA FlagTypeOK ==
  ASSUME TypeOK, (\E id \in Ids(file.n) : cmdFailNode(id)) \/ cmdRecover
  PROVE  TypeOK'
<1>1. Loadable
  BY DEF cmdFailNode, cmdRecover
<1>2. file.n \in R .. MaxNodes
  BY <1>1, FileFacts
<1>3. Empty(file.n) \in [Chunk -> [Ids(file.n) -> Replica]]
  BY DEF Empty, Replica
<1>4. /\ mem'.n = file.n /\ mem'.data = Empty(file.n)
      /\ mem'.up \in [Ids(file.n) -> BOOLEAN]
      /\ pc' = "save" /\ UNCHANGED <<chunk, taken, file>>
  BY FailMem, RecoverMem
<1> QED BY <1>2, <1>3, <1>4, ReadyTypeOK

LEMMA RepairTypeOK == ASSUME TypeOK, cmdRepair PROVE TypeOK'
<1>1. /\ file.n \in Nat /\ file.n \in R .. MaxNodes
      /\ [i \in Ids(file.n) |-> i \notin file.down] \in [Ids(file.n) -> BOOLEAN]
      /\ \A h \in Chunk : Loaded(h, file.n, file.extra) \in [Ids(file.n) -> Replica]
  BY FileFacts, LoadedType DEF cmdRepair
<1>2. \A h \in Chunk : Repaired(h, file.n, mem'.up, Loaded(h, file.n, file.extra))
                         \in [Ids(file.n) -> Replica]
  BY <1>1, RepairedType
<1> QED BY <1>1, <1>2, RepairMem, ReadyTypeOK

LEMMA AddNodeTypeOK == ASSUME TypeOK, cmdAddNode PROVE TypeOK'
<1> DEFINE ups == Grown([i \in Ids(file.n) |-> i \notin file.down], file.n, TRUE)
<1>1. /\ file.n \in Nat /\ file.n + 1 \in Nat /\ file.n + 1 \in R .. MaxNodes
      /\ [i \in Ids(file.n) |-> i \notin file.down] \in [Ids(file.n) -> BOOLEAN]
      /\ \A h \in Chunk : Loaded(h, file.n, file.extra) \in [Ids(file.n) -> Replica]
  BY FileFacts, LoadedType, ReplicationAssumption, MaxNodesAssumption DEF cmdAddNode
<1>2. ups \in [Ids(file.n + 1) -> BOOLEAN]
  BY <1>1, GrownType
<1> HIDE DEF ups
<1>3. \A h \in Chunk : Grown(Loaded(h, file.n, file.extra), file.n, "absent")
                         \in [Ids(file.n + 1) -> Replica]
  BY <1>1, GrownType DEF Replica
<1>4. \A h \in Chunk :
        Rebalanced(h, file.n + 1, ups, Grown(Loaded(h, file.n, file.extra), file.n, "absent"))
          \in [Ids(file.n + 1) -> Replica]
  BY <1>1, <1>3, RebalancedType
<1>5. /\ mem'.n = file.n + 1 /\ mem'.up = ups
      /\ mem'.data \in [Chunk -> [Ids(file.n + 1) -> Replica]]
      /\ pc' = "save" /\ UNCHANGED <<chunk, taken, file>>
  BY <1>4, AddNodeMem DEF ups
<1> QED BY <1>1, <1>2, <1>5, ReadyTypeOK

LEMMA RemoveNodeTypeOK ==
  ASSUME TypeOK, NEW id, cmdRemoveNode(id)
  PROVE  TypeOK'
<1> DEFINE old == [i \in Ids(file.n) |-> i \notin file.down]
           ups == Shrunk(old, file.n, id)
           kept(h) == Shrunk(Drained(id, old, Loaded(h, file.n, file.extra)), file.n, id)
<1>1. /\ file.n \in Nat /\ file.n - 1 \in Nat /\ file.n - 1 \in R .. MaxNodes
      /\ id \in Ids(file.n)
      /\ old \in [Ids(file.n) -> BOOLEAN]
      /\ \A h \in Chunk : Loaded(h, file.n, file.extra) \in [Ids(file.n) -> Replica]
  BY FileFacts, LoadedType, ReplicationAssumption, MaxNodesAssumption DEF cmdRemoveNode
<1>2. ups \in [Ids(file.n - 1) -> BOOLEAN]
  BY <1>1, ShrunkType
<1>3. \A h \in Chunk : kept(h) \in [Ids(file.n - 1) -> Replica]
  BY <1>1, DrainedType, ShrunkType
<1>4. /\ mem'.n = file.n - 1 /\ mem'.up = ups
      /\ mem'.data = [h \in Chunk |-> Rebalanced(h, file.n - 1, ups, kept(h))]
      /\ pc' = "save" /\ UNCHANGED <<chunk, taken, file>>
  BY RemoveNodeMem
<1> HIDE DEF ups, old, kept
<1>5. \A h \in Chunk : Rebalanced(h, file.n - 1, ups, kept(h)) \in [Ids(file.n - 1) -> Replica]
  BY <1>1, <1>3, RebalancedType
<1>6. mem'.data \in [Chunk -> [Ids(file.n - 1) -> Replica]]
  BY <1>4, <1>5
<1> QED BY <1>1, <1>2, <1>4, <1>6, ReadyTypeOK

LEMMA WriteTypeOK ==
  ASSUME TypeOK, Truncate \/ Write \/ Abandon
  PROVE  TypeOK'
<1>1. CASE Truncate
  BY <1>1 DEF Truncate, TypeOK, TornState, Referenced
<1>2. CASE Abandon
  BY <1>2 DEF Abandon, TypeOK, Referenced
<1>3. CASE Write
  <2>1. /\ file'.text = "whole" /\ file'.n = mem.n
        /\ file'.down = {i \in Ids(mem.n) : ~mem.up[i]}
    BY <1>3 DEF Write, SaveState
  <2>2. mem.n \in R .. MaxNodes
    BY <1>3 DEF TypeOK, Write
  <2>3. pc' = "idle" /\ UNCHANGED <<chunk, taken>>
    BY <1>3 DEF Write
  <2> QED BY <2>1, <2>2, <2>3 DEF TypeOK, Referenced
<1> QED BY <1>1, <1>2, <1>3

\* svcore leaves cluster.json alone and keeps a file for every referenced chunk.
LEMMA SvcoreTypeOK ==
  ASSUME TypeOK,
         \/ \E m \in Snapshot : TakeSnapshot(m) \/ Drop(m)
         \/ Gc
         \/ \E h \in Chunk : Rot(h)
  PROVE  TypeOK'
<1>0. UNCHANGED <<file, pc, mem>>
  BY DEF TakeSnapshot, Drop, Gc, Rot
<1> SUFFICES /\ chunk' \in [Chunk -> Replica]
             /\ taken' \subseteq Snapshot
             /\ \A h \in Referenced' : chunk'[h] # "absent"
  BY <1>0 DEF TypeOK
<1>1. ASSUME NEW m \in Snapshot, TakeSnapshot(m)
      PROVE  /\ chunk' \in [Chunk -> Replica] /\ taken' \subseteq Snapshot
             /\ \A h \in Referenced' : chunk'[h] # "absent"
  <2>1. Referenced' = Referenced \cup Refs[m] /\ Referenced' \subseteq Chunk
    BY <1>1, RefsAssumption DEF TakeSnapshot, Referenced, TypeOK
  <2> QED BY <1>1, <2>1 DEF TakeSnapshot, TypeOK, Replica
<1>2. ASSUME NEW m \in Snapshot, Drop(m)
      PROVE  /\ chunk' \in [Chunk -> Replica] /\ taken' \subseteq Snapshot
             /\ \A h \in Referenced' : chunk'[h] # "absent"
  <2>1. Referenced' \subseteq Referenced
    BY <1>2 DEF Drop, Referenced
  <2> QED BY <1>2, <2>1 DEF Drop, TypeOK
<1>3. ASSUME Gc \/ \E h \in Chunk : Rot(h)
      PROVE  /\ chunk' \in [Chunk -> Replica] /\ taken' \subseteq Snapshot
             /\ \A h \in Referenced' : chunk'[h] # "absent"
  <2>1. Referenced' = Referenced /\ taken' = taken
    BY <1>3 DEF Gc, Rot, Referenced
  <2>2. Referenced \subseteq Chunk
    BY RefsAssumption DEF TypeOK, Referenced
  <2>3. chunk' \in [Chunk -> Replica]
    BY <1>3 DEF Gc, Rot, TypeOK, Replica
  <2> QED BY <1>3, <2>1, <2>2, <2>3 DEF Gc, Rot, TypeOK
<1> QED BY <1>1, <1>2, <1>3

LEMMA InitTypeOK == Init => TypeOK
BY DEF Init, TypeOK, NoState, Replica, Referenced

LEMMA NextTypeOK == TypeOK /\ [Next]_vars => TypeOK'
<1> SUFFICES ASSUME TypeOK, [Next]_vars PROVE TypeOK'
  OBVIOUS
<1>1. CASE \E m \in Snapshot, k \in 1 .. MaxNodes : cmdPut(m, k)
  BY <1>1, PutTypeOK
<1>2. CASE (\E id \in 0 .. MaxNodes - 1 : cmdFailNode(id)) \/ cmdRecover
  BY <1>2, FlagTypeOK DEF cmdFailNode
<1>3. CASE cmdRepair \/ cmdAddNode \/ \E id \in 0 .. MaxNodes - 1 : cmdRemoveNode(id)
  BY <1>3, RepairTypeOK, AddNodeTypeOK, RemoveNodeTypeOK
<1>4. CASE Truncate \/ Write \/ Abandon
  BY <1>4, WriteTypeOK
<1>5. CASE \/ \E m \in Snapshot : TakeSnapshot(m) \/ Drop(m)
           \/ Gc
           \/ \E h \in Chunk : Rot(h)
  BY <1>5, SvcoreTypeOK
<1>6. CASE UNCHANGED vars
  BY <1>6 DEF vars, TypeOK, Referenced
<1> QED BY <1>1, <1>2, <1>3, <1>4, <1>5, <1>6 DEF Next

\* Every whole cluster.json is one that LoadState accepts, every running command
\* holds a cluster of R nodes or more, and svcore never loses a referenced chunk
\* file, whatever runs between two steps of a command and wherever it is killed.
THEOREM TypeCorrect == Spec => []TypeOK
BY InitTypeOK, NextTypeOK, PTL DEF Spec

-----------------------------------------------------------------------------
(***************************************************************************)
(* A cluster.json that is written says what the next command needs.        *)
(***************************************************************************)

\* A running command's cluster has all its fields.
MemIsCluster == pc # "idle" => DOMAIN mem = Fields

LEMMA NextMemIsCluster == MemIsCluster /\ [Next]_vars => MemIsCluster'
<1> SUFFICES ASSUME MemIsCluster, [Next]_vars PROVE MemIsCluster'
  OBVIOUS
<1>1. CASE \/ \E m \in Snapshot, k \in 1 .. MaxNodes : cmdPut(m, k)
           \/ \E id \in 0 .. MaxNodes - 1 : cmdFailNode(id) \/ cmdRemoveNode(id)
           \/ cmdRecover \/ cmdRepair \/ cmdAddNode
  <2>1. DOMAIN mem' = Fields
    BY <1>1, PutMem, FailMem, RecoverMem, RepairMem, AddNodeMem, RemoveNodeMem
  <2> QED BY <2>1 DEF MemIsCluster
<1>2. CASE Write \/ Abandon
  BY <1>2 DEF Write, Abandon, MemIsCluster
<1>3. CASE \/ Truncate \/ Gc \/ UNCHANGED vars
           \/ \E m \in Snapshot : TakeSnapshot(m) \/ Drop(m)
           \/ \E h \in Chunk : Rot(h)
  <2>1. mem' = mem /\ (pc' # "idle" => pc # "idle")
    BY <1>3 DEF Truncate, Gc, vars, TakeSnapshot, Drop, Rot
  <2> QED BY <2>1 DEF MemIsCluster
<1> QED BY <1>1, <1>2, <1>3 DEF Next

\* A column on which some nodes get a file's bytes.
LEMMA StoredHolders ==
  ASSUME NEW k \in Nat, NEW col \in [Ids(k) -> Replica], NEW S, S \subseteq Ids(k),
         NEW r \in Replica, r # "absent"
  PROVE  Holders(Stored(S, r, col)) = S \cup Holders(col)
BY DEF Holders, Stored

LEMMA BlankColumn ==
  ASSUME NEW k \in Nat
  PROVE  Blank(k) \in [Ids(k) -> Replica] /\ Holders(Blank(k)) = {}
BY DEF Blank, Holders, Replica

\* The next command's cluster, if nothing runs in between.
LEMMA ReloadedIs ==
  ASSUME Write
  PROVE  /\ Reloaded'.up = [i \in Ids(mem.n) |-> i \notin {j \in Ids(mem.n) : ~mem.up[j]}]
         /\ \A h \in Chunk : Reloaded'.data[h] = Loaded(h, mem.n, SaveState(mem).extra)
<1>1. file' = SaveState(mem) /\ chunk' = chunk /\ taken' = taken
  BY DEF Write
<1>2. SaveState(mem).n = mem.n /\ SaveState(mem).down = {j \in Ids(mem.n) : ~mem.up[j]}
  BY DEF SaveState
<1>3. Reloaded' = rehydrate(LoadState(SaveState(mem)))
  BY <1>1 DEF Reloaded, rehydrate, LoadState, Rematerialize, Referenced
<1>4. LET c == rehydrate(LoadState(SaveState(mem)))
      IN  /\ c.up = [i \in Ids(mem.n) |-> i \notin {j \in Ids(mem.n) : ~mem.up[j]}]
          /\ c.data = [h \in Chunk |-> Loaded(h, mem.n, SaveState(mem).extra)]
  BY <1>2, RehydratedIs
<1> QED BY <1>3, <1>4

\* "The down-set and the locations of repaired replicas persist": whichever
\* command writes cluster.json, the next one finds the same nodes down and every
\* replica this one left, or had on record, beside the full placement set.
THEOREM ReloadIsFaithful == Spec => ReloadKeepsReplicas
<1> DEFINE left == IF Held(mem) THEN mem ELSE rehydrate(mem)
           Kept(h) == Holders(Reloaded'.data[h]) = Holders(left.data[h]) \cup Placement(h, mem.n)
<1>1. ASSUME TypeOK, MemIsCluster, Write
      PROVE  Reloaded'.up = mem.up /\ \A h \in Referenced : Kept(h)
  <2>1. /\ mem.n \in Nat /\ mem.n >= R /\ mem.up \in [Ids(mem.n) -> BOOLEAN]
        /\ mem.data \in [Chunk -> [Ids(mem.n) -> Replica]]
        /\ DOMAIN mem = Fields
    BY <1>1, ReplicationAssumption, MaxNodesAssumption DEF TypeOK, Write, MemIsCluster
  <2>2. Reloaded'.up = mem.up
    BY <1>1, <2>1, ReloadedIs
  <2>3. ASSUME NEW h \in Referenced PROVE Kept(h)
    <3> DEFINE P == Placement(h, mem.n)
    <3>1. h \in Chunk /\ chunk[h] \in Replica /\ chunk[h] # "absent"
      BY <1>1, RefsAssumption DEF TypeOK, Referenced
    <3>2. P \subseteq Ids(mem.n)
      BY <2>1, <3>1, PlacementIsRDistinctNodes
    <3>3. Reloaded'.data[h] = Stored(Ids(mem.n) \cap (P \cup SaveState(mem).extra[h]),
                                     chunk[h], Blank(mem.n))
      BY <1>1, <3>1, ReloadedIs DEF Loaded
    <3>4. Holders(Reloaded'.data[h]) = Ids(mem.n) \cap (P \cup SaveState(mem).extra[h])
      BY <2>1, <3>1, <3>3, StoredHolders, BlankColumn
    <3>5. mem.data[h] \in [Ids(mem.n) -> Replica] /\ Holders(mem.data[h]) \subseteq Ids(mem.n)
      BY <2>1, <3>1 DEF Holders
    <3>6. CASE Held(mem)
      <4>1. SaveState(mem).extra[h] = Holders(mem.data[h]) \ P
        BY <3>1, <3>6 DEF SaveState, OffPlacement
      <4> HIDE DEF P
      <4>2. Holders(Reloaded'.data[h]) = Holders(mem.data[h]) \cup P
        BY <3>2, <3>4, <3>5, <4>1
      <4> QED BY <3>6, <4>2 DEF P
    <3>7. CASE ~Held(mem)
      <4>1. SaveState(mem).extra = mem.extra
        BY <3>7 DEF SaveState
      <4>2. Holders(mem.data[h]) = {}
        BY <3>1, <3>7 DEF Held
      <4>3. rehydrate(mem).data[h] = Stored(Ids(mem.n) \cap (P \cup mem.extra[h]),
                                            chunk[h], mem.data[h])
        BY <2>1, <3>1 DEF rehydrate, Rematerialize, Fields
      <4>4. Holders(rehydrate(mem).data[h]) = Ids(mem.n) \cap (P \cup mem.extra[h])
        BY <2>1, <3>1, <3>5, <4>2, <4>3, StoredHolders
      <4> HIDE DEF P
      <4>5. Holders(Reloaded'.data[h]) = Holders(rehydrate(mem).data[h]) \cup P
        BY <3>2, <3>4, <4>1, <4>4
      <4> QED BY <3>7, <4>5 DEF P
    <3> QED BY <3>6, <3>7
  <2> QED BY <2>2, <2>3
<1>2. TypeOK /\ MemIsCluster /\ [Next]_vars =>
        [Write => /\ Reloaded'.up = mem.up
                  /\ \A h \in Referenced : Kept(h)]_vars
  BY <1>1
<1>3. Init => MemIsCluster
  BY DEF Init, MemIsCluster
<1> QED BY <1>2, <1>3, TypeCorrect, NextMemIsCluster, PTL DEF Spec, ReloadKeepsReplicas

-----------------------------------------------------------------------------
(***************************************************************************)
(* The margins.                                                            *)
(***************************************************************************)

\* What cluster.json, read by the next command, is worth for the chunk h.
LEMMA ReloadedIntact ==
  ASSUME NEW h \in Chunk, file.n \in Nat
  PROVE  Intact(Reloaded.up, Reloaded.data[h]) =
           IF h \in Referenced /\ chunk[h] = "intact" THEN Sources(LoadState(file), h) ELSE {}
<1> DEFINE k == file.n
           ups == [i \in Ids(k) |-> i \notin file.down]
           S == Ids(k) \cap (Placement(h, k) \cup file.extra[h])
<1>1. Reloaded.up = ups /\ Reloaded.data[h] = Loaded(h, k, file.extra)
  <2>1. LET c == rehydrate(LoadState(file))
        IN  c.up = ups /\ c.data = [g \in Chunk |-> Loaded(g, k, file.extra)]
    BY RehydratedIs
  <2> QED BY <2>1 DEF Reloaded
<1>2. Sources(LoadState(file), h) = {i \in S : ups[i]}
  BY DEF Sources, LoadState
<1>3. Loaded(h, k, file.extra) =
        [i \in Ids(k) |-> IF h \in Referenced /\ i \in S THEN chunk[h] ELSE "absent"]
  BY DEF Loaded, Stored, Blank
<1>4. S \subseteq Ids(k)
  OBVIOUS
<1> HIDE DEF S, ups, k
<1>5. Intact(ups, Loaded(h, k, file.extra)) =
        IF h \in Referenced /\ chunk[h] = "intact" THEN {i \in S : ups[i]} ELSE {}
  BY <1>3, <1>4 DEF Intact, Live, Holders
<1> QED BY <1>1, <1>2, <1>5

LEMMA CliInvMargin == CliInv => MarginPersists
<1> SUFFICES ASSUME CliInv, file.text = "whole", NEW h \in Chunk
             PROVE  Cardinality(Intact(Reloaded.up, Reloaded.data[h])) >= margin[h]
  BY DEF MarginPersists
<1>1. file.n \in Nat
  BY ReplicationAssumption, MaxNodesAssumption DEF CliInv, TypeOK
<1>2. CASE h \in Referenced /\ chunk[h] = "intact"
  BY <1>1, <1>2, ReloadedIntact DEF CliInv, FileCovers
<1>3. CASE ~(h \in Referenced /\ chunk[h] = "intact")
  <2>1. margin[h] = 0
    BY <1>3 DEF CliInv, MarginIsOfGoodChunks
  <2>2. Intact(Reloaded.up, Reloaded.data[h]) = {}
    BY <1>1, <1>3, ReloadedIntact
  <2> QED BY <2>1, <2>2, FS_EmptySet
<1> QED BY <1>2, <1>3

LEMMA InitCliInv == TInit => CliInv
BY InitTypeOK DEF TInit, Init, CliInv, MarginIsOfGoodChunks, FileCovers, MemCovers, NoState

LEMMA SourcesAreNodes ==
  ASSUME NEW c, NEW h, c.n \in Nat
  PROVE  Sources(c, h) \subseteq Ids(c.n) /\ Cardinality(Sources(c, h)) \in Nat
<1>1. Sources(c, h) \subseteq Ids(c.n)
  BY DEF Sources
<1> QED BY <1>1, NodesAreFinite

\* What the actions may use.
LEMMA CliFacts ==
  ASSUME CliInv
  PROVE  /\ TypeOK /\ margin \in [Chunk -> Nat] /\ R \in Nat \ {0}
         /\ file.text = "whole" =>
              /\ LoadState(file).n \in Nat
              /\ \A h \in Chunk : /\ Cardinality(Sources(LoadState(file), h)) \in Nat
                                  /\ Cardinality(Sources(LoadState(file), h)) >= margin[h]
         /\ pc # "idle" =>
              /\ mem.n \in Nat /\ mem.n >= R
              /\ mem.up \in [Ids(mem.n) -> BOOLEAN]
              /\ mem.data \in [Chunk -> [Ids(mem.n) -> Replica]]
              /\ mem.cmd \in Commands
              /\ \A h \in Chunk : Cardinality(Sources(mem, h)) \in Nat
<1>1. TypeOK /\ margin \in [Chunk -> Nat] /\ R \in Nat \ {0}
  BY ReplicationAssumption DEF CliInv
<1>2. file.text = "whole" => LoadState(file).n \in Nat
  BY <1>1, MaxNodesAssumption DEF TypeOK, LoadState
<1>3. pc # "idle" => /\ mem.n \in Nat /\ mem.n >= R
                     /\ mem.up \in [Ids(mem.n) -> BOOLEAN]
                     /\ mem.data \in [Chunk -> [Ids(mem.n) -> Replica]]
  BY <1>1, MaxNodesAssumption DEF TypeOK
<1> QED BY <1>1, <1>2, <1>3, SourcesAreNodes DEF CliInv, FileCovers, MemCovers

\* Steps that leave cluster.json alone and raise no margin.
LEMMA SameFile ==
  ASSUME CliInv, TypeOK', file' = file,
         margin' \in [Chunk -> Nat], \A h \in Chunk : margin'[h] <= margin[h],
         MarginIsOfGoodChunks', MemCovers'
  PROVE  CliInv'
<1>1. FileCovers'
  <2> SUFFICES ASSUME file.text = "whole", NEW h \in Chunk
               PROVE  Cardinality(Sources(LoadState(file), h)) >= margin'[h]
    BY DEF FileCovers
  <2>1. /\ Cardinality(Sources(LoadState(file), h)) \in Nat
        /\ Cardinality(Sources(LoadState(file), h)) >= margin[h]
        /\ margin[h] \in Nat /\ margin'[h] \in Nat /\ margin'[h] <= margin[h]
    BY CliFacts
  <2> QED BY <2>1
<1> QED BY <1>1 DEF CliInv

\* A command that has its cluster.
LEMMA ReadyCliInv ==
  ASSUME CliInv, TypeOK', UNCHANGED <<chunk, taken, file>>,
         margin' \in [Chunk -> Nat], \A h \in Chunk : margin'[h] <= margin[h],
         MemCovers'
  PROVE  CliInv'
<1>1. ASSUME NEW h \in Chunk, margin'[h] > 0
      PROVE  h \in Referenced' /\ chunk'[h] = "intact"
  <2>1. margin[h] > 0
    BY <1>1, CliFacts
  <2> QED BY <2>1 DEF CliInv, MarginIsOfGoodChunks, Referenced
<1>2. MarginIsOfGoodChunks'
  BY <1>1 DEF MarginIsOfGoodChunks
<1> QED BY <1>2, SameFile

LEMMA PutCliInv ==
  ASSUME CliInv, TypeOK', NEW m, NEW k, cmdPut(m, k), margin' = margin
  PROVE  CliInv'
<1>1. /\ mem'.cmd = "put" /\ mem'.n = k /\ mem'.up = [i \in Ids(k) |-> TRUE]
      /\ UNCHANGED <<chunk, taken, file>>
  BY PutMem
<1>2. MemCovers'
  BY <1>1 DEF MemCovers, Commands
<1>3. margin' \in [Chunk -> Nat] /\ \A h \in Chunk : margin'[h] <= margin[h]
  BY DEF CliInv
<1> QED BY <1>1, <1>2, <1>3, ReadyCliInv

LEMMA EmptyIsNotHeld ==
  ASSUME NEW c, NEW k, c.data = Empty(k)
  PROVE  ~Held(c)
BY DEF Held, Holders, Empty

LEMMA FailCliInv ==
  ASSUME CliInv, TypeOK', NEW id, TFailNode(id)
  PROVE  CliInv'
<1>1. /\ cmdFailNode(id) /\ file.text = "whole"
      /\ margin' = [h \in Chunk |-> IF id \in file.down THEN margin[h] ELSE Spend(margin[h])]
  BY DEF TFailNode, cmdFailNode, Loadable
<1>2. /\ mem'.cmd = "fail-node" /\ mem'.n = file.n /\ mem'.extra = file.extra
      /\ mem'.up = [i \in Ids(file.n) |-> i \notin file.down /\ i # id]
      /\ mem'.data = Empty(file.n)
      /\ UNCHANGED <<chunk, taken, file>>
  BY <1>1, FailMem
<1>3. ASSUME NEW h \in Chunk
      PROVE  /\ margin'[h] \in Nat /\ margin'[h] <= margin[h]
             /\ Cardinality(Sources(mem', h)) >= margin'[h]
  <2> DEFINE S == Sources(LoadState(file), h)
  <2>1. /\ S \subseteq Ids(LoadState(file).n) /\ LoadState(file).n \in Nat
        /\ Cardinality(S) \in Nat /\ Cardinality(S) >= margin[h]
        /\ margin[h] \in Nat
    BY <1>1, CliFacts, SourcesAreNodes
  <2>2. S = {i \in Ids(file.n) \cap (Placement(h, file.n) \cup file.extra[h]) : i \notin file.down}
    BY DEF Sources, LoadState
  <2>3. Sources(mem', h) = S \ {id}
    BY <1>2, <2>2 DEF Sources
  <2>4. /\ Cardinality(S \ {id}) \in Nat
        /\ Cardinality(S \ {id}) >= Cardinality(S) - 1
    BY <2>1, LosesOne
  <2>5. id \in file.down => S \ {id} = S
    BY <2>2
  <2>6. margin'[h] = IF id \in file.down THEN margin[h] ELSE Spend(margin[h])
    BY <1>1
  <2> HIDE DEF S
  <2>7. CASE id \in file.down
    BY <2>1, <2>3, <2>5, <2>6, <2>7
  <2>8. CASE id \notin file.down
    <3>1. margin'[h] = IF margin[h] = 0 THEN 0 ELSE margin[h] - 1
      BY <2>6, <2>8 DEF Spend
    <3>2. Cardinality(S \ {id}) >= margin'[h] /\ margin'[h] \in Nat /\ margin'[h] <= margin[h]
      BY <2>1, <2>4, <3>1
    <3> QED BY <2>3, <3>2
  <2> QED BY <2>7, <2>8
<1>4. MemCovers'
  BY <1>2, <1>3, EmptyIsNotHeld DEF MemCovers, Commands
<1>5. margin' \in [Chunk -> Nat]
  <2>1. margin' = [h \in Chunk |-> margin'[h]]
    BY <1>1
  <2> QED BY <1>3, <2>1
<1> QED BY <1>2, <1>3, <1>4, <1>5, ReadyCliInv

LEMMA RecoverCliInv ==
  ASSUME CliInv, TypeOK', cmdRecover, margin' = margin
  PROVE  CliInv'
<1>1. /\ mem'.cmd = "recover" /\ mem'.n = file.n /\ mem'.extra = file.extra
      /\ mem'.up = [i \in Ids(file.n) |-> TRUE]
      /\ mem'.data = Empty(file.n)
      /\ UNCHANGED <<chunk, taken, file>>
  BY RecoverMem
<1>2. ASSUME NEW h \in Chunk
      PROVE  Cardinality(Sources(mem', h)) >= margin'[h]
  <2> DEFINE S == Sources(LoadState(file), h)
             T == Sources(mem', h)
  <2>1. /\ file.n \in Nat /\ Cardinality(S) >= margin[h] /\ margin[h] \in Nat
    BY CliFacts DEF cmdRecover, Loadable, LoadState
  <2>2. S \subseteq T /\ T \subseteq Ids(file.n)
    BY <1>1 DEF Sources, LoadState
  <2> HIDE DEF S, T
  <2>3. /\ Cardinality(S) \in Nat /\ Cardinality(T) \in Nat
        /\ Cardinality(T) >= Cardinality(S)
    BY <2>1, <2>2, IntactGrows
  <2>4. Cardinality(T) >= margin'[h]
    BY <2>1, <2>3
  <2> QED BY <2>4 DEF T
<1>3. MemCovers'
  BY <1>1, <1>2, EmptyIsNotHeld DEF MemCovers, Commands
<1>4. margin' \in [Chunk -> Nat] /\ \A h \in Chunk : margin'[h] <= margin[h]
  BY DEF CliInv
<1> QED BY <1>1, <1>3, <1>4, ReadyCliInv

LEMMA RepairCliInv ==
  ASSUME CliInv, TypeOK', cmdRepair, margin' = margin
  PROVE  CliInv'
<1> DEFINE k == file.n
           ups == mem'.up
           col(h) == Loaded(h, k, file.extra)
<1>1. /\ mem'.cmd = "repair" /\ mem'.n = k
      /\ mem'.data = [h \in Chunk |-> Repaired(h, k, ups, col(h))]
      /\ ups = [i \in Ids(k) |-> i \notin file.down]
      /\ UNCHANGED <<chunk, taken, file>>
  BY RepairMem
<1>2. /\ k \in Nat /\ k >= R /\ R \in Nat /\ ups \in [Ids(k) -> BOOLEAN]
      /\ \A h \in Chunk : col(h) \in [Ids(k) -> Replica]
  BY <1>1, FileFacts, LoadedType, ReplicationAssumption, MaxNodesAssumption DEF CliInv, cmdRepair
<1>3. Ups(mem') = Cardinality({i \in Ids(k) : ups[i]}) /\ Ups(mem') \in Nat
  <2>1. Ups(mem') = Cardinality({i \in Ids(k) : ups[i]})
    BY <1>1 DEF Ups
  <2> HIDE DEF ups
  <2> QED BY <1>2, <2>1, UpPlusDown
<1> HIDE DEF ups, col
<1>4. ASSUME NEW h \in Chunk, Intact(ups, mem'.data[h]) # {}
      PROVE  Cardinality(Live(ups, mem'.data[h])) >= Least2(R, Ups(mem'))
  <2> DEFINE healed == Repaired(h, k, ups, col(h))
  <2>1. mem'.data[h] = healed
    BY <1>1
  <2>2. Intact(ups, col(h)) # {}
    BY <1>4, <2>1, RepairedIs
  <2>3. /\ Live(ups, healed) = Intact(ups, healed)
        /\ healed \in [Ids(k) -> Replica]
    BY <1>2, <2>2, HealedColumn
  <2>4. \/ Cardinality(Intact(ups, healed)) >= R
        \/ Intact(ups, healed) = {i \in Ids(k) : ups[i]}
    BY <1>2, <2>2, HealedEnough
  <2>5. Live(ups, healed) \subseteq Ids(k)
    BY <1>2, <2>3, LiveIsIds
  <2>6. Cardinality(Live(ups, healed)) \in Nat
    BY <1>2, <2>5, NodesAreFinite
  <2> HIDE DEF healed
  <2>7. \/ Cardinality(Live(ups, healed)) >= R
        \/ Cardinality(Live(ups, healed)) = Ups(mem')
    BY <1>3, <2>3, <2>4
  <2>8. Cardinality(Live(ups, healed)) >= Least2(R, Ups(mem'))
    BY <1>2, <1>3, <2>6, <2>7 DEF Least2
  <2> QED BY <2>1, <2>8
<1>5. MemCovers'
  BY <1>1, <1>4 DEF MemCovers, Commands, ups
<1>6. margin' \in [Chunk -> Nat] /\ \A h \in Chunk : margin'[h] <= margin[h]
  BY DEF CliInv
<1> QED BY <1>1, <1>5, <1>6, ReadyCliInv

\* A rebalance is not asked how the column came about.
LEMMA RebalanceCliInv ==
  ASSUME CliInv, TypeOK', cmdAddNode \/ \E id : cmdRemoveNode(id), margin' = margin
  PROVE  CliInv'
<1>1. /\ mem'.cmd \in {"add-node", "remove-node"}
      /\ UNCHANGED <<chunk, taken, file>>
  BY AddNodeMem, RemoveNodeMem
<1>2. MemCovers'
  BY <1>1 DEF MemCovers, Commands
<1>3. margin' \in [Chunk -> Nat] /\ \A h \in Chunk : margin'[h] <= margin[h]
  BY DEF CliInv
<1> QED BY <1>1, <1>2, <1>3, ReadyCliInv

\* What a written cluster.json is worth: the up nodes of the placement set, and the
\* up nodes that held a replica or were on record.
LEMMA SavedSources ==
  ASSUME NEW h \in Chunk, mem.n \in Nat, mem.n >= R,
         mem.up \in [Ids(mem.n) -> BOOLEAN],
         mem.data \in [Chunk -> [Ids(mem.n) -> Replica]]
  PROVE  LET S == Sources(LoadState(SaveState(mem)), h)
         IN  /\ S \subseteq Ids(mem.n)
             /\ {i \in Placement(h, mem.n) : mem.up[i]} \subseteq S
             /\ Held(mem) => Live(mem.up, mem.data[h]) \subseteq S
             /\ ~Held(mem) => S = Sources(mem, h)
<1> DEFINE c == LoadState(SaveState(mem))
           P == Placement(h, mem.n)
<1>1. /\ c.n = mem.n
      /\ c.extra = IF Held(mem) THEN OffPlacement(mem) ELSE mem.extra
  BY DEF LoadState, SaveState
<1>2. \A i \in Ids(mem.n) : c.up[i] = mem.up[i]
  BY DEF LoadState, SaveState
<1>3. P \subseteq Ids(mem.n)
  BY PlacementIsRDistinctNodes
<1>4. OffPlacement(mem)[h] = Holders(mem.data[h]) \ P
  BY DEF OffPlacement
<1>5. mem.data[h] \in [Ids(mem.n) -> Replica]
  OBVIOUS
<1>6. Live(mem.up, mem.data[h]) \subseteq Ids(mem.n)
  BY <1>5, LiveIsIds
<1> HIDE DEF c, P
<1>7. Sources(c, h) = {i \in Ids(mem.n) \cap (P \cup c.extra[h]) : mem.up[i]}
  BY <1>1, <1>2 DEF Sources, P
<1>8. Held(mem) => Live(mem.up, mem.data[h]) \subseteq Sources(c, h)
  BY <1>1, <1>4, <1>6, <1>7 DEF Live
<1>9. ~Held(mem) => Sources(c, h) = Sources(mem, h)
  BY <1>1, <1>7 DEF Sources, P
<1> QED BY <1>3, <1>7, <1>8, <1>9 DEF c, P

LEMMA RenewedIsCovered ==
  ASSUME CliInv, pc # "idle", NEW h \in Chunk
  PROVE  /\ Renewed(h) \in Nat
         /\ Cardinality(Sources(LoadState(SaveState(mem)), h)) >= Renewed(h)
         /\ Renewed(h) > 0 => h \in Referenced /\ chunk[h] = "intact"
<1> DEFINE S == Sources(LoadState(SaveState(mem)), h)
           P == {i \in Placement(h, mem.n) : mem.up[i]}
           D == {i \in Ids(mem.n) : ~mem.up[i]}
<1>1. /\ mem.n \in Nat /\ mem.n >= R /\ R \in Nat \ {0}
      /\ mem.up \in [Ids(mem.n) -> BOOLEAN]
      /\ mem.data \in [Chunk -> [Ids(mem.n) -> Replica]]
      /\ mem.cmd \in Commands
      /\ margin[h] \in Nat
  BY CliFacts
<1>2. /\ S \subseteq Ids(mem.n) /\ P \subseteq S
      /\ Held(mem) => Live(mem.up, mem.data[h]) \subseteq S
      /\ ~Held(mem) => S = Sources(mem, h)
  BY <1>1, SavedSources
<1>3. /\ Cardinality(P) \in Nat /\ Cardinality(D) \in Nat
      /\ Cardinality(P) + Cardinality(D) >= R
      /\ Ups(mem) \in Nat /\ Ups(mem) = mem.n - Cardinality(D)
  BY <1>1, PlacedUp, UpPlusDown DEF Ups
<1>4. mem.cmd = "put" => Cardinality(D) = 0
  <2>1. mem.cmd = "put" => D = {}
    BY DEF CliInv, MemCovers
  <2> HIDE DEF D
  <2> QED BY <2>1, FS_EmptySet
<1> HIDE DEF S, P, D
<1>5. Cardinality(S) \in Nat /\ Cardinality(S) >= Cardinality(P)
  BY <1>1, <1>2, IntactGrows
<1>6. CASE h \notin Referenced \/ chunk[h] # "intact"
  BY <1>5, <1>6 DEF Renewed, S
<1>7. CASE ~(h \notin Referenced \/ chunk[h] # "intact")
  <2>1. CASE mem.cmd = "put"
    <3>1. Renewed(h) = R
      BY <1>7, <2>1 DEF Renewed
    <3>2. Cardinality(S) >= R
      BY <1>1, <1>3, <1>4, <1>5, <2>1
    <3> QED BY <1>1, <1>7, <3>1, <3>2 DEF S
  <2>2. CASE mem.cmd = "repair"
    <3>1. Renewed(h) = IF Intact(mem.up, mem.data[h]) = {} THEN 0 ELSE Least2(R, Ups(mem))
      BY <1>7, <2>2 DEF Renewed
    <3>2. Least2(R, Ups(mem)) \in Nat
      BY <1>1, <1>3 DEF Least2
    <3>3. CASE Intact(mem.up, mem.data[h]) = {}
      BY <1>5, <1>7, <3>1, <3>3 DEF S
    <3>4. CASE Intact(mem.up, mem.data[h]) # {}
      <4>1. Held(mem)
        BY <3>4 DEF Held, Intact, Live
      <4>2. Cardinality(Live(mem.up, mem.data[h])) >= Least2(R, Ups(mem))
        BY <2>2, <3>4 DEF CliInv, MemCovers
      <4>3. /\ Cardinality(Live(mem.up, mem.data[h])) \in Nat
            /\ Cardinality(S) >= Cardinality(Live(mem.up, mem.data[h]))
        BY <1>1, <1>2, <4>1, IntactGrows
      <4>4. Cardinality(S) >= Least2(R, Ups(mem))
        BY <1>5, <3>2, <4>2, <4>3
      <4> QED BY <1>7, <3>1, <3>2, <3>4, <4>4 DEF S
    <3> QED BY <3>3, <3>4
  <2>3. CASE mem.cmd \in {"add-node", "remove-node"}
    <3>1. Renewed(h) = IF margin[h] = 0 \/ mem.n - Ups(mem) >= R THEN 0
                                                               ELSE R - (mem.n - Ups(mem))
      BY <1>7, <2>3 DEF Renewed
    <3>2. Renewed(h) \in Nat /\ Cardinality(S) >= Renewed(h)
      BY <1>1, <1>3, <1>5, <3>1
    <3> QED BY <1>7, <3>2 DEF S
  <2>4. CASE mem.cmd \in {"fail-node", "recover"}
    <3>1. Renewed(h) = margin[h]
      BY <1>7, <2>4 DEF Renewed
    <3>2. ~Held(mem) /\ Cardinality(Sources(mem, h)) >= margin[h]
      BY <2>4 DEF CliInv, MemCovers
    <3> QED BY <1>1, <1>2, <1>7, <3>1, <3>2 DEF S
  <2> QED BY <1>1, <2>1, <2>2, <2>3, <2>4 DEF Commands
<1> QED BY <1>6, <1>7

LEMMA WriteCliInv ==
  ASSUME CliInv, TypeOK', TWrite
  PROVE  CliInv'
<1>1. /\ pc = "write" /\ file' = SaveState(mem) /\ pc' = "idle"
      /\ UNCHANGED <<chunk, taken>>
      /\ margin' = [h \in Chunk |-> Renewed(h)]
  BY DEF TWrite, Write
<1>2. \A h \in Chunk : margin'[h] = Renewed(h)
  BY <1>1
<1>3. margin' \in [Chunk -> Nat]
  BY <1>1, RenewedIsCovered
<1>4. MarginIsOfGoodChunks'
  BY <1>1, <1>2, RenewedIsCovered DEF MarginIsOfGoodChunks, Referenced
<1>5. FileCovers'
  BY <1>1, <1>2, RenewedIsCovered DEF FileCovers
<1>6. MemCovers'
  BY <1>1 DEF MemCovers
<1> QED BY <1>3, <1>4, <1>5, <1>6 DEF CliInv

\* svcore's steps, and a command that ends without writing.
LEMMA SameClusterCliInv ==
  ASSUME CliInv, TypeOK', file' = file, pc' # "idle" => pc # "idle" /\ mem' = mem,
         margin' \in [Chunk -> Nat], \A h \in Chunk : margin'[h] <= margin[h],
         MarginIsOfGoodChunks'
  PROVE  CliInv'
<1>1. ASSUME pc # "idle", NEW h \in Chunk, Cardinality(Sources(mem, h)) >= margin[h]
      PROVE  Cardinality(Sources(mem, h)) >= margin'[h]
  <2>1. /\ Cardinality(Sources(mem, h)) \in Nat /\ margin[h] \in Nat
        /\ margin'[h] \in Nat /\ margin'[h] <= margin[h]
    BY <1>1, CliFacts
  <2> QED BY <1>1, <2>1
<1>2. MemCovers'
  BY <1>1 DEF CliInv, MemCovers
<1> QED BY <1>2, SameFile

LEMMA TruncateCliInv ==
  ASSUME CliInv, TypeOK', Truncate, margin' = margin
  PROVE  CliInv'
<1>1. /\ file'.text = "torn" /\ pc # "idle" /\ mem' = mem /\ UNCHANGED <<chunk, taken>>
  BY DEF Truncate, TornState
<1>2. FileCovers'
  BY <1>1 DEF FileCovers
<1>3. MarginIsOfGoodChunks' /\ MemCovers'
  BY <1>1 DEF CliInv, MarginIsOfGoodChunks, MemCovers, Referenced
<1> QED BY <1>2, <1>3 DEF CliInv

LEMMA SvcoreCliInv ==
  ASSUME CliInv, TypeOK',
         \/ Abandon /\ margin' = margin
         \/ \E m \in Snapshot : (TakeSnapshot(m) /\ margin' = margin) \/ TDrop(m)
         \/ Gc /\ margin' = margin
         \/ \E h \in Chunk : TRot(h)
  PROVE  CliInv'
<1> DEFINE Good(h) == h \in Referenced /\ chunk[h] = "intact"
<1>1. margin \in [Chunk -> Nat] /\ \A h \in Chunk : margin[h] > 0 => Good(h)
  BY DEF CliInv, MarginIsOfGoodChunks
<1>2. file' = file /\ (pc' # "idle" => pc # "idle" /\ mem' = mem)
  BY DEF Abandon, TakeSnapshot, TDrop, Drop, Gc, TRot, Rot
<1> DEFINE Lower ==
             /\ margin' \in [Chunk -> Nat]
             /\ \A h \in Chunk : margin'[h] <= margin[h]
             /\ \A h \in Chunk : margin'[h] > 0 => h \in Referenced' /\ chunk'[h] = "intact"
<1>3. CASE Abandon /\ margin' = margin
  BY <1>1, <1>2, <1>3, SameClusterCliInv DEF Abandon, Referenced, MarginIsOfGoodChunks
<1>4. ASSUME NEW m \in Snapshot, TakeSnapshot(m), margin' = margin PROVE Lower
  <2>1. Referenced \subseteq Referenced'
    BY <1>4 DEF TakeSnapshot, Referenced
  <2> QED BY <1>1, <1>4, <2>1 DEF TakeSnapshot
<1>5. ASSUME NEW m \in Snapshot, TDrop(m) PROVE Lower
  <2>1. /\ margin' = [h \in Chunk |-> IF h \in Referenced' THEN margin[h] ELSE 0]
        /\ chunk' = chunk
    BY <1>5 DEF TDrop, Drop
  <2> QED BY <1>1, <2>1
<1>6. ASSUME Gc, margin' = margin PROVE Lower
  <2>1. Referenced' = Referenced
    BY <1>6 DEF Gc, Referenced
  <2> QED BY <1>1, <1>6, <2>1 DEF Gc
<1>7. ASSUME NEW g \in Chunk, TRot(g) PROVE Lower
  <2>1. /\ margin' = [margin EXCEPT ![g] = 0] /\ chunk' = [chunk EXCEPT ![g] = "corrupt"]
        /\ Referenced' = Referenced
    BY <1>7 DEF TRot, Rot, Referenced
  <2>2. chunk \in [Chunk -> Replica]
    BY DEF CliInv, TypeOK
  <2>3. ASSUME NEW h \in Chunk
        PROVE  margin'[h] \in Nat /\ margin'[h] <= margin[h]
               /\ (margin'[h] > 0 => h \in Referenced' /\ chunk'[h] = "intact")
    <3>1. CASE h = g
      <4>1. margin'[h] = 0 /\ margin[h] \in Nat
        BY <1>1, <2>1, <3>1
      <4> QED BY <4>1
    <3>2. CASE h # g
      <4>1. margin'[h] = margin[h] /\ chunk'[h] = chunk[h] /\ margin[h] \in Nat
        BY <1>1, <2>1, <2>2, <3>2
      <4> QED BY <1>1, <2>1, <4>1
    <3> QED BY <3>1, <3>2
  <2>4. margin' = [h \in Chunk |-> margin'[h]]
    BY <1>1, <2>1
  <2> QED BY <2>3, <2>4
<1>8. ASSUME Lower PROVE CliInv'
  <2>1. MarginIsOfGoodChunks'
    BY <1>8 DEF MarginIsOfGoodChunks
  <2> QED BY <1>2, <1>8, <2>1, SameClusterCliInv
<1> HIDE DEF Lower
<1> QED BY <1>3, <1>4, <1>5, <1>6, <1>7, <1>8

-----------------------------------------------------------------------------
\* Keeping the margins changes nothing about the commands.
LEMMA MarginOnly == [TNext]_tVars => [Next]_vars
BY DEF TNext, Next, tVars, vars, TFailNode, TWrite, TDrop, TRot

LEMMA NextCliInv == CliInv /\ [TNext]_tVars => CliInv'
<1> SUFFICES ASSUME CliInv, [TNext]_tVars PROVE CliInv'
  OBVIOUS
<1>0. TypeOK'
  BY MarginOnly, NextTypeOK DEF CliInv
<1>1. CASE \E m \in Snapshot, k \in 1 .. MaxNodes : cmdPut(m, k) /\ UNCHANGED margin
  BY <1>0, <1>1, PutCliInv
<1>2. CASE \E id \in 0 .. MaxNodes - 1 : TFailNode(id)
  BY <1>0, <1>2, FailCliInv
<1>3. CASE cmdRecover /\ UNCHANGED margin
  BY <1>0, <1>3, RecoverCliInv
<1>4. CASE cmdRepair /\ UNCHANGED margin
  BY <1>0, <1>4, RepairCliInv
<1>5. CASE \/ cmdAddNode /\ UNCHANGED margin
           \/ \E id \in 0 .. MaxNodes - 1 : cmdRemoveNode(id) /\ UNCHANGED margin
  BY <1>0, <1>5, RebalanceCliInv
<1>6. CASE TWrite
  BY <1>0, <1>6, WriteCliInv
<1>7. CASE Truncate /\ UNCHANGED margin
  BY <1>0, <1>7, TruncateCliInv
<1>8. CASE \/ Abandon /\ UNCHANGED margin
           \/ \E m \in Snapshot : TakeSnapshot(m) /\ UNCHANGED margin
           \/ \E m \in Snapshot : TDrop(m)
           \/ Gc /\ UNCHANGED margin
           \/ \E h \in Chunk : TRot(h)
  <2>1. \/ Abandon /\ margin' = margin
        \/ \E m \in Snapshot : (TakeSnapshot(m) /\ margin' = margin) \/ TDrop(m)
        \/ Gc /\ margin' = margin
        \/ \E h \in Chunk : TRot(h)
    BY <1>8
  <2> QED BY <1>0, <2>1, SvcoreCliInv
<1>9. CASE UNCHANGED tVars
  BY <1>9 DEF tVars, vars, CliInv, TypeOK, MarginIsOfGoodChunks, FileCovers, MemCovers, Referenced
<1> QED BY <1>1, <1>2, <1>3, <1>4, <1>5, <1>6, <1>7, <1>8, <1>9 DEF TNext

\* After a repair "the cluster tolerates the next R-1 failures again", also across
\* processes: whatever commands rebuild the cluster from cluster.json, write it
\* back or die before they do, and whatever svcore and rot do to the chunk files,
\* the next command finds every margin covered by intact replicas on up nodes.
THEOREM MarginSurvives == TSpec => []MarginPersists
BY InitCliInv, NextCliInv, CliInvMargin, PTL DEF TSpec
=============================================================================
