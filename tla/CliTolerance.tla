---------------------------- MODULE CliTolerance ----------------------------
(***************************************************************************)
(* The promise of FaultTolerance, kept across processes: margin[h] is how  *)
(* many intact live replicas of h the next command may count on, after any *)
(* sequence of commands each of which rebuilt the cluster from disk.       *)
(***************************************************************************)
EXTENDS Cli

VARIABLE margin

tVars == <<vars, margin>>

Spend(m) == IF m = 0 THEN 0 ELSE m - 1

Least2(a, b) == IF a <= b THEN a ELSE b

Ups(c) == Cardinality({i \in Ids(c.n) : c.up[i]})

TInit == Init /\ margin = [h \in Chunk |-> 0]

\* Charged when the command starts, whether or not it gets to save.
TFailNode(id) ==
  /\ cmdFailNode(id)
  /\ margin' = [h \in Chunk |-> IF id \in file.down THEN margin[h] ELSE Spend(margin[h])]

\* put and repair bring every chunk they found intact to R live replicas, or
\* one per up node; a rebalance is sure of what the down nodes leave of a
\* placement set; recover takes nothing away.
Renewed(h) ==
  IF h \notin Referenced \/ chunk[h] # "intact" THEN 0
  ELSE IF mem.cmd = "put" THEN R
  ELSE IF mem.cmd = "repair"
  THEN IF Intact(mem.up, mem.data[h]) = {} THEN 0 ELSE Least2(R, Ups(mem))
  ELSE IF mem.cmd \in {"add-node", "remove-node"}
  THEN IF margin[h] = 0 \/ mem.n - Ups(mem) >= R THEN 0 ELSE R - (mem.n - Ups(mem))
  ELSE margin[h]

TWrite == Write /\ margin' = [h \in Chunk |-> Renewed(h)]

\* The margin of a chunk that is dropped, or whose one chunk file rots, is gone.
TDrop(m) ==
  /\ Drop(m)
  /\ margin' = [h \in Chunk |-> IF h \in Referenced' THEN margin[h] ELSE 0]

TRot(h) == Rot(h) /\ margin' = [margin EXCEPT ![h] = 0]

TNext ==
  \/ \E m \in Snapshot, k \in 1 .. MaxNodes : cmdPut(m, k) /\ UNCHANGED margin
  \/ \E id \in 0 .. MaxNodes - 1 : TFailNode(id)
  \/ cmdRecover /\ UNCHANGED margin
  \/ cmdRepair /\ UNCHANGED margin
  \/ cmdAddNode /\ UNCHANGED margin
  \/ \E id \in 0 .. MaxNodes - 1 : cmdRemoveNode(id) /\ UNCHANGED margin
  \/ TWrite
  \/ Abandon /\ UNCHANGED margin
  \/ Truncate /\ UNCHANGED margin
  \/ \E m \in Snapshot : TakeSnapshot(m) /\ UNCHANGED margin
  \/ \E m \in Snapshot : TDrop(m)
  \/ Gc /\ UNCHANGED margin
  \/ \E h \in Chunk : TRot(h)

TSpec == TInit /\ [][TNext]_tVars

-----------------------------------------------------------------------------
\* ARCHITECTURE.md: after a repair "the cluster tolerates the next R-1 failures
\* again", also when every fail-node is a process of its own that loads no
\* chunk data and writes the repaired locations back.
MarginPersists ==
  file.text = "whole" =>
    \A h \in Chunk : Cardinality(Intact(Reloaded.up, Reloaded.data[h])) >= margin[h]
=============================================================================
