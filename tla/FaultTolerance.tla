--------------------------- MODULE FaultTolerance ---------------------------
(***************************************************************************)
(* What the failure model of ARCHITECTURE.md promises, as an account kept  *)
(* beside the cluster: margin[h] is how many intact replicas of h on up    *)
(* nodes an operator may count on.  A failure, a removal or a rotten       *)
(* replica costs one; an upload, a repair and a rebalance restore it to    *)
(* what the code re-creates.  The promise is that the account is covered.  *)
(***************************************************************************)
EXTENDS Cluster

VARIABLE margin

ftVars == <<n, up, data, margin>>

\* A margin never goes below zero.
Spend(m) == IF m = 0 THEN 0 ELSE m - 1

\* Replicas a placement set is sure to have on up nodes when k nodes are down.
Covered(k) == IF k >= R THEN 0 ELSE R - k

Larger(a, b) == IF a >= b THEN a ELSE b

\* Rebalance copies whatever the first up holder has, so it renews the margin
\* of a chunk none of whose replicas is rotten.
Clean(h) == \A i \in Ids(n) : data[h][i] # "corrupt"

FTInit == Init /\ margin = [h \in Chunk |-> 0]

FTPut(h) ==
  /\ Put(h)
  /\ margin' = [margin EXCEPT ![h] = Larger(@, Covered(Cardinality(Down)))]

NodeFails(id) ==
  /\ up[id]
  /\ SetUp(id, FALSE)
  /\ margin' = [h \in Chunk |-> Spend(margin[h])]

NodeReturns(id) == ~up[id] /\ SetUp(id, TRUE) /\ UNCHANGED margin

FTRecoverAll == Down # {} /\ RecoverAll /\ UNCHANGED margin

FTCorrupt(id, h) ==
  /\ Corrupt(id, h)
  /\ margin' = [margin EXCEPT ![h] = Spend(@)]

\* repair "closes the window between failures": with one intact survivor the
\* chunk is as safe as the number of up nodes allows.
FTRepair ==
  /\ Repair
  /\ margin' = [h \in Chunk |->
       IF margin[h] = 0 THEN 0
       ELSE LET ups == n - Cardinality(Down) IN IF ups < R THEN ups ELSE R]

FTAddNode ==
  /\ AddNode
  /\ margin' = [h \in Chunk |->
       IF margin[h] > 0 /\ Clean(h) THEN Covered(Cardinality(Down)) ELSE 0]

\* A removal is charged like a failure before the rebalance renews the margin.
FTRemoveNode(id) ==
  /\ RemoveNode(id)
  /\ margin' = [h \in Chunk |->
       IF Spend(margin[h]) > 0 /\ Clean(h)
       THEN Covered(Cardinality(Down \ {id})) ELSE 0]

FTNext ==
  \/ \E h \in Chunk : FTPut(h)
  \/ \E id \in Ids(n) : NodeFails(id)
  \/ \E id \in Ids(n) : NodeReturns(id)
  \/ FTRecoverAll
  \/ \E id \in Ids(n), h \in Chunk : FTCorrupt(id, h)
  \/ FTRepair
  \/ FTAddNode
  \/ \E id \in Ids(n) : FTRemoveNode(id)

FTSpec == FTInit /\ [][FTNext]_ftVars

-----------------------------------------------------------------------------
\* "With replication factor R, a chunk survives up to R-1 node failures", and
\* repair lets it survive "the next R-1 failures again": every chunk has as many
\* intact replicas on up nodes as its account says, over any sequence of
\* failures, recoveries, rot, repairs and topology changes.
MarginIsCovered ==
  \A h \in Chunk : Cardinality(Intact(up, data[h])) >= margin[h]
=============================================================================
