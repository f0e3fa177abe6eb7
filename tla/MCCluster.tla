----------------------------- MODULE MCCluster -----------------------------
(***************************************************************************)
(* Instance of Cluster for TLC.  Hash values are numbers whose remainders  *)
(* place the chunk differently in every topology the run reaches: 11 is    *)
(* node 1 of 2, 2 of 3 and 3 of 4 (the set wraps round); 8 is 0, 2 and 0.  *)
(***************************************************************************)
EXTENDS Cluster

CONSTANTS c1, c2

MCHash == [h \in Chunk |-> IF h = c1 THEN 11 ELSE 8]
=============================================================================
