-------------------------- MODULE MCFaultTolerance --------------------------
(***************************************************************************)
(* Instance of FaultTolerance for TLC: one chunk, three replicas, up to    *)
(* six nodes.  Remainders of 23: 2 of 3, 3 of 4, 3 of 5, 5 of 6, so that   *)
(* the placement set wraps round the ring and moves with each topology     *)
(* change.                                                                 *)
(***************************************************************************)
EXTENDS FaultTolerance

MCHash == [h \in Chunk |-> 23]
=============================================================================
