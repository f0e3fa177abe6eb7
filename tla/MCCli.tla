------------------------------- MODULE MCCli -------------------------------
(***************************************************************************)
(* Instance of CliTolerance for TLC: two snapshots that share a chunk, and *)
(* topologies of two to four nodes that place the two chunks differently.  *)
(***************************************************************************)
EXTENDS CliTolerance

CONSTANTS c1, c2, s1, s2

MCHash == [h \in Chunk |-> IF h = c1 THEN 11 ELSE 8]

MCRefs == [m \in Snapshot |-> IF m = s1 THEN {c1} ELSE {c1, c2}]
=============================================================================
