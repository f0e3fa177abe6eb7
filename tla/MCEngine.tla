------------------------------ MODULE MCEngine ------------------------------
(***************************************************************************)
(* Instances of Engine for TLC: two chunks, shared or not between the      *)
(* directories that are snapshotted, and a store that is empty or holds    *)
(* two snapshots without a number, tied.                                   *)
(***************************************************************************)
EXTENDS Engine

MCContents == {{1}, {1, 2}, {2}}

MCFresh == {<<>>}

MCLegacy == {<<>>, <<{1}, {1, 2}>>}
=============================================================================
