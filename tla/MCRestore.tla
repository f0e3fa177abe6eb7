----------------------------- MODULE MCRestore -----------------------------
(***************************************************************************)
(* Instance of Restore for TLC: three unique chunks, one of them in two    *)
(* files, one file empty; fewer workers than chunks, so that workers come  *)
(* back for more while others are still sending.                           *)
(***************************************************************************)
EXTENDS Restore

MCFiles == <<<<1, 2>>, <<>>, <<2, 3, 2>>>>
=============================================================================
