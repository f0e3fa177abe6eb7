-------------------------- MODULE MCEngineHistory --------------------------
(***************************************************************************)
(* The instances of MCEngine, with the history.                            *)
(***************************************************************************)
EXTENDS EngineHistory, MCEngine
=============================================================================
