---------------------------- MODULE LeastElement ----------------------------
(***************************************************************************)
(* The first element of a set of numbers: what a loop over a sorted        *)
(* listing, or over node ids in order, comes to first.                     *)
(***************************************************************************)
EXTENDS Naturals

Least(S) == CHOOSE x \in S : \A y \in S : x <= y
=============================================================================
