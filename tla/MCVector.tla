------------------------------ MODULE MCVector ------------------------------
(***************************************************************************)
(* The vector with two addresses to move between, counts of up to two and  *)
(* both ways to begin: with room for one element and for two. The values   *)
(* of the constants are in MCVector.cfg.                                   *)
(***************************************************************************)
EXTENDS Vector
=============================================================================
