------------------------------- MODULE MCMemory -------------------------------
(***************************************************************************)
(* The memory component with three addresses and three byte counts. The    *)
(* values of the constants are in MCMemory_list.cfg, where an only block   *)
(* stays where it is, and in MCMemory_sole.cfg, where it may be resized.   *)
(***************************************************************************)
EXTENDS Memory
=============================================================================
