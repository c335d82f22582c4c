-------------------------- MODULE MCOptimizeRequest --------------------------
(***************************************************************************)
(* Instances of OptimizeRequest: two chunks are enough to reach the output *)
(* limit, and every provider script is explored.                           *)
(***************************************************************************)
EXTENDS OptimizeRequest
==============================================================================
