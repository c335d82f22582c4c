-------------------------- MODULE MCHistoryRotation --------------------------
(***************************************************************************)
(* Instances of HistoryRotation.  Two requests of the user are a rotation  *)
(* and its retry, two rotations, or a rotation and a restore; two records  *)
(* make a batch that leaves one behind.                                    *)
(***************************************************************************)
EXTENDS HistoryRotation, TLC
==============================================================================
