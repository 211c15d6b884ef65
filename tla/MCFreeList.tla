---------------------------- MODULE MCFreeList ----------------------------
(***************************************************************************)
(* TLC instances of FreeList; no symmetry, since liveness is checked.      *)
(***************************************************************************)
EXTENDS FreeList
=============================================================================
