---------------------------- MODULE MCOpalLifo ----------------------------
(***************************************************************************)
(* TLC instance of OpalLifo: two threads and as many items as an ABA       *)
(* needs, one more than the two a thread pops.  Liveness is checked, so no *)
(* symmetry is used.                                                       *)
(***************************************************************************)
EXTENDS OpalLifo
=============================================================================
