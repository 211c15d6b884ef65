---------------------------- MODULE MCWaitSync ----------------------------
(***************************************************************************)
(* TLC instance of WaitSync: three threads that wait and one that only     *)
(* completes.  Liveness is checked, so no symmetry is used.                *)
(***************************************************************************)
EXTENDS WaitSync
=============================================================================
