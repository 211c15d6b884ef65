--------------------------- MODULE MCRequestSync ---------------------------
(***************************************************************************)
(* TLC instances of RequestSync.  The indices are ordered by the loops, so *)
(* there is no symmetry to use.                                            *)
(***************************************************************************)
EXTENDS RequestSync
=============================================================================
