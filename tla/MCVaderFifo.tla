---------------------------- MODULE MCVaderFifo ----------------------------
(***************************************************************************)
(* TLC instances of VaderFifo: three processes of a node, the first with   *)
(* two fragments.                                                          *)
(***************************************************************************)
EXTENDS VaderFifo, TLC

CONSTANTS p1, p2, p3, f1, f2, f3

OwnerDeux == (f1 :> p1) @@ (f2 :> p1) @@ (f3 :> p2)
=============================================================================
