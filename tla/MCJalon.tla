------------------------------ MODULE MCJalon ------------------------------
(***************************************************************************)
(* TLC instances of Jalon.  No symmetry: the ranks are compared and the    *)
(* loops go through them in order.                                         *)
(***************************************************************************)
EXTENDS JalonProofs
=============================================================================
