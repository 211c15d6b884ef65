---------------------------- MODULE MCVaderFbox ----------------------------
(***************************************************************************)
(* TLC instances of VaderFbox: a box of seven units, in which a message    *)
(* takes one to three.                                                     *)
(***************************************************************************)
EXTENDS VaderFbox, TLC

CONSTANTS a, b

(* What thread a sends and thread b sends, 0 for a fragment from the start; *)
(* the numbers that their data show.                                        *)
L(ea, eb, seuil, leurres) == [envois |-> (a :> ea) @@ (b :> eb), seuil |-> seuil, leurres |-> leurres]
M(ea, eb, seuil) == L(ea, eb, seuil, {})

(* Data that look like a header when the box has wrapped: the place after   *)
(* the message that follows the skip, or fills the end, held data before.   *)
ModesLeurres ==
    {L(<<1, 3, 3, 2>>, <<>>, 1, {k}) : k \in {3, 4}}
    \cup {L(<<1, 3, 3>>, <<2>>, 1, {4})}

(* One thread that fills the box, wraps and has fragments pending; two that *)
(* race for the box while it is set up; two that race once it is; no box.   *)
ModesSuivis ==
    {M(<<1, x, y, z>>, <<>>, 1) : x \in {0, 2, 3}, y \in 1 .. 3, z \in {0, 2, 3}}
    \cup {M(<<x, 2, 1>>, <<y>>, 2) : x \in {0, 1}, y \in {0, 3}}
    \cup {M(<<1, 3, x>>, <<3, 0>>, 1) : x \in {0, 3}}
    \cup {M(<<1, 3, 3, 1, x>>, <<>>, 1) : x \in {0, 2}}
    \cup {M(<<1, 0>>, <<1>>, 9)}
    \cup ModesLeurres
=============================================================================
