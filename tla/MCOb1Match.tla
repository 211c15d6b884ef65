----------------------------- MODULE MCOb1Match -----------------------------
(***************************************************************************)
(* TLC instances of Ob1Match: two sources.                                 *)
(***************************************************************************)
EXTENDS Ob1Match

TagsEnvoyes == {1, -10}
TagsVoulus == {1, -1}
RienDePrecis == -1

M(overtake, nb, types, depart, genres, demandes, annuler, fils, tard) ==
    [overtake |-> overtake, nb |-> nb, types |-> types, depart |-> depart, genres |-> genres,
     demandes |-> demandes, annuler |-> annuler, fils |-> fils, tard |-> tard]

Tout == {"recv", "probe", "iprobe", "mprobe", "improbe"}
Court == <<"match", "match">>
Mixte == <<"match", "rndv">>

(* Two threads that bring messages out of order to receives from one source *)
(* or any; four out of turn; three over the wrap of the numbers; every kind *)
(* of request, with matched probes; cancellations by the one thread of a    *)
(* process, and while another brings messages; overtaking.  Some have       *)
(* messages for a communicator to come.                                     *)
ModesSuivis == {
    M(FALSE, <<2, 1>>, Mixte, 1, {"recv"}, 3, FALSE, 2, FALSE),
    M(FALSE, <<4, 0>>, Mixte, 1, {}, 0, FALSE, 2, TRUE),
    M(FALSE, <<3, 0>>, Court, Modulo - 1, {"recv"}, 1, FALSE, 3, TRUE),
    M(FALSE, <<2, 0>>, Court, 1, Tout, 2, FALSE, 2, FALSE),
    M(FALSE, <<1, 1>>, Court, 1, {"recv", "probe"}, 3, TRUE, 1, FALSE),
    M(FALSE, <<2, 1>>, Court, 1, {"recv"}, 2, TRUE, 2, FALSE),
    M(TRUE, <<2, 1>>, Court, 1, {"recv"}, 2, FALSE, 2, TRUE)}

(* Four messages over the wrap of the numbers.                              *)
ModesRoulement == {M(FALSE, <<4, 0>>, Court, Modulo - 1, {}, 0, FALSE, 1, FALSE)}
=============================================================================
