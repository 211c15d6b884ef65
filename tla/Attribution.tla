---------------------------- MODULE Attribution ----------------------------
(***************************************************************************)
(* What the agreement on a context id promises: the processes of a new     *)
(* communicator obtain one id, that none of them had given to another.     *)
(***************************************************************************)
CONSTANTS
    Procs,
    Reqs,      \* the communicators that are created
    Cids,
    Aucun      \* no id yet

VARIABLES
    membres,   \* the processes of each new communicator
    pris,      \* the ids each process uses from the start
    cid        \* the id of each new communicator

vars == <<membres, pris, cid>>

Init ==
    /\ membres \in [Reqs -> SUBSET Procs]
    /\ pris \in [Procs -> SUBSET Cids]
    /\ cid = [r \in Reqs |-> Aucun]

LibrePour(r, x) ==
    /\ \A p \in membres[r] : x \notin pris[p]
    /\ \A s \in Reqs : membres[s] \cap membres[r] # {} => cid[s] # x

Attribuer(r, x) ==
    /\ cid[r] = Aucun
    /\ LibrePour(r, x)
    /\ cid' = [cid EXCEPT ![r] = x]
    /\ UNCHANGED <<membres, pris>>

Next == \E r \in Reqs, x \in Cids : Attribuer(r, x)

Spec == Init /\ [][Next]_vars
=============================================================================
