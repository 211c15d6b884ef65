------------------------------- MODULE Boites -------------------------------
(***************************************************************************)
(* What the vader fifos promise: each process has a mailbox, from which it *)
(* alone takes fragments, in the order in which they were put in.  A       *)
(* fragment belongs to one process, which sends it to a peer; the peer     *)
(* gives it back through its owner's mailbox.                              *)
(***************************************************************************)
EXTENDS Sequences

CONSTANTS
    Procs,     \* the processes of a node
    Frags,     \* the fragment headers of all of them
    Owner,     \* the process each fragment belongs to
    Fifo       \* the holder of a fragment that is in a mailbox

VARIABLES
    file,      \* the fragments in each mailbox, the oldest first
    tenu       \* who holds each fragment

vars == <<file, tenu>>

Init ==
    /\ file = [p \in Procs |-> <<>>]
    /\ tenu = Owner

(* The owner sends to a peer, who holds a fragment of another returns it.   *)
Deposer(f, q) ==
    /\ tenu[f] \in Procs \ {q}
    /\ tenu[f] # Owner[f] => q = Owner[f]
    /\ file' = [file EXCEPT ![q] = Append(@, f)]
    /\ tenu' = [tenu EXCEPT ![f] = Fifo]

Retirer(p) ==
    /\ file[p] # <<>>
    /\ file' = [file EXCEPT ![p] = Tail(@)]
    /\ tenu' = [tenu EXCEPT ![Head(file[p])] = p]

Next == \E p \in Procs : Retirer(p) \/ \E f \in Frags : Deposer(f, p)

Spec == Init /\ [][Next]_vars
=============================================================================
