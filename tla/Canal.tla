------------------------------- MODULE Canal -------------------------------
(***************************************************************************)
(* What two processes of a node promise each other: a message goes into    *)
(* one of two lanes, the fifo or the fast box, and is received once, after *)
(* those that went into the same lane before it.  The lanes may break, and *)
(* promise nothing from then on.                                           *)
(***************************************************************************)
EXTENDS Sequences

CONSTANTS
    Messages,
    Voies      \* the lanes

VARIABLES
    file,      \* the messages in each lane, the oldest first
    recus,     \* the set of messages received from each lane
    rompu      \* the lanes are broken

vars == <<file, recus, rompu>>

Elements(s) == {s[i] : i \in DOMAIN s}
Partis == UNION {Elements(file[v]) \cup recus[v] : v \in Voies}

Init ==
    /\ file = [v \in Voies |-> <<>>]
    /\ recus = [v \in Voies |-> {}]
    /\ rompu = FALSE

Deposer(v, m) ==
    /\ m \notin Partis
    /\ file' = [file EXCEPT ![v] = Append(@, m)]
    /\ UNCHANGED recus

Retirer(v) ==
    /\ file[v] # <<>>
    /\ recus' = [recus EXCEPT ![v] = @ \cup {Head(file[v])}]
    /\ file' = [file EXCEPT ![v] = Tail(@)]

Echanger ==
    /\ ~ rompu
    /\ \E v \in Voies : Retirer(v) \/ \E m \in Messages : Deposer(v, m)
    /\ UNCHANGED rompu

(* They break, or are broken: file and recus may become anything.           *)
Rompre == rompu'

Next == Echanger \/ Rompre

Spec == Init /\ [][Next]_vars
=============================================================================
