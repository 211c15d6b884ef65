-------------------------------- MODULE Pile --------------------------------
(***************************************************************************)
(* What opal_lifo.h promises: a stack that several threads share.  An item *)
(* belongs to one thread or is in the lifo; a push gives the thread's item *)
(* to the lifo, on top; a pop gives the top item to the thread.            *)
(***************************************************************************)
EXTENDS Sequences

CONSTANTS
    Items,     \* the list items
    Threads,   \* the threads that push and pop
    Lifo       \* the owner of an item that is in the lifo

VARIABLES
    pile,      \* the items in the lifo, the top first
    proprio    \* the owner of each item

vars == <<pile, proprio>>

Init ==
    /\ pile = <<>>
    /\ proprio \in [Items -> Threads]

Empiler(t, x) ==
    /\ proprio[x] = t
    /\ pile' = <<x>> \o pile
    /\ proprio' = [proprio EXCEPT ![x] = Lifo]

Depiler(t) ==
    /\ pile # <<>>
    /\ pile' = Tail(pile)
    /\ proprio' = [proprio EXCEPT ![Head(pile)] = t]

Next == \E t \in Threads : Depiler(t) \/ \E x \in Items : Empiler(t, x)

Spec == Init /\ [][Next]_vars
=============================================================================
