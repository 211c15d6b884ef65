------------------------------ MODULE OpalLifo ------------------------------
(***************************************************************************)
(* The lock-free stack of opal/class/opal_lifo.h as it is built where      *)
(* cmpset_128 exists: a head made of a counter and an item, a chain of     *)
(* opal_list_next that ends in the ghost.  A push swaps the head's item    *)
(* alone; a pop swaps the item and the counter together, so that a head    *)
(* that was popped and pushed back in the meantime is not mistaken for the *)
(* one it read (ABA).  Every access to the head and to an item's next is a *)
(* step of its own.  The counter is 64 bits wide; it is a natural number   *)
(* here, as if no pop lasted for 2^64 others.                              *)
(***************************************************************************)
EXTENDS Integers, Sequences

CONSTANTS
    Items,      \* the list items
    Threads,    \* the threads that push and pop
    Lifo,       \* the owner of an item that is in the lifo
    Ghost,      \* &lifo->opal_lifo_ghost
    NULL,       \* the null pointer
    MaxPops     \* bound: no pop starts once the counter is there

ASSUME GhostAssumption == Ghost \notin Items
ASSUME NULLAssumption == NULL \notin Items \cup {Ghost}
ASSUME LifoAssumption == Lifo \notin Threads
ASSUME MaxPopsAssumption == MaxPops \in Nat

Pointeurs == Items \cup {Ghost, NULL}

VARIABLES
    head_item,      \* opal_lifo_head.data.item
    head_counter,   \* opal_lifo_head.data.counter
    next,           \* opal_list_next of each item
    proprio,        \* who may push the item: the thread that popped it
    pc,             \* where each thread is
    item,           \* the item it pushes, or old_head.data.item
    counter,        \* old_head.data.counter
    suivant,        \* the next it has read: of the head, or of the item
    pile            \* history: the items pushed and not popped, the top first

varsLocales == <<item, counter, suivant>>
vars == <<head_item, head_counter, next, proprio, pc, varsLocales, pile>>

Aller(t, l) == pc' = [pc EXCEPT ![t] = l]
SansSommet(s) == [k \in 1 .. Len(s) - 1 |-> s[k + 1]]

(* OBJ_CONSTRUCT of the lifo; the items are in the hands of the threads.    *)
Init ==
    /\ head_item = Ghost
    /\ head_counter = 0
    /\ next = [x \in Items |-> NULL]
    /\ proprio \in [Items -> Threads]
    /\ pc = [t \in Threads |-> "repos"]
    /\ item = [t \in Threads |-> NULL]
    /\ counter = [t \in Threads |-> 0]
    /\ suivant = [t \in Threads |-> NULL]
    /\ pile = <<>>

-----------------------------------------------------------------------------
(* opal_lifo_push_atomic                                                    *)
Empiler(t, x) ==
    /\ pc[t] = "repos"
    /\ proprio[x] = t
    /\ item' = [item EXCEPT ![t] = x]
    /\ Aller(t, "push_lire")
    /\ UNCHANGED <<head_item, head_counter, next, proprio, counter, suivant, pile>>

PushLire(t) ==
    /\ pc[t] = "push_lire"
    /\ suivant' = [suivant EXCEPT ![t] = head_item]
    /\ Aller(t, "push_lier")
    /\ UNCHANGED <<head_item, head_counter, next, proprio, item, counter, pile>>

PushLier(t) ==
    /\ pc[t] = "push_lier"
    /\ next' = [next EXCEPT ![item[t]] = suivant[t]]
    /\ Aller(t, "push_cas")
    /\ UNCHANGED <<head_item, head_counter, proprio, varsLocales, pile>>

(* Variants of definitions, each with a plausible slip that the properties  *)
(* must tell apart from the code, stand before the definition they vary     *)
(* (PopCasSansCompteur of PopCas, ...); no specification uses them.         *)
PushCasSansComparer(t) ==
    /\ pc[t] = "push_cas"
    /\ head_item' = item[t]
    /\ proprio' = [proprio EXCEPT ![item[t]] = Lifo]
    /\ pile' = <<item[t]>> \o pile
    /\ Aller(t, "repos")
    /\ UNCHANGED <<head_counter, next, varsLocales>>

(* The compare-and-swap of the item alone.                                  *)
PushCas(t) ==
    /\ pc[t] = "push_cas"
    /\ IF head_item = suivant[t]
       THEN /\ head_item' = item[t]
            /\ proprio' = [proprio EXCEPT ![item[t]] = Lifo]
            /\ pile' = <<item[t]>> \o pile
            /\ Aller(t, "repos")
       ELSE /\ Aller(t, "push_lire")
            /\ UNCHANGED <<head_item, proprio, pile>>
    /\ UNCHANGED <<head_counter, next, varsLocales>>

-----------------------------------------------------------------------------
(* opal_lifo_pop_atomic; opal_read_counted_pointer reads the counter first. *)
Depiler(t) ==
    /\ pc[t] = "repos"
    /\ head_counter < MaxPops
    /\ Aller(t, "pop_compteur")
    /\ UNCHANGED <<head_item, head_counter, next, proprio, varsLocales, pile>>

PopCompteur(t) ==
    /\ pc[t] = "pop_compteur"
    /\ counter' = [counter EXCEPT ![t] = head_counter]
    /\ Aller(t, "pop_item")
    /\ UNCHANGED <<head_item, head_counter, next, proprio, item, suivant, pile>>

(* The ghost: the lifo is empty, return NULL.                               *)
PopItem(t) ==
    /\ pc[t] = "pop_item"
    /\ item' = [item EXCEPT ![t] = head_item]
    /\ Aller(t, IF head_item = Ghost THEN "repos" ELSE "pop_suivant")
    /\ UNCHANGED <<head_item, head_counter, next, proprio, counter, suivant, pile>>

(* The item may have been popped since: the next read may be stale or NULL. *)
PopSuivant(t) ==
    /\ pc[t] = "pop_suivant"
    /\ suivant' = [suivant EXCEPT ![t] = next[item[t]]]
    /\ Aller(t, "pop_cas")
    /\ UNCHANGED <<head_item, head_counter, next, proprio, item, counter, pile>>

PopCasSansCompteur(t) ==
    /\ pc[t] = "pop_cas"
    /\ IF head_item = item[t] /\ head_counter = counter[t]
       THEN /\ head_item' = suivant[t]
            /\ proprio' = [proprio EXCEPT ![item[t]] = t]
            /\ pile' = SansSommet(pile)
            /\ Aller(t, "pop_detacher")
       ELSE /\ Aller(t, "pop_compteur")
            /\ UNCHANGED <<head_item, proprio, pile>>
    /\ UNCHANGED <<head_counter, next, varsLocales>>

PopCasSansRelire(t) ==
    /\ pc[t] = "pop_cas"
    /\ IF head_item = item[t] /\ head_counter = counter[t]
       THEN /\ head_item' = suivant[t]
            /\ head_counter' = head_counter + 1
            /\ proprio' = [proprio EXCEPT ![item[t]] = t]
            /\ pile' = SansSommet(pile)
            /\ Aller(t, "pop_detacher")
       ELSE /\ Aller(t, "pop_suivant")
            /\ UNCHANGED <<head_item, head_counter, proprio, pile>>
    /\ UNCHANGED <<next, varsLocales>>

(* opal_update_counted_pointer: the 128-bit compare-and-swap.               *)
PopCas(t) ==
    /\ pc[t] = "pop_cas"
    /\ IF head_item = item[t] /\ head_counter = counter[t]
       THEN /\ head_item' = suivant[t]
            /\ head_counter' = head_counter + 1
            /\ proprio' = [proprio EXCEPT ![item[t]] = t]
            /\ pile' = SansSommet(pile)
            /\ Aller(t, "pop_detacher")
       ELSE /\ Aller(t, "pop_compteur")
            /\ UNCHANGED <<head_item, head_counter, proprio, pile>>
    /\ UNCHANGED <<next, varsLocales>>

PopDetacher(t) ==
    /\ pc[t] = "pop_detacher"
    /\ next' = [next EXCEPT ![item[t]] = NULL]
    /\ Aller(t, "repos")
    /\ UNCHANGED <<head_item, head_counter, proprio, varsLocales, pile>>

-----------------------------------------------------------------------------
EnCours(t) ==
    \/ PushLire(t)
    \/ PushLier(t)
    \/ PushCas(t)
    \/ PopCompteur(t)
    \/ PopItem(t)
    \/ PopSuivant(t)
    \/ PopCas(t)
    \/ PopDetacher(t)

Next ==
    \E t \in Threads :
        \/ \E x \in Items : Empiler(t, x)
        \/ Depiler(t)
        \/ EnCours(t)

Spec == Init /\ [][Next]_vars

(* A thread inside an operation keeps running; it need not start one.       *)
FairSpec == Spec /\ \A t \in Threads : WF_vars(EnCours(t))

-----------------------------------------------------------------------------
(* Types; the head's item is never NULL, whatever stale next a pop has read.*)
TypeOK ==
    /\ head_item \in Items \cup {Ghost}
    /\ head_counter \in Nat
    /\ next \in [Items -> Pointeurs]
    /\ proprio \in [Items -> Threads \cup {Lifo}]
    /\ pc \in [Threads -> {"repos", "push_lire", "push_lier", "push_cas", "pop_compteur",
                           "pop_item", "pop_suivant", "pop_cas", "pop_detacher"}]
    /\ item \in [Threads -> Pointeurs]
    /\ counter \in [Threads -> Nat]
    /\ suivant \in [Threads -> Pointeurs]
    /\ pile \in Seq(Items)

Sommet(s) == IF s = <<>> THEN Ghost ELSE s[1]

(* The chain of the head, followed through the items' next pointers, is the *)
(* stack of the items pushed and not popped: none is lost, none is in it    *)
(* twice, it ends in the ghost, and no thread owns one of them.             *)
Chaine ==
    /\ head_item = Sommet(pile)
    /\ \A k \in 1 .. Len(pile) :
         next[pile[k]] = IF k = Len(pile) THEN Ghost ELSE pile[k + 1]
    /\ \A k, l \in 1 .. Len(pile) : pile[k] = pile[l] => k = l
    /\ \A x \in Items : proprio[x] = Lifo <=> \E k \in 1 .. Len(pile) : pile[k] = x

LaPile == INSTANCE Pile WITH
    Items <- Items, Threads <- Threads, Lifo <- Lifo, pile <- pile, proprio <- proprio
(* The lifo implements the stack: a pop obtains the item on top at the time *)
(* of its compare-and-swap, a push puts its item on top at the time of its  *)
(* own, and nothing else changes the stack.                                 *)
PileSpec == LaPile!Spec

(* A pop returns NULL only at an instant when the lifo is empty.            *)
NullSiVide ==
    [][\A t \in Threads : pc[t] = "pop_item" /\ pc'[t] = "repos" => pile = <<>>]_vars

(* The stack is lock-free: with a bounded number of pops, hence of pushes,  *)
(* every operation ends, its retries being paid for by the others' success. *)
OperationsFinies == \A t \in Threads : []<>(pc[t] = "repos")
=============================================================================
