------------------------------ MODULE WaitSync ------------------------------
(***************************************************************************)
(* ompi_request_wait_completion (ompi/request/request.h) and the wait it   *)
(* ends in, ompi_sync_wait_mt (opal/threads/wait_sync.c), for several      *)
(* threads of one process, each waiting for its own request.  The waiting  *)
(* threads form a circular list; the head alone calls opal_progress, which *)
(* completes requests, its own and those of others; the rest sleep on      *)
(* their condition until their request is complete or they are the head.   *)
(* Threads outside a wait (MPI_Test, ...) may also be in opal_progress.    *)
(* A pthread mutex is the thread that holds it; a critical section with no *)
(* other lock inside is one step.                                          *)
(***************************************************************************)
EXTENDS Integers, SequencesExt

CONSTANTS
    Threads,    \* the threads that wait; also names each one's request and sync
    Externes,   \* threads that call opal_progress without waiting
    Personne    \* holder of a free lock, and the request of an idle thread

ASSUME ThreadsAssumption == Threads \cap Externes = {}
ASSUME PersonneAssumption == Personne \notin Threads \cup Externes

Tous == Threads \cup Externes

VARIABLES
    req_complete,    \* of each request: "PENDING", "SYNC" or "COMPLETED"
    count,           \* of each sync
    signaling,       \* of each sync
    verrou,          \* the holder of each sync's lock
    reveille,        \* the sleeping threads whose condition was signalled
    wait_sync_list,  \* the waiting threads, from the head on
    wait_sync_lock,  \* its holder
    pc,              \* where each waiting thread is
    travail,         \* the request each thread is completing, in opal_progress
    etape            \* and where in ompi_request_complete it is

varsProgres == <<travail, etape>>
vars == <<req_complete, count, signaling, verrou, reveille, wait_sync_list, wait_sync_lock, pc,
          varsProgres>>

Tete == IF wait_sync_list = <<>> THEN Personne ELSE Head(wait_sync_list)
Aller(t, l) == pc' = [pc EXCEPT ![t] = l]

Init ==
    /\ req_complete = [t \in Threads |-> "PENDING"]
    /\ count = [t \in Threads |-> 1]
    /\ signaling = [t \in Threads |-> TRUE]
    /\ verrou = [t \in Threads |-> Personne]
    /\ reveille = {}
    /\ wait_sync_list = <<>>
    /\ wait_sync_lock = Personne
    /\ pc = [t \in Threads |-> "debut"]
    /\ travail = [p \in Tous |-> Personne]
    /\ etape = [p \in Tous |-> "rien"]

-----------------------------------------------------------------------------
(* WAIT_SYNC_INIT and the exchange of REQUEST_PENDING for the sync; when    *)
(* the request is complete already, nobody signals the sync.                *)
Armer(t) ==
    /\ pc[t] = "debut"
    /\ req_complete[t] = "PENDING"
    /\ req_complete' = [req_complete EXCEPT ![t] = "SYNC"]
    /\ Aller(t, "test")
    /\ UNCHANGED <<count, signaling, verrou, reveille, wait_sync_list, wait_sync_lock, varsProgres>>

DejaComplete(t) ==
    /\ pc[t] = "debut"
    /\ req_complete[t] = "COMPLETED"
    /\ signaling' = [signaling EXCEPT ![t] = FALSE]
    /\ Aller(t, "liberer")
    /\ UNCHANGED <<req_complete, count, verrou, reveille, wait_sync_list, wait_sync_lock,
                   varsProgres>>

(* Variants of definitions, each with a plausible slip that the properties  *)
(* must tell apart from the code, stand before the definition they vary     *)
(* (RetesterSansCompte of Retester, ...); no specification uses them.       *)

(* The count, before the lock and then under it.                            *)
Tester(t) ==
    /\ pc[t] = "test"
    /\ Aller(t, IF count[t] <= 0 THEN "liberer" ELSE "verrou")
    /\ UNCHANGED <<req_complete, count, signaling, verrou, reveille, wait_sync_list,
                   wait_sync_lock, varsProgres>>

Verrouiller(t) ==
    /\ pc[t] = "verrou"
    /\ verrou[t] = Personne
    /\ verrou' = [verrou EXCEPT ![t] = t]
    /\ Aller(t, "retest")
    /\ UNCHANGED <<req_complete, count, signaling, reveille, wait_sync_list, wait_sync_lock,
                   varsProgres>>

RetesterSansCompte(t) ==
    /\ pc[t] = "retest"
    /\ Aller(t, "inserer")
    /\ UNCHANGED <<req_complete, count, signaling, verrou, reveille, wait_sync_list,
                   wait_sync_lock, varsProgres>>

Retester(t) ==
    /\ pc[t] = "retest"
    /\ IF count[t] <= 0
       THEN verrou' = [verrou EXCEPT ![t] = Personne] /\ Aller(t, "liberer")
       ELSE UNCHANGED verrou /\ Aller(t, "inserer")
    /\ UNCHANGED <<req_complete, count, signaling, reveille, wait_sync_list, wait_sync_lock,
                   varsProgres>>

Inserer(t) ==
    /\ pc[t] = "inserer"
    /\ wait_sync_lock = Personne
    /\ wait_sync_list' = Append(wait_sync_list, t)
    /\ Aller(t, "check_status")
    /\ UNCHANGED <<req_complete, count, signaling, verrou, reveille, wait_sync_lock, varsProgres>>

(* The head keeps the progress for itself, the others sleep: both leave     *)
(* their lock, pthread_cond_wait atomically with falling asleep.            *)
CheckStatus(t) ==
    /\ pc[t] = "check_status"
    /\ verrou' = [verrou EXCEPT ![t] = Personne]
    /\ Aller(t, IF Tete # t THEN "dormir" ELSE "progres")
    /\ UNCHANGED <<req_complete, count, signaling, reveille, wait_sync_list, wait_sync_lock,
                   varsProgres>>

(* pthread_cond_wait returns, once signalled or spuriously, with the lock.  *)
Reprendre(t) ==
    /\ pc[t] = "dormir"
    /\ verrou[t] = Personne
    /\ verrou' = [verrou EXCEPT ![t] = t]
    /\ reveille' = reveille \ {t}
    /\ Aller(t, "reveil")
    /\ UNCHANGED <<req_complete, count, signaling, wait_sync_list, wait_sync_lock, varsProgres>>

ReveilPromu(t) ==
    /\ pc[t] = "reveil"
    /\ verrou' = [verrou EXCEPT ![t] = Personne]
    /\ Aller(t, IF count[t] <= 0 THEN "retirer" ELSE "progres")
    /\ UNCHANGED <<req_complete, count, signaling, reveille, wait_sync_list, wait_sync_lock,
                   varsProgres>>

Reveil(t) ==
    /\ pc[t] = "reveil"
    /\ IF count[t] <= 0
       THEN verrou' = [verrou EXCEPT ![t] = Personne] /\ Aller(t, "retirer")
       ELSE UNCHANGED verrou /\ Aller(t, "check_status")
    /\ UNCHANGED <<req_complete, count, signaling, reveille, wait_sync_list, wait_sync_lock,
                   varsProgres>>

FinProgres(t) ==
    /\ pc[t] = "progres"
    /\ etape[t] = "rien"
    /\ count[t] <= 0
    /\ Aller(t, "retirer")
    /\ UNCHANGED <<req_complete, count, signaling, verrou, reveille, wait_sync_list,
                   wait_sync_lock, varsProgres>>

(* The two assignments that unlink t, linked once, from the circular list.  *)
Delier(t) ==
    \E k \in 1 .. Len(wait_sync_list) :
        /\ wait_sync_list[k] = t
        /\ wait_sync_list' = RemoveAt(wait_sync_list, k)

RetirerSansPasser(t) ==
    /\ pc[t] = "retirer"
    /\ wait_sync_lock = Personne
    /\ Delier(t)
    /\ Aller(t, "liberer")
    /\ UNCHANGED <<req_complete, count, signaling, verrou, reveille, wait_sync_lock, varsProgres>>

(* i_am_done: leave the list; a head that leaves others behind keeps the    *)
(* list's lock while it wakes its successor under the successor's lock.     *)
Retirer(t) ==
    /\ pc[t] = "retirer"
    /\ wait_sync_lock = Personne
    /\ Delier(t)
    /\ IF Tete = t /\ wait_sync_list' # <<>>
       THEN wait_sync_lock' = t /\ Aller(t, "passer")
       ELSE UNCHANGED wait_sync_lock /\ Aller(t, "liberer")
    /\ UNCHANGED <<req_complete, count, signaling, verrou, reveille, varsProgres>>

(* pthread_cond_signal wakes the owner of the sync if it sleeps on it.      *)
Dormeurs == {u \in Threads : pc[u] = "dormir"}

Passer(t) ==
    /\ pc[t] = "passer"
    /\ verrou[Tete] = Personne
    /\ reveille' = reveille \cup ({Tete} \cap Dormeurs)
    /\ wait_sync_lock' = Personne
    /\ Aller(t, "liberer")
    /\ UNCHANGED <<req_complete, count, signaling, verrou, wait_sync_list, varsProgres>>

LibererSansAttendre(t) ==
    /\ pc[t] = "liberer"
    /\ Aller(t, "fini")
    /\ UNCHANGED <<req_complete, count, signaling, verrou, reveille, wait_sync_list,
                   wait_sync_lock, varsProgres>>

(* WAIT_SYNC_RELEASE: spin on signaling, then destroy the sync.             *)
Liberer(t) ==
    /\ pc[t] = "liberer"
    /\ ~ signaling[t]
    /\ Aller(t, "fini")
    /\ UNCHANGED <<req_complete, count, signaling, verrou, reveille, wait_sync_list,
                   wait_sync_lock, varsProgres>>

-----------------------------------------------------------------------------
(* opal_progress finds a request r that can be completed and runs           *)
(* ompi_request_complete(r, true).  The compare-and-swap and, when it       *)
(* fails, the swap are one step: between the two nothing can change         *)
(* req_complete from the sync it has to hold.                               *)
EnProgres(p) == p \in Threads => pc[p] = "progres"

Completer(p, r) ==
    /\ EnProgres(p)
    /\ etape[p] = "rien"
    /\ req_complete[r] # "COMPLETED"
    /\ req_complete' = [req_complete EXCEPT ![r] = "COMPLETED"]
    /\ IF req_complete[r] = "PENDING"
       THEN UNCHANGED varsProgres
       ELSE /\ travail' = [travail EXCEPT ![p] = r]
            /\ etape' = [etape EXCEPT ![p] = "update"]
    /\ UNCHANGED <<count, signaling, verrou, reveille, wait_sync_list, wait_sync_lock, pc>>

(* wait_sync_update, whose count goes from 1 to 0.                          *)
Update(p) ==
    /\ etape[p] = "update"
    /\ count' = [count EXCEPT ![travail[p]] = @ - 1]
    /\ etape' = [etape EXCEPT ![p] = "lock"]
    /\ UNCHANGED <<req_complete, signaling, verrou, reveille, wait_sync_list, wait_sync_lock, pc,
                   travail>>

(* WAIT_SYNC_SIGNAL: lock, signal, unlock; then clear the flag.             *)
SignalLock(p) ==
    /\ etape[p] = "lock"
    /\ verrou[travail[p]] = Personne
    /\ verrou' = [verrou EXCEPT ![travail[p]] = p]
    /\ etape' = [etape EXCEPT ![p] = "signal"]
    /\ UNCHANGED <<req_complete, count, signaling, reveille, wait_sync_list, wait_sync_lock, pc,
                   travail>>

Signal(p) ==
    /\ etape[p] = "signal"
    /\ reveille' = reveille \cup ({travail[p]} \cap Dormeurs)
    /\ verrou' = [verrou EXCEPT ![travail[p]] = Personne]
    /\ etape' = [etape EXCEPT ![p] = "effacer"]
    /\ UNCHANGED <<req_complete, count, signaling, wait_sync_list, wait_sync_lock, pc, travail>>

Effacer(p) ==
    /\ etape[p] = "effacer"
    /\ signaling' = [signaling EXCEPT ![travail[p]] = FALSE]
    /\ travail' = [travail EXCEPT ![p] = Personne]
    /\ etape' = [etape EXCEPT ![p] = "rien"]
    /\ UNCHANGED <<req_complete, count, verrou, reveille, wait_sync_list, wait_sync_lock, pc>>

FinirCompletion(p) == Update(p) \/ SignalLock(p) \/ Signal(p) \/ Effacer(p)

Progresser(p) == (\E r \in Threads : Completer(p, r)) \/ FinirCompletion(p)

-----------------------------------------------------------------------------
(* A sleeper's own step, when nothing spurious happens.                     *)
ReprendreSignale(t) == t \in reveille /\ Reprendre(t)

AttenteSauf(t) ==
    \/ Armer(t)
    \/ DejaComplete(t)
    \/ Tester(t)
    \/ Verrouiller(t)
    \/ Retester(t)
    \/ Inserer(t)
    \/ CheckStatus(t)
    \/ Reveil(t)
    \/ FinProgres(t)
    \/ Retirer(t)
    \/ Passer(t)
    \/ Liberer(t)

Termine == (\A t \in Threads : pc[t] = "fini") /\ UNCHANGED vars

Next ==
    \/ \E t \in Threads : AttenteSauf(t) \/ Reprendre(t)
    \/ \E p \in Tous : Progresser(p)
    \/ Termine

Spec == Init /\ [][Next]_vars

(* A running thread takes its steps, a signalled one is scheduled again, a  *)
(* lock that others keep taking is granted some time, and the head's        *)
(* opal_progress completes what the network delivers.  Nothing is assumed   *)
(* of spurious wakeups, and of the external threads only that they finish   *)
(* the completion they have begun.                                          *)
FairSpec ==
    /\ Spec
    /\ \A t \in Threads :
         /\ SF_vars(AttenteSauf(t) \/ ReprendreSignale(t))
         /\ SF_vars(Progresser(t))
    /\ \A p \in Externes : SF_vars(FinirCompletion(p))

-----------------------------------------------------------------------------
(* Types; a thread completes only what another waits for or it waits for.   *)
TypeOK ==
    /\ req_complete \in [Threads -> {"PENDING", "SYNC", "COMPLETED"}]
    /\ count \in [Threads -> {0, 1}]
    /\ signaling \in [Threads -> BOOLEAN]
    /\ verrou \in [Threads -> Tous \cup {Personne}]
    /\ reveille \subseteq Dormeurs
    /\ wait_sync_list \in Seq(Threads)
    /\ wait_sync_lock \in Threads \cup {Personne}
    /\ pc \in [Threads -> {"debut", "test", "verrou", "retest", "inserer", "check_status",
                           "dormir", "reveil", "progres", "retirer", "passer", "liberer", "fini"}]
    /\ travail \in [Tous -> Threads \cup {Personne}]
    /\ etape \in [Tous -> {"rien", "update", "lock", "signal", "effacer"}]

(* wait_sync.c:87, assert(sync == wait_sync_list): who progresses stays the *)
(* head of the list until it leaves it, so one waiting thread progresses.   *)
ProgresEnTete ==
    /\ TypeOK
    /\ \A t \in Threads : pc[t] = "progres" => Tete = t

(* No wakeup is lost: a thread that sleeps although its request is complete *)
(* or although it has become the head is about to be signalled.             *)
PasDeReveilPerdu ==
    \A t \in Dormeurs \ reveille :
        /\ count[t] = 0 =>
             \E p \in Tous : travail[p] = t /\ etape[p] \in {"lock", "signal"}
        /\ Tete = t => \E u \in Threads : pc[u] = "passer"

(* Once a wait has returned, its sync, which was on its stack, is referred  *)
(* to by no one: not from the list, nor by who completes the request, nor   *)
(* by who passes the progress on.                                           *)
SyncVivant ==
    \A t \in Threads : pc[t] = "fini" =>
        /\ req_complete[t] = "COMPLETED"
        /\ \A k \in 1 .. Len(wait_sync_list) : wait_sync_list[k] # t
        /\ \A p \in Tous : travail[p] # t
        /\ verrou[t] = Personne

(* Every wait returns, whatever the order of completions and promotions.    *)
Retour == <>(\A t \in Threads : pc[t] = "fini")
=============================================================================
