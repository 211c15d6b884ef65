---------------------------- MODULE RequestSync ----------------------------
(***************************************************************************)
(* MPI_Waitany, MPI_Waitall and MPI_Waitsome of a thread in a              *)
(* MPI_THREAD_MULTIPLE process (ompi/request/req_wait.c) against the       *)
(* threads that complete its requests (ompi_request_complete, request.h).  *)
(* The caller keeps an ompi_wait_sync_t on its stack, swaps its address    *)
(* into each pending request, waits for its count to reach 0, takes the    *)
(* address out of the requests that are still pending, and destroys it.    *)
(* Each access to a request's req_complete and to the synchronization      *)
(* object is a step of its own.                                            *)
(***************************************************************************)
EXTENDS Integers, FiniteSets

CONSTANTS
    N,         \* the number of requests of the call
    Erreurs    \* TRUE: a request may complete with an error

ASSUME NAssumption == N \in Nat \ {0}
ASSUME ErreursAssumption == Erreurs \in BOOLEAN

Requetes == 0 .. N - 1

VARIABLES
    appel,         \* which call it is: "any", "all" or "some"
    inactive,      \* the requests that are null or inactive
    erreur,        \* the requests whose MPI_ERROR is not MPI_SUCCESS
    req_complete,  \* "PENDING", "COMPLETED", or "SYNC", the caller's sync
    count,         \* sync.count
    status,        \* sync.status is OPAL_ERROR
    signaling,     \* sync.signaling
    vivant,        \* the sync object exists
    comp,          \* where the thread that completes each request is
    pc,            \* where the caller is
    i,             \* its loop index
    completed,     \* wait_any: the index found complete; others: their number
    failed,        \* wait_all: an error was seen
    armes,         \* wait_some: the requests with indices[i] = 1
    rendus         \* the indices the call returns as complete

varsDonnees == <<appel, inactive, erreur>>
varsSync == <<count, status, signaling, vivant>>
varsAppel == <<pc, i, completed, failed, armes, rendus>>
vars == <<varsDonnees, req_complete, varsSync, comp, varsAppel>>

Actives == Requetes \ inactive

-----------------------------------------------------------------------------
(* WAIT_SYNC_INIT; wait_all starts at count, the others at 1.               *)
Init ==
    /\ appel \in {"any", "all", "some"}
    /\ inactive \in SUBSET Requetes
    /\ erreur \in IF Erreurs THEN SUBSET (Requetes \ inactive) ELSE {{}}
    /\ req_complete = [r \in Requetes |-> IF r \in inactive THEN "COMPLETED" ELSE "PENDING"]
    /\ count = IF appel = "all" THEN N ELSE 1
    /\ status = FALSE
    /\ signaling = TRUE
    /\ vivant = TRUE
    /\ comp = [r \in Requetes |-> IF r \in inactive THEN "fini" ELSE "libre"]
    /\ pc = "armer"
    /\ i = 0
    /\ completed = IF appel = "any" THEN N ELSE 0
    /\ failed = FALSE
    /\ armes = {}
    /\ rendus = {}

-----------------------------------------------------------------------------
(* ompi_request_complete with a signal, from a thread in opal_progress.     *)
Completer(r) ==
    /\ comp[r] = "libre"
    /\ IF req_complete[r] = "PENDING"
       THEN /\ req_complete' = [req_complete EXCEPT ![r] = "COMPLETED"]
            /\ comp' = [comp EXCEPT ![r] = "fini"]
       ELSE /\ comp' = [comp EXCEPT ![r] = "swap"]
            /\ UNCHANGED req_complete
    /\ UNCHANGED <<varsDonnees, varsSync, varsAppel>>

(* The caller may have put REQUEST_PENDING back since.                      *)
Echanger(r) ==
    /\ comp[r] = "swap"
    /\ comp' = [comp EXCEPT ![r] = IF req_complete[r] = "PENDING" THEN "fini" ELSE "update"]
    /\ req_complete' = [req_complete EXCEPT ![r] = "COMPLETED"]
    /\ UNCHANGED <<varsDonnees, varsSync, varsAppel>>

(* Variants of definitions, each with a plausible slip that the properties  *)
(* must tell apart from the code, stand before the definition they vary     *)
(* (SignalerEffaceAvant of Signaler, ...); no specification uses them.      *)

(* wait_sync_update: the success path decrements, the error path sets the   *)
(* status and then the count to 0; who brings it to 0 signals.              *)
Decrementer(r) ==
    /\ comp[r] = "update"
    /\ r \notin erreur
    /\ count' = count - 1
    /\ comp' = [comp EXCEPT ![r] = IF count' = 0 THEN "signal" ELSE "fini"]
    /\ UNCHANGED <<varsDonnees, req_complete, status, signaling, vivant, varsAppel>>

MarquerErreur(r) ==
    /\ comp[r] = "update"
    /\ r \in erreur
    /\ status' = TRUE
    /\ comp' = [comp EXCEPT ![r] = "annuler"]
    /\ UNCHANGED <<varsDonnees, req_complete, count, signaling, vivant, varsAppel>>

AnnulerCompte(r) ==
    /\ comp[r] = "annuler"
    /\ count' = 0
    /\ comp' = [comp EXCEPT ![r] = "signal"]
    /\ UNCHANGED <<varsDonnees, req_complete, status, signaling, vivant, varsAppel>>

SignalerEffaceAvant(r) ==
    /\ comp[r] = "signal"
    /\ signaling' = FALSE
    /\ comp' = [comp EXCEPT ![r] = "effacer"]
    /\ UNCHANGED <<varsDonnees, req_complete, count, status, vivant, varsAppel>>

(* WAIT_SYNC_SIGNAL: lock, signal and unlock, then clear the flag.          *)
Signaler(r) ==
    /\ comp[r] = "signal"
    /\ comp' = [comp EXCEPT ![r] = "effacer"]
    /\ UNCHANGED <<varsDonnees, req_complete, varsSync, varsAppel>>

Effacer(r) ==
    /\ comp[r] = "effacer"
    /\ signaling' = FALSE
    /\ comp' = [comp EXCEPT ![r] = "fini"]
    /\ UNCHANGED <<varsDonnees, req_complete, count, status, vivant, varsAppel>>

(* What a thread does to complete r once it has begun.                      *)
FinirCompletion(r) ==
    \/ Echanger(r)
    \/ Decrementer(r)
    \/ MarquerErreur(r)
    \/ AnnulerCompte(r)
    \/ Signaler(r)
    \/ Effacer(r)

-----------------------------------------------------------------------------
(* The first loop.  A request that is already complete ends it in wait_any. *)
Sauter ==
    /\ pc = "armer"
    /\ i < N
    /\ i \in inactive
    /\ i' = i + 1
    /\ completed' = IF appel = "all" THEN completed + 1 ELSE completed
    /\ UNCHANGED <<varsDonnees, req_complete, varsSync, comp, pc, failed, armes, rendus>>

Armer ==
    /\ pc = "armer"
    /\ i < N
    /\ i \notin inactive
    /\ req_complete[i] = "PENDING"
    /\ req_complete' = [req_complete EXCEPT ![i] = "SYNC"]
    /\ armes' = armes \cup {i}
    /\ i' = i + 1
    /\ UNCHANGED <<varsDonnees, varsSync, comp, pc, completed, failed, rendus>>

TrouverComplete ==
    /\ pc = "armer"
    /\ i < N
    /\ i \notin inactive
    /\ req_complete[i] # "PENDING"
    /\ CASE appel = "any" ->
              /\ completed' = i
              /\ rendus' = {i}
              /\ pc' = "nettoyer"
              /\ i' = i - 1
              /\ UNCHANGED failed
         [] appel = "all" ->
              /\ completed' = completed + 1
              /\ failed' = (failed \/ i \in erreur)
              /\ i' = i + 1
              /\ UNCHANGED <<pc, rendus>>
         [] appel = "some" ->
              /\ completed' = completed + 1
              /\ i' = i + 1
              /\ UNCHANGED <<pc, failed, rendus>>
    /\ UNCHANGED <<varsDonnees, req_complete, varsSync, comp, armes>>

(* After the first loop: nothing to wait for, or straight to the cleaning,  *)
(* or wait_all's own wait_sync_update for what it found complete, or wait.  *)
DebutNettoyage == IF appel = "any" THEN completed - 1 ELSE 0

FinArmer ==
    /\ pc = "armer"
    /\ i = N
    /\ i' = DebutNettoyage
    /\ IF appel # "all" /\ inactive = Requetes
       THEN /\ pc' = "fini"
            /\ vivant' = FALSE
            /\ UNCHANGED <<count, signaling>>
       ELSE /\ UNCHANGED vivant
            /\ pc' = IF failed \/ (appel = "some" /\ completed > 0) THEN "nettoyer"
                     ELSE "attendre"
            /\ IF appel = "all" /\ ~ failed
               THEN /\ count' = count - completed
                    /\ signaling' = (signaling /\ (completed = 0 \/ count' # 0))
               ELSE UNCHANGED <<count, signaling>>
    /\ UNCHANGED <<varsDonnees, req_complete, status, comp, completed, failed, armes,
                   rendus>>

(* SYNC_WAIT, whose own steps are those of WaitSync.                        *)
Attendre ==
    /\ pc = "attendre"
    /\ count <= 0
    /\ pc' = "nettoyer"
    /\ failed' = (failed \/ (appel = "all" /\ status))
    /\ UNCHANGED <<varsDonnees, req_complete, varsSync, comp, i, completed, armes, rendus>>

-----------------------------------------------------------------------------
(* The second loop: backwards from completed - 1 in wait_any, so that the   *)
(* earliest complete request is the one returned; forwards in the others.   *)
(* A request that can be put back to REQUEST_PENDING is not complete;       *)
(* wait_all tries only once it has seen an error, wait_some only on those   *)
(* it had armed.                                                            *)
ResteTropCourt == IF appel = "any" THEN i > 0 ELSE i < N - 1

Reste == IF appel = "any" THEN i >= 0 ELSE i < N

Suivant == IF appel = "any" THEN i - 1 ELSE i + 1

DetachableSaufAll == appel # "all" /\ req_complete[i] = "SYNC"

Detachable ==
    CASE appel = "any" -> req_complete[i] = "SYNC"
      [] appel = "all" -> failed /\ req_complete[i] = "SYNC"
      [] appel = "some" -> i \in armes /\ req_complete[i] = "SYNC"

Nettoyer ==
    /\ pc = "nettoyer"
    /\ Reste
    /\ i' = Suivant
    /\ IF i \in inactive THEN UNCHANGED <<req_complete, rendus>>
       ELSE IF Detachable
       THEN /\ req_complete' = [req_complete EXCEPT ![i] = "PENDING"]
            /\ UNCHANGED rendus
       ELSE /\ rendus' = IF appel = "any" THEN {i} ELSE rendus \cup {i}
            /\ UNCHANGED req_complete
    /\ UNCHANGED <<varsDonnees, varsSync, comp, pc, completed, failed, armes>>

RienEnVolJamais == FALSE

(* wait_any: no completion can be under way when the one found in the first *)
(* loop is still the earliest; wait_some: none of the armed ones is missing.*)
RienEnVol ==
    \/ appel = "any" /\ rendus = {completed}
    \/ appel = "some" /\ completed = Cardinality(rendus)

FinNettoyer ==
    /\ pc = "nettoyer"
    /\ ~ Reste
    /\ pc' = "liberer"
    /\ signaling' = (signaling /\ ~ RienEnVol)
    /\ UNCHANGED <<varsDonnees, req_complete, count, status, vivant, comp, i, completed,
                   failed, armes, rendus>>

(* WAIT_SYNC_RELEASE: spin on signaling, then destroy.                      *)
Liberer ==
    /\ pc = "liberer"
    /\ ~ signaling
    /\ vivant' = FALSE
    /\ pc' = "fini"
    /\ UNCHANGED <<varsDonnees, req_complete, count, status, signaling, comp, i, completed,
                   failed, armes, rendus>>

-----------------------------------------------------------------------------
Appelant ==
    \/ Sauter
    \/ Armer
    \/ TrouverComplete
    \/ FinArmer
    \/ Attendre
    \/ Nettoyer
    \/ FinNettoyer
    \/ Liberer

Termine == pc = "fini" /\ UNCHANGED vars

Next ==
    \/ Appelant
    \/ \E r \in Requetes : Completer(r) \/ FinirCompletion(r)
    \/ Termine

Spec == Init /\ [][Next]_vars

(* A completion may never begin; what has begun goes on, and so does the    *)
(* caller: each is a running thread.                                        *)
FairSpec ==
    /\ Spec
    /\ WF_vars(Appelant)
    /\ \A r \in Requetes : WF_vars(FinirCompletion(r))

-----------------------------------------------------------------------------
(* Types; the count never goes below what the requests of the call allow,   *)
(* and putting REQUEST_PENDING back never undoes a completion.              *)
TypeOK ==
    /\ appel \in {"any", "all", "some"}
    /\ inactive \subseteq Requetes
    /\ erreur \subseteq Actives
    /\ req_complete \in [Requetes -> {"PENDING", "COMPLETED", "SYNC"}]
    /\ count \in - N .. N
    /\ status \in BOOLEAN
    /\ signaling \in BOOLEAN
    /\ vivant \in BOOLEAN
    /\ comp \in [Requetes -> {"libre", "swap", "update", "annuler", "signal", "effacer", "fini"}]
    /\ pc \in {"armer", "attendre", "nettoyer", "liberer", "fini"}
    /\ i \in -1 .. N
    /\ completed \in 0 .. N
    /\ failed \in BOOLEAN
    /\ armes \subseteq Actives
    /\ rendus \subseteq Actives
    /\ \A r \in Requetes : comp[r] \notin {"libre", "swap"} => req_complete[r] = "COMPLETED"

(* The threads that hold the address of the sync object and will use it.    *)
EnVol == {r \in Requetes : comp[r] \in {"update", "annuler", "signal", "effacer"}}

(* No request keeps the address of a sync object that no longer exists: a   *)
(* later completion would follow it.  Nor does one lose its completion.     *)
PasDePointeurMort ==
    /\ TypeOK
    /\ ~ vivant => \A r \in Requetes : req_complete[r] # "SYNC"

(* wait_sync.h:43-46: signaling "will be set to false after the final       *)
(* signaling thread has finished operating on the sync object", so none     *)
(* uses it after its destruction.                                           *)
SyncVivant == ~ vivant => EnVol = {}

(* wait_all counts every request, so that this holds of it when no request  *)
(* fails, the only case in which its count reaches 0 by decrements alone.   *)
SyncVivantAll == appel = "all" /\ erreur = {} => SyncVivant

(* Every index returned is of a complete request, and a call that is not    *)
(* all inactive returns one; wait_all without an error returns them all.    *)
RenduComplet ==
    pc \in {"liberer", "fini"} =>
        /\ \A r \in rendus : req_complete[r] = "COMPLETED"
        /\ Actives # {} /\ appel # "all" => rendus # {}
        /\ appel = "all" /\ ~ failed => rendus = Actives

(* Enough has begun for the call to return: a completion, or each of them   *)
(* for wait_all.                                                            *)
Satisfait ==
    \/ \A r \in Actives : comp[r] # "libre"
    \/ appel # "all" /\ \E r \in Actives : comp[r] # "libre"

(* req_wait.c:236, "wait until all requests complete or until an error is   *)
(* triggered": a call whose completions have begun returns; it neither      *)
(* misses one nor spins on a signal that nobody will give.  This excludes   *)
(* wait_all with a request that fails: the jump of req_wait.c:228 may leave *)
(* the flag set with nobody to clear it, and the call then spins for ever.  *)
RetourSansErreur == Satisfait /\ (appel = "all" => erreur = {}) ~> pc = "fini"
=============================================================================
