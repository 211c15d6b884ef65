------------------------------ MODULE FreeList ------------------------------
(***************************************************************************)
(* The free lists of Open MPI, shared by several threads                   *)
(* (opal/class/opal_free_list.h and .c): opal_free_list_get_mt,            *)
(* opal_free_list_wait_mt, opal_free_list_return_mt, and the growth under  *)
(* fl_lock.  The lifo of the items is the stack that OpalLifo implements,  *)
(* its pushes and pops atomic; the items are not told apart, only counted, *)
(* and a thread holds one at most.  The condition variable is the one of   *)
(* opal/threads/condition.h, two counters that are polled; a return tests  *)
(* and increments them without the lock, so that a decrement or an         *)
(* increment of c_signaled is a read and a write.                          *)
(***************************************************************************)
EXTENDS Integers, FiniteSets

CONSTANTS
    Threads,        \* the threads that use the list
    Personne,       \* holder of a free lock
    MaxToAlloc,     \* fl_max_to_alloc
    NumPerAlloc,    \* fl_num_per_alloc
    TailleElem,     \* the aligned size of a payload buffer; 0: items have none
    TaillePage,     \* opal_getpagesize()
    SizeMod,        \* the number of values of a size_t
    Echecs,         \* TRUE: malloc, the mpool or item_init may fail
    MaxAppels       \* bound: the number of items the threads ask for

ASSUME ThreadsAssumption == IsFiniteSet(Threads)
ASSUME PersonneAssumption == Personne \notin Threads
ASSUME MaxToAllocAssumption == MaxToAlloc \in Nat \ {0}
ASSUME NumPerAllocAssumption == NumPerAlloc \in Nat \ {0}
ASSUME TailleElemAssumption == TailleElem \in Nat
ASSUME TaillePageAssumption == TaillePage \in Nat \ {0}

(* A size_t is a whole number of pages and has room for the whole list.     *)
ASSUME SizeModAssumption ==
    /\ SizeMod \in Nat
    /\ SizeMod % TaillePage = 0
    /\ MaxToAlloc * TailleElem + TaillePage < SizeMod
    /\ MaxToAlloc + NumPerAlloc + TaillePage < SizeMod
ASSUME EchecsAssumption == Echecs \in BOOLEAN
ASSUME MaxAppelsAssumption == MaxAppels \in Nat

VARIABLES
    libres,             \* the number of items in the lifo
    tient,              \* the threads that hold an item
    fl_num_allocated,
    fl_num_waiting,
    fl_lock,            \* its holder
    c_waiting,          \* fl_condition.c_waiting
    c_signaled,         \* fl_condition.c_signaled
    lot,                \* opal_free_list_grow_st: num_elements
    reste,              \* and the items it has still to push
    tmp,                \* the c_signaled each thread has read to change it
    pc,                 \* where each thread is
    appels              \* the calls made in all

varsListe == <<libres, tient, fl_num_allocated>>
varsCondition == <<fl_num_waiting, c_waiting, c_signaled>>
varsGrow == <<lot, reste>>
vars == <<varsListe, varsCondition, varsGrow, fl_lock, tmp, pc, appels>>

Aller(t, l) == pc' = [pc EXCEPT ![t] = l]
Prendre(t) == fl_lock = Personne /\ fl_lock' = t
Lacher(t) == fl_lock' = Personne

-----------------------------------------------------------------------------
(* Variants of definitions, each with a plausible slip that the properties  *)
(* must tell apart from the code, stand before the definition they vary     *)
(* (VoulusSansBorne of Voulus, ...); no specification uses them.                  *)

(* The size of a growth, from what is asked and fl_num_allocated, in size_t *)
(* arithmetic.  First as many items as may still be allocated,              *)
VoulusSansBorne(demande, alloues) == demande

Voulus(demande, alloues) ==
    IF alloues + demande > MaxToAlloc THEN (MaxToAlloc - alloues) % SizeMod ELSE demande

(* OPAL_ALIGN to pages.                                                     *)
Aligne(taille) ==
    LET y == (taille + TaillePage - 1) % SizeMod IN y - (y % TaillePage)

(* then as many as fit in the pages that takes, by the flag                 *)
(* MCA_RCACHE_FLAGS_CUDA_REGISTER_MEM that every list has.                  *)
LotPour(demande, alloues) ==
    LET voulus == Voulus(demande, alloues) IN
    IF TailleElem = 0 \/ voulus = 0
    THEN voulus
    ELSE Aligne((voulus * TailleElem) % SizeMod) \div TailleElem

(* opal_free_list_init, with the items it was asked to allocate at once.    *)
Init ==
    /\ \E demande \in 0 .. MaxToAlloc :
         libres \in (IF Echecs THEN 0 .. LotPour(demande, 0) ELSE {LotPour(demande, 0)})
    /\ tient = {}
    /\ fl_num_allocated = libres
    /\ fl_num_waiting = 0
    /\ fl_lock = Personne
    /\ c_waiting = 0
    /\ c_signaled = 0
    /\ lot = 0
    /\ reste = 0
    /\ tmp = [t \in Threads |-> 0]
    /\ pc = [t \in Threads |-> "repos"]
    /\ appels = 0

-----------------------------------------------------------------------------
(* The call, to either function.                                            *)
Appeler(t) ==
    /\ pc[t] = "repos"
    /\ t \notin tient
    /\ appels < MaxAppels
    /\ appels' = appels + 1
    /\ \E l \in {"get_pop", "wait_pop"} : Aller(t, l)
    /\ UNCHANGED <<varsListe, varsCondition, varsGrow, fl_lock, tmp>>

(* Where a call that finds the lifo empty goes: the second pop of get_mt    *)
(* returns NULL.                                                            *)
SiVide == [get_pop |-> "get_lock", get_repop |-> "repos", wait_pop |-> "wait_trylock"]

Pop(t) ==
    /\ pc[t] \in DOMAIN SiVide
    /\ IF libres > 0
       THEN libres' = libres - 1 /\ tient' = tient \cup {t} /\ Aller(t, "repos")
       ELSE UNCHANGED <<libres, tient>> /\ Aller(t, SiVide[pc[t]])
    /\ UNCHANGED <<fl_num_allocated, varsCondition, varsGrow, fl_lock, tmp, appels>>

GetLock(t) ==
    /\ pc[t] = "get_lock"
    /\ Prendre(t)
    /\ Aller(t, "get_grow")
    /\ UNCHANGED <<varsListe, varsCondition, varsGrow, tmp, appels>>

WaitTrylock(t) ==
    /\ pc[t] = "wait_trylock"
    /\ IF fl_lock = Personne
       THEN Prendre(t) /\ Aller(t, "wait_grow")
       ELSE UNCHANGED fl_lock /\ Aller(t, "wait_lock")
    /\ UNCHANGED <<varsListe, varsCondition, varsGrow, tmp, appels>>

(* Whoever had the lock may have grown the list: lock, unlock, try again.   *)
WaitLock(t) ==
    /\ pc[t] = "wait_lock"
    /\ fl_lock = Personne
    /\ Aller(t, "wait_pop")
    /\ UNCHANGED <<varsListe, varsCondition, varsGrow, fl_lock, tmp, appels>>

-----------------------------------------------------------------------------
(* opal_free_list_grow_st, under the lock: the items are pushed one by one, *)
(* and counted at the end.  Only wait_mt looks first whether the list has   *)
(* all its items.                                                           *)
Epuisee(t) == pc[t] = "wait_grow" /\ MaxToAlloc <= fl_num_allocated

Grandir(t) ==
    /\ pc[t] \in {"get_grow", "wait_grow"}
    /\ ~ Epuisee(t)
    /\ Voulus(NumPerAlloc, fl_num_allocated) > 0
    /\ lot' = LotPour(NumPerAlloc, fl_num_allocated)
    /\ reste' = lot'
    /\ Aller(t, IF pc[t] = "get_grow" THEN "get_push" ELSE "wait_push")
    /\ UNCHANGED <<varsListe, varsCondition, fl_lock, tmp, appels>>

(* After a growth that failed, get_mt pops again all the same, wait_mt      *)
(* waits.                                                                   *)
SansGrandir(t) ==
    IF pc[t] \in {"get_grow", "get_push"}
    THEN Lacher(t) /\ Aller(t, "get_repop")
    ELSE UNCHANGED fl_lock /\ Aller(t, "num_waiting")

(* Nothing left to allocate, or no memory.                                  *)
PasGrandir(t) ==
    /\ pc[t] \in {"get_grow", "wait_grow"}
    /\ Epuisee(t) \/ Voulus(NumPerAlloc, fl_num_allocated) = 0 \/ Echecs
    /\ SansGrandir(t)
    /\ UNCHANGED <<varsListe, varsCondition, varsGrow, tmp, appels>>

GrandirPush(t) ==
    /\ pc[t] \in {"get_push", "wait_push"}
    /\ reste > 0
    /\ libres' = libres + 1
    /\ reste' = reste - 1
    /\ UNCHANGED <<tient, fl_num_allocated, varsCondition, lot, fl_lock, tmp, pc, appels>>

(* item_init failed: the items pushed before are kept.                      *)
InitEchoue(t) ==
    /\ pc[t] \in {"get_push", "wait_push"}
    /\ Echecs
    /\ reste > 0
    /\ lot' = lot - reste
    /\ reste' = 0
    /\ UNCHANGED <<varsListe, varsCondition, fl_lock, tmp, pc, appels>>

(* None was pushed: item_init failed on the first, or get_mt grew a list    *)
(* that had too many items already, by a number that wrapped around to 0.   *)
GrandirRien(t) ==
    /\ pc[t] \in {"get_push", "wait_push"}
    /\ reste = 0
    /\ lot = 0
    /\ SansGrandir(t)
    /\ UNCHANGED <<varsListe, varsCondition, varsGrow, tmp, appels>>

GrandirFin(t) ==
    /\ pc[t] \in {"get_push", "wait_push"}
    /\ reste = 0
    /\ lot > 0
    /\ fl_num_allocated' = fl_num_allocated + lot
    /\ IF pc[t] = "get_push"
       THEN Lacher(t) /\ Aller(t, "get_repop")
       ELSE UNCHANGED fl_lock /\ Aller(t, "reveiller")
    /\ UNCHANGED <<libres, tient, varsCondition, varsGrow, tmp, appels>>

(* wait_mt, having grown the list, wakes the one waiter or all of them.     *)
Reveiller(t) ==
    /\ pc[t] = "reveiller"
    /\ IF fl_num_waiting = 1 /\ c_waiting # 0
       THEN /\ tmp' = [tmp EXCEPT ![t] = c_signaled]
            /\ Aller(t, "reveiller_un")
            /\ UNCHANGED <<c_signaled, fl_lock>>
       ELSE /\ c_signaled' = IF fl_num_waiting > 1 THEN c_waiting ELSE c_signaled
            /\ Lacher(t)
            /\ Aller(t, "wait_pop")
            /\ UNCHANGED tmp
    /\ UNCHANGED <<varsListe, fl_num_waiting, c_waiting, varsGrow, appels>>

ReveillerUn(t) ==
    /\ pc[t] = "reveiller_un"
    /\ c_signaled' = tmp[t] + 1
    /\ Lacher(t)
    /\ Aller(t, "wait_pop")
    /\ UNCHANGED <<varsListe, fl_num_waiting, c_waiting, varsGrow, tmp, appels>>

-----------------------------------------------------------------------------
(* wait_mt on the condition, under the lock but while it polls: first the   *)
(* two counters of waiters,                                                 *)
NumWaiting(t) ==
    /\ pc[t] = "num_waiting"
    /\ fl_num_waiting' = fl_num_waiting + 1
    /\ Aller(t, "c_waiting")
    /\ UNCHANGED <<varsListe, c_waiting, c_signaled, varsGrow, fl_lock, tmp, appels>>

CWaiting(t) ==
    /\ pc[t] = "c_waiting"
    /\ c_waiting' = c_waiting + 1
    /\ Aller(t, "c_test")
    /\ UNCHANGED <<varsListe, fl_num_waiting, c_signaled, varsGrow, fl_lock, tmp, appels>>

(* then, if there is a signal already, one call of opal_progress without    *)
(* the lock and out, the signal kept; else poll: unlock, progress, lock;    *)
CTest(t) ==
    /\ pc[t] = "c_test"
    /\ Lacher(t)
    /\ IF c_signaled # 0
       THEN c_waiting' = c_waiting - 1 /\ Aller(t, "c_sortie")
       ELSE UNCHANGED c_waiting /\ Aller(t, "c_progres")
    /\ UNCHANGED <<varsListe, fl_num_waiting, c_signaled, varsGrow, tmp, appels>>

CSortie(t) ==
    /\ pc[t] = "c_sortie"
    /\ Prendre(t)
    /\ Aller(t, "fin_attente")
    /\ UNCHANGED <<varsListe, varsCondition, varsGrow, tmp, appels>>

CProgres(t) ==
    /\ pc[t] = "c_progres"
    /\ Prendre(t)
    /\ Aller(t, "c_boucle")
    /\ UNCHANGED <<varsListe, varsCondition, varsGrow, tmp, appels>>

CBoucleSansLacher(t) ==
    /\ pc[t] = "c_boucle"
    /\ c_signaled # 0
    /\ Aller(t, "c_moins")
    /\ UNCHANGED <<varsListe, varsCondition, varsGrow, fl_lock, tmp, appels>>

CBoucle(t) ==
    /\ pc[t] = "c_boucle"
    /\ IF c_signaled = 0
       THEN Lacher(t) /\ Aller(t, "c_progres")
       ELSE UNCHANGED fl_lock /\ Aller(t, "c_moins")
    /\ UNCHANGED <<varsListe, varsCondition, varsGrow, tmp, appels>>

(* until it takes a signal.                                                 *)
CMoinsLire(t) ==
    /\ pc[t] = "c_moins"
    /\ tmp' = [tmp EXCEPT ![t] = c_signaled]
    /\ Aller(t, "c_moins_ecrire")
    /\ UNCHANGED <<varsListe, varsCondition, varsGrow, fl_lock, appels>>

CMoinsEcrire(t) ==
    /\ pc[t] = "c_moins_ecrire"
    /\ c_signaled' = tmp[t] - 1
    /\ Aller(t, "c_waiting_moins")
    /\ UNCHANGED <<varsListe, fl_num_waiting, c_waiting, varsGrow, fl_lock, tmp, appels>>

CWaitingMoins(t) ==
    /\ pc[t] = "c_waiting_moins"
    /\ c_waiting' = c_waiting - 1
    /\ Aller(t, "fin_attente")
    /\ UNCHANGED <<varsListe, fl_num_waiting, c_signaled, varsGrow, fl_lock, tmp, appels>>

FinAttente(t) ==
    /\ pc[t] = "fin_attente"
    /\ fl_num_waiting' = fl_num_waiting - 1
    /\ Lacher(t)
    /\ Aller(t, "wait_pop")
    /\ UNCHANGED <<varsListe, c_waiting, c_signaled, varsGrow, tmp, appels>>

-----------------------------------------------------------------------------
(* opal_free_list_return_mt: only a push onto an empty lifo signals.        *)
Rendre(t) ==
    /\ pc[t] = "repos"
    /\ t \in tient
    /\ libres' = libres + 1
    /\ tient' = tient \ {t}
    /\ Aller(t, IF libres = 0 THEN "return_waiting" ELSE "repos")
    /\ UNCHANGED <<fl_num_allocated, varsCondition, varsGrow, fl_lock, tmp, appels>>

ReturnWaiting(t) ==
    /\ pc[t] = "return_waiting"
    /\ Aller(t, IF fl_num_waiting > 0 THEN "return_cond" ELSE "repos")
    /\ UNCHANGED <<varsListe, varsCondition, varsGrow, fl_lock, tmp, appels>>

ReturnCond(t) ==
    /\ pc[t] = "return_cond"
    /\ Aller(t, IF c_waiting # 0 THEN "return_lire" ELSE "repos")
    /\ UNCHANGED <<varsListe, varsCondition, varsGrow, fl_lock, tmp, appels>>

ReturnLire(t) ==
    /\ pc[t] = "return_lire"
    /\ tmp' = [tmp EXCEPT ![t] = c_signaled]
    /\ Aller(t, "return_ecrire")
    /\ UNCHANGED <<varsListe, varsCondition, varsGrow, fl_lock, appels>>

ReturnEcrire(t) ==
    /\ pc[t] = "return_ecrire"
    /\ c_signaled' = tmp[t] + 1
    /\ Aller(t, "repos")
    /\ UNCHANGED <<varsListe, fl_num_waiting, c_waiting, varsGrow, fl_lock, tmp, appels>>

-----------------------------------------------------------------------------
AvecVerrou(t) == GetLock(t) \/ WaitLock(t) \/ CSortie(t) \/ CProgres(t)

EnCours(t) ==
    \/ Pop(t)
    \/ WaitTrylock(t)
    \/ Grandir(t)
    \/ PasGrandir(t)
    \/ GrandirPush(t)
    \/ InitEchoue(t)
    \/ GrandirRien(t)
    \/ GrandirFin(t)
    \/ Reveiller(t)
    \/ ReveillerUn(t)
    \/ NumWaiting(t)
    \/ CWaiting(t)
    \/ CTest(t)
    \/ CBoucle(t)
    \/ CMoinsLire(t)
    \/ CMoinsEcrire(t)
    \/ CWaitingMoins(t)
    \/ FinAttente(t)
    \/ Rendre(t)
    \/ ReturnWaiting(t)
    \/ ReturnCond(t)
    \/ ReturnLire(t)
    \/ ReturnEcrire(t)

Next == \E t \in Threads : Appeler(t) \/ AvecVerrou(t) \/ EnCours(t)

Spec == Init /\ [][Next]_vars

(* A thread runs, returns the item it holds, and gets a lock that is free   *)
(* again and again.                                                         *)
FairSpec == Spec /\ \A t \in Threads : WF_vars(EnCours(t)) /\ SF_vars(AvecVerrou(t))

-----------------------------------------------------------------------------
EnAttente == {"c_test", "c_progres", "c_boucle", "c_moins", "c_moins_ecrire", "c_waiting_moins"}
SousVerrou == {"get_grow", "wait_grow", "get_push", "wait_push", "reveiller", "reveiller_un",
               "num_waiting", "c_waiting", "c_test", "c_boucle", "c_moins", "c_moins_ecrire",
               "c_waiting_moins", "fin_attente"}

(* Types; the counters that a return reads without the lock count the       *)
(* waiters, and the lock's holder is the one thread in a section of it.     *)
TypeOK ==
    /\ libres \in Nat
    /\ tient \subseteq Threads
    /\ fl_num_allocated \in Nat
    /\ c_waiting = Cardinality({t \in Threads : pc[t] \in EnAttente})
    /\ fl_num_waiting =
         Cardinality({t \in Threads : pc[t] \in EnAttente \cup {"c_waiting", "c_sortie", "fin_attente"}})
    /\ c_signaled \in Nat
    /\ fl_lock \in Threads \cup {Personne}
    /\ \A t \in Threads : pc[t] \in SousVerrou <=> fl_lock = t

(* What the rounding to pages can add to the last growth.                   *)
Exces == IF TailleElem = 0 THEN 0 ELSE (TaillePage - 1) \div TailleElem

(* The list never has more items than it may allocate and the last page has *)
(* room for, and its count of them is short by no more than the growth in   *)
(* progress has pushed (opal_free_list.c:172-203, :274).                    *)
BorneAllocation ==
    LET items == libres + Cardinality(tient) IN
    /\ TypeOK
    /\ items <= MaxToAlloc + Exces
    /\ fl_num_allocated <= items
    /\ (\A t \in Threads : pc[t] \notin {"get_push", "wait_push"}) => fl_num_allocated = items

(* Whatever the other threads do, and even if the list cannot grow, nobody  *)
(* keeps the lock or is kept from it: again and again a thread is idle,     *)
(* tries a pop, or polls the condition with the lock given back.            *)
PasDeBlocage == \A t \in Threads : []<>(pc[t] \in {"repos", "wait_pop", "c_progres"})

(* opal_free_list.h:240-241, "the caller is blocked until an item is        *)
(* returned to the list": no caller stays blocked while the list has one.   *)
AttenteFinie == \A t \in Threads : []<>(libres = 0 \/ pc[t] \notin EnAttente)
=============================================================================
