------------------------------ MODULE CommCid ------------------------------
(***************************************************************************)
(* The agreement of the processes of a communicator on the context id of a *)
(* new one (ompi/communicator/comm_cid.c): each reserves an id of its own, *)
(* the largest is tried by all, and they start again unless all could take *)
(* it.  Creations go on together, in threads or as nonblocking requests:   *)
(* their callbacks are those of ompi_comm_request_progress, which goes     *)
(* through the list of the active requests (comm_request.c), and a process *)
(* holds back the creations under communicators whose id is not the lowest *)
(* in progress.  The reductions match call by call on a communicator.      *)
(***************************************************************************)
EXTENDS Naturals, Sequences

CONSTANTS
    Procs,
    Reqs,      \* the creations of a communicator
    MaxCid,    \* pml_max_contextid
    Infini,    \* INT64_MAX
    Modes      \* the instances, see Init

ASSUME MaxCidAssumption == MaxCid \in Nat \ {0} /\ Infini \in Nat /\ Infini > MaxCid

VARIABLES
    mode,            \* what the instance is about
    communicators,   \* ompi_mpi_communicators: who has each id, in each process
    lowest_id,       \* ompi_comm_cid_lowest_id of each process
    actives,         \* ompi_comm_requests_active of each process
    curseur,         \* where its progress is in that list
    contexte,        \* ompi_comm_cid_context_t of each creation, in each process
    reductions       \* of each communicator, what each process gave, call by call

vars == <<mode, communicators, lowest_id, actives, curseur, contexte, reductions>>

-----------------------------------------------------------------------------
Libre == "libre"
Pris == "pris"
ASSUME ReqsAssumption == Libre \notin Reqs /\ Pris \notin Reqs

(* A mode has comm: the communicator, named by its id, each creation is     *)
(* under; groupe: the processes of each of these; membres: those that will  *)
(* be in the new one; fils: the threads of each process, with the creations *)
(* each asks for, one after the other; pris: the ids in use from the start. *)
ASSUME ModesAssumption ==
    \A mo \in Modes :
        /\ \A c \in DOMAIN mo.groupe : c \in 0 .. MaxCid /\ mo.groupe[c] \subseteq Procs
        /\ mo.comm \in [Reqs -> DOMAIN mo.groupe]
        /\ mo.membres \in [Reqs -> SUBSET Procs]
        /\ \A r \in Reqs : mo.membres[r] \subseteq mo.groupe[mo.comm[r]]
        /\ mo.fils \in [Procs -> Seq(Seq(Reqs))]
        /\ \A p \in Procs : \A i \in DOMAIN mo.fils[p] : \A k \in DOMAIN mo.fils[p][i] :
             p \in mo.groupe[mo.comm[mo.fils[p][i][k]]]
        /\ mo.pris \in [Procs -> SUBSET (0 .. MaxCid - 1)]

Comm(r) == mode.comm[r]
Groupe(r) == mode.groupe[Comm(r)]
Participe(p, r) == p \in mode.membres[r]

Init ==
    /\ mode \in Modes
    /\ communicators = [p \in Procs |-> [i \in 0 .. MaxCid |-> IF i \in mode.pris[p] THEN Pris ELSE Libre]]
    /\ lowest_id = [p \in Procs |-> Infini]
    /\ actives = [p \in Procs |-> <<>>]
    /\ curseur = [p \in Procs |-> 1]
    /\ contexte = [p \in Procs |-> [r \in Reqs |->
           [etape |-> "avant", appel |-> 0, start |-> 0, nextlocal |-> 0, nextcid |-> 0, flag |-> 0]]]
    /\ reductions = [c \in DOMAIN mode.groupe |-> [p \in Procs |-> <<>>]]

Fini(p, r) == contexte[p][r].etape \in {"fini", "erreur"}

-----------------------------------------------------------------------------
(* The first free id from start on, pml_max_contextid if there is none.     *)
Chercher(table, start) ==
    LET libres == {i \in start .. MaxCid - 1 : table[i] = Libre}
    IN IF libres = {} THEN MaxCid ELSE CHOOSE i \in libres : \A j \in libres : i <= j

(* lowest_free: the array may be longer than the ids.                       *)
LowestFree(p) == Chercher(communicators[p], 0)

(* A creation is asked for when those before it in its thread have ended.   *)
Nextcid_nb(p, i) ==
    LET fil == mode.fils[p][i] IN
    \E k \in 1 .. Len(fil) :
        /\ contexte[p][fil[k]].etape = "avant"
        /\ \A l \in 1 .. k - 1 : Fini(p, fil[l])
        /\ contexte' = [contexte EXCEPT ![p][fil[k]] = [@ EXCEPT !.etape = "chercher",
                                                                !.start = LowestFree(p)]]
        /\ actives' = [actives EXCEPT ![p] = Append(@, fil[k])]
        /\ UNCHANGED <<mode, communicators, lowest_id, curseur, reductions>>

(* The progress of p comes to a request, whose subrequest is complete when  *)
(* every process of the communicator has made the call.                     *)
Visitee(p) == actives[p][curseur[p]]
Visite(p, etape) == actives[p] # <<>> /\ contexte[p][Visitee(p)].etape = etape

Complet(p, r) ==
    LET k == contexte[p][r].appel
    IN k = 0 \/ \A q \in Groupe(r) : Len(reductions[Comm(r)][q]) >= k

Donnes(p, r) == {reductions[Comm(r)][q][contexte[p][r].appel] : q \in Groupe(r)}
MaxDe(p, r) == CHOOSE m \in Donnes(p, r) : \A v \in Donnes(p, r) : v <= m
MinDe(p, r) == CHOOSE m \in Donnes(p, r) : \A v \in Donnes(p, r) : m <= v

Passer(p) ==
    /\ curseur' = [curseur EXCEPT ![p] = IF @ = Len(actives[p]) THEN 1 ELSE @ + 1]
    /\ UNCHANGED actives

(* A request with nothing left to do leaves the list.                       *)
Quitter(p) ==
    LET i == curseur[p]
        a == actives[p]
    IN /\ actives' = [actives EXCEPT ![p] = SubSeq(a, 1, i - 1) \o SubSeq(a, i + 1, Len(a))]
       /\ curseur' = [curseur EXCEPT ![p] = IF i = Len(a) THEN 1 ELSE i]

Reduire(p, r, v) == reductions' = [reductions EXCEPT ![Comm(r)][p] = Append(@, v)]
Appel(p, r) == Len(reductions[Comm(r)][p]) + 1

Incomplet(p) ==
    /\ actives[p] # <<>>
    /\ ~ Complet(p, Visitee(p))
    /\ Passer(p)
    /\ UNCHANGED <<mode, communicators, lowest_id, contexte, reductions>>

-----------------------------------------------------------------------------
(* ompi_comm_allreduce_getnextcid, with the ids table and from start on.    *)
RetenuParEgal(p, r) == lowest_id[p] <= Comm(r)

RetenuParPlusBas(p, r) == lowest_id[p] < Comm(r)

Retenir(p, r, table, start) ==
    /\ RetenuParPlusBas(p, r)
    /\ communicators' = [communicators EXCEPT ![p] = table]
    /\ contexte' = [contexte EXCEPT ![p][r] = [@ EXCEPT !.etape = "chercher", !.appel = 0, !.start = start]]
    /\ Passer(p)
    /\ UNCHANGED <<lowest_id, reductions>>

Reserver(p, r, table, start) ==
    LET local == IF Participe(p, r) THEN Chercher(table, start) ELSE 0 IN
    /\ ~ RetenuParPlusBas(p, r)
    /\ local # MaxCid
    /\ lowest_id' = [lowest_id EXCEPT ![p] = Comm(r)]
    /\ communicators' = [communicators EXCEPT ![p] =
           IF Participe(p, r) THEN [table EXCEPT ![local] = r] ELSE table]
    /\ Reduire(p, r, local)
    /\ contexte' = [contexte EXCEPT ![p][r] = [@ EXCEPT !.etape = "verifier", !.appel = Appel(p, r),
                                                        !.start = start, !.nextlocal = local]]
    /\ Passer(p)

(* No id left: the process takes part in the reduction and gives up.        *)
Renoncer(p, r, table, start) ==
    /\ ~ RetenuParPlusBas(p, r)
    /\ Participe(p, r) /\ Chercher(table, start) = MaxCid
    /\ lowest_id' = [lowest_id EXCEPT ![p] = Infini]
    /\ communicators' = [communicators EXCEPT ![p] = table]
    /\ Reduire(p, r, MaxCid)
    /\ contexte' = [contexte EXCEPT ![p][r] = [@ EXCEPT !.etape = "erreur", !.start = start]]
    /\ Quitter(p)

GetnextcidDe(p, r, table, start) ==
    Retenir(p, r, table, start) \/ Reserver(p, r, table, start) \/ Renoncer(p, r, table, start)

Getnextcid(p) ==
    /\ Visite(p, "chercher")
    /\ GetnextcidDe(p, Visitee(p), communicators[p], contexte[p][Visitee(p)].start)
    /\ UNCHANGED mode

(* opal_pointer_array_test_and_set_item                                     *)
PrendreSansTest(table, i, r) == [table EXCEPT ![i] = r]

TestAndSet(table, i, r) == IF table[i] = Libre THEN [table EXCEPT ![i] = r] ELSE table

(* ompi_comm_checkcid: who had reserved another id gives it back and tries  *)
(* the common one.                                                          *)
Checkcid(p) ==
    LET r == Visitee(p)
        local == contexte[p][r].nextlocal
        commun == MaxDe(p, r)
        table == IF ~ Participe(p, r) \/ commun = local THEN communicators[p]
                 ELSE TestAndSet([communicators[p] EXCEPT ![local] = Libre], commun, r)
        flag == IF ~ Participe(p, r) \/ table[commun] = r THEN 1 ELSE 0
    IN /\ Visite(p, "verifier")
       /\ Complet(p, r)
       /\ communicators' = [communicators EXCEPT ![p] = table]
       /\ Reduire(p, r, flag)
       /\ contexte' = [contexte EXCEPT ![p][r] = [@ EXCEPT !.etape = "conclure", !.appel = Appel(p, r),
                                                           !.nextcid = commun, !.flag = flag]]
       /\ Passer(p)
       /\ UNCHANGED <<mode, lowest_id>>

(* ompi_comm_nextcid_check_flag: all have the id, and a process that is not *)
(* in the new communicator takes any,                                       *)
Attribuer(p) ==
    LET r == Visitee(p)
        cid == IF Participe(p, r) THEN contexte[p][r].nextcid
               ELSE Chercher(communicators[p], contexte[p][r].start)
    IN /\ Visite(p, "conclure")
       /\ Complet(p, r)
       /\ MinDe(p, r) = 1
       /\ communicators' = [communicators EXCEPT ![p][cid] = r]
       /\ lowest_id' = [lowest_id EXCEPT ![p] = Infini]
       /\ contexte' = [contexte EXCEPT ![p][r] = [@ EXCEPT !.etape = "fini", !.nextcid = cid]]
       /\ Quitter(p)
       /\ UNCHANGED <<mode, reductions>>

(* or some process has not: those that have it give it back, go on from the *)
(* next one, and all look again at once.                                    *)
RendueEnGardant(p, r) ==
    LET c == contexte[p][r]
    IN [table |-> communicators[p],
        start |-> IF Participe(p, r) /\ c.flag = 1 THEN c.nextcid + 1 ELSE c.start]

Rendue(p, r) ==
    LET c == contexte[p][r]
    IN IF Participe(p, r) /\ c.flag = 1
       THEN [table |-> [communicators[p] EXCEPT ![c.nextcid] = Libre], start |-> c.nextcid + 1]
       ELSE [table |-> communicators[p], start |-> c.start]

Recommencer(p) ==
    /\ Visite(p, "conclure")
    /\ Complet(p, Visitee(p))
    /\ MinDe(p, Visitee(p)) = 0
    /\ GetnextcidDe(p, Visitee(p), Rendue(p, Visitee(p)).table, Rendue(p, Visitee(p)).start)
    /\ UNCHANGED mode

-----------------------------------------------------------------------------
Progress(p) ==
    Incomplet(p) \/ Getnextcid(p) \/ Checkcid(p) \/ Attribuer(p) \/ Recommencer(p)

Proc(p) == Progress(p) \/ \E i \in DOMAIN mode.fils[p] : Nextcid_nb(p, i)

Next == \E p \in Procs : Proc(p)

Spec == Init /\ [][Next]_vars

(* Each process calls opal_progress, and each of its threads goes on.       *)
FairSpec ==
    /\ Spec
    /\ \A p \in Procs : WF_vars(Progress(p)) /\ WF_vars(\E i \in DOMAIN mode.fils[p] : Nextcid_nb(p, i))

-----------------------------------------------------------------------------
Cids == 0 .. MaxCid
Etapes == {"avant", "chercher", "verifier", "conclure", "fini", "erreur"}
Enjeu(p, r) == contexte[p][r].etape \in {"verifier", "conclure"}

(* Types; a request is in the list of the active ones until its end.        *)
TypeOK ==
    /\ \A p \in Procs :
         /\ lowest_id[p] \in Cids \cup {Infini}
         /\ actives[p] # <<>> => curseur[p] \in DOMAIN actives[p]
         /\ \A i \in Cids : communicators[p][i] \in {Libre, Pris} \cup Reqs
         /\ \A r \in Reqs :
              /\ contexte[p][r].etape \in Etapes
              /\ contexte[p][r].start \in 0 .. MaxCid + 1
              /\ (Enjeu(p, r) \/ contexte[p][r].etape = "chercher") <=>
                   \E i \in DOMAIN actives[p] : actives[p][i] = r

(* When a process has the id of a new communicator, every process that will *)
(* be in it holds that id for it, whether it knows of the agreement or not, *)
(* and none of them has given up for want of ids.                           *)
Accord ==
    \A r \in Reqs, p \in Procs :
        contexte[p][r].etape = "fini" /\ Participe(p, r) =>
            \A q \in mode.membres[r] :
                /\ communicators[q][contexte[p][r].nextcid] = r
                /\ contexte[q][r].nextcid = contexte[p][r].nextcid
                /\ contexte[q][r].etape # "erreur"

(* An id is held for a creation only by the process that is about to use it *)
(* or has it, and once each: rounds that fail leave nothing behind.         *)
Tenus(p, r) == {i \in Cids : communicators[p][i] = r}
PasDeFuite ==
    /\ TypeOK
    /\ \A p \in Procs, r \in Reqs :
        Tenus(p, r) =
            CASE contexte[p][r].etape = "fini" -> {contexte[p][r].nextcid}
              [] contexte[p][r].etape = "verifier" /\ Participe(p, r) -> {contexte[p][r].nextlocal}
              [] contexte[p][r].etape = "conclure" /\ Participe(p, r) /\ contexte[p][r].flag = 1 ->
                   {contexte[p][r].nextcid}
              [] OTHER -> {}

-----------------------------------------------------------------------------
LesCids == INSTANCE Attribution WITH
    Aucun <- Infini,
    membres <- mode.membres,
    pris <- mode.pris,
    cid <- [r \in Reqs |->
               IF \E p \in mode.membres[r] : contexte[p][r].etape = "fini"
               THEN contexte[CHOOSE p \in mode.membres[r] : contexte[p][r].etape = "fini"][r].nextcid
               ELSE Infini]
(* Creations implement the attribution of an id at one instant.             *)
AttributionSpec == LesCids!Spec

(* Threads ask for creations in the order of the ids they are under.        *)
Croissants ==
    \A p \in Procs : \A i \in DOMAIN mode.fils[p] : \A k, l \in DOMAIN mode.fils[p][i] :
        k < l => Comm(mode.fils[p][i][k]) <= Comm(mode.fils[p][i][l])

(* A process gives up only with all those that it creates with.             *)
Plein(p) == 0 .. MaxCid - 1 \subseteq mode.pris[p]
EpuisesEnsemble ==
    \A r \in Reqs : \A p, q \in Groupe(r) : Plein(p) => Plein(q) /\ Participe(q, r)

(* Every creation then ends.                                                *)
Terminaison ==
    Croissants /\ EpuisesEnsemble => <>(\A r \in Reqs : \A p \in Groupe(r) : Fini(p, r))
=============================================================================
