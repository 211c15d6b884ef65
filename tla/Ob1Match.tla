----------------------------- MODULE Ob1Match -----------------------------
(***************************************************************************)
(* The matching of ob1 (ompi/mca/pml/ob1/pml_ob1_recvfrag.c, _recvreq.c,   *)
(* _iprobe.c, _irecv.c and mca_pml_ob1_add_comm) in a process that         *)
(* receives on one communicator: messages come in any order, by several    *)
(* threads, perhaps before the communicator exists here; threads post      *)
(* receives and probes and cancel them.  What is done under matching_lock  *)
(* is one step; what a thread does after it has let go of the lock is      *)
(* another.                                                                *)
(***************************************************************************)
EXTENDS FragsOrdonnes, SequencesExt

CONSTANTS
    NbSources,    \* num_procs: the sources are the ranks 0 to NbSources - 1
    Tags,         \* of messages; the collectives' are negative
    TagsDemandes, \* of requests
    AnySource, AnyTag,
    Modes         \* the instances, see Init

ASSUME NbSourcesAssumption == NbSources \in Nat /\ NbSources > 0

Sources == 0 .. NbSources - 1
AnyAssumption == AnySource \notin Sources /\ AnyTag \notin Tags
ASSUME AnyAssumption

Types == {"match", "rndv"}
Genres == {"recv", "probe", "iprobe", "mprobe", "improbe"}

ASSUME ModesAssumption ==
    \A mo \in Modes :
        /\ mo.nb \in [1 .. NbSources -> Nat]
        /\ mo.types \in [1 .. NbSources -> Types]
        /\ mo.depart \in 0 .. Modulo - 1
        /\ mo.genres \subseteq Genres
        /\ {mo.overtake, mo.annuler, mo.tard} \subseteq BOOLEAN
        /\ {mo.demandes, mo.fils} \subseteq Nat

VARIABLES
    mode,          \* what the instance is about
    envois,        \* of each source, the messages it sends, in order
    reseau,        \* the messages that have not arrived
    comm_existe,   \* ompi_comm_lookup finds it, mca_pml_ob1_add_comm is done
    pending,       \* non_existing_communicator_pending
    expected,      \* expected_sequence of each source
    cant_match,    \* frags_cant_match
    unexpected,    \* unexpected_frags
    last_probed,
    req,           \* the requests started, by recv_sequence
    suites,        \* what threads have still to do out of the lock
    traites        \* history: messages of each source taken up, in that order

varsComm == <<comm_existe, pending>>
varsRecus == <<expected, cant_match, unexpected, traites>>
vars == <<mode, envois, reseau, varsComm, varsRecus, last_probed, req, suites>>

Vides == [s \in Sources |-> <<>>]
Aucun == [src |-> AnySource]

-----------------------------------------------------------------------------
(* Parts of mca_pml_ob1_isend: the sequence number of the n-th message of a *)
(* source, of which mode.depart - 1 came before the instance begins.        *)
Message(s, n, tag) ==
    [src |-> s, rang |-> n, tag |-> tag, type |-> mode.types[s + 1],
     seq |-> IF mode.overtake THEN 0 ELSE (mode.depart + n - 1) % Modulo]

(* A mode has overtake: mpi_assert_allow_overtaking; nb and types: how many *)
(* messages each source sends, eager or rendezvous; depart; demandes: how   *)
(* many requests, of which genres; annuler: whether requests are cancelled; *)
(* fils: how many threads call the library; tard: the communicator is only  *)
(* created once messages may be on their way.                               *)
Init ==
    /\ mode \in Modes
    /\ \E tags \in [Sources -> UNION {[1 .. n -> Tags] : n \in ToSet(mode.nb)}] :
         /\ \A s \in Sources : DOMAIN tags[s] = 1 .. mode.nb[s + 1]
         /\ envois = [s \in Sources |-> [n \in DOMAIN tags[s] |-> Message(s, n, tags[s][n])]]
    /\ reseau = UNION {ToSet(envois[s]) : s \in Sources}
    /\ comm_existe = ~ mode.tard
    /\ pending = <<>>
    /\ expected = [s \in Sources |-> mode.depart]
    /\ cant_match = Vides
    /\ unexpected = Vides
    /\ last_probed = 0
    /\ req = <<>>
    /\ suites = {}
    /\ traites = Vides

-----------------------------------------------------------------------------
Accepte(q, m) ==
    /\ q.peer \in {m.src, AnySource}
    /\ q.tag = m.tag \/ (q.tag = AnyTag /\ m.tag >= 0)

(* Posted requests are in specific_receives or in wild_receives, both in    *)
(* the order of recv_sequence; match_incomming goes through them together   *)
(* in that order.                                                           *)
Postes == {r \in DOMAIN req : req[r].etat = "poste"}
Candidats(m) == {r \in Postes : Accepte(req[r], m)}
(* Variants of definitions, each with a plausible slip that the properties  *)
(* must tell apart from the code, stand before the definition they vary     *)
(* (PreneursEtSondes of Preneurs, ...); no specification uses them.         *)
PreneursEtSondes(m) == Candidats(m)
Preneurs(m) == {r \in Candidats(m) : req[r].genre # "probe"}

PreneurSpecifique(m) ==
    LET siens == {r \in Preneurs(m) : req[r].peer = m.src} IN
    IF Preneurs(m) = {} THEN 0 ELSE IF siens # {} THEN Min(siens) ELSE Min(Preneurs(m))

(* match_one: the one that takes the message, 0 if there is none; the       *)
(* probes posted before it see the message.                                 *)
Preneur(m) == IF Preneurs(m) = {} THEN 0 ELSE Min(Preneurs(m))
Sondes(m) == {r \in Candidats(m) \ Preneurs(m) : Preneur(m) = 0 \/ r < Preneur(m)}

Match_oneSansGarder(m) ==
    LET p == Preneur(m)
        mprobe == \E r \in {p} \ {0} : req[r].genre = "mprobe"
    IN /\ req' = [r \in DOMAIN req |->
                    IF r \in Sondes(m) \/ (r = p /\ mprobe) THEN [req[r] EXCEPT !.etat = "fini", !.msg = m]
                    ELSE IF r = p THEN [req[r] EXCEPT !.etat = "pris", !.msg = m]
                    ELSE req[r]]
       /\ unexpected' = IF p = 0 \/ mprobe THEN [unexpected EXCEPT ![m.src] = Append(@, m)]
                        ELSE unexpected
       /\ traites' = [traites EXCEPT ![m.src] = Append(@, m.rang)]

(* A probe and a matched probe complete under the lock, a receive later.    *)
Match_one(m) ==
    LET p == Preneur(m)
        fini == Sondes(m) \cup {r \in {p} \ {0} : req[r].genre = "mprobe"}
    IN /\ req' = [r \in DOMAIN req |->
                    IF r \in fini THEN [req[r] EXCEPT !.etat = "fini", !.msg = m]
                    ELSE IF r = p THEN [req[r] EXCEPT !.etat = "pris", !.msg = m]
                    ELSE req[r]]
       /\ unexpected' = IF p = 0 THEN [unexpected EXCEPT ![m.src] = Append(@, m)]
                        ELSE unexpected
       /\ traites' = [traites EXCEPT ![m.src] = Append(@, m.rang)]

(* The thread that has taken m up goes on with Apres; autres are the others. *)
Prendre_en_charge(m, autres) ==
    LET recoit == {r \in {Preneur(m)} \ {0} : req[r].genre = "recv"} IN
    /\ Match_one(m)
    /\ suites' = autres \cup {[pc |-> "apres", m |-> m, r |-> IF recoit = {} THEN 0 ELSE Preneur(m)]}

UnFilLibre == Cardinality(suites) < mode.fils
Avancer(s) == expected' = [expected EXCEPT ![s] = (@ + 1) % Modulo]

-----------------------------------------------------------------------------
(* mca_pml_ob1_recv_frag_callback_match for an eager message, _match for    *)
(* the others, which does not look whether the communicator lets messages   *)
(* overtake.                                                                *)
SansNumero(m) == mode.overtake /\ m.type = "match"
HorsOrdre(m) == ~ SansNumero(m) /\ m.seq # expected[m.src]

Recoit(m) ==
    /\ m \in reseau
    /\ UnFilLibre
    /\ reseau' = reseau \ {m}
    /\ \/ /\ ~ comm_existe
          /\ suites' = suites \cup {[pc |-> "garder", m |-> m, r |-> 0]}
          /\ UNCHANGED <<varsRecus, req>>
       \/ /\ comm_existe
          /\ HorsOrdre(m)
          /\ cant_match' = [cant_match EXCEPT ![m.src] = Append_ordonne(@, m, expected[m.src])]
          /\ UNCHANGED <<expected, unexpected, traites, req, suites>>
       \/ /\ comm_existe
          /\ ~ HorsOrdre(m)
          /\ IF SansNumero(m) THEN UNCHANGED expected ELSE Avancer(m.src)
          /\ Prendre_en_charge(m, suites)
          /\ UNCHANGED cant_match
    /\ UNCHANGED <<mode, envois, varsComm, last_probed>>

(* The thread that found no communicator keeps the message for it, without  *)
(* a lock; another thread may have created the communicator in between.     *)
Garder(c) ==
    /\ c.pc = "garder"
    /\ pending' = Append(pending, c.m)
    /\ suites' = suites \ {c}
    /\ UNCHANGED <<mode, envois, reseau, comm_existe, varsRecus, last_probed, req>>

(* The lock released: the receive is completed, unless it was cancelled,    *)
(* and the thread looks at frags_cant_match without the lock.               *)
Apres(c) ==
    /\ c.pc = "apres"
    /\ req' = [r \in DOMAIN req |-> IF r = c.r /\ req[r].etat = "pris"
                                    THEN [req[r] EXCEPT !.etat = "fini"] ELSE req[r]]
    /\ suites' = (suites \ {c}) \cup {d \in {[c EXCEPT !.pc = "verifie", !.r = 0]} :
                                        cant_match[c.m.src] # <<>>}
    /\ UNCHANGED <<mode, envois, reseau, varsComm, varsRecus, last_probed>>

(* check_cantmatch_for_match, with the lock again.                          *)
Verifie(c) ==
    LET s == c.m.src IN
    /\ c.pc = "verifie"
    /\ IF A_son_tour(cant_match[s], expected[s])
       THEN /\ cant_match' = [cant_match EXCEPT ![s] = Sans_tete(@)]
            /\ Avancer(s)
            /\ Prendre_en_charge(cant_match[s][1][1], suites \ {c})
       ELSE /\ suites' = suites \ {c}
            /\ UNCHANGED <<varsRecus, req>>
    /\ UNCHANGED <<mode, envois, reseau, varsComm, last_probed>>

-----------------------------------------------------------------------------
ConvientMemeEtiquette(q, s) ==
    {k \in 1 .. Len(unexpected[s]) : Accepte(q, unexpected[s][k]) /\ q.tag = unexpected[s][k].tag}

(* recv_req_match_specific_proc: the oldest unexpected one that suits;      *)
Convient(q, s) == {k \in 1 .. Len(unexpected[s]) : Accepte(q, unexpected[s][k])}

(* recv_req_match_wild starts after the source it stopped at.               *)
Tour(s) == (s - last_probed - 1) % NbSources
Premiere(q) ==
    LET ou == {s \in Sources : Convient(q, s) # {}}
    IN CHOOSE s \in ou : \A t \in ou : Tour(s) <= Tour(t)

(* mca_pml_ob1_recv_req_start, which finds nothing                          *)
Demander(q) ==
    /\ comm_existe
    /\ UnFilLibre
    /\ q.genre \in mode.genres
    /\ Len(req) < mode.demandes

Poste(q) ==
    /\ Demander(q)
    /\ \A s \in Sources : Convient(q, s) = {}
    /\ req' = Append(req, [q EXCEPT !.etat = IF q.genre \in {"iprobe", "improbe"}
                                             THEN "rien" ELSE "poste"])
    /\ UNCHANGED <<mode, envois, reseau, varsComm, varsRecus, last_probed, suites>>

(* or finds a message, removed unless the request is a probe.               *)
Trouve(q) ==
    /\ Demander(q)
    /\ \E s \in Sources : Convient(q, s) # {}
    /\ LET s == Premiere(q)
           k == Min(Convient(q, s))
           m == unexpected[s][k]
       IN /\ req' = Append(req, [q EXCEPT !.etat = "pris", !.msg = m])
          /\ suites' = suites \cup {[pc |-> "finir", m |-> m, r |-> Len(req) + 1]}
          /\ unexpected' = IF q.genre \in {"probe", "iprobe"} THEN unexpected
                           ELSE [unexpected EXCEPT ![s] = RemoveAt(@, k)]
          /\ last_probed' = IF q.peer = AnySource THEN s ELSE last_probed
    /\ UNCHANGED <<mode, envois, reseau, varsComm, expected, cant_match, traites>>

(* Without the lock the message is delivered, or described to a probe: a    *)
(* fragment another thread has consumed since is no longer that message.    *)
Consomme(m) == \E r \in DOMAIN req : req[r].genre = "recv" /\ req[r].etat = "fini" /\ req[r].msg = m

Finir(c) ==
    /\ c.pc = "finir"
    /\ req' = [req EXCEPT ![c.r] = [@ EXCEPT !.etat = "fini",
                                             !.msg = IF Consomme(c.m) THEN Aucun ELSE c.m]]
    /\ suites' = suites \ {c}
    /\ UNCHANGED <<mode, envois, reseau, varsComm, varsRecus, last_probed>>

(* mca_pml_ob1_imrecv makes a receive of a matched probe.                   *)
MRecv(r) ==
    /\ UnFilLibre
    /\ req[r].genre \in {"mprobe", "improbe"}
    /\ req[r].etat = "fini"
    /\ req' = [req EXCEPT ![r] = [@ EXCEPT !.genre = "recv", !.peer = req[r].msg.src,
                                           !.tag = req[r].msg.tag]]
    /\ UNCHANGED <<mode, envois, reseau, varsComm, varsRecus, last_probed, suites>>

(* A thread that has posted a receive or found its message returns from     *)
(* MPI_Irecv before the request can be cancelled.                           *)
Rendue(r) == ~ \E c \in suites : c.pc = "finir" /\ c.r = r

AnnuleTard(r) ==
    /\ mode.annuler
    /\ UnFilLibre
    /\ Rendue(r)
    /\ req[r].genre = "recv"
    /\ req[r].etat \in {"poste", "pris", "fini"}
    /\ req' = [req EXCEPT ![r].etat = "annule"]
    /\ UNCHANGED <<mode, envois, reseau, varsComm, varsRecus, last_probed, suites>>

(* mca_pml_ob1_recv_request_cancel does nothing once req_match_received is  *)
(* set, which is after the request has left its list and the lock has been  *)
(* released.  (That it then takes the request out of the list a second time *)
(* is left out: what is said of requests is until then, see Rompu.)         *)
Annule(r) ==
    /\ mode.annuler
    /\ UnFilLibre
    /\ Rendue(r)
    /\ req[r].genre = "recv"
    /\ req[r].etat \in {"poste", "pris"}
    /\ req' = [req EXCEPT ![r].etat = "annule"]
    /\ UNCHANGED <<mode, envois, reseau, varsComm, varsRecus, last_probed, suites>>

-----------------------------------------------------------------------------
(* mca_pml_ob1_add_comm: the messages that came before go to the unexpected *)
(* ones, in the order of their numbers, or to frags_cant_match.             *)
Inattendu(e, m) ==
    [expected |-> IF mode.overtake THEN e.expected
                  ELSE [e.expected EXCEPT ![m.src] = (@ + 1) % Modulo],
     cant |-> e.cant,
     unexp |-> [e.unexp EXCEPT ![m.src] = Append(@, m)],
     traites |-> [e.traites EXCEPT ![m.src] = Append(@, m.rang)]]

Depiler(e, s) ==
    IF A_son_tour(e.cant[s], e.expected[s])
    THEN Inattendu([e EXCEPT !.cant[s] = Sans_tete(@)], e.cant[s][1][1])
    ELSE e

ViderJamais(e, s) == e

Vider(e, s) ==
    LET v[i \in 0 .. Len(pending)] == IF i = 0 THEN e ELSE Depiler(v[i - 1], s)
    IN v[Len(pending)]

Ranger(e, m) ==
    IF mode.overtake THEN Inattendu(e, m)
    ELSE IF m.seq = e.expected[m.src] THEN Vider(Inattendu(e, m), m.src)
    ELSE [e EXCEPT !.cant[m.src] = Append_ordonne(@, m, e.expected[m.src])]

Ranges ==
    LET depart == [expected |-> expected, cant |-> cant_match, unexp |-> unexpected,
                   traites |-> traites]
        e[i \in 0 .. Len(pending)] == IF i = 0 THEN depart ELSE Ranger(e[i - 1], pending[i])
    IN e[Len(pending)]

AjouteComm ==
    /\ ~ comm_existe
    /\ UnFilLibre
    /\ comm_existe' = TRUE
    /\ pending' = <<>>
    /\ LET e == Ranges IN
       /\ expected' = e.expected
       /\ cant_match' = e.cant
       /\ unexpected' = e.unexp
       /\ traites' = e.traites
    /\ UNCHANGED <<mode, envois, reseau, last_probed, req, suites>>

-----------------------------------------------------------------------------
Demandes ==
    [peer : Sources \cup {AnySource}, tag : TagsDemandes, genre : Genres, etat : {"poste"}, msg : {Aucun}]

Suite == \E c \in suites : Garder(c) \/ Apres(c) \/ Verifie(c) \/ Finir(c)
Reception == \E m \in reseau : Recoit(m)

Next ==
    \/ Reception
    \/ Suite
    \/ AjouteComm
    \/ \E q \in Demandes : Poste(q) \/ Trouve(q)
    \/ \E r \in DOMAIN req : MRecv(r) \/ Annule(r)

Spec == Init /\ [][Next]_vars

-----------------------------------------------------------------------------
Envoyees == UNION {ToSet(envois[s]) : s \in Sources}
EnAttente(s) == Fragments(cant_match[s])

(* Types; a list of fragments out of turn has no empty range, the numbers   *)
(* of a range follow one another, and without overtaking the messages of a  *)
(* source are taken up in the order of their sends.                         *)
TypeOK ==
    /\ reseau \subseteq Envoyees
    /\ ToSet(pending) \subseteq Envoyees
    /\ expected \in [Sources -> 0 .. Modulo - 1]
    /\ \A s \in Sources :
         /\ EnAttente(s) \cup ToSet(unexpected[s]) \subseteq ToSet(envois[s])
         /\ \A i \in DOMAIN cant_match[s] : LET plage == cant_match[s][i] IN
              /\ plage # <<>>
              /\ \A j \in 1 .. Len(plage) - 1 : plage[j + 1].seq = plage[j].seq + 1
    /\ last_probed \in Sources
    /\ \A r \in DOMAIN req :
         /\ [req[r] EXCEPT !.etat = "poste", !.msg = Aucun] \in Demandes
         /\ req[r].etat \in {"poste", "pris", "fini", "rien", "annule"}
         /\ req[r].msg \in Envoyees \cup {Aucun}
    /\ Cardinality(suites) <= mode.fils
    /\ mode.overtake \/ \A s \in Sources : \A k \in DOMAIN traites[s] : traites[s][k] = k

A_recu(r) == req[r].etat \in {"pris", "fini"} /\ req[r].genre \notin {"probe", "iprobe"}

(* A receive has been cancelled although it had got a message.  In the code *)
(* it has then been taken out of its list twice, and the lists are no       *)
(* longer what the model says they are.                                     *)
Rompu == \E r \in DOMAIN req : req[r].etat = "annule" /\ req[r].msg # Aucun

(* MPI's rule of order: two messages of a source do not cross on their way  *)
(* to two requests that both accept the first, one posted before the other. *)
SansCroisement ==
    ~ Rompu =>
    \A q, r \in DOMAIN req : LET m == req[q].msg
                                 n == req[r].msg IN
        q < r /\ A_recu(q) /\ A_recu(r) /\ m.src = n.src /\ m.rang > n.rang
        => mode.overtake \/ ~ Accepte(req[q], n)

(* A request is not posted beside a message it would accept: either finds   *)
(* the other, whatever the genre of the request.                            *)
SansCouple ==
    \A r \in Postes, s \in Sources : \A m \in ToSet(unexpected[s]) : ~ Accepte(req[r], m)
PasDeCoupleManque == ~ Rompu => SansCouple

(* The message that is the next to be taken up is not left among those out  *)
(* of turn, unless a thread is about to look at them.                       *)
AucunOubli ==
    \A s \in Sources :
        (\E m \in EnAttente(s) : m.seq = expected[s]) => \E c \in suites : c.m.src = s /\ c.pc \in {"apres", "verifie"}

EnMain == {c.m : c \in {d \in suites : d.pc = "garder"}}

(* A message is in one place: the network, a thread's hands or the list of  *)
(* those for a communicator to come, the list of those out of turn or of    *)
(* the unexpected ones, or one request.                                     *)
UnSeulEndroit ==
    ~ Rompu =>
    /\ TypeOK
    /\ \A s \in Sources : \A m \in ToSet(envois[s]) :
        LET ensembles == <<reseau, EnMain, EnAttente(s)>> IN
        Cardinality({r \in DOMAIN req : A_recu(r) /\ req[r].msg = m})
        + Cardinality({k \in DOMAIN unexpected[s] : unexpected[s][k] = m})
        + Cardinality({k \in DOMAIN pending : pending[k] = m})
        + Cardinality({i \in 1 .. 3 : m \in ensembles[i]}) = 1

(* A receive is cancelled with a message only while a thread that has taken *)
(* it off its list has yet to set req_match_received; and a cancelled one   *)
(* stays as it is.                                                          *)
AnnulationFenetre ==
    [][\A r \in DOMAIN req :
         /\ req[r].etat # "annule" /\ req'[r].etat = "annule" /\ req'[r].msg # Aucun
              => \E c \in suites : c.pc = "apres" /\ c.r = r
         /\ req[r].etat = "annule" => req'[r] = req[r]]_vars

-----------------------------------------------------------------------------
(* The matching the receiver is promised.                                   *)
Prennent(r) == req[r].genre \in {"recv", "mprobe"}
Restent(s) == {m \in ToSet(envois[s]) : m.rang \notin ToSet(traites[s])}

LAppariement == INSTANCE Appariement WITH
    Messages <- [src : Sources, rang : Nat, tag : Tags, type : Types, seq : 0 .. Modulo - 1],
    Requetes <- 1 .. Max({mo.demandes : mo \in Modes}),
    depassement <- mode.overtake,
    envoyes <- [s \in Sources |-> Restent(s)],
    inattendus <- unexpected,
    postes <- {[id |-> r, peer |-> req[r].peer, tag |-> req[r].tag] : r \in {q \in Postes : Prennent(q)}},
    couples <- {[id |-> r, msg |-> req[r].msg] : r \in {q \in DOMAIN req : A_recu(q)}},
    rompu <- Rompu

(* Matching implements it: arrivals out of order, the communicator created  *)
(* late, probes and the work done out of the lock do not show.              *)
AppariementSpec == LAppariement!Spec
=============================================================================
