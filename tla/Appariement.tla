---------------------------- MODULE Appariement ----------------------------
(***************************************************************************)
(* What the matching of ob1 promises a receiving process, whatever the     *)
(* order in which its messages arrive: those of one source are taken up in *)
(* the order of their sends, each by the oldest posted request that        *)
(* accepts it, and a new request takes the oldest that waits.              *)
(***************************************************************************)
EXTENDS Integers, SequencesExt

CONSTANTS
    Sources,    \* the ranks the messages come from
    Messages,   \* records with at least a src, a tag and a rang, the order of its sends
    Requetes,   \* the numbers of receive requests, in the order they are posted
    AnySource,
    AnyTag,
    TagsDemandes    \* the tags requests ask for, AnyTag among them

VARIABLES
    depassement,    \* the communicator lets messages overtake
    envoyes,        \* of each source, the messages not taken up
    inattendus,     \* of each source, those taken up that no request accepted, oldest first
    postes,         \* the requests that wait for a message
    couples,        \* the requests that are satisfied, with the message each has got
    rompu           \* a request was cancelled with its message: nothing is promised any more

etat == <<depassement, envoyes, inattendus, postes, couples>>
vars == <<etat, rompu>>

Accepte(q, m) ==
    /\ q.peer \in {m.src, AnySource}
    /\ q.tag = m.tag \/ (q.tag = AnyTag /\ m.tag >= 0)

(* Requests, and places of messages, that could be paired.                  *)
Preneurs(m) == {q \in postes : Accepte(q, m)}
Convient(q, s) == {k \in 1 .. Len(inattendus[s]) : Accepte(q, inattendus[s][k])}

Init ==
    /\ depassement \in BOOLEAN
    /\ envoyes \in [Sources -> SUBSET Messages]
    /\ \A s \in Sources : \A m, n \in envoyes[s] : m.src = s /\ (m.rang = n.rang => m = n)
    /\ inattendus = [s \in Sources |-> <<>>]
    /\ postes = {}
    /\ couples = {}
    /\ rompu = FALSE

Associer(id, m) == couples' = couples \cup {[id |-> id, msg |-> m]}

Prendre(s) ==
    \E m \in envoyes[s] :
        /\ depassement \/ \A n \in envoyes[s] : m.rang <= n.rang
        /\ envoyes' = [envoyes EXCEPT ![s] = @ \ {m}]
        /\ \/ /\ Preneurs(m) = {}
              /\ inattendus' = [inattendus EXCEPT ![s] = Append(@, m)]
              /\ UNCHANGED <<postes, couples>>
           \/ \E q \in Preneurs(m) :
                /\ \A p \in Preneurs(m) : q.id <= p.id
                /\ Associer(q.id, m)
                /\ postes' = postes \ {q}
                /\ UNCHANGED inattendus
        /\ UNCHANGED depassement

(* Before anything is posted many messages may be taken up together: the    *)
(* first of each source, in their order.                                    *)
PrendreEnBloc ==
    /\ postes = {}
    /\ couples = {}
    /\ inattendus = [s \in Sources |-> <<>>]
    /\ inattendus' \in [Sources -> Seq(Messages)]
    /\ envoyes' = [s \in Sources |-> envoyes[s] \ ToSet(inattendus'[s])]
    /\ \A s \in Sources :
         /\ ToSet(inattendus'[s]) \subseteq envoyes[s]
         /\ \A j, k \in 1 .. Len(inattendus'[s]) :
              j < k => IF depassement THEN inattendus'[s][j] # inattendus'[s][k]
                       ELSE inattendus'[s][j].rang < inattendus'[s][k].rang
         /\ depassement \/ \A m \in ToSet(inattendus'[s]), n \in envoyes'[s] : m.rang < n.rang
    /\ UNCHANGED <<depassement, postes, couples>>

Poster(q) ==
    /\ \A p \in postes \cup couples : p.id < q.id
    /\ \/ /\ \A s \in Sources : Convient(q, s) = {}
          /\ postes' = postes \cup {q}
          /\ UNCHANGED <<inattendus, couples>>
       \/ \E s \in Sources : \E k \in Convient(q, s) :
            /\ \A j \in Convient(q, s) : k <= j
            /\ Associer(q.id, inattendus[s][k])
            /\ inattendus' = [inattendus EXCEPT ![s] = RemoveAt(@, k)]
            /\ UNCHANGED postes
    /\ UNCHANGED <<depassement, envoyes>>

Annuler(q) ==
    /\ postes' = postes \ {q}
    /\ UNCHANGED <<depassement, envoyes, inattendus, couples>>

Pas ==
    \/ \E s \in Sources : Prendre(s)
    \/ PrendreEnBloc
    \/ \E q \in [id : Requetes, peer : Sources \cup {AnySource}, tag : TagsDemandes] : Poster(q)
    \/ \E q \in postes : Annuler(q)

(* It breaks, or is broken: the rest may become anything.                   *)
Rompre == rompu'

Next == (~ rompu /\ Pas /\ UNCHANGED rompu) \/ Rompre

Spec == Init /\ [][Next]_vars
=============================================================================
