----------------------------- MODULE VaderFbox -----------------------------
(***************************************************************************)
(* A fast box of the vader BTL (opal/mca/btl/vader/btl_vader_fbox.h): a    *)
(* ring in shared memory through which one process sends to one peer, set  *)
(* up once enough has gone through the peer's fifo, and what surrounds it: *)
(* sendi and send (btl_vader_sendi.c, _send.c), the fragments pending for  *)
(* want of room and the progress of both processes (btl_vader_component.c).*)
(* Threads of the sender race with each other, with its progress and with  *)
(* the reader; every access to the shared memory is a step.  Offsets are   *)
(* in units of MCA_BTL_VADER_FBOX_ALIGNMENT; the fifo is that of Boites.   *)
(***************************************************************************)
EXTENDS Integers, Sequences, FiniteSets

CONSTANTS
    Fils,       \* the threads of the sender that send
    progres,    \* the one that is in mca_btl_vader_component_progress
    Taille,     \* fbox_size
    Modulo,     \* 2^16: seq is a uint16_t
    PollCount,  \* how many messages the reader takes from the box or the fifo at a time
    Modes       \* the instances, see InitFbox

ASSUME TailleAssumption == Taille \in Nat /\ Taille > 1
(* A lap has fewer messages than there are numbers.                         *)
ASSUME ModuloAssumption == Modulo \in Nat /\ Modulo >= Taille /\ PollCount \in Nat \ {0}
ASSUME ModesAssumption ==
    \A mo \in Modes : /\ mo.envois \in [Fils -> Seq(0 .. Taille - 1)]
                      /\ mo.seuil \in Nat
                      /\ mo.leurres \subseteq 0 .. Modulo - 1

Acteurs == Fils \cup {progres}
Personne == "personne"
ASSUME FilsAssumption == progres \notin Fils /\ Personne \notin Acteurs

VARIABLES
    mode,         \* what the instance is about
    fbox_out,     \* the sender's: buffer, start, end, seq
    fbox_in,      \* the reader's: buffer, start, seq
    startp,       \* where the reader stopped, in the box
    boite,        \* the units of the box
    send_count,
    acteur,       \* what each thread of the sender is doing
    ep_lock, pending_frags_lock, component_lock,
    pending_frags,
    waiting,
    pending_endpoints,    \* the endpoint is in the component's list
    fifo,         \* the peer's fifo
    lecteur,      \* what the reader's progress is doing
    faits,        \* history: how many messages each thread has given away
    publies,      \* history: the messages that went into the box, in order
    recus,        \* history: messages received, in order, with their lanes
    egare         \* history: the reader has taken data for a header

varsVerrous == <<ep_lock, pending_frags_lock, component_lock>>
varsAttente == <<pending_frags, waiting, pending_endpoints>>
varsRecu == <<fbox_in, startp, lecteur, recus, egare>>
varsBoite == <<fbox_out, boite, publies>>
varsFbox == <<mode, varsBoite, varsRecu, send_count, acteur, varsVerrous, varsAttente, fifo, faits>>

-----------------------------------------------------------------------------
(* An offset with its high bit.                                             *)
Debut == [off |-> 1, hb |-> FALSE]

Zero == [genre |-> "zero"]
Entete(m, tag, seq, n) == [genre |-> "entete", m |-> m, tag |-> tag, seq |-> seq, n |-> n]
Repos == [pc |-> "repos"]

(* A unit of data, with the number its bytes show to who takes them for a   *)
(* header, and AucunNumero if they show no tag.                             *)
AucunNumero == -1
Donnees(m, seq) == [genre |-> "donnees", m |-> m, seq |-> seq]

(* What a unit of data is taken for: a message nobody has sent.             *)
Intrus == <<"intrus", 0>>

(* A mode has envois: of each thread, the messages it sends, with the units *)
(* a sendi needs in the box, 0 for a message that goes to send at once;     *)
(* seuil: fbox_threshold; and leurres: the numbers that data may show.      *)
InitFbox ==
    /\ mode \in Modes
    /\ fbox_out = [buffer |-> FALSE, start |-> Debut, end |-> Debut, seq |-> 0]
    /\ fbox_in = [buffer |-> FALSE, start |-> Debut, seq |-> 0]
    /\ startp = Debut
    /\ boite = [u \in 1 .. Taille - 1 |-> Zero]
    /\ send_count = 0
    /\ acteur = [a \in Acteurs |-> Repos]
    /\ ep_lock = Personne
    /\ pending_frags_lock = Personne
    /\ component_lock = Personne
    /\ pending_frags = <<>>
    /\ waiting = FALSE
    /\ pending_endpoints = FALSE
    /\ fifo = <<>>
    /\ lecteur = Repos
    /\ faits = [f \in Fils |-> 0]
    /\ publies = <<>>
    /\ recus = <<>>
    /\ egare = FALSE

Placer(a, l) == acteur' = [acteur EXCEPT ![a] = l]
Vers(a, pc) == Placer(a, [acteur[a] EXCEPT !.pc = pc])

(* A thread has given its message away.                                     *)
Donner(f) ==
    /\ faits' = [faits EXCEPT ![f] = @ + 1]
    /\ Placer(f, Repos)

-----------------------------------------------------------------------------
(* mca_btl_vader_fbox_sendi, for a message that is not more than a quarter  *)
(* of the box.  BUFFER_FREE: what is free from end on without a wrap.       *)
BUFFER_FREESansBit(start, end) ==
    IF start.off > end.off THEN start.off - end.off ELSE Taille - end.off

BUFFER_FREE(start, end) ==
    LET plein == IF start.hb = end.hb THEN 0 ELSE 1
    IN IF start.off + plein > end.off THEN start.off - end.off ELSE Taille - end.off

Libre == BUFFER_FREE(fbox_out.start, fbox_out.end)
ALaFin(off) == [off |-> 1, hb |-> ~ fbox_out.end.hb]

PrendreVerrou(a) ==
    /\ acteur[a].pc = "prendre"
    /\ ep_lock = Personne
    /\ ep_lock' = a
    /\ Vers(a, IF Libre < acteur[a].n THEN "relire" ELSE "ecrire")
    /\ UNCHANGED <<mode, varsBoite, varsRecu, send_count, pending_frags_lock, component_lock,
                   varsAttente, fifo, faits>>

(* Not enough room by what is known of start: it is read in the box.        *)
Relire(a) ==
    LET n == acteur[a].n
        libre == BUFFER_FREE(startp, fbox_out.end)
    IN /\ acteur[a].pc = "relire"
       /\ fbox_out' = [fbox_out EXCEPT !.start = startp]
       /\ Vers(a, IF libre >= n THEN "ecrire"
                  ELSE IF libre > 0 /\ startp.off <= fbox_out.end.off THEN "sauter"
                  ELSE "echec")
       /\ UNCHANGED <<mode, boite, publies, varsRecu, send_count, varsVerrous, varsAttente, fifo, faits>>

(* The end of the box is too short: a header tells the reader to skip it.   *)
Sauter(a) ==
    LET end == fbox_out.end
        debut == ALaFin(end)
    IN /\ acteur[a].pc = "sauter"
       /\ boite' = [boite EXCEPT ![end.off] = Entete(a, "saut", fbox_out.seq, Taille - end.off)]
       /\ fbox_out' = [fbox_out EXCEPT !.seq = (@ + 1) % Modulo, !.end = debut]
       /\ Vers(a, IF BUFFER_FREE(fbox_out.start, debut) < acteur[a].n THEN "echec" ELSE "ecrire")
       /\ UNCHANGED <<mode, publies, varsRecu, send_count, varsVerrous, varsAttente, fifo, faits>>

(* The data of the message, behind the place of its header,                 *)
Ecrire(a) ==
    LET e == fbox_out.end.off IN
    /\ acteur[a].pc = "ecrire"
    /\ \E nombres \in [e + 1 .. e + acteur[a].n - 1 -> mode.leurres \cup {AucunNumero}] :
         boite' = [u \in DOMAIN boite |-> IF u \in DOMAIN nombres
                                          THEN Donnees(acteur[a].m, nombres[u]) ELSE boite[u]]
    /\ Vers(a, "publier")
    /\ UNCHANGED <<mode, fbox_out, publies, varsRecu, send_count, varsVerrous, varsAttente, fifo, faits>>

(* the header, by which the reader sees the message,                        *)
Publier(a) ==
    /\ acteur[a].pc = "publier"
    /\ boite' = [boite EXCEPT ![fbox_out.end.off] =
                    Entete(acteur[a].m, acteur[a].tag, fbox_out.seq, acteur[a].n)]
    /\ fbox_out' = [fbox_out EXCEPT !.seq = (@ + 1) % Modulo]
    /\ publies' = Append(publies, acteur[a].m)
    /\ Vers(a, "clore")
    /\ UNCHANGED <<mode, varsRecu, send_count, varsVerrous, varsAttente, fifo, faits>>

(* and only then the place of the next header is cleared.                   *)
Reussir(a) ==
    IF a = progres
    THEN /\ pending_frags' = Tail(pending_frags)
         /\ Placer(a, [pc |-> "attente"])
         /\ UNCHANGED faits
    ELSE Donner(a) /\ UNCHANGED pending_frags

CloreSansEffacer(a) ==
    LET e == fbox_out.end.off + acteur[a].n IN
    /\ acteur[a].pc = "clore"
    /\ fbox_out' = [fbox_out EXCEPT !.end = IF e = Taille THEN ALaFin(@) ELSE [@ EXCEPT !.off = e]]
    /\ ep_lock' = Personne
    /\ Reussir(a)
    /\ UNCHANGED <<mode, boite, publies, varsRecu, send_count, pending_frags_lock, component_lock,
                   waiting, pending_endpoints, fifo>>

Clore(a) ==
    LET e == fbox_out.end.off + acteur[a].n IN
    /\ acteur[a].pc = "clore"
    /\ fbox_out' = [fbox_out EXCEPT !.end = IF e = Taille THEN ALaFin(@) ELSE [@ EXCEPT !.off = e]]
    /\ boite' = IF e # Taille /\ Libre > acteur[a].n THEN [boite EXCEPT ![e] = Zero] ELSE boite
    /\ ep_lock' = Personne
    /\ Reussir(a)
    /\ UNCHANGED <<mode, publies, varsRecu, send_count, pending_frags_lock, component_lock, waiting,
                   pending_endpoints, fifo>>

(* A sendi that found no room tries to send a fragment, then gives up and   *)
(* ob1 calls send, which puts the fragment with those pending; the progress *)
(* gives up until the next time.                                            *)
Echouer(a) ==
    LET c == acteur[a] IN
    /\ c.pc = "echec"
    /\ ep_lock' = Personne
    /\ IF a = progres
       THEN /\ Placer(a, Repos)
            /\ pending_frags_lock' = Personne
            /\ component_lock' = Personne
       ELSE /\ Placer(a, [pc |-> CASE c.tag = "donnees" -> "ep"
                                  [] c.tag = "fragment" /\ c.pour = "sendi" -> "send"
                                  [] OTHER -> "attendre",
                         m |-> c.m, pour |-> c.pour])
            /\ UNCHANGED <<pending_frags_lock, component_lock>>
    /\ UNCHANGED <<mode, varsBoite, varsRecu, send_count, varsAttente, fifo, faits>>

-----------------------------------------------------------------------------
(* mca_btl_vader_sendi for a message that may go into the box as it is.     *)
Sendi(f) ==
    LET m == <<f, faits[f] + 1>>
        n == mode.envois[f][m[2]]
    IN /\ acteur[f] = Repos
       /\ faits[f] < Len(mode.envois[f])
       /\ Placer(f, IF n = 0 \/ pending_frags # <<>> THEN [pc |-> "send", m |-> m, pour |-> "sendi"]
                   ELSE IF fbox_out.buffer
                   THEN [pc |-> "prendre", m |-> m, tag |-> "donnees", n |-> n, pour |-> "sendi"]
                   ELSE [pc |-> "ep", m |-> m, pour |-> "sendi"])
       /\ UNCHANGED <<mode, varsBoite, varsRecu, send_count, varsVerrous, varsAttente, fifo, faits>>

(* mca_btl_vader_send                                                       *)
SendSansAttente(f) ==
    /\ acteur[f].pc = "send"
    /\ Placer(f, [acteur[f] EXCEPT !.pc = "ep", !.pour = "send"])
    /\ UNCHANGED <<mode, varsBoite, varsRecu, send_count, varsVerrous, varsAttente, fifo, faits>>

Send(f) ==
    /\ acteur[f].pc = "send"
    /\ Placer(f, [acteur[f] EXCEPT !.pc = IF pending_frags # <<>> THEN "attendre" ELSE "ep",
                                  !.pour = "send"])
    /\ UNCHANGED <<mode, varsBoite, varsRecu, send_count, varsVerrous, varsAttente, fifo, faits>>

(* puts what cannot go now at the end of pending_frags, and the endpoint in *)
(* the component's list unless it is waiting already.                       *)
Attendre(f) ==
    /\ acteur[f].pc = "attendre"
    /\ pending_frags_lock = Personne
    /\ pending_frags' = Append(pending_frags, acteur[f].m)
    /\ IF waiting
       THEN Donner(f) /\ UNCHANGED pending_frags_lock
       ELSE /\ Vers(f, "inscrire")
            /\ pending_frags_lock' = f
            /\ UNCHANGED faits
    /\ UNCHANGED <<mode, varsBoite, varsRecu, send_count, ep_lock, component_lock, waiting,
                   pending_endpoints, fifo>>

Inscrire(f) ==
    /\ acteur[f].pc = "inscrire"
    /\ component_lock = Personne
    /\ pending_endpoints' = TRUE
    /\ waiting' = TRUE
    /\ pending_frags_lock' = Personne
    /\ Donner(f)
    /\ UNCHANGED <<mode, varsBoite, varsRecu, send_count, ep_lock, component_lock, pending_frags, fifo>>

(* vader_fifo_write_ep: the box once there is one, else the fifo;           *)
Write_ep(a) ==
    /\ acteur[a].pc = "ep"
    /\ Placer(a, IF fbox_out.buffer
                THEN [pc |-> "prendre", m |-> acteur[a].m, tag |-> "fragment", n |-> 1,
                      pour |-> acteur[a].pour]
                ELSE [acteur[a] EXCEPT !.pc = "compter"])
    /\ UNCHANGED <<mode, varsBoite, varsRecu, send_count, varsVerrous, varsAttente, fifo, faits>>

(* mca_btl_vader_try_fbox_setup: the fragment that reaches the threshold,   *)
(* and it alone, sets the box up                                            *)
Compter(f) ==
    /\ acteur[f].pc = "compter"
    /\ IF fbox_out.buffer
       THEN UNCHANGED send_count
       ELSE send_count' = send_count + 1
    /\ Placer(f, [pc |-> IF ~ fbox_out.buffer /\ send_count + 1 = mode.seuil THEN "monter" ELSE "fifo",
                 m |-> acteur[f].m, setup |-> FALSE])
    /\ UNCHANGED <<mode, varsBoite, varsRecu, varsVerrous, varsAttente, fifo, faits>>

(* and will tell the reader; other threads may use the box at once.  A      *)
(* threshold out of reach stands for a limit that forbids a box.            *)
Monter(f) ==
    /\ acteur[f].pc = "monter"
    /\ component_lock = Personne
    /\ fbox_out' = [fbox_out EXCEPT !.buffer = TRUE]
    /\ Placer(f, [pc |-> "fifo", m |-> acteur[f].m, setup |-> TRUE])
    /\ UNCHANGED <<mode, boite, publies, varsRecu, send_count, varsVerrous, varsAttente, fifo, faits>>

Write_fifo(f) ==
    /\ acteur[f].pc = "fifo"
    /\ fifo' = Append(fifo, [m |-> acteur[f].m, setup |-> acteur[f].setup])
    /\ Donner(f)
    /\ UNCHANGED <<mode, varsBoite, varsRecu, send_count, varsVerrous, varsAttente>>

-----------------------------------------------------------------------------
(* mca_btl_vader_progress_endpoints, by one thread at a time,               *)
Progress_endpoints ==
    /\ acteur[progres] = Repos
    /\ pending_endpoints
    /\ component_lock = Personne
    /\ component_lock' = progres
    /\ Placer(progres, [pc |-> "parcourir"])
    /\ UNCHANGED <<mode, varsBoite, varsRecu, send_count, ep_lock, pending_frags_lock, varsAttente,
                   fifo, faits>>

(* and _progress_waiting, which keeps both locks while it writes;           *)
Progress_waiting ==
    /\ acteur[progres].pc = "parcourir"
    /\ pending_frags_lock = Personne
    /\ pending_frags_lock' = progres
    /\ Placer(progres, [pc |-> "attente"])
    /\ UNCHANGED <<mode, varsBoite, varsRecu, send_count, ep_lock, component_lock, varsAttente,
                   fifo, faits>>

FragSuivant ==
    /\ acteur[progres].pc = "attente"
    /\ pending_frags # <<>>
    /\ Placer(progres, [pc |-> "ep", m |-> Head(pending_frags), pour |-> "attente"])
    /\ UNCHANGED <<mode, varsBoite, varsRecu, send_count, varsVerrous, varsAttente, fifo, faits>>

PlusRienSansBaisser ==
    /\ acteur[progres].pc = "attente"
    /\ pending_frags = <<>>
    /\ pending_endpoints' = FALSE
    /\ pending_frags_lock' = Personne
    /\ component_lock' = Personne
    /\ Placer(progres, Repos)
    /\ UNCHANGED <<mode, varsBoite, varsRecu, send_count, ep_lock, pending_frags, waiting, fifo, faits>>

PlusRien ==
    /\ acteur[progres].pc = "attente"
    /\ pending_frags = <<>>
    /\ waiting' = FALSE
    /\ pending_endpoints' = FALSE
    /\ pending_frags_lock' = Personne
    /\ component_lock' = Personne
    /\ Placer(progres, Repos)
    /\ UNCHANGED <<mode, varsBoite, varsRecu, send_count, ep_lock, pending_frags, fifo, faits>>

-----------------------------------------------------------------------------
varsLecture == <<mode, varsBoite, send_count, acteur, varsVerrous, varsAttente, faits>>

(* The reader's progress looks into the box first,                          *)
Progress ==
    /\ lecteur = Repos
    /\ lecteur' = [pc |-> IF fbox_in.buffer THEN "sonder" ELSE "fifo", nb |-> 0,
                   start |-> fbox_in.start, hdr |-> Zero]
    /\ UNCHANGED <<varsLecture, fbox_in, startp, fifo, recus, egare>>

(* mca_btl_vader_check_fboxes: what is there is valid if its tag is set and *)
(* its number is the one expected, be it a header or data.                  *)
ValideSansNumero(c) == c.genre # "zero"

Valide(c) == c.genre \in {"entete", "donnees"} /\ c.seq = fbox_in.seq

(* Data give any tag and any size; a size that goes out of the box is left  *)
(* out.                                                                     *)
Lues(c, off) ==
    IF c.genre = "entete" THEN {c}
    ELSE {Entete(Intrus, tag, c.seq, n) : tag \in {"donnees", "saut"}, n \in 1 .. Taille - off}

Sonder ==
    LET c == boite[lecteur.start.off] IN
    /\ lecteur.pc = "sonder"
    /\ \/ /\ lecteur.nb < PollCount /\ Valide(c)
          /\ fbox_in' = [fbox_in EXCEPT !.seq = (@ + 1) % Modulo]
          /\ egare' = (egare \/ c.genre = "donnees")
          /\ \E h \in Lues(c, lecteur.start.off) : lecteur' = [lecteur EXCEPT !.pc = "traiter", !.hdr = h]
       \/ /\ ~ (lecteur.nb < PollCount /\ Valide(c))
          /\ lecteur' = [lecteur EXCEPT !.pc = IF lecteur.nb > 0 THEN "rendre" ELSE "fifo", !.nb = 0]
          /\ UNCHANGED <<fbox_in, egare>>
    /\ UNCHANGED <<varsLecture, startp, fifo, recus>>

Recevoir(m, voie) == recus' = Append(recus, [m |-> m, voie |-> voie])

(* The receive callback, with the message in place.                         *)
Traiter ==
    LET h == lecteur.hdr
        e == lecteur.start.off + h.n
        start == IF e = Taille THEN [off |-> 1, hb |-> ~ lecteur.start.hb]
                 ELSE [lecteur.start EXCEPT !.off = e]
    IN /\ lecteur.pc = "traiter"
       /\ lecteur' = [pc |-> "sonder", nb |-> lecteur.nb + 1, start |-> start, hdr |-> Zero]
       /\ IF h.tag = "saut" THEN UNCHANGED recus ELSE Recevoir(h.m, "boite")
       /\ UNCHANGED <<varsLecture, fbox_in, startp, fifo, egare>>

(* The sender is told where the reader stopped.                             *)
RendrePourSoi ==
    /\ lecteur.pc = "rendre"
    /\ fbox_in' = [fbox_in EXCEPT !.start = lecteur.start]
    /\ lecteur' = [lecteur EXCEPT !.pc = "fifo"]
    /\ UNCHANGED <<varsLecture, startp, fifo, recus, egare>>

RendrePlace ==
    /\ lecteur.pc = "rendre"
    /\ startp' = lecteur.start
    /\ fbox_in' = [fbox_in EXCEPT !.start = lecteur.start]
    /\ lecteur' = [lecteur EXCEPT !.pc = "fifo"]
    /\ UNCHANGED <<varsLecture, fifo, recus, egare>>

(* mca_btl_vader_poll_fifo                                                  *)
Poll_fifo ==
    /\ lecteur.pc = "fifo"
    /\ IF fifo = <<>> \/ lecteur.nb = PollCount
       THEN lecteur' = Repos /\ UNCHANGED <<fbox_in, fifo, recus>>
       ELSE /\ fifo' = Tail(fifo)
            /\ Recevoir(Head(fifo).m, "fifo")
            /\ fbox_in' = [fbox_in EXCEPT !.buffer = @ \/ Head(fifo).setup]
            /\ lecteur' = [lecteur EXCEPT !.nb = @ + 1]
    /\ UNCHANGED <<varsLecture, startp, egare>>

-----------------------------------------------------------------------------
Ecriture(a) ==
    \/ PrendreVerrou(a) \/ Relire(a) \/ Sauter(a) \/ Ecrire(a) \/ Publier(a) \/ Clore(a) \/ Echouer(a)
    \/ Write_ep(a)

Fil(f) ==
    \/ Ecriture(f) \/ Sendi(f) \/ Send(f) \/ Attendre(f) \/ Inscrire(f)
    \/ Compter(f) \/ Monter(f) \/ Write_fifo(f)

Progresser ==
    \/ Ecriture(progres) \/ Progress_endpoints \/ Progress_waiting \/ FragSuivant \/ PlusRien

Lecture == Progress \/ Sonder \/ Traiter \/ RendrePlace \/ Poll_fifo

NextFbox == Progresser \/ Lecture \/ \E f \in Fils : Fil(f)

SpecFbox == InitFbox /\ [][NextFbox]_varsFbox

(* Both processes call opal_progress again and again, and a thread goes on. *)
FairSpecFbox ==
    /\ SpecFbox
    /\ WF_varsFbox(Progresser)
    /\ WF_varsFbox(Lecture)
    /\ \A f \in Fils : WF_varsFbox(Fil(f))

-----------------------------------------------------------------------------
EnvoyesDe(mo) == UNION {{f} \X (1 .. Len(mo.envois[f])) : f \in Fils}
Messages == UNION {EnvoyesDe(mo) : mo \in Modes}
Envoyes == EnvoyesDe(mode)
Offsets == [off : 1 .. Taille - 1, hb : BOOLEAN]

(* Types; a lock is held by who is at a place where the code holds it.      *)
TypeFbox ==
    /\ fbox_out.start \in Offsets /\ fbox_out.end \in Offsets
    /\ fbox_in.start \in Offsets /\ startp \in Offsets
    /\ fbox_out.seq \in 0 .. Modulo - 1 /\ fbox_in.seq \in 0 .. Modulo - 1
    /\ \A a \in Acteurs :
         /\ ep_lock = a <=> acteur[a].pc \in {"relire", "sauter", "ecrire", "publier", "clore", "echec"}
         /\ component_lock = a <=> (a = progres /\ acteur[a] # Repos)
         /\ pending_frags_lock = a <=> \/ a # progres /\ acteur[a].pc = "inscrire"
                                       \/ a = progres /\ acteur[a].pc \notin {"repos", "parcourir"}
    /\ \A i \in DOMAIN pending_frags : pending_frags[i] \in Envoyes
    /\ \A i \in DOMAIN fifo : fifo[i].m \in Envoyes
    /\ \A i \in DOMAIN recus : recus[i].m \in Envoyes \cup {Intrus}

EstDonnee(c, m) == c.genre = "donnees" /\ c.m = m

(* Until the reader has taken data for a header, what it handles is what a  *)
(* sender has put there: a header of its, and the data of that message      *)
(* untouched until the reader is done.                                      *)
Integrite ==
    /\ TypeFbox
    /\ ~ egare /\ lecteur.pc = "traiter" =>
        /\ boite[lecteur.start.off] = lecteur.hdr
        /\ lecteur.hdr.tag # "saut" =>
             \A k \in 1 .. lecteur.hdr.n - 1 : EstDonnee(boite[lecteur.start.off + k], lecteur.hdr.m)

(* It takes data for a header in one interval only, that between the        *)
(* publication of a header and the clearing of the place of the next        *)
(* (btl_vader_fbox.h:142 and :152).                                         *)
LeurreDansLaFenetre ==
    [][~ egare /\ egare' => \E a \in Acteurs : acteur[a].pc = "clore"]_varsFbox

(* btl_vader_fbox.h:179, "check for a valid tag a sequence number": what    *)
(* passes the check is a header.  It is if no data show a number.           *)
EntetesSeuls == ~ egare

(* A thread's messages are received in the order in which it sent them,     *)
(* but for one that went through the fifo and a later one through the box   *)
(* that another thread has just set up: ob1's numbers put these in order.   *)
(* All this until the reader has taken data for a header.                   *)
Rang(r) == r.m[2]
DesordreAuMontage ==
    \A i, j \in DOMAIN recus :
        ~ egare /\ i < j /\ recus[i].m[1] = recus[j].m[1] /\ Rang(recus[i]) > Rang(recus[j])
        => recus[i].voie = "boite" /\ recus[j].voie = "fifo"

(* An endpoint that has fragments pending is in the list the progress goes  *)
(* through, or a thread is about to put it there.                           *)
AttenteInscrite ==
    pending_frags # <<>> =>
        (pending_endpoints /\ waiting) \/ \E f \in Fils : acteur[f].pc = "inscrire"

(* Every message sent is received, unless the reader takes data for a       *)
(* header.                                                                  *)
ToutRecu == <>(egare \/ {recus[i].m : i \in DOMAIN recus} = Envoyes)

-----------------------------------------------------------------------------
Messages_de(voie) == {recus[i].m : i \in {j \in DOMAIN recus : recus[j].voie = voie}}

(* A message is received from the box when the reader has its header.       *)
EnMain == lecteur.pc = "traiter" /\ lecteur.hdr.tag # "saut"
Lus == Cardinality({i \in DOMAIN recus : recus[i].voie = "boite"}) + (IF EnMain THEN 1 ELSE 0)

LeCanal == INSTANCE Canal WITH
    Voies <- {"fifo", "boite"},
    file <- [v \in {"fifo", "boite"} |-> IF v = "boite" THEN SubSeq(publies, Lus + 1, Len(publies))
                                         ELSE [i \in DOMAIN fifo |-> fifo[i].m]],
    recus <- [v \in {"fifo", "boite"} |-> Messages_de(v) \cup
                                          (IF v = "boite" /\ EnMain THEN {lecteur.hdr.m} ELSE {})],
    rompu <- egare

(* Box and fifo implement the two lanes, which break when the reader takes  *)
(* data for a header: until then no message is lost, received twice or      *)
(* before another of its lane, whoever fails, waits or skips.               *)
CanalSpec == LeCanal!Spec
=============================================================================
