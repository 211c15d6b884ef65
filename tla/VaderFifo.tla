----------------------------- MODULE VaderFifo -----------------------------
(***************************************************************************)
(* The lock-free shared-memory fifos of the vader BTL                      *)
(* (opal/mca/btl/vader/btl_vader_fifo.h) and the fragments that travel     *)
(* through them.  Each process reads its own fifo from its progress        *)
(* function, one thread at a time; any thread of any process of the node   *)
(* writes it.  A fragment sent is read by the peer, marked complete and    *)
(* written back into its owner's fifo.  Every access to a fifo's head or   *)
(* tail and to a fragment's next is a step of its own.  No fast box is set *)
(* up between the processes.                                               *)
(***************************************************************************)
EXTENDS Integers, Sequences

CONSTANTS
    Procs,     \* the processes of a node
    Frags,     \* the fragment headers of all of them
    Owner,     \* the process each fragment belongs to
    Fifo,      \* the holder of a fragment that is in a fifo
    FREE       \* VADER_FIFO_FREE

ASSUME OwnerAssumption == Owner \in [Frags -> Procs]
ASSUME FifoAssumption == Fifo \notin Procs
ASSUME FREEAssumption == FREE \notin Frags

Valeurs == Frags \cup {FREE}

VARIABLES
    fifo_head,    \* of each process's fifo
    fifo_tail,    \* of each process's fifo
    next,         \* hdr->next of each fragment
    complete,     \* the fragments with MCA_BTL_VADER_FLAG_COMPLETE
    dest,         \* the process whose fifo the fragment was last written to
    prev,         \* the tail the writer of each fragment swapped out
    ecrit,        \* how far vader_fifo_write is with each fragment
    pc,           \* where each process's reader is
    value,        \* the fragment it reads
    file,         \* history: the fragments swapped in and not read, oldest first
    tenu          \* history: the process that has the fragment in its hands

varsFrag == <<complete, dest, prev, ecrit>>
varsLecteur == <<pc, value>>
varsHistoire == <<file, tenu>>
vars == <<fifo_head, fifo_tail, next, varsFrag, varsLecteur, varsHistoire>>

Aller(p, l) == pc' = [pc EXCEPT ![p] = l]

(* vader_fifo_init of every process; every fragment is in its free list.    *)
Init ==
    /\ fifo_head = [p \in Procs |-> FREE]
    /\ fifo_tail = [p \in Procs |-> FREE]
    /\ next = [f \in Frags |-> FREE]
    /\ complete = {}
    /\ dest = Owner
    /\ prev = [f \in Frags |-> FREE]
    /\ ecrit = [f \in Frags |-> "non"]
    /\ pc = [p \in Procs |-> "repos"]
    /\ value = [p \in Procs |-> FREE]
    /\ file = [p \in Procs |-> <<>>]
    /\ tenu = Owner

-----------------------------------------------------------------------------
(* vader_fifo_write_ep by a thread of the owner, with a fragment of its     *)
(* free list: next is reset before the fifo can be seen to hold it.         *)
Envoyer(f, q) ==
    /\ ecrit[f] = "non"
    /\ tenu[f] = Owner[f]
    /\ q # Owner[f]
    /\ \A p \in Procs : value[p] # f
    /\ complete' = complete \ {f}
    /\ dest' = [dest EXCEPT ![f] = q]
    /\ next' = [next EXCEPT ![f] = FREE]
    /\ ecrit' = [ecrit EXCEPT ![f] = "swap"]
    /\ UNCHANGED <<fifo_head, fifo_tail, prev, varsLecteur, varsHistoire>>

(* vader_fifo_write: the exchange of the tail,                              *)
Swap(f) ==
    /\ ecrit[f] = "swap"
    /\ prev' = [prev EXCEPT ![f] = fifo_tail[dest[f]]]
    /\ fifo_tail' = [fifo_tail EXCEPT ![dest[f]] = f]
    /\ ecrit' = [ecrit EXCEPT ![f] = "lier"]
    /\ file' = [file EXCEPT ![dest[f]] = Append(@, f)]
    /\ tenu' = [tenu EXCEPT ![f] = Fifo]
    /\ UNCHANGED <<fifo_head, next, complete, dest, varsLecteur>>

(* Variants of definitions, each with a plausible slip that the properties  *)
(* must tell apart from the code, stand before the definition they vary     *)
(* (ChainerSelonTete of Chainer, ...); no specification uses them.          *)
ChainerSelonTete(f) ==
    /\ ecrit[f] = "lier"
    /\ IF fifo_head[dest[f]] # FREE
       THEN /\ next' = [next EXCEPT ![prev[f]] = f]
            /\ UNCHANGED fifo_head
       ELSE /\ fifo_head' = [fifo_head EXCEPT ![dest[f]] = f]
            /\ UNCHANGED next
    /\ ecrit' = [ecrit EXCEPT ![f] = "non"]
    /\ UNCHANGED <<fifo_tail, complete, dest, prev, varsHistoire>>

(* and the link from the previous tail, or from the head.                   *)
Chainer(f) ==
    /\ ecrit[f] = "lier"
    /\ IF prev[f] # FREE
       THEN /\ next' = [next EXCEPT ![prev[f]] = f]
            /\ UNCHANGED fifo_head
       ELSE /\ fifo_head' = [fifo_head EXCEPT ![dest[f]] = f]
            /\ UNCHANGED next
    /\ ecrit' = [ecrit EXCEPT ![f] = "non"]
    /\ UNCHANGED <<fifo_tail, complete, dest, prev, varsHistoire>>

FinirEnvoi(f) == f \notin complete /\ Chainer(f) /\ UNCHANGED varsLecteur

-----------------------------------------------------------------------------
(* vader_fifo_read.  Once the head is not FREE no writer changes it, so     *)
(* that its two reads are one step.                                         *)
LireTete(p) ==
    /\ pc[p] = "repos"
    /\ fifo_head[p] # FREE
    /\ value' = [value EXCEPT ![p] = fifo_head[p]]
    /\ Aller(p, "vider")
    /\ UNCHANGED <<fifo_head, fifo_tail, next, varsFrag, varsHistoire>>

ViderTete(p) ==
    /\ pc[p] = "vider"
    /\ fifo_head' = [fifo_head EXCEPT ![p] = FREE]
    /\ Aller(p, "tester")
    /\ UNCHANGED <<fifo_tail, next, varsFrag, value, varsHistoire>>

TesterSuivant(p) ==
    /\ pc[p] = "tester"
    /\ Aller(p, IF next[value[p]] = FREE THEN "cas" ELSE "avancer")
    /\ UNCHANGED <<fifo_head, fifo_tail, next, varsFrag, value, varsHistoire>>

SansPremier(s) == [k \in 1 .. Len(s) - 1 |-> s[k + 1]]

Prendre(p) ==
    /\ file' = [file EXCEPT ![p] = SansPremier(@)]
    /\ tenu' = [tenu EXCEPT ![value[p]] = p]

CasSansAttendre(p) ==
    /\ pc[p] = "cas"
    /\ IF fifo_tail[p] = value[p]
       THEN fifo_tail' = [fifo_tail EXCEPT ![p] = FREE]
       ELSE UNCHANGED fifo_tail
    /\ Aller(p, "traiter")
    /\ Prendre(p)
    /\ UNCHANGED <<fifo_head, next, varsFrag, value>>

(* The tail is the fragment: the fifo is empty; else a writer is about to   *)
(* link the next one.                                                       *)
Cas(p) ==
    /\ pc[p] = "cas"
    /\ IF fifo_tail[p] = value[p]
       THEN /\ fifo_tail' = [fifo_tail EXCEPT ![p] = FREE]
            /\ Prendre(p)
            /\ Aller(p, "traiter")
       ELSE /\ Aller(p, "avancer")
            /\ UNCHANGED <<fifo_tail, varsHistoire>>
    /\ UNCHANGED <<fifo_head, next, varsFrag, value>>

Avancer(p) ==
    /\ pc[p] = "avancer"
    /\ next[value[p]] # FREE
    /\ fifo_head' = [fifo_head EXCEPT ![p] = next[value[p]]]
    /\ Prendre(p)
    /\ Aller(p, "traiter")
    /\ UNCHANGED <<fifo_tail, next, varsFrag, value>>

-----------------------------------------------------------------------------
TraiterEtVider(p) ==
    /\ pc[p] = "traiter"
    /\ value[p] \in complete
    /\ fifo_head' = [fifo_head EXCEPT ![p] = FREE]
    /\ value' = [value EXCEPT ![p] = FREE]
    /\ Aller(p, "repos")
    /\ UNCHANGED <<fifo_tail, next, varsFrag, varsHistoire>>

(* mca_btl_vader_poll_handle_frag: a complete fragment is back in its       *)
(* owner's free list (mca_btl_vader_frag_complete);                         *)
Completer(p) ==
    /\ pc[p] = "traiter"
    /\ value[p] \in complete
    /\ value' = [value EXCEPT ![p] = FREE]
    /\ Aller(p, "repos")
    /\ UNCHANGED <<fifo_head, fifo_tail, next, varsFrag, varsHistoire>>

RendreSansReset(p) ==
    /\ pc[p] = "traiter"
    /\ value[p] \notin complete
    /\ complete' = complete \cup {value[p]}
    /\ dest' = [dest EXCEPT ![value[p]] = Owner[value[p]]]
    /\ ecrit' = [ecrit EXCEPT ![value[p]] = "swap"]
    /\ Aller(p, "rendre")
    /\ UNCHANGED <<fifo_head, fifo_tail, next, prev, value, varsHistoire>>

(* another one goes to the receive callback, is marked complete and given   *)
(* back by vader_fifo_write_back.                                           *)
Rendre(p) ==
    /\ pc[p] = "traiter"
    /\ value[p] \notin complete
    /\ complete' = complete \cup {value[p]}
    /\ next' = [next EXCEPT ![value[p]] = FREE]
    /\ dest' = [dest EXCEPT ![value[p]] = Owner[value[p]]]
    /\ ecrit' = [ecrit EXCEPT ![value[p]] = "swap"]
    /\ Aller(p, "rendre")
    /\ UNCHANGED <<fifo_head, fifo_tail, prev, value, varsHistoire>>

FinirRetour(p) ==
    /\ pc[p] = "rendre"
    /\ Chainer(value[p])
    /\ value' = [value EXCEPT ![p] = FREE]
    /\ Aller(p, "repos")

-----------------------------------------------------------------------------
Lecteur(p) ==
    \/ LireTete(p)
    \/ ViderTete(p)
    \/ TesterSuivant(p)
    \/ Cas(p)
    \/ Avancer(p)
    \/ Completer(p)
    \/ Rendre(p)
    \/ FinirRetour(p)

Ecrivain(f) == Swap(f) \/ FinirEnvoi(f)

Next ==
    \/ \E p \in Procs : Lecteur(p)
    \/ \E f \in Frags : Ecrivain(f) \/ \E q \in Procs : Envoyer(f, q)

Spec == Init /\ [][Next]_vars

(* Every process calls opal_progress again and again, and a thread that has *)
(* begun to write a fragment goes on.  Nobody has to send.                  *)
FairSpec ==
    /\ Spec
    /\ \A p \in Procs : WF_vars(Lecteur(p))
    /\ \A f \in Frags : WF_vars(Ecrivain(f))

-----------------------------------------------------------------------------
(* Types; a reader has a fragment exactly while it is not at rest: it never *)
(* follows VADER_FIFO_FREE as if it were a fragment.                        *)
TypeOK ==
    /\ fifo_head \in [Procs -> Valeurs]
    /\ fifo_tail \in [Procs -> Valeurs]
    /\ next \in [Frags -> Valeurs]
    /\ complete \subseteq Frags
    /\ dest \in [Frags -> Procs]
    /\ prev \in [Frags -> Valeurs]
    /\ ecrit \in [Frags -> {"non", "swap", "lier"}]
    /\ pc \in [Procs -> {"repos", "vider", "tester", "cas", "avancer", "traiter", "rendre"}]
    /\ value \in [Procs -> Valeurs]
    /\ \A p \in Procs : value[p] = FREE <=> pc[p] = "repos"
    /\ file \in [Procs -> Seq(Frags)]
    /\ tenu \in [Frags -> Procs \cup {Fifo}]

(* What next and prev hold at place k of a queue s.                         *)
Suivant(s, k) == IF k = Len(s) \/ ecrit[s[k + 1]] = "lier" THEN FREE ELSE s[k + 1]
Precedent(s, k) == IF k = 1 THEN FREE ELSE s[k - 1]
EnLecture(p) == pc[p] \in {"tester", "cas", "avancer"}

(* The pointers are the queue: the tail is the last fragment; each fragment *)
(* is linked to the next one as soon as that one's writer has linked it;    *)
(* the head is the first, unless it is still to be linked or being read.    *)
Chaine ==
    /\ TypeOK
    /\ \A p \in Procs : LET s == file[p] IN
           /\ fifo_tail[p] = IF s = <<>> THEN FREE ELSE s[Len(s)]
           /\ fifo_head[p] = IF s = <<>> \/ EnLecture(p) \/ ecrit[s[1]] = "lier" THEN FREE ELSE s[1]
           /\ \A k \in 1 .. Len(s) :
                /\ next[s[k]] = Suivant(s, k)
                /\ ecrit[s[k]] = "lier" /\ (k > 1 \/ ~ EnLecture(p)) => prev[s[k]] = Precedent(s, k)

(* A fragment is in one place only: with its owner, in one fifo, or in the  *)
(* hands of the one reader that has taken it out; and what a writer still   *)
(* has to link from has not left the fifo.                                  *)
UnSeulEndroit ==
    /\ \A p, q \in Procs : \A k \in 1 .. Len(file[p]), l \in 1 .. Len(file[q]) :
         file[p][k] = file[q][l] => p = q /\ k = l
    /\ \A f \in Frags :
         tenu[f] = Fifo <=> \E p \in Procs : \E k \in 1 .. Len(file[p]) : file[p][k] = f
    /\ \A f \in Frags : ecrit[f] = "lier" /\ prev[f] # FREE => tenu[prev[f]] = Fifo

LesBoites == INSTANCE Boites WITH
    Procs <- Procs, Frags <- Frags, Owner <- Owner, Fifo <- Fifo, file <- file, tenu <- tenu
(* The fifos implement the mailboxes: a fragment enters at the exchange of  *)
(* the tail, and the one read is the oldest.                                *)
BoitesSpec == LesBoites!Spec

Disponible(f) == tenu[f] = Owner[f] /\ ecrit[f] = "non" /\ \A p \in Procs : value[p] # f
(* A fragment sent always comes back to its owner's free list.              *)
FragmentRevient == \A f \in Frags : []<>Disponible(f)
=============================================================================
