---------------------------- MODULE VaderProofs ----------------------------
(***************************************************************************)
(* The vader BTL, for any number of processes, threads, fragments and      *)
(* messages: its fifos, whoever owns the fragments, then its fast boxes,   *)
(* whatever the size of the box and of the messages.                       *)
(*                                                                         *)
(* The fifos' inductive invariant says which fragments each queue holds,   *)
(* what the pointers are while a writer is between its exchange and its    *)
(* link or the reader between its test and its swap, and in which          *)
(* direction each fragment travels.  The box's says where each thread is   *)
(* and with what (InvFbox), in which order the messages of a thread are,   *)
(* wherever they are (OrdreFbox), and where in the ring each header is,    *)
(* lap after lap (AnneauFbox).                                             *)
(***************************************************************************)
EXTENDS VaderFifo, VaderFbox, FiniteSetTheorems, SequenceTheorems, TLAPS

(* A fragment is in one queue at most, its destination's, and once.         *)
FilesInv ==
    /\ \A p \in Procs : \A k \in 1 .. Len(file[p]) :
         tenu[file[p][k]] = Fifo /\ dest[file[p][k]] = p
    /\ \A p \in Procs : \A j, k \in 1 .. Len(file[p]) : file[p][j] = file[p][k] => j = k
    /\ \A f \in Frags : tenu[f] = Fifo =>
         \E k \in 1 .. Len(file[dest[f]]) : file[dest[f]][k] = f

(* The pointers of p's fifo; a fragment that its writer has still to link   *)
(* is never the one being read.                                             *)
ChaineDe(p) ==
    LET s == file[p] IN
    /\ fifo_tail[p] = IF s = <<>> THEN FREE ELSE s[Len(s)]
    /\ fifo_head[p] = IF s = <<>> \/ EnLecture(p) \/ ecrit[s[1]] = "lier" THEN FREE ELSE s[1]
    /\ \A k \in 1 .. Len(s) :
         /\ next[s[k]] = Suivant(s, k)
         /\ ecrit[s[k]] = "lier" => prev[s[k]] = Precedent(s, k)

ChaineInv == \A p \in Procs : ChaineDe(p)

(* A fragment goes from its owner to a peer, and complete from there to its *)
(* owner; its next is FREE when its writer exchanges the tail for it.       *)
EcritInv ==
    \A f \in Frags :
        /\ ecrit[f] = "lier" => tenu[f] = Fifo
        /\ ecrit[f] = "swap" =>
             /\ tenu[f] \in Procs \ {dest[f]}
             /\ tenu[f] # Owner[f] => dest[f] = Owner[f]
             /\ next[f] = FREE
        /\ f \in complete => dest[f] = Owner[f]
        /\ (ecrit[f] = "swap" \/ tenu[f] = Fifo) /\ f \notin complete => dest[f] # Owner[f]

(* What a reader has in its hands.                                          *)
LecteurInv ==
    \A p \in Procs :
        /\ pc[p] \in {"vider", "tester", "cas", "avancer"} =>
             file[p] # <<>> /\ value[p] = file[p][1] /\ ecrit[value[p]] = "non"
        /\ pc[p] = "traiter" =>
             /\ tenu[value[p]] = p /\ ecrit[value[p]] = "non"
             /\ value[p] \notin complete => Owner[value[p]] # p
        /\ pc[p] = "rendre" =>
             /\ value[p] \in complete /\ ecrit[value[p]] \in {"swap", "lier"}
             /\ \A q \in Procs : pc[q] = "rendre" /\ value[q] = value[p] => p = q

Inv == TypeOK /\ FilesInv /\ ChaineInv /\ EcritInv /\ LecteurInv

-----------------------------------------------------------------------------
(* A queue without its first fragment.                                      *)
LEMMA SansPremierProprietes ==
    ASSUME NEW S, NEW s \in Seq(S), s # <<>>
    PROVE  /\ SansPremier(s) \in Seq(S)
           /\ Len(s) \in Nat \ {0} /\ Len(SansPremier(s)) = Len(s) - 1
           /\ \A k \in 1 .. Len(s) - 1 : SansPremier(s)[k] = s[k + 1]
           /\ SansPremier(s) = Tail(s)
  <1>1. Len(s) \in Nat \ {0}
    OBVIOUS
  <1>2. SansPremier(s) \in [1 .. Len(s) - 1 -> S]
    BY <1>1 DEF SansPremier
  <1>3. SansPremier(s) \in Seq(S) /\ Len(SansPremier(s)) = Len(s) - 1
    BY <1>1, <1>2
  <1>4. \A k \in 1 .. Len(s) - 1 : SansPremier(s)[k] = s[k + 1]
    BY DEF SansPremier
  <1>5. /\ Tail(s) \in Seq(S) /\ Len(Tail(s)) = Len(s) - 1
        /\ \A k \in 1 .. Len(s) - 1 : Tail(s)[k] = s[k + 1]
    BY HeadTailProperties
  <1>6. SansPremier(s) = Tail(s)
    BY <1>1, <1>3, <1>4, <1>5, SeqEqual
  <1> QED BY <1>1, <1>3, <1>4, <1>6

(* The fifo of a process that a step does not touch.                        *)
LEMMA ChaineStable ==
    ASSUME TypeOK, NEW p \in Procs, ChaineDe(p),
           file'[p] = file[p], fifo_tail'[p] = fifo_tail[p], fifo_head'[p] = fifo_head[p],
           EnLecture(p)' <=> EnLecture(p),
           \A k \in 1 .. Len(file[p]) :
             LET f == file[p][k] IN
             next'[f] = next[f] /\ ecrit'[f] = ecrit[f] /\ prev'[f] = prev[f]
    PROVE  ChaineDe(p)'
  <1> DEFINE s == file[p]
  <1>1. s \in Seq(Frags)
    BY DEF TypeOK
  <1>2. \A k \in 1 .. Len(s) :
          Suivant(s, k)' = Suivant(s, k) /\ Precedent(s, k)' = Precedent(s, k)
    BY <1>1 DEF Suivant, Precedent
  <1>3. s # <<>> => 1 \in 1 .. Len(s)
    BY <1>1
  <1> QED BY <1>1, <1>2, <1>3 DEF ChaineDe, Suivant, Precedent

LEMMA InitInv == Init => Inv
  <1> SUFFICES ASSUME Init PROVE Inv
    OBVIOUS
  <1>1. TypeOK
    BY OwnerAssumption DEF Init, TypeOK, Valeurs
  <1>2. FilesInv
    BY FifoAssumption, OwnerAssumption DEF Init, FilesInv
  <1>3. ChaineInv
    <2>1. ASSUME NEW p \in Procs
          PROVE  file[p] = <<>> /\ fifo_head[p] = FREE /\ fifo_tail[p] = FREE
      BY DEF Init
    <2>2. ASSUME NEW p \in Procs
          PROVE  1 .. Len(file[p]) = {}
      BY <2>1
    <2> QED BY <2>1, <2>2, Zenon DEF ChaineInv, ChaineDe
  <1>4. EcritInv
    BY FifoAssumption, OwnerAssumption DEF Init, EcritInv
  <1>5. LecteurInv
    BY DEF Init, LecteurInv
  <1> QED BY <1>1, <1>2, <1>3, <1>4, <1>5 DEF Inv

-----------------------------------------------------------------------------
(* The writers.  A fragment that is sent is in no queue;                    *)
LEMMA EnvoyerInv ==
    ASSUME Inv, NEW f \in Frags, NEW q \in Procs, Envoyer(f, q)
    PROVE  Inv'
  <1> USE DEF Inv, Envoyer, varsLecteur, varsHistoire
  <1>0. /\ tenu[f] \in Procs /\ tenu[f] # Fifo /\ q # Owner[f]
        /\ \A p \in Procs : \A k \in 1 .. Len(file[p]) : file[p][k] # f /\ file[p][k] \in Frags
    <2>1. tenu[f] \in Procs /\ tenu[f] # Fifo /\ q # Owner[f]
      BY OwnerAssumption, FifoAssumption
    <2>2. \A p \in Procs : file[p] \in Seq(Frags)
      BY DEF TypeOK
    <2> QED BY <2>1, <2>2 DEF FilesInv
  <1>1. TypeOK'
    BY DEF TypeOK, Valeurs
  <1>2. FilesInv'
    <2>1. file' = file /\ tenu' = tenu /\ \A g \in Frags : g # f => dest'[g] = dest[g]
      BY DEF TypeOK
    <2>2. \A p \in Procs : \A k \in 1 .. Len(file[p]) : dest'[file[p][k]] = p
      BY <1>0, <2>1 DEF FilesInv
    <2>3. \A g \in Frags : tenu[g] = Fifo => dest'[g] = dest[g]
      BY <1>0, <2>1
    <2> QED BY <2>1, <2>2, <2>3 DEF FilesInv
  <1>3. ChaineInv'
    BY <1>0, ChaineStable DEF ChaineInv, EnLecture, TypeOK
  <1>4. EcritInv'
    BY <1>0 DEF EcritInv, TypeOK
  <1>5. LecteurInv'
    BY <1>0 DEF LecteurInv, TypeOK
  <1> QED BY <1>1, <1>2, <1>3, <1>4, <1>5

(* it enters its destination's at the exchange of the tail, as the last;    *)
LEMMA SwapInv ==
    ASSUME Inv, NEW f \in Frags, Swap(f)
    PROVE  Inv'
  <1> USE DEF Inv, Swap, varsLecteur, varsHistoire
  <1> DEFINE q == dest[f]
             s == file[q]
             n == Len(s)
  <1>0. /\ q \in Procs /\ s \in Seq(Frags) /\ n \in Nat /\ ecrit[f] = "swap"
        /\ tenu[f] \in Procs \ {q} /\ next[f] = FREE
        /\ \A p \in Procs : \A k \in 1 .. Len(file[p]) : file[p][k] # f /\ file[p][k] \in Frags
    BY FifoAssumption DEF FilesInv, EcritInv, TypeOK
  <1>1. /\ file'[q] \in Seq(Frags) /\ Len(file'[q]) = n + 1 /\ file'[q][n + 1] = f
        /\ \A k \in 1 .. n : file'[q][k] = s[k]
        /\ \A p \in Procs \ {q} : file'[p] = file[p]
    BY <1>0 DEF TypeOK
  <1>2. TypeOK'
    BY <1>0, <1>1 DEF TypeOK, Valeurs
  <1>3. FilesInv'
    <2>1. \A p \in Procs : \A k \in 1 .. Len(file'[p]) :
            tenu'[file'[p][k]] = Fifo /\ dest[file'[p][k]] = p
      BY <1>0, <1>1 DEF FilesInv, TypeOK
    <2>2. \A p \in Procs : \A j, k \in 1 .. Len(file'[p]) : file'[p][j] = file'[p][k] => j = k
      BY <1>0, <1>1 DEF FilesInv
    <2>3. ASSUME NEW g \in Frags, tenu'[g] = Fifo
          PROVE  \E k \in 1 .. Len(file'[dest[g]]) : file'[dest[g]][k] = g
      <3>1. CASE g = f
        BY <1>0, <1>1, <3>1
      <3>2. CASE g # f
        <4>1. tenu[g] = Fifo /\ dest[g] \in Procs
          BY <2>3, <3>2 DEF TypeOK
        <4>2. PICK k \in 1 .. Len(file[dest[g]]) : file[dest[g]][k] = g
          BY <4>1 DEF FilesInv
        <4>3. k \in 1 .. Len(file'[dest[g]]) /\ file'[dest[g]][k] = g
          BY <1>0, <1>1, <4>1, <4>2
        <4> QED BY <4>3
      <3> QED BY <3>1, <3>2
    <2> QED BY <2>1, <2>2, <2>3 DEF FilesInv
  <1>4. ChaineInv'
    <2>1. ASSUME NEW p \in Procs, p # q
          PROVE  ChaineDe(p)'
      <3>1. \A k \in 1 .. Len(file[p]) :
              LET g == file[p][k] IN
              next'[g] = next[g] /\ ecrit'[g] = ecrit[g] /\ prev'[g] = prev[g]
        BY <1>0, <2>1 DEF TypeOK
      <3>2. EnLecture(p)' <=> EnLecture(p)
        BY DEF EnLecture
      <3>3. /\ file'[p] = file[p] /\ fifo_tail'[p] = fifo_tail[p]
            /\ fifo_head'[p] = fifo_head[p] /\ ChaineDe(p)
        BY <1>1, <2>1 DEF ChaineInv, TypeOK
      <3> QED BY <3>1, <3>2, <3>3, ChaineStable
    <2>2. ChaineDe(q)'
      <3>1. fifo_tail'[q] = f /\ prev'[f] = fifo_tail[q] /\ ecrit'[f] = "lier"
            /\ \A g \in Frags \ {f} : prev'[g] = prev[g] /\ ecrit'[g] = ecrit[g]
        BY <1>0 DEF TypeOK
      <3>2. ChaineDe(q) /\ (s = <<>> <=> n = 0)
        BY <1>0 DEF ChaineInv
      <3>3. fifo_head'[q] = IF EnLecture(q)' \/ ecrit'[file'[q][1]] = "lier" THEN FREE
                            ELSE file'[q][1]
        <4>1. CASE n = 0
          BY <1>0, <1>1, <3>1, <3>2, <4>1 DEF ChaineDe
        <4>2. CASE n # 0
          <5>1. file'[q][1] = s[1] /\ ecrit'[s[1]] = ecrit[s[1]]
            BY <1>0, <1>1, <3>1, <4>2
          <5> QED BY <3>2, <4>2, <5>1 DEF ChaineDe, EnLecture
        <4> QED BY <4>1, <4>2
      <3>4. ASSUME NEW k \in 1 .. n + 1
            PROVE  /\ next'[file'[q][k]] = Suivant(file[q], k)'
                   /\ ecrit'[file'[q][k]] = "lier" =>
                        prev'[file'[q][k]] = Precedent(file[q], k)'
        <4>1. CASE k = n + 1
          <5>1. next'[file'[q][k]] = FREE /\ Suivant(file[q], k)' = FREE
            BY <1>0, <1>1, <4>1 DEF Suivant
          <5>2. prev'[f] = Precedent(file[q], k)'
            BY <1>0, <1>1, <3>1, <3>2, <4>1 DEF Precedent, ChaineDe
          <5> QED BY <1>1, <4>1, <5>1, <5>2
        <4>2. CASE k \in 1 .. n
          <5>1. /\ file'[q][k] = s[k] /\ s[k] \in Frags \ {f}
                /\ k - 1 \in 1 .. n \/ k = 1
            BY <1>0, <1>1, <4>2
          <5>2. Precedent(file[q], k)' = Precedent(s, k)
            BY <1>0, <1>1, <4>2, <5>1 DEF Precedent
          <5>3. Suivant(file[q], k)' = Suivant(s, k)
            <6>1. CASE k = n
              BY <1>0, <1>1, <3>1, <6>1 DEF Suivant
            <6>2. CASE k # n
              BY <1>0, <1>1, <3>1, <4>2, <6>2 DEF Suivant
            <6> QED BY <6>1, <6>2
          <5>4. next'[s[k]] = next[s[k]]
            BY DEF Swap
          <5> QED BY <3>1, <3>2, <4>2, <5>1, <5>2, <5>3, <5>4 DEF ChaineDe
        <4> QED BY <1>0, <4>1, <4>2
      <3>5. file'[q] # <<>> /\ fifo_tail'[q] = file'[q][Len(file'[q])]
        BY <1>0, <1>1, <3>1
      <3> QED BY <1>1, <3>3, <3>4, <3>5 DEF ChaineDe
    <2> QED BY <2>1, <2>2 DEF ChaineInv
  <1>5. EcritInv'
    BY <1>0, FifoAssumption DEF EcritInv, TypeOK
  <1>6. LecteurInv'
    <2>1. ASSUME NEW p \in Procs, pc[p] \in {"vider", "tester", "cas", "avancer"}
          PROVE  file'[p] # <<>> /\ value[p] = file'[p][1] /\ ecrit'[value[p]] = "non"
      <3>1. file[p] # <<>> /\ value[p] = file[p][1] /\ ecrit[value[p]] = "non"
        BY <2>1 DEF LecteurInv
      <3>2. file[p] \in Seq(Frags) /\ Len(file[p]) >= 1 /\ value[p] # f
        BY <1>0, <3>1 DEF TypeOK
      <3>3. file'[p] # <<>> /\ file'[p][1] = file[p][1]
        BY <1>0, <1>1, <3>2
      <3> QED BY <3>1, <3>2, <3>3 DEF TypeOK
    <2>2. ASSUME NEW p \in Procs, pc[p] = "traiter"
          PROVE  tenu'[value[p]] = p /\ ecrit'[value[p]] = "non" /\ value[p] # f
      BY <1>0, <2>2 DEF LecteurInv, TypeOK
    <2>3. ASSUME NEW p \in Procs, pc[p] = "rendre"
          PROVE  ecrit'[value[p]] \in {"swap", "lier"}
      BY <1>0, <2>3 DEF LecteurInv, TypeOK
    <2> QED BY <2>1, <2>2, <2>3 DEF LecteurInv
  <1> QED BY <1>2, <1>3, <1>4, <1>5, <1>6

(* and it is linked from the one before it, or from the head.               *)
LEMMA ChainerEffet ==
    ASSUME Inv, NEW f \in Frags, Chainer(f),
           \A p \in Procs : EnLecture(p)' <=> EnLecture(p)
    PROVE  /\ fifo_head' \in [Procs -> Valeurs] /\ next' \in [Frags -> Valeurs]
           /\ ecrit' = [ecrit EXCEPT ![f] = "non"] /\ ecrit[f] = "lier"
           /\ FilesInv' /\ ChaineInv' /\ EcritInv'
  <1> USE DEF Inv, Chainer, varsHistoire
  <1> DEFINE q == dest[f]
             s == file[q]
             n == Len(s)
  <1>0. /\ q \in Procs /\ s \in Seq(Frags) /\ n \in Nat /\ ecrit[f] = "lier" /\ tenu[f] = Fifo
        /\ ecrit' = [ecrit EXCEPT ![f] = "non"] /\ ecrit'[f] = "non"
        /\ \A g \in Frags \ {f} : ecrit'[g] = ecrit[g]
        /\ UNCHANGED <<fifo_tail, complete, dest, prev, file, tenu>>
    BY DEF EcritInv, TypeOK
  <1>1. PICK k \in 1 .. n : s[k] = f
    BY <1>0 DEF FilesInv
  <1>2. /\ ChaineDe(q) /\ prev[f] = Precedent(s, k)
        /\ \A j \in 1 .. n : s[j] \in Frags /\ (s[j] = f => j = k)
    BY <1>0, <1>1 DEF ChaineInv, ChaineDe, FilesInv
  <1>3. FilesInv'
    BY <1>0 DEF FilesInv
  <1>4. ASSUME NEW p \in Procs \ {q}, fifo_head'[p] = fifo_head[p],
               \A g \in Frags : tenu[g] = Fifo /\ dest[g] # q => next'[g] = next[g]
        PROVE  ChaineDe(p)'
    <2>1. \A j \in 1 .. Len(file[p]) :
            LET g == file[p][j] IN
            next'[g] = next[g] /\ ecrit'[g] = ecrit[g] /\ prev'[g] = prev[g]
      <3> SUFFICES ASSUME NEW j \in 1 .. Len(file[p])
                   PROVE  LET g == file[p][j] IN
                          next'[g] = next[g] /\ ecrit'[g] = ecrit[g] /\ prev'[g] = prev[g]
        OBVIOUS
      <3>1. file[p] \in Seq(Frags)
        BY DEF TypeOK
      <3>2. file[p][j] \in Frags /\ tenu[file[p][j]] = Fifo /\ dest[file[p][j]] = p
        BY <3>1 DEF FilesInv
      <3> QED BY <1>0, <1>4, <3>2
    <2>2. file'[p] = file[p] /\ fifo_tail'[p] = fifo_tail[p] /\ ChaineDe(p)
      BY <1>0 DEF ChaineInv
    <2> QED BY <1>4, <2>1, <2>2, ChaineStable
  <1>5. CASE k = 1
    <2>1. prev[f] = FREE /\ fifo_head' = [fifo_head EXCEPT ![q] = f] /\ next' = next
      BY <1>2, <1>5 DEF Precedent
    <2>2. fifo_head' \in [Procs -> Valeurs] /\ next' \in [Frags -> Valeurs]
      BY <1>0, <2>1 DEF TypeOK, Valeurs
    <2>3. ~ EnLecture(q)
      BY <1>0, <1>1, <1>5 DEF LecteurInv, EnLecture
    <2>4. ChaineDe(q)'
      <3>1. \A j \in 1 .. n : Suivant(s, j)' = Suivant(s, j) /\ Precedent(s, j)' = Precedent(s, j)
        BY <1>0, <1>1, <1>2, <1>5 DEF Suivant, Precedent
      <3>2. fifo_head'[q] = s[1] /\ s # <<>> /\ s[1] = f
        BY <1>0, <1>1, <1>5, <2>1 DEF TypeOK
      <3>3. \A j \in 1 .. n : ecrit'[s[j]] = "lier" => ecrit[s[j]] = "lier"
        BY <1>0, <1>2
      <3>4. fifo_tail'[q] = s[n] /\ dest'[f] = q /\ file'[q] = s
        BY <1>0, <1>2, <3>2 DEF ChaineDe
      <3> QED BY <1>0, <1>2, <2>1, <2>3, <3>1, <3>2, <3>3, <3>4 DEF ChaineDe
    <2>5. ChaineInv'
      BY <1>0, <1>4, <2>1, <2>4 DEF ChaineInv, TypeOK
    <2>6. EcritInv'
      BY <1>0, <2>1 DEF EcritInv, TypeOK
    <2> QED BY <1>0, <1>3, <2>2, <2>5, <2>6
  <1>6. CASE k # 1
    <2>1. /\ k - 1 \in 1 .. n /\ prev[f] = s[k - 1] /\ s[k - 1] \in Frags
          /\ tenu[s[k - 1]] = Fifo /\ dest[s[k - 1]] = q
      BY <1>0, <1>1, <1>2, <1>6 DEF Precedent, FilesInv
    <2>2. fifo_head' = fifo_head /\ next' = [next EXCEPT ![s[k - 1]] = f]
      BY <2>1, FREEAssumption
    <2>3. fifo_head' \in [Procs -> Valeurs] /\ next' \in [Frags -> Valeurs]
      BY <2>1, <2>2 DEF TypeOK, Valeurs
    <2>4. ChaineDe(q)'
      <3>1. ASSUME NEW j \in 1 .. n
            PROVE  next'[s[j]] = Suivant(s, j)'
        <4>1. CASE j = k - 1
          BY <1>0, <1>1, <2>1, <2>2, <4>1 DEF Suivant, TypeOK
        <4>2. CASE j # k - 1
          <5>1. s[j] # s[k - 1]
            BY <1>0, <2>1, <4>2 DEF FilesInv
          <5>2. Suivant(s, j)' = Suivant(s, j)
            BY <1>0, <1>1, <1>2, <4>2 DEF Suivant
          <5> QED BY <1>2, <2>1, <2>2, <5>1, <5>2 DEF ChaineDe, TypeOK
        <4> QED BY <4>1, <4>2
      <3>2. \A j \in 1 .. n : /\ ecrit'[s[j]] = "lier" => ecrit[s[j]] = "lier"
                              /\ Precedent(s, j)' = Precedent(s, j)
        BY <1>0, <1>2 DEF Precedent
      <3>3. s # <<>> /\ s[1] # f /\ s[1] \in Frags
        BY <1>0, <1>1, <1>2, <1>6
      <3>4. dest'[f] = q /\ file'[q] = s /\ fifo_tail'[q] = fifo_tail[q]
            /\ fifo_head'[q] = fifo_head[q] /\ ecrit'[s[1]] = ecrit[s[1]]
        BY <1>0, <2>2, <3>3
      <3> QED BY <1>0, <1>2, <3>1, <3>2, <3>3, <3>4 DEF ChaineDe
    <2>5. ChaineInv'
      <3>1. \A g \in Frags : dest[g] # q => next'[g] = next[g]
        <4>1. next \in [Frags -> Valeurs]
          BY DEF TypeOK
        <4> HIDE DEF s, q
        <4> QED BY <2>1, <2>2, <4>1
      <3>2. \A r \in Procs \ {q} : ChaineDe(r)'
        BY <1>4, <2>2, <3>1
      <3> QED BY <2>4, <3>2 DEF ChaineInv
    <2>6. EcritInv'
      BY <1>0, <2>1, <2>2, FifoAssumption DEF EcritInv, TypeOK
    <2> QED BY <1>0, <1>3, <2>3, <2>5, <2>6
  <1> QED BY <1>5, <1>6

LEMMA FinirEnvoiInv ==
    ASSUME Inv, NEW f \in Frags, FinirEnvoi(f)
    PROVE  Inv'
  <1> USE DEF Inv, FinirEnvoi, Chainer, varsLecteur, varsHistoire
  <1>1. /\ fifo_head' \in [Procs -> Valeurs] /\ next' \in [Frags -> Valeurs]
        /\ ecrit' = [ecrit EXCEPT ![f] = "non"] /\ ecrit[f] = "lier"
        /\ FilesInv' /\ ChaineInv' /\ EcritInv'
    BY ChainerEffet DEF EnLecture
  <1>2. TypeOK'
    BY <1>1 DEF TypeOK
  <1>3. LecteurInv'
    BY <1>1 DEF LecteurInv, TypeOK
  <1> QED BY <1>1, <1>2, <1>3

(* A complete fragment is written back by the thread that has read it.      *)
LEMMA FinirRetourInv ==
    ASSUME Inv, NEW p \in Procs, FinirRetour(p)
    PROVE  Inv'
  <1> USE DEF Inv
  <1> DEFINE f == value[p]
  <1>0. /\ f \in Frags /\ Chainer(f) /\ pc[p] = "rendre"
        /\ value' = [value EXCEPT ![p] = FREE] /\ pc' = [pc EXCEPT ![p] = "repos"]
        /\ UNCHANGED <<fifo_tail, complete, dest, prev, file, tenu>>
    BY DEF FinirRetour, Chainer, Aller, varsHistoire, TypeOK, Valeurs
  <1>1. /\ fifo_head' \in [Procs -> Valeurs] /\ next' \in [Frags -> Valeurs]
        /\ ecrit' = [ecrit EXCEPT ![f] = "non"] /\ ecrit[f] = "lier"
        /\ FilesInv' /\ ChaineInv' /\ EcritInv'
    <2>1. \A r \in Procs : EnLecture(r)' <=> EnLecture(r)
      BY <1>0 DEF EnLecture, TypeOK
    <2> QED BY <1>0, <2>1, ChainerEffet
  <1>2. TypeOK'
    BY <1>0, <1>1 DEF TypeOK, Valeurs
  <1>3. LecteurInv'
    BY <1>0, <1>1 DEF LecteurInv, TypeOK
  <1> QED BY <1>1, <1>2, <1>3

-----------------------------------------------------------------------------
(* The reader.  A head that is not FREE is the first of the queue, linked.  *)
LEMMA LireTeteInv ==
    ASSUME Inv, NEW p \in Procs, LireTete(p)
    PROVE  Inv'
  <1> USE DEF Inv, varsFrag, varsHistoire
  <1> DEFINE s == file[p]
  <1>0. /\ pc[p] = "repos" /\ fifo_head[p] # FREE
        /\ value' = [value EXCEPT ![p] = fifo_head[p]] /\ pc' = [pc EXCEPT ![p] = "vider"]
        /\ UNCHANGED <<fifo_head, fifo_tail, next, complete, dest, prev, ecrit, file, tenu>>
    BY DEF LireTete, Aller
  <1>1. /\ s \in Seq(Frags) /\ s # <<>> /\ fifo_head[p] = s[1] /\ ecrit[s[1]] # "lier"
        /\ s[1] \in Frags /\ ecrit[s[1]] = "non" /\ fifo_head[p] \in Valeurs
    <2>1. s \in Seq(Frags) /\ s # <<>> /\ fifo_head[p] = s[1] /\ ecrit[s[1]] # "lier"
      BY <1>0 DEF ChaineInv, ChaineDe, TypeOK
    <2>2. s[1] \in Frags /\ tenu[s[1]] = Fifo
      BY <2>1 DEF FilesInv
    <2> QED BY <2>1, <2>2, FifoAssumption DEF EcritInv, TypeOK
  <1>2. TypeOK'
    BY <1>0, <1>1, FREEAssumption DEF TypeOK, Valeurs
  <1>3. FilesInv' /\ EcritInv'
    BY <1>0 DEF FilesInv, EcritInv
  <1>4. ChaineInv'
    <2>1. \A r \in Procs : EnLecture(r)' <=> EnLecture(r)
      BY <1>0 DEF EnLecture, TypeOK
    <2> QED BY <1>0, <2>1, ChaineStable DEF ChaineInv
  <1>5. LecteurInv'
    BY <1>0, <1>1 DEF LecteurInv, TypeOK
  <1> QED BY <1>2, <1>3, <1>4, <1>5

(* From there on the head is FREE until the fragment has left the queue.    *)
LEMMA ViderTeteInv ==
    ASSUME Inv, NEW p \in Procs, ViderTete(p)
    PROVE  Inv'
  <1> USE DEF Inv, varsFrag, varsHistoire
  <1>0. /\ pc[p] = "vider" /\ pc' = [pc EXCEPT ![p] = "tester"]
        /\ fifo_head' = [fifo_head EXCEPT ![p] = FREE]
        /\ UNCHANGED <<fifo_tail, next, value, complete, dest, prev, ecrit, file, tenu>>
    BY DEF ViderTete, Aller
  <1>1. TypeOK'
    BY <1>0 DEF TypeOK, Valeurs
  <1>2. FilesInv' /\ EcritInv'
    BY <1>0 DEF FilesInv, EcritInv
  <1>3. ChaineInv'
    <2>1. ASSUME NEW r \in Procs, r # p
          PROVE  ChaineDe(r)'
      <3>1. (EnLecture(r)' <=> EnLecture(r)) /\ fifo_head'[r] = fifo_head[r]
        BY <1>0, <2>1 DEF EnLecture, TypeOK
      <3> QED BY <1>0, <3>1, ChaineStable DEF ChaineInv
    <2>2. ChaineDe(p)'
      <3>1. EnLecture(p)' /\ fifo_head'[p] = FREE /\ ChaineDe(p)
        BY <1>0 DEF EnLecture, TypeOK, ChaineInv
      <3> QED BY <1>0, <3>1 DEF ChaineDe, Suivant, Precedent
    <2> QED BY <2>1, <2>2 DEF ChaineInv
  <1>4. LecteurInv'
    BY <1>0 DEF LecteurInv, TypeOK
  <1> QED BY <1>1, <1>2, <1>3, <1>4

(* The test of next, and the failed swap of the tail, only choose a path.   *)
LEMMA ChoisirInv ==
    ASSUME Inv, NEW p \in Procs, pc[p] \in {"tester", "cas"},
           NEW l \in {"cas", "avancer"}, Aller(p, l),
           UNCHANGED <<fifo_head, fifo_tail, next, varsFrag, value, varsHistoire>>
    PROVE  Inv'
  <1> USE DEF Inv, varsFrag, varsHistoire
  <1>0. pc' = [pc EXCEPT ![p] = l] /\ \A r \in Procs : EnLecture(r)' <=> EnLecture(r)
    BY DEF EnLecture, TypeOK, Aller
  <1>1. TypeOK'
    BY <1>0 DEF TypeOK
  <1>2. FilesInv' /\ EcritInv'
    BY DEF FilesInv, EcritInv
  <1>3. ChaineInv'
    BY <1>0, ChaineStable DEF ChaineInv
  <1>4. LecteurInv'
    BY <1>0 DEF LecteurInv, TypeOK
  <1> QED BY <1>1, <1>2, <1>3, <1>4

(* The first fragment leaves the queue for the reader's hands.              *)
LEMMA PrendreEffet ==
    ASSUME Inv, NEW p \in Procs, pc[p] \in {"cas", "avancer"},
           Prendre(p), Aller(p, "traiter"), UNCHANGED <<next, varsFrag, value>>
    PROVE  /\ file' \in [Procs -> Seq(Frags)] /\ tenu' \in [Frags -> Procs \cup {Fifo}]
           /\ pc' = [pc EXCEPT ![p] = "traiter"]
           /\ file[p] \in Seq(Frags) /\ file[p] # <<>> /\ value[p] = file[p][1]
           /\ value[p] \in Frags
           /\ file'[p] = SansPremier(file[p])
           /\ \A r \in Procs \ {p} : file'[r] = file[r]
           /\ FilesInv' /\ EcritInv' /\ LecteurInv'
  <1> USE DEF Inv, varsFrag, Aller
  <1> DEFINE s == file[p]
             n == Len(s)
             v == value[p]
  <1>1. /\ s \in Seq(Frags) /\ s # <<>> /\ v = s[1] /\ n \in Nat \ {0} /\ ecrit[v] = "non"
        /\ v \in Frags /\ tenu[v] = Fifo /\ dest[v] = p
    <2>1. s \in Seq(Frags) /\ s # <<>> /\ v = s[1] /\ n \in Nat \ {0} /\ ecrit[v] = "non"
      BY DEF LecteurInv, TypeOK
    <2> QED BY <2>1 DEF FilesInv
  <1>2. /\ file'[p] = SansPremier(s) /\ file'[p] \in Seq(Frags) /\ Len(file'[p]) = n - 1
        /\ \A k \in 1 .. n - 1 : file'[p][k] = s[k + 1]
        /\ \A r \in Procs \ {p} : file'[r] = file[r]
        /\ tenu' = [tenu EXCEPT ![v] = p] /\ pc' = [pc EXCEPT ![p] = "traiter"]
    BY <1>1, SansPremierProprietes DEF Prendre, TypeOK
  <1>7. /\ n \in Nat /\ Len(file'[p]) = n - 1
        /\ \A k \in 1 .. n - 1 : file'[p][k] = s[k + 1]
    BY <1>1, <1>2
  <1>3. file' \in [Procs -> Seq(Frags)] /\ tenu' \in [Frags -> Procs \cup {Fifo}]
    BY <1>1, <1>2 DEF Prendre, TypeOK
  <1>4. FilesInv'
    <2>1. ASSUME NEW r \in Procs, NEW k \in 1 .. Len(file'[r])
          PROVE  tenu'[file'[r][k]] = Fifo /\ dest[file'[r][k]] = r
      <3>1. CASE r = p
        <4>1. /\ k + 1 \in 1 .. n /\ file'[r][k] = s[k + 1] /\ s[k + 1] # v
              /\ s[k + 1] \in Frags
          BY <1>1, <1>2, <2>1, <3>1 DEF FilesInv
        <4>2. tenu[s[k + 1]] = Fifo /\ dest[s[k + 1]] = p
          BY <4>1 DEF FilesInv
        <4>3. tenu'[s[k + 1]] = tenu[s[k + 1]]
          BY <1>2, <4>1 DEF TypeOK
        <4> QED BY <3>1, <4>1, <4>2, <4>3
      <3>2. CASE r # p
        <4>1. file[r] \in Seq(Frags) /\ k \in 1 .. Len(file[r]) /\ file'[r][k] = file[r][k]
          BY <1>2, <2>1, <3>2 DEF TypeOK
        <4>2. file[r][k] \in Frags /\ tenu[file[r][k]] = Fifo /\ dest[file[r][k]] = r
          BY <4>1 DEF FilesInv
        <4>3. file[r][k] # v
          BY <1>1, <3>2, <4>2
        <4>4. tenu'[file[r][k]] = Fifo
          BY <1>2, <4>2, <4>3 DEF TypeOK
        <4> QED BY <4>1, <4>2, <4>4
      <3> QED BY <3>1, <3>2
    <2>2. \A r \in Procs : \A j, k \in 1 .. Len(file'[r]) : file'[r][j] = file'[r][k] => j = k
      <3>1. ASSUME NEW j \in 1 .. n - 1, NEW k \in 1 .. n - 1, file'[p][j] = file'[p][k]
            PROVE  j = k
        <4>1. s[j + 1] = s[k + 1] /\ j + 1 \in 1 .. n /\ k + 1 \in 1 .. n
          <5>1. file'[p][j] = s[j + 1] /\ file'[p][k] = s[k + 1]
            BY <1>7
          <5> HIDE DEF n, s
          <5>2. j + 1 \in 1 .. n /\ k + 1 \in 1 .. n
            BY <1>7
          <5> QED BY <3>1, <5>1, <5>2
        <4>2. j + 1 = k + 1
          BY <4>1 DEF FilesInv
        <4> QED BY <4>2
      <3>2. \A j, k \in 1 .. Len(file'[p]) : file'[p][j] = file'[p][k] => j = k
        BY <1>7, <3>1
      <3>3. \A r \in Procs \ {p} : file'[r] = file[r]
        BY <1>2
      <3> QED BY <3>2, <3>3 DEF FilesInv
    <2>3. ASSUME NEW g \in Frags, tenu'[g] = Fifo
          PROVE  \E k \in 1 .. Len(file'[dest[g]]) : file'[dest[g]][k] = g
      <3>1. tenu[g] = Fifo /\ g # v /\ dest[g] \in Procs
        BY <1>1, <1>2, <2>3, FifoAssumption DEF TypeOK
      <3>2. PICK k \in 1 .. Len(file[dest[g]]) : file[dest[g]][k] = g
        BY <3>1 DEF FilesInv
      <3>3. CASE dest[g] = p
        <4>1. k - 1 \in 1 .. n - 1 /\ file'[p][k - 1] = g
          BY <1>1, <1>2, <3>1, <3>2, <3>3
        <4> QED BY <1>2, <3>3, <4>1
      <3>4. CASE dest[g] # p
        BY <1>2, <3>1, <3>2, <3>4
      <3> QED BY <3>3, <3>4
    <2> QED BY <2>1, <2>2, <2>3 DEF FilesInv
  <1>5. EcritInv'
    BY <1>1, <1>2, FifoAssumption DEF EcritInv, TypeOK
  <1>6. LecteurInv'
    <2>1. v \notin complete => Owner[v] # p
      BY <1>1 DEF EcritInv
    <2>2. \A r \in Procs \ {p} : pc[r] = "traiter" => value[r] # v
      BY <1>1, FifoAssumption DEF LecteurInv
    <2> QED BY <1>1, <1>2, <2>1, <2>2 DEF LecteurInv, TypeOK
  <1> QED BY <1>1, <1>2, <1>3, <1>4, <1>5, <1>6

LEMMA TesterSuivantInv ==
    ASSUME Inv, NEW p \in Procs, TesterSuivant(p)
    PROVE  Inv'
  <1>1. CASE next[value[p]] = FREE
    BY <1>1, ChoisirInv DEF TesterSuivant
  <1>2. CASE next[value[p]] # FREE
    BY <1>2, ChoisirInv DEF TesterSuivant
  <1> QED BY <1>1, <1>2

(* The pointers of the other fifos when p takes its first fragment.         *)
LEMMA PrendreAutres ==
    ASSUME Inv, NEW p \in Procs, NEW r \in Procs \ {p},
           pc' = [pc EXCEPT ![p] = "traiter"], file'[r] = file[r],
           fifo_head'[r] = fifo_head[r], fifo_tail'[r] = fifo_tail[r],
           UNCHANGED <<next, prev, ecrit>>
    PROVE  ChaineDe(r)'
  <1>1. EnLecture(r)' <=> EnLecture(r)
    BY DEF EnLecture, Inv, TypeOK
  <1> QED BY <1>1, ChaineStable DEF Inv, ChaineInv

(* The swap succeeds only on a queue of one fragment: it is the last as     *)
(* well as the first, and is there once.                                    *)
LEMMA CasInv ==
    ASSUME Inv, NEW p \in Procs, Cas(p)
    PROVE  Inv'
  <1> USE DEF Inv
  <1>1. CASE fifo_tail[p] # value[p]
    <2>1. /\ pc[p] = "cas" /\ Aller(p, "avancer")
          /\ UNCHANGED <<fifo_head, fifo_tail, next, varsFrag, value, varsHistoire>>
      BY <1>1 DEF Cas
    <2> QED BY <2>1, ChoisirInv
  <1>2. CASE fifo_tail[p] = value[p]
    <2>1. /\ pc[p] = "cas" /\ fifo_tail' = [fifo_tail EXCEPT ![p] = FREE]
          /\ Prendre(p) /\ Aller(p, "traiter")
          /\ UNCHANGED <<fifo_head, next, varsFrag, value>>
          /\ UNCHANGED <<complete, dest, prev, ecrit>>
      BY <1>2 DEF Cas, varsFrag
    <2>2. /\ file' \in [Procs -> Seq(Frags)] /\ tenu' \in [Frags -> Procs \cup {Fifo}]
          /\ pc' = [pc EXCEPT ![p] = "traiter"]
          /\ file[p] \in Seq(Frags) /\ file[p] # <<>> /\ value[p] = file[p][1]
          /\ value[p] \in Frags
          /\ file'[p] = SansPremier(file[p])
          /\ \A r \in Procs \ {p} : file'[r] = file[r]
          /\ FilesInv' /\ EcritInv' /\ LecteurInv'
      BY <2>1, PrendreEffet
    <2>3. Len(file[p]) = 1
      <3>1. Len(file[p]) \in Nat \ {0} /\ 1 \in 1 .. Len(file[p])
        BY <2>2
      <3>2. file[p][1] = file[p][Len(file[p])]
        BY <1>2, <2>2 DEF ChaineInv, ChaineDe
      <3>3. \A j, k \in 1 .. Len(file[p]) : file[p][j] = file[p][k] => j = k
        BY DEF FilesInv
      <3>4. Len(file[p]) \in 1 .. Len(file[p])
        BY <3>1
      <3> QED BY <3>1, <3>2, <3>3, <3>4
    <2>4. file'[p] = <<>> /\ Len(file'[p]) = 0
      <3>1. /\ SansPremier(file[p]) \in Seq(Frags)
            /\ Len(SansPremier(file[p])) = Len(file[p]) - 1
        BY <2>2, SansPremierProprietes
      <3>2. file'[p] \in Seq(Frags) /\ Len(file'[p]) = 0
        BY <2>2, <2>3, <3>1
      <3> QED BY <3>2
    <2>5. TypeOK'
      BY <2>1, <2>2, FREEAssumption DEF TypeOK, Valeurs
    <2>6. ChaineInv'
      <3>1. ASSUME NEW r \in Procs, r # p
            PROVE  ChaineDe(r)'
        BY <2>1, <2>2, <3>1, PrendreAutres DEF TypeOK
      <3>2. fifo_head'[p] = FREE /\ fifo_tail'[p] = FREE
        <4>1. EnLecture(p)
          BY <2>1 DEF EnLecture
        <4> QED BY <2>1, <4>1 DEF ChaineInv, ChaineDe, TypeOK
      <3>3. ChaineDe(p)'
        BY <2>4, <3>2 DEF ChaineDe
      <3> QED BY <3>1, <3>3 DEF ChaineInv
    <2> QED BY <2>2, <2>5, <2>6
  <1> QED BY <1>1, <1>2

(* A next that is not FREE is the second fragment, linked: the new head.    *)
LEMMA AvancerInv ==
    ASSUME Inv, NEW p \in Procs, Avancer(p)
    PROVE  Inv'
  <1> USE DEF Inv
  <1> DEFINE s == file[p]
             n == Len(s)
  <1>1. /\ pc[p] = "avancer" /\ next[value[p]] # FREE
        /\ fifo_head' = [fifo_head EXCEPT ![p] = next[value[p]]]
        /\ Prendre(p) /\ Aller(p, "traiter")
        /\ UNCHANGED <<fifo_tail, next, varsFrag, value>>
        /\ UNCHANGED <<complete, dest, prev, ecrit>>
    BY DEF Avancer, varsFrag
  <1>2. /\ file' \in [Procs -> Seq(Frags)] /\ tenu' \in [Frags -> Procs \cup {Fifo}]
        /\ pc' = [pc EXCEPT ![p] = "traiter"]
        /\ s \in Seq(Frags) /\ s # <<>> /\ value[p] = s[1] /\ value[p] \in Frags
        /\ file'[p] = SansPremier(s)
        /\ \A r \in Procs \ {p} : file'[r] = file[r]
        /\ FilesInv' /\ EcritInv' /\ LecteurInv'
    BY <1>1, PrendreEffet
  <1>3. /\ n \in Nat \ {0} /\ Len(file'[p]) = n - 1 /\ file'[p] \in Seq(Frags)
        /\ \A k \in 1 .. n - 1 : file'[p][k] = s[k + 1]
    BY <1>2, SansPremierProprietes
  <1>4. ChaineDe(p)
    BY DEF ChaineInv
  <1>5. n > 1 /\ ecrit[s[2]] # "lier" /\ next[s[1]] = s[2] /\ s[2] \in Frags
    <2>1. n \in Nat \ {0} /\ 1 \in 1 .. n /\ (n # 1 => n > 1 /\ 2 \in 1 .. n) /\ 1 + 1 = 2
      <3> HIDE DEF n
      <3> QED BY <1>3
    <2>2. next[s[1]] = Suivant(s, 1) /\ next[s[1]] # FREE
      BY <1>1, <1>2, <1>4, <2>1 DEF ChaineDe
    <2>3. n # 1 /\ ecrit[s[2]] # "lier" /\ next[s[1]] = s[2]
      BY <2>1, <2>2, Zenon DEF Suivant
    <2> QED BY <1>2, <1>3, <2>1, <2>3
  <1>6. TypeOK'
    BY <1>1, <1>2, FREEAssumption DEF TypeOK, Valeurs
  <1>7. ChaineDe(p)'
    <2>1. fifo_tail'[p] = file'[p][Len(file'[p])] /\ file'[p] # <<>>
      <3>1. fifo_tail[p] = s[n]
        BY <1>2, <1>4 DEF ChaineDe
      <3> QED BY <1>1, <1>3, <1>5, <3>1
    <2>2. fifo_head'[p] = file'[p][1] /\ ecrit'[file'[p][1]] # "lier"
      <3>1. file'[p][1] = s[2]
        BY <1>3, <1>5
      <3>2. fifo_head'[p] = s[2]
        BY <1>1, <1>2, <1>5 DEF TypeOK
      <3> QED BY <1>1, <1>5, <3>1, <3>2
    <2>3. ~ EnLecture(p)'
      BY <1>2 DEF EnLecture, TypeOK
    <2>4. ASSUME NEW k \in 1 .. n - 1
          PROVE  /\ next'[file'[p][k]] = Suivant(file[p], k)'
                 /\ ecrit'[file'[p][k]] = "lier" =>
                      prev'[file'[p][k]] = Precedent(file[p], k)'
      <3>1. k + 1 \in 1 .. n /\ file'[p][k] = s[k + 1] /\ k \in Int
        BY <1>3
      <3>2. /\ next[s[k + 1]] = Suivant(s, k + 1)
            /\ ecrit[s[k + 1]] = "lier" => prev[s[k + 1]] = Precedent(s, k + 1)
        BY <1>4, <3>1 DEF ChaineDe
      <3>3. Suivant(file[p], k)' = Suivant(s, k + 1)
        <4>1. CASE k = n - 1
          BY <1>3, <4>1 DEF Suivant
        <4>2. CASE k # n - 1
          <5>1. n \in Nat
            BY <1>3
          <5>2. k + 1 \in 1 .. n - 1
            BY <3>1, <4>2, <5>1
          <5>3. file'[p][k + 1] = s[k + 1 + 1]
            BY <1>3, <5>2
          <5> QED BY <1>1, <1>3, <4>2, <5>2, <5>3 DEF Suivant
        <4> QED BY <4>1, <4>2
      <3>4. ecrit[s[k + 1]] = "lier" => Precedent(file[p], k)' = Precedent(s, k + 1)
        <4>1. CASE k = 1
          BY <1>5, <4>1
        <4>2. CASE k # 1
          <5>1. k - 1 \in 1 .. n - 1 /\ file'[p][k - 1] = s[k]
            BY <1>3, <4>2
          <5> QED BY <3>1, <4>2, <5>1 DEF Precedent
        <4> QED BY <4>1, <4>2
      <3> QED BY <1>1, <3>1, <3>2, <3>3, <3>4
    <2> QED BY <1>3, <2>1, <2>2, <2>3, <2>4 DEF ChaineDe
  <1>8. ChaineInv'
    <2>1. ASSUME NEW r \in Procs, r # p
          PROVE  ChaineDe(r)'
      BY <1>1, <1>2, <2>1, PrendreAutres DEF TypeOK
    <2> QED BY <1>7, <2>1 DEF ChaineInv
  <1> QED BY <1>2, <1>6, <1>8

(* A complete fragment is in its owner's free list again.                   *)
LEMMA CompleterInv ==
    ASSUME Inv, NEW p \in Procs, Completer(p)
    PROVE  Inv'
  <1> USE DEF Inv, varsFrag, varsHistoire
  <1>0. /\ pc[p] = "traiter" /\ pc' = [pc EXCEPT ![p] = "repos"]
        /\ value' = [value EXCEPT ![p] = FREE]
        /\ UNCHANGED <<fifo_head, fifo_tail, next, complete, dest, prev, ecrit, file, tenu>>
    BY DEF Completer, Aller
  <1>1. TypeOK'
    BY <1>0 DEF TypeOK, Valeurs
  <1>2. FilesInv' /\ EcritInv'
    BY <1>0 DEF FilesInv, EcritInv
  <1>3. ChaineInv'
    <2>1. \A r \in Procs : EnLecture(r)' <=> EnLecture(r)
      BY <1>0 DEF EnLecture, TypeOK
    <2> QED BY <1>0, <2>1, ChaineStable DEF ChaineInv
  <1>4. LecteurInv'
    BY <1>0 DEF LecteurInv, TypeOK
  <1> QED BY <1>1, <1>2, <1>3, <1>4

(* A fragment given back is in no queue, and one reader alone has it.       *)
LEMMA RendreInv ==
    ASSUME Inv, NEW p \in Procs, Rendre(p)
    PROVE  Inv'
  <1> USE DEF Inv, varsHistoire
  <1> DEFINE v == value[p]
  <1>0. /\ pc[p] = "traiter" /\ pc' = [pc EXCEPT ![p] = "rendre"] /\ v \notin complete
        /\ complete' = complete \cup {v} /\ next' = [next EXCEPT ![v] = FREE]
        /\ dest' = [dest EXCEPT ![v] = Owner[v]] /\ ecrit' = [ecrit EXCEPT ![v] = "swap"]
        /\ UNCHANGED <<fifo_head, fifo_tail, prev, value, file, tenu>>
    BY DEF Rendre, Aller
  <1>1. /\ v \in Frags /\ tenu[v] = p /\ p # Fifo /\ ecrit[v] = "non"
        /\ Owner[v] \in Procs \ {p}
    <2>1. v \in Frags
      BY <1>0 DEF TypeOK, Valeurs
    <2>2. tenu[v] = p /\ ecrit[v] = "non" /\ Owner[v] # p
      BY <1>0 DEF LecteurInv
    <2> QED BY <2>1, <2>2, OwnerAssumption, FifoAssumption
  <1>2. \A r \in Procs : \A k \in 1 .. Len(file[r]) : file[r][k] # v /\ file[r][k] \in Frags
    <2>1. \A r \in Procs : file[r] \in Seq(Frags)
      BY DEF TypeOK
    <2> QED BY <1>1, <2>1 DEF FilesInv
  <1>3. TypeOK'
    BY <1>0, <1>1 DEF TypeOK, Valeurs
  <1>4. FilesInv'
    <2>1. ASSUME NEW r \in Procs, NEW k \in 1 .. Len(file[r])
          PROVE  tenu[file[r][k]] = Fifo /\ dest'[file[r][k]] = r
      <3>1. tenu[file[r][k]] = Fifo /\ dest[file[r][k]] = r
        BY DEF FilesInv
      <3> QED BY <1>0, <1>2, <3>1 DEF TypeOK
    <2>2. ASSUME NEW g \in Frags, tenu[g] = Fifo
          PROVE  \E k \in 1 .. Len(file[dest'[g]]) : file[dest'[g]][k] = g
      <3>1. dest'[g] = dest[g]
        BY <1>0, <1>1, <2>2 DEF TypeOK
      <3> QED BY <2>2, <3>1 DEF FilesInv
    <2> QED BY <1>0, <2>1, <2>2 DEF FilesInv
  <1>5. ChaineInv'
    <2>1. ASSUME NEW r \in Procs
          PROVE  ChaineDe(r)'
      <3>1. EnLecture(r)' <=> EnLecture(r)
        BY <1>0 DEF EnLecture, TypeOK
      <3>2. \A k \in 1 .. Len(file[r]) :
              LET g == file[r][k] IN
              next'[g] = next[g] /\ ecrit'[g] = ecrit[g] /\ prev'[g] = prev[g]
        BY <1>0, <1>2 DEF TypeOK
      <3> QED BY <1>0, <3>1, <3>2, ChaineStable DEF ChaineInv
    <2> QED BY <2>1 DEF ChaineInv
  <1>6. EcritInv'
    BY <1>0, <1>1 DEF EcritInv, TypeOK
  <1>7. LecteurInv'
    <2>1. ASSUME NEW r \in Procs, pc[r] \in {"vider", "tester", "cas", "avancer"}
          PROVE  value[r] # v /\ value[r] \in Frags
      <3>1. file[r] \in Seq(Frags) /\ file[r] # <<>> /\ value[r] = file[r][1]
        BY <2>1 DEF LecteurInv, TypeOK
      <3> QED BY <1>2, <3>1
    <2>2. \A r \in Procs \ {p} : pc[r] = "traiter" => value[r] # v
      BY <1>1 DEF LecteurInv
    <2>3. \A r \in Procs : pc[r] = "rendre" => value[r] # v
      BY <1>1 DEF LecteurInv
    <2>4. ASSUME NEW r \in Procs, pc'[r] \in {"vider", "tester", "cas", "avancer"}
          PROVE  file[r] # <<>> /\ value[r] = file[r][1] /\ ecrit'[value[r]] = "non"
      <3>1. pc[r] = pc'[r]
        BY <1>0, <2>4 DEF TypeOK
      <3> QED BY <1>0, <2>1, <2>4, <3>1 DEF LecteurInv, TypeOK
    <2>5. ASSUME NEW r \in Procs, pc'[r] = "traiter"
          PROVE  /\ tenu[value[r]] = r /\ ecrit'[value[r]] = "non"
                 /\ value[r] \notin complete' => Owner[value[r]] # r
      BY <1>0, <2>2, <2>5 DEF LecteurInv, TypeOK
    <2>6. ASSUME NEW r \in Procs, pc'[r] = "rendre"
          PROVE  /\ value[r] \in complete' /\ ecrit'[value[r]] \in {"swap", "lier"}
                 /\ \A q \in Procs : pc'[q] = "rendre" /\ value[q] = value[r] => r = q
      BY <1>0, <1>1, <2>3, <2>6 DEF LecteurInv, TypeOK
    <2> QED BY <1>0, <2>4, <2>5, <2>6 DEF LecteurInv
  <1> QED BY <1>3, <1>4, <1>5, <1>6, <1>7

-----------------------------------------------------------------------------
LEMMA StepInv == Inv /\ [Next]_vars => Inv'
  <1> SUFFICES ASSUME Inv, [Next]_vars PROVE Inv'
    OBVIOUS
  <1>1. ASSUME NEW p \in Procs, Lecteur(p)
        PROVE  Inv'
    BY <1>1, LireTeteInv, ViderTeteInv, TesterSuivantInv, CasInv, AvancerInv,
       CompleterInv, RendreInv, FinirRetourInv DEF Lecteur
  <1>2. ASSUME NEW f \in Frags, Ecrivain(f)
        PROVE  Inv'
    BY <1>2, SwapInv, FinirEnvoiInv DEF Ecrivain
  <1>3. ASSUME NEW f \in Frags, NEW q \in Procs, Envoyer(f, q)
        PROVE  Inv'
    BY <1>3, EnvoyerInv
  <1>4. CASE UNCHANGED vars
    <2>1. UNCHANGED <<fifo_head, fifo_tail, next, complete, dest, prev, ecrit, pc, value,
                      file, tenu>>
      BY <1>4 DEF vars, varsFrag, varsLecteur, varsHistoire
    <2>2. TypeOK' /\ FilesInv' /\ EcritInv' /\ LecteurInv'
      BY <2>1 DEF Inv, TypeOK, FilesInv, EcritInv, LecteurInv
    <2>3. ChaineInv'
      BY <2>1, ChaineStable DEF Inv, ChaineInv, EnLecture
    <2> QED BY <2>2, <2>3 DEF Inv
  <1> QED BY <1>1, <1>2, <1>3, <1>4 DEF Next

(* The inductive invariant of the fifos.                                    *)
THEOREM InvTheorem == Spec => []Inv
  <1> QED BY InitInv, StepInv, PTL DEF Spec

(* The pointers of each fifo are its queue, whatever step of a writer or of *)
(* the reader is half done (vader_fifo_write and vader_fifo_read).          *)
THEOREM ChaineTheorem == Spec => []Chaine
  <1>1. Inv => Chaine
    BY DEF Inv, ChaineInv, ChaineDe, Chaine
  <1> QED BY <1>1, InvTheorem, PTL

(* A fragment is in one place only, and what a writer has still to link     *)
(* from is in the fifo yet.                                                 *)
THEOREM UnSeulEndroitTheorem == Spec => []UnSeulEndroit
  <1>1. ASSUME Inv PROVE UnSeulEndroit
    <2>0. \A p \in Procs : file[p] \in Seq(Frags)
      BY <1>1 DEF Inv, TypeOK
    <2>1. \A p, q \in Procs : \A k \in 1 .. Len(file[p]), l \in 1 .. Len(file[q]) :
            file[p][k] = file[q][l] => p = q /\ k = l
      BY <1>1 DEF Inv, FilesInv
    <2>2. \A f \in Frags :
            tenu[f] = Fifo <=> \E p \in Procs : \E k \in 1 .. Len(file[p]) : file[p][k] = f
      BY <1>1 DEF Inv, FilesInv, TypeOK
    <2>3. ASSUME NEW f \in Frags, ecrit[f] = "lier", prev[f] # FREE
          PROVE  tenu[prev[f]] = Fifo
      <3>1. tenu[f] = Fifo /\ dest[f] \in Procs
        BY <1>1, <2>3 DEF Inv, EcritInv, TypeOK
      <3>2. PICK k \in 1 .. Len(file[dest[f]]) : file[dest[f]][k] = f
        BY <1>1, <3>1 DEF Inv, FilesInv
      <3>3. prev[f] = Precedent(file[dest[f]], k)
        BY <1>1, <2>3, <3>1, <3>2 DEF Inv, ChaineInv, ChaineDe
      <3>4. k - 1 \in 1 .. Len(file[dest[f]]) /\ prev[f] = file[dest[f]][k - 1]
        BY <2>0, <2>3, <3>1, <3>2, <3>3 DEF Precedent
      <3> QED BY <1>1, <3>1, <3>4 DEF Inv, FilesInv
    <2> QED BY <2>1, <2>2, <2>3 DEF UnSeulEndroit
  <1> QED BY <1>1, InvTheorem, PTL

-----------------------------------------------------------------------------
(* The steps of the fifos as steps of the mailboxes.                        *)
LEMMA SwapRaffine ==
    ASSUME Inv, NEW f \in Frags, Swap(f)
    PROVE  LesBoites!Next
  <1>1. /\ dest[f] \in Procs /\ tenu[f] \in Procs \ {dest[f]}
        /\ tenu[f] # Owner[f] => dest[f] = Owner[f]
    BY DEF Inv, EcritInv, TypeOK, Swap
  <1>2. LesBoites!Deposer(f, dest[f])
    BY <1>1 DEF Swap, LesBoites!Deposer
  <1> QED BY <1>1, <1>2 DEF LesBoites!Next

LEMMA PrendreRaffine ==
    ASSUME Inv, NEW p \in Procs, pc[p] \in {"cas", "avancer"}, Prendre(p)
    PROVE  LesBoites!Next
  <1>1. file[p] \in Seq(Frags) /\ file[p] # <<>> /\ value[p] = file[p][1]
    BY DEF Inv, LecteurInv, TypeOK
  <1>2. SansPremier(file[p]) = Tail(file[p])
    BY <1>1, SansPremierProprietes
  <1>3. Head(file[p]) = value[p]
    BY <1>1
  <1>4. LesBoites!Retirer(p)
    BY <1>1, <1>2, <1>3 DEF Prendre, LesBoites!Retirer
  <1> QED BY <1>4 DEF LesBoites!Next

LEMMA PasRaffine == Inv /\ [Next]_vars => [LesBoites!Next]_(LesBoites!vars)
  <1> SUFFICES ASSUME Inv, [Next]_vars
               PROVE  LesBoites!Next \/ UNCHANGED varsHistoire
    BY DEF LesBoites!vars, varsHistoire
  <1>1. ASSUME NEW p \in Procs, Lecteur(p)
        PROVE  LesBoites!Next \/ UNCHANGED varsHistoire
    <2>1. CASE Cas(p)
      BY <2>1, PrendreRaffine DEF Cas
    <2>2. CASE Avancer(p)
      BY <2>2, PrendreRaffine DEF Avancer
    <2>3. CASE LireTete(p) \/ ViderTete(p) \/ TesterSuivant(p) \/ Completer(p)
      BY <2>3 DEF LireTete, ViderTete, TesterSuivant, Completer
    <2>4. CASE Rendre(p) \/ FinirRetour(p)
      BY <2>4 DEF Rendre, FinirRetour, Chainer
    <2> QED BY <1>1, <2>1, <2>2, <2>3, <2>4 DEF Lecteur
  <1>2. ASSUME NEW f \in Frags, Ecrivain(f)
        PROVE  LesBoites!Next \/ UNCHANGED varsHistoire
    BY <1>2, SwapRaffine DEF Ecrivain, FinirEnvoi, Chainer
  <1>3. ASSUME NEW f \in Frags, NEW q \in Procs, Envoyer(f, q)
        PROVE  UNCHANGED varsHistoire
    BY <1>3 DEF Envoyer
  <1>4. CASE UNCHANGED vars
    BY <1>4 DEF vars
  <1> QED BY <1>1, <1>2, <1>3, <1>4 DEF Next

(* The fifos implement the mailboxes: each queue is read in the order of    *)
(* the exchanges of its tail, by its process alone, nothing is lost.        *)
THEOREM BoitesTheorem == Spec => BoitesSpec
  <1>1. Init => LesBoites!Init
    BY DEF Init, LesBoites!Init
  <1> QED BY <1>1, PasRaffine, InvTheorem, PTL DEF Spec, BoitesSpec, LesBoites!Spec

-----------------------------------------------------------------------------
(* The fast boxes: what a thread is doing, and with what.                   *)
EnVerrou == {"relire", "sauter", "ecrire", "publier", "clore", "echec"}
Pours == {"sendi", "send", "attente"}
EtatsBoite == [pc : EnVerrou \cup {"prendre"}, m : Envoyes, tag : {"donnees", "fragment"},
               n : 1 .. Taille - 1, pour : Pours]
EtatsEnvoi == [pc : {"ep", "send", "attendre", "inscrire", "compter"}, m : Envoyes, pour : Pours]
EtatsFifo == [pc : {"monter", "fifo"}, m : Envoyes, setup : BOOLEAN]
EtatsSans == [pc : {"repos", "parcourir", "attente"}]
Etats == EtatsBoite \cup EtatsEnvoi \cup EtatsFifo \cup EtatsSans

EnTetes ==
    [genre : {"entete"}, m : Envoyes, tag : {"donnees", "fragment"}, seq : 0 .. Modulo - 1,
     n : 1 .. Taille - 1]
    \cup [genre : {"entete"}, m : Acteurs, tag : {"saut"}, seq : 0 .. Modulo - 1,
          n : 1 .. Taille - 1]
LesDonnees == [genre : {"donnees"}, m : Envoyes, seq : mode.leurres \cup {AucunNumero}]
Unites == {Zero} \cup EnTetes \cup LesDonnees

(* What the reader has read may be data that look like a header.            *)
EnTetesLus ==
    EnTetes \cup [genre : {"entete"}, m : {Intrus}, tag : {"donnees", "saut"}, seq : 0 .. Modulo - 1,
                  n : 1 .. Taille - 1]
Lecteurs ==
    {Repos} \cup [pc : {"sonder", "traiter", "rendre", "fifo"}, nb : Nat, start : Offsets,
                  hdr : {Zero} \cup EnTetesLus]
Fragments == [m : Envoyes, setup : BOOLEAN]
Receptions == [m : Envoyes, voie : {"fifo", "boite"}] \cup [m : {Intrus}, voie : {"boite"}]

(* Types; a header is no longer than what is left of the box.               *)
TypesFbox ==
    /\ mode \in Modes
    /\ fbox_out \in [buffer : BOOLEAN, start : Offsets, end : Offsets, seq : 0 .. Modulo - 1]
    /\ fbox_in \in [buffer : BOOLEAN, start : Offsets, seq : 0 .. Modulo - 1]
    /\ startp \in Offsets
    /\ boite \in [1 .. Taille - 1 -> Unites]
    /\ \A u \in 1 .. Taille - 1 : boite[u].genre = "entete" => u + boite[u].n <= Taille
    /\ send_count \in Nat
    /\ acteur \in [Acteurs -> Etats]
    /\ pending_frags \in Seq(Envoyes)
    /\ waiting \in BOOLEAN /\ pending_endpoints \in BOOLEAN
    /\ fifo \in Seq(Fragments)
    /\ lecteur \in Lecteurs
    /\ lecteur.pc = "traiter" =>
         lecteur.hdr \in EnTetesLus /\ lecteur.start.off + lecteur.hdr.n <= Taille
    /\ faits \in [Fils -> Nat]
    /\ publies \in Seq(Envoyes)
    /\ recus \in Seq(Receptions)
    /\ egare \in BOOLEAN
    /\ ~ egare => /\ lecteur.pc = "traiter" => lecteur.hdr \in EnTetes
                  /\ \A i \in 1 .. Len(recus) : recus[i].m \in Envoyes

(* Who holds the locks.                                                     *)
VerrousFbox ==
    \A a \in Acteurs :
        /\ ep_lock = a <=> acteur[a].pc \in EnVerrou
        /\ component_lock = a <=> (a = progres /\ acteur[a].pc # "repos")
        /\ pending_frags_lock = a <=> \/ a # progres /\ acteur[a].pc = "inscrire"
                                      \/ a = progres /\ acteur[a].pc \notin {"repos", "parcourir"}

(* A thread holds its next message, the progress the first of those pending.*)
MainsFbox ==
    /\ \A f \in Fils :
         /\ acteur[f].pc \notin {"parcourir", "attente"}
         /\ acteur[f].pc # "repos" => acteur[f].m = <<f, faits[f] + 1>>
    /\ acteur[progres].pc \in {"repos", "parcourir", "attente", "ep", "prendre"} \cup EnVerrou
    /\ acteur[progres].pc \notin {"repos", "parcourir", "attente"} =>
         pending_frags # <<>> /\ acteur[progres].m = pending_frags[1]

(* What is known of the room in the box by the thread that has its lock.    *)
PlaceFbox ==
    \A a \in Acteurs :
        /\ acteur[a].pc \in {"ecrire", "publier", "clore"} => acteur[a].n <= Libre
        /\ acteur[a].pc = "sauter" =>
             0 < Libre /\ Libre < acteur[a].n /\ fbox_out.start.off <= fbox_out.end.off

(* Nothing is in the box or pending before there is one.                    *)
SansBoite ==
    ~ fbox_out.buffer =>
        /\ publies = <<>> /\ pending_frags = <<>>
        /\ \A a \in Acteurs : acteur[a].pc \notin EnVerrou \cup {"prendre", "attendre", "inscrire"}

AttenteFbox ==
    /\ waiting => pending_endpoints
    /\ pending_frags # <<>> => waiting \/ \E f \in Fils : acteur[f].pc = "inscrire"

InvFbox == TypesFbox /\ VerrousFbox /\ MainsFbox /\ PlaceFbox /\ SansBoite /\ AttenteFbox

-----------------------------------------------------------------------------
LEMMA MemeMode ==
    ASSUME UNCHANGED mode
    PROVE  /\ Envoyes' = Envoyes /\ Etats' = Etats /\ EnTetes' = EnTetes /\ Unites' = Unites
           /\ Lecteurs' = Lecteurs /\ Fragments' = Fragments /\ Receptions' = Receptions
           /\ EnTetesLus' = EnTetesLus
  <1>1. Envoyes' = Envoyes
    BY DEF Envoyes
  <1>2. EtatsBoite' = EtatsBoite /\ EtatsEnvoi' = EtatsEnvoi /\ EtatsFifo' = EtatsFifo
    BY <1>1 DEF EtatsBoite, EtatsEnvoi, EtatsFifo
  <1>3. EnTetes' = EnTetes
    BY <1>1 DEF EnTetes
  <1>4. LesDonnees' = LesDonnees /\ EnTetesLus' = EnTetesLus
    BY <1>1, <1>3 DEF LesDonnees, EnTetesLus
  <1> QED BY <1>1, <1>2, <1>3, <1>4 DEF Etats, Unites, Lecteurs, Fragments, Receptions

(* A message is a thread and a rank.                                        *)
LEMMA EnvoyesProprietes ==
    ASSUME mode \in Modes
    PROVE  /\ \A m \in Envoyes : \E f \in Fils : \E r \in Nat \ {0} :
                m = <<f, r>> /\ r <= Len(mode.envois[f])
           /\ \A f \in Fils : \A r \in 1 .. Len(mode.envois[f]) : <<f, r>> \in Envoyes
           /\ \A f \in Fils : Len(mode.envois[f]) \in Nat
           /\ mode.seuil \in Nat
           /\ \A f \in Fils : \A r \in 1 .. Len(mode.envois[f]) : mode.envois[f][r] \in 0 .. Taille - 1
  <1>1. mode.envois \in [Fils -> Seq(0 .. Taille - 1)] /\ mode.seuil \in Nat
    BY ModesAssumption
  <1>2. \A f \in Fils : mode.envois[f] \in Seq(0 .. Taille - 1)
    BY <1>1
  <1>3. \A f \in Fils : Len(mode.envois[f]) \in Nat
    BY <1>2
  <1>4. \A f \in Fils : \A r \in 1 .. Len(mode.envois[f]) : mode.envois[f][r] \in 0 .. Taille - 1
    BY <1>2, ElementOfSeq
  <1>5. \A m \in Envoyes : \E f \in Fils : \E r \in 1 .. Len(mode.envois[f]) : m = <<f, r>>
    BY DEF Envoyes, EnvoyesDe
  <1>6. \A f \in Fils : \A r \in 1 .. Len(mode.envois[f]) : <<f, r>> \in Envoyes
    BY DEF Envoyes, EnvoyesDe
  <1>7. \A m \in Envoyes : \E f \in Fils : \E r \in Nat \ {0} : m = <<f, r>> /\ r <= Len(mode.envois[f])
    BY <1>3, <1>5
  <1> QED BY <1>1, <1>3, <1>4, <1>6, <1>7

(* What a state of a thread is.                                             *)
LEMMA EtatsProprietes ==
    ASSUME NEW e \in Etats
    PROVE  /\ e.pc \in EnVerrou \cup {"prendre"} => e \in EtatsBoite
           /\ e.pc \in {"ep", "send", "attendre", "inscrire", "compter"} => e \in EtatsEnvoi
           /\ e.pc \in {"monter", "fifo"} => e \in EtatsFifo
           /\ e.pc \in {"repos", "parcourir", "attente"} => e = [pc |-> e.pc]
           /\ e.pc \in EnVerrou \cup {"prendre", "ep", "send", "attendre", "inscrire", "compter",
                                      "monter", "fifo", "repos", "parcourir", "attente"}
  BY DEF Etats, EtatsBoite, EtatsEnvoi, EtatsFifo, EtatsSans, EnVerrou

(* A thread at the box,                                                     *)
LEMMA BoiteProprietes ==
    ASSUME NEW e \in EtatsBoite
    PROVE  /\ e.m \in Envoyes /\ e.tag \in {"donnees", "fragment"} /\ e.n \in 1 .. Taille - 1
           /\ e.pour \in Pours
           /\ \A p \in EnVerrou \cup {"prendre"} :
                LET x == [e EXCEPT !.pc = p]
                IN  x \in Etats /\ x.pc = p /\ x.m = e.m /\ x.n = e.n
  <1>1. \A p \in EnVerrou \cup {"prendre"} : [e EXCEPT !.pc = p] \in EtatsBoite
    BY DEF EtatsBoite
  <1> QED BY <1>1 DEF EtatsBoite, Etats

(* or on its way to send.                                                   *)
LEMMA EnvoiProprietes ==
    ASSUME NEW e \in EtatsEnvoi
    PROVE  /\ e.m \in Envoyes /\ e.pour \in Pours
           /\ \A p \in {"ep", "send", "attendre", "inscrire", "compter"} :
                LET x == [e EXCEPT !.pc = p]
                IN  x \in Etats /\ x.pc = p /\ x.m = e.m
           /\ \A p \in {"ep", "attendre"} :
                LET x == [e EXCEPT !.pc = p, !.pour = "send"]
                IN  x \in Etats /\ x.pc = p /\ x.m = e.m
  <1>1. \A p \in {"ep", "send", "attendre", "inscrire", "compter"} : [e EXCEPT !.pc = p] \in EtatsEnvoi
    BY DEF EtatsEnvoi
  <1>2. \A p \in {"ep", "attendre"} :
                LET x == [e EXCEPT !.pc = p, !.pour = "send"]
                IN  x \in EtatsEnvoi /\ x.pc = p /\ x.m = e.m
    BY DEF EtatsEnvoi, Pours
  <1> QED BY <1>1, <1>2 DEF EtatsEnvoi, Etats

(* One thread goes to a state.                                              *)
LEMMA PlacerProprietes ==
    ASSUME acteur \in [Acteurs -> Etats], NEW a \in Acteurs, NEW e \in Etats, Placer(a, e)
    PROVE  /\ acteur' \in [Acteurs -> Etats] /\ acteur'[a] = e
           /\ \A b \in Acteurs : b # a => acteur'[b] = acteur[b]
  BY DEF Placer

(* What the constants are.                                                  *)
LEMMA Constantes ==
    /\ Taille \in Nat /\ Taille > 1 /\ Modulo \in Nat /\ Modulo > 1
    /\ progres \in Acteurs /\ Fils \subseteq Acteurs /\ progres \notin Fils
    /\ Personne \notin Acteurs
    /\ \A a \in Acteurs : a # progres => a \in Fils
    /\ Debut \in Offsets
  BY FilsAssumption, TailleAssumption, ModuloAssumption DEF Acteurs, Offsets, Debut

(* The free room is at least nothing, and at most what is left of the box.  *)
LEMMA LibreProprietes ==
    ASSUME NEW s \in Offsets, NEW e \in Offsets
    PROVE  BUFFER_FREE(s, e) \in Nat /\ BUFFER_FREE(s, e) <= Taille - e.off
  <1>1. s.off \in 1 .. Taille - 1 /\ e.off \in 1 .. Taille - 1
    BY DEF Offsets
  <1> QED BY <1>1, Constantes DEF BUFFER_FREE

(* The box's invariant: at first, and after a step of each action.          *)
LEMMA InitTypes == InitFbox => InvFbox
  <1> SUFFICES ASSUME InitFbox PROVE InvFbox
    OBVIOUS
  <1> USE DEF InitFbox
  <1>1. Repos \in Etats /\ Repos.pc = "repos"
    BY DEF Repos, Etats, EtatsSans
  <1>2. <<>> \in Seq(Envoyes) /\ <<>> \in Seq(Fragments) /\ <<>> \in Seq(Receptions)
    BY EmptySeq
  <1>3. Zero \in Unites /\ Zero.genre = "zero"
    BY DEF Unites, Zero
  <1>4. TypesFbox
    <2>1. /\ fbox_out \in [buffer : BOOLEAN, start : Offsets, end : Offsets, seq : 0 .. Modulo - 1]
          /\ fbox_in \in [buffer : BOOLEAN, start : Offsets, seq : 0 .. Modulo - 1]
      BY Constantes
    <2>2. boite \in [1 .. Taille - 1 -> Unites]
          /\ \A u \in 1 .. Taille - 1 : boite[u].genre # "entete"
      BY <1>3
    <2>3. acteur \in [Acteurs -> Etats] /\ lecteur \in Lecteurs /\ lecteur.pc # "traiter"
      BY <1>1 DEF Lecteurs
    <2>4. egare = FALSE /\ \A i \in 1 .. Len(recus) : recus[i].m \in Envoyes
      <3>1. Len(recus) = 0
        OBVIOUS
      <3> QED BY <3>1
    <2> QED BY <1>2, <2>1, <2>2, <2>3, <2>4, Constantes DEF TypesFbox
  <1>5. \A a \in Acteurs : acteur[a].pc = "repos"
    BY <1>1
  <1>6. VerrousFbox
    BY <1>5, Constantes DEF VerrousFbox, EnVerrou
  <1>7. MainsFbox
    BY <1>5, Constantes DEF MainsFbox
  <1>8. PlaceFbox /\ SansBoite /\ AttenteFbox
    BY <1>5 DEF PlaceFbox, SansBoite, AttenteFbox, EnVerrou
  <1> QED BY <1>4, <1>6, <1>7, <1>8 DEF InvFbox

-----------------------------------------------------------------------------
LEMMA InvPrendreVerrou ==
    ASSUME InvFbox, NEW a \in Acteurs, PrendreVerrou(a)
    PROVE  InvFbox'
  <1> DEFINE p == IF Libre < acteur[a].n THEN "relire" ELSE "ecrire"
             e == [acteur[a] EXCEPT !.pc = p]
  <1>1. /\ acteur[a].pc = "prendre" /\ ep_lock = Personne /\ ep_lock' = a /\ Placer(a, e)
        /\ UNCHANGED <<mode, fbox_out, boite, publies, fbox_in, startp, lecteur, recus, egare, send_count,
                       pending_frags_lock, component_lock, pending_frags, waiting,
                       pending_endpoints, fifo, faits>>
    BY DEF PrendreVerrou, Vers, varsBoite, varsRecu, varsAttente
  <1>2. TypesFbox /\ acteur[a] \in Etats
    BY DEF InvFbox, TypesFbox
  <1>3. acteur[a] \in EtatsBoite
    BY <1>1, <1>2, EtatsProprietes
  <1>4. /\ e \in Etats /\ e.pc = p /\ e.m = acteur[a].m /\ e.n = acteur[a].n
        /\ acteur[a].n \in 1 .. Taille - 1 /\ p \in {"relire", "ecrire"}
    <2>1. p \in {"relire", "ecrire"}
      OBVIOUS
    <2> HIDE DEF p
    <2> QED BY <1>3, <2>1, BoiteProprietes DEF EnVerrou
  <1>5. Libre \in Nat
    BY <1>2, LibreProprietes DEF Libre, TypesFbox
  <1>6. p = "ecrire" => e.n <= Libre
    BY <1>4, <1>5
  <1> HIDE DEF p, e
  <1>7. /\ acteur' \in [Acteurs -> Etats] /\ acteur'[a] = e
        /\ \A b \in Acteurs : b # a => acteur'[b] = acteur[b]
    BY <1>1, <1>2, <1>4, PlacerProprietes DEF TypesFbox
  <1>8. TypesFbox'
    BY <1>1, <1>2, <1>7, MemeMode DEF TypesFbox
  <1>9. VerrousFbox'
    BY <1>1, <1>4, <1>7, Constantes DEF InvFbox, VerrousFbox, EnVerrou
  <1>10. MainsFbox'
    BY <1>1, <1>4, <1>7, Constantes DEF InvFbox, MainsFbox, EnVerrou
  <1>11. PlaceFbox'
    BY <1>1, <1>4, <1>6, <1>7, Constantes DEF InvFbox, PlaceFbox, Libre
  <1>12. SansBoite'
    BY <1>1, <1>4, <1>7, Constantes DEF InvFbox, SansBoite, EnVerrou
  <1>13. AttenteFbox'
    BY <1>1, <1>4, <1>7, Constantes DEF InvFbox, AttenteFbox
  <1> QED BY <1>8, <1>9, <1>10, <1>11, <1>12, <1>13 DEF InvFbox

LEMMA InvRelire ==
    ASSUME InvFbox, NEW a \in Acteurs, Relire(a)
    PROVE  InvFbox'
  <1> DEFINE libre == BUFFER_FREE(startp, fbox_out.end)
             p == IF libre >= acteur[a].n THEN "ecrire"
                  ELSE IF libre > 0 /\ startp.off <= fbox_out.end.off THEN "sauter"
                  ELSE "echec"
             e == [acteur[a] EXCEPT !.pc = p]
  <1>1. /\ acteur[a].pc = "relire" /\ Placer(a, e)
        /\ fbox_out' = [fbox_out EXCEPT !.start = startp]
        /\ UNCHANGED <<mode, boite, publies, fbox_in, startp, lecteur, recus, egare, send_count, ep_lock,
                       pending_frags_lock, component_lock, pending_frags, waiting,
                       pending_endpoints, fifo, faits>>
    BY DEF Relire, Vers, varsRecu, varsAttente, varsVerrous
  <1>2. TypesFbox /\ acteur[a] \in Etats
    BY DEF InvFbox, TypesFbox
  <1>3. acteur[a] \in EtatsBoite
    BY <1>1, <1>2, EtatsProprietes DEF EnVerrou
  <1>4. /\ e \in Etats /\ e.pc = p /\ e.m = acteur[a].m /\ e.n = acteur[a].n
        /\ acteur[a].n \in 1 .. Taille - 1 /\ p \in {"sauter", "ecrire", "echec"}
    <2>1. p \in {"sauter", "ecrire", "echec"}
      OBVIOUS
    <2> HIDE DEF p
    <2> QED BY <1>3, <2>1, BoiteProprietes DEF EnVerrou
  <1>5. libre \in Nat
    BY <1>2, LibreProprietes DEF TypesFbox
  <1>6. /\ p = "ecrire" => e.n <= libre
        /\ p = "sauter" => 0 < libre /\ libre < e.n /\ startp.off <= fbox_out.end.off
    BY <1>4, <1>5
  <1>7. fbox_out' \in [buffer : BOOLEAN, start : Offsets, end : Offsets, seq : 0 .. Modulo - 1]
        /\ fbox_out'.start = startp /\ fbox_out'.end = fbox_out.end
        /\ fbox_out'.buffer = fbox_out.buffer
    BY <1>1, <1>2 DEF TypesFbox
  <1>8. Libre' = libre
    BY <1>7 DEF Libre
  <1> HIDE DEF p, e, libre
  <1>9. /\ acteur' \in [Acteurs -> Etats] /\ acteur'[a] = e
        /\ \A b \in Acteurs : b # a => acteur'[b] = acteur[b]
    BY <1>1, <1>2, <1>4, PlacerProprietes DEF TypesFbox
  <1>10. TypesFbox'
    BY <1>1, <1>2, <1>7, <1>9, MemeMode DEF TypesFbox
  <1>11. \A b \in Acteurs : b # a => acteur[b].pc \notin EnVerrou
    BY <1>1, Constantes DEF InvFbox, VerrousFbox, EnVerrou
  <1>12. VerrousFbox'
    BY <1>1, <1>4, <1>9, Constantes DEF InvFbox, VerrousFbox, EnVerrou
  <1>13. MainsFbox'
    BY <1>1, <1>4, <1>9, Constantes DEF InvFbox, MainsFbox, EnVerrou
  <1>14. PlaceFbox'
    BY <1>4, <1>6, <1>7, <1>8, <1>9, <1>11 DEF PlaceFbox, EnVerrou
  <1>15. SansBoite'
    BY <1>1, <1>4, <1>7, <1>9, Constantes DEF InvFbox, SansBoite, EnVerrou
  <1>16. AttenteFbox'
    BY <1>1, <1>4, <1>9, Constantes DEF InvFbox, AttenteFbox
  <1> QED BY <1>10, <1>12, <1>13, <1>14, <1>15, <1>16 DEF InvFbox

LEMMA InvSauter ==
    ASSUME InvFbox, NEW a \in Acteurs, Sauter(a)
    PROVE  InvFbox'
  <1> DEFINE debut == ALaFin(fbox_out.end)
             p == IF BUFFER_FREE(fbox_out.start, debut) < acteur[a].n THEN "echec" ELSE "ecrire"
             e == [acteur[a] EXCEPT !.pc = p]
             u == fbox_out.end.off
             h == Entete(a, "saut", fbox_out.seq, Taille - u)
  <1>1. /\ acteur[a].pc = "sauter" /\ Placer(a, e)
        /\ boite' = [boite EXCEPT ![u] = h]
        /\ fbox_out' = [fbox_out EXCEPT !.seq = (@ + 1) % Modulo, !.end = debut]
        /\ UNCHANGED <<mode, publies, fbox_in, startp, lecteur, recus, egare, send_count, ep_lock,
                       pending_frags_lock, component_lock, pending_frags, waiting,
                       pending_endpoints, fifo, faits>>
    BY DEF Sauter, Vers, varsRecu, varsAttente, varsVerrous
  <1>2. TypesFbox /\ acteur[a] \in Etats
    BY DEF InvFbox, TypesFbox
  <1>3. acteur[a] \in EtatsBoite
    BY <1>1, <1>2, EtatsProprietes DEF EnVerrou
  <1>4. /\ e \in Etats /\ e.pc = p /\ e.m = acteur[a].m /\ e.n = acteur[a].n
        /\ acteur[a].n \in 1 .. Taille - 1 /\ p \in {"ecrire", "echec"}
    <2>1. p \in {"ecrire", "echec"}
      OBVIOUS
    <2> HIDE DEF p
    <2> QED BY <1>3, <2>1, BoiteProprietes DEF EnVerrou
  <1>5. debut \in Offsets /\ u \in 1 .. Taille - 1
    BY <1>2, Constantes DEF TypesFbox, ALaFin, Offsets
  <1>6. BUFFER_FREE(fbox_out.start, debut) \in Nat
    BY <1>2, <1>5, LibreProprietes DEF TypesFbox
  <1>7. fbox_out' \in [buffer : BOOLEAN, start : Offsets, end : Offsets, seq : 0 .. Modulo - 1]
        /\ fbox_out'.start = fbox_out.start /\ fbox_out'.end = debut
        /\ fbox_out'.buffer = fbox_out.buffer
    <2>1. (fbox_out.seq + 1) % Modulo \in 0 .. Modulo - 1
      BY <1>2, Constantes DEF TypesFbox
    <2> HIDE DEF debut
    <2> QED BY <1>1, <1>2, <1>5, <2>1 DEF TypesFbox
  <1>8. p = "ecrire" => e.n <= Libre'
    BY <1>4, <1>6, <1>7 DEF Libre
  <1>9. h \in EnTetes /\ h.n = Taille - u
    BY <1>2, <1>5, Constantes DEF TypesFbox, EnTetes, Entete
  <1> HIDE DEF p, e, debut, h, u
  <1>10. /\ acteur' \in [Acteurs -> Etats] /\ acteur'[a] = e
         /\ \A b \in Acteurs : b # a => acteur'[b] = acteur[b]
    BY <1>1, <1>2, <1>4, PlacerProprietes DEF TypesFbox
  <1>11. /\ boite' \in [1 .. Taille - 1 -> Unites]
         /\ \A v \in 1 .. Taille - 1 : boite'[v].genre = "entete" => v + boite'[v].n <= Taille
    BY <1>1, <1>2, <1>5, <1>9, Constantes DEF TypesFbox, Unites
  <1>12. TypesFbox'
    BY <1>1, <1>2, <1>7, <1>10, <1>11, MemeMode DEF TypesFbox
  <1>13. \A b \in Acteurs : b # a => acteur[b].pc \notin EnVerrou
    BY <1>1, Constantes DEF InvFbox, VerrousFbox, EnVerrou
  <1>14. VerrousFbox'
    BY <1>1, <1>4, <1>10, Constantes DEF InvFbox, VerrousFbox, EnVerrou
  <1>15. MainsFbox'
    BY <1>1, <1>4, <1>10, Constantes DEF InvFbox, MainsFbox, EnVerrou
  <1>16. PlaceFbox'
    BY <1>4, <1>8, <1>10, <1>13 DEF PlaceFbox, EnVerrou
  <1>17. SansBoite'
    BY <1>1, <1>4, <1>7, <1>10, Constantes DEF InvFbox, SansBoite, EnVerrou
  <1>18. AttenteFbox'
    BY <1>1, <1>4, <1>10, Constantes DEF InvFbox, AttenteFbox
  <1> QED BY <1>12, <1>14, <1>15, <1>16, <1>17, <1>18 DEF InvFbox

LEMMA InvEcrire ==
    ASSUME InvFbox, NEW a \in Acteurs, Ecrire(a)
    PROVE  InvFbox'
  <1> DEFINE e == [acteur[a] EXCEPT !.pc = "publier"]
             u == fbox_out.end.off
  <1>1. /\ acteur[a].pc = "ecrire" /\ Placer(a, e)
        /\ UNCHANGED <<mode, fbox_out, publies, fbox_in, startp, lecteur, recus, egare, send_count, ep_lock,
                       pending_frags_lock, component_lock, pending_frags, waiting,
                       pending_endpoints, fifo, faits>>
    BY DEF Ecrire, Vers, varsRecu, varsAttente, varsVerrous
  <1>a. PICK nombres \in [u + 1 .. u + acteur[a].n - 1 -> mode.leurres \cup {AucunNumero}] :
          boite' = [v \in DOMAIN boite |-> IF v \in DOMAIN nombres
                                           THEN Donnees(acteur[a].m, nombres[v]) ELSE boite[v]]
    BY DEF Ecrire
  <1>2. TypesFbox /\ acteur[a] \in Etats
    BY DEF InvFbox, TypesFbox
  <1>3. acteur[a] \in EtatsBoite
    BY <1>1, <1>2, EtatsProprietes DEF EnVerrou
  <1>4. /\ e \in Etats /\ e.pc = "publier" /\ e.m = acteur[a].m /\ e.n = acteur[a].n
        /\ acteur[a].n \in 1 .. Taille - 1 /\ acteur[a].m \in Envoyes
    BY <1>3, BoiteProprietes DEF EnVerrou
  <1>5. \A v \in DOMAIN nombres : /\ Donnees(acteur[a].m, nombres[v]) \in Unites
                                  /\ Donnees(acteur[a].m, nombres[v]).genre = "donnees"
    BY <1>4, <1>a DEF Unites, Donnees, LesDonnees
  <1> HIDE DEF e, u
  <1>6. /\ boite' \in [1 .. Taille - 1 -> Unites]
        /\ \A v \in 1 .. Taille - 1 : boite'[v].genre = "entete" => v + boite'[v].n <= Taille
    BY <1>a, <1>2, <1>5 DEF TypesFbox
  <1>7. /\ acteur' \in [Acteurs -> Etats] /\ acteur'[a] = e
        /\ \A b \in Acteurs : b # a => acteur'[b] = acteur[b]
    BY <1>1, <1>2, <1>4, PlacerProprietes DEF TypesFbox
  <1>8. TypesFbox'
    BY <1>1, <1>2, <1>6, <1>7, MemeMode DEF TypesFbox
  <1>9. VerrousFbox'
    BY <1>1, <1>4, <1>7, Constantes DEF InvFbox, VerrousFbox, EnVerrou
  <1>10. MainsFbox'
    BY <1>1, <1>4, <1>7, Constantes DEF InvFbox, MainsFbox, EnVerrou
  <1>11. PlaceFbox'
    BY <1>1, <1>4, <1>7 DEF InvFbox, PlaceFbox, Libre
  <1>12. SansBoite'
    BY <1>1, <1>4, <1>7, Constantes DEF InvFbox, SansBoite, EnVerrou
  <1>13. AttenteFbox'
    BY <1>1, <1>4, <1>7, Constantes DEF InvFbox, AttenteFbox
  <1> QED BY <1>8, <1>9, <1>10, <1>11, <1>12, <1>13 DEF InvFbox

LEMMA InvPublier ==
    ASSUME InvFbox, NEW a \in Acteurs, Publier(a)
    PROVE  InvFbox'
  <1> DEFINE e == [acteur[a] EXCEPT !.pc = "clore"]
             u == fbox_out.end.off
             h == Entete(acteur[a].m, acteur[a].tag, fbox_out.seq, acteur[a].n)
  <1>1. /\ acteur[a].pc = "publier" /\ Placer(a, e)
        /\ boite' = [boite EXCEPT ![u] = h]
        /\ fbox_out' = [fbox_out EXCEPT !.seq = (@ + 1) % Modulo]
        /\ publies' = Append(publies, acteur[a].m)
        /\ UNCHANGED <<mode, fbox_in, startp, lecteur, recus, egare, send_count, ep_lock,
                       pending_frags_lock, component_lock, pending_frags, waiting,
                       pending_endpoints, fifo, faits>>
    BY DEF Publier, Vers, varsRecu, varsAttente, varsVerrous
  <1>2. TypesFbox /\ acteur[a] \in Etats
    BY DEF InvFbox, TypesFbox
  <1>3. acteur[a] \in EtatsBoite
    BY <1>1, <1>2, EtatsProprietes DEF EnVerrou
  <1>4. /\ e \in Etats /\ e.pc = "clore" /\ e.m = acteur[a].m /\ e.n = acteur[a].n
        /\ acteur[a].n \in 1 .. Taille - 1 /\ acteur[a].m \in Envoyes
        /\ acteur[a].tag \in {"donnees", "fragment"}
    BY <1>3, BoiteProprietes DEF EnVerrou
  <1>5. /\ u \in 1 .. Taille - 1 /\ Libre \in Nat /\ Libre <= Taille - u
        /\ fbox_out.seq \in 0 .. Modulo - 1
    <2>1. fbox_out.start \in Offsets /\ fbox_out.end \in Offsets /\ fbox_out.seq \in 0 .. Modulo - 1
      BY <1>2 DEF TypesFbox
    <2> QED BY <2>1, LibreProprietes DEF Libre, Offsets
  <1>6. acteur[a].n <= Taille - u
    BY <1>1, <1>4, <1>5, Constantes DEF InvFbox, PlaceFbox
  <1>7. h \in EnTetes /\ h.n = acteur[a].n
    BY <1>4, <1>5 DEF EnTetes, Entete
  <1>8. fbox_out' \in [buffer : BOOLEAN, start : Offsets, end : Offsets, seq : 0 .. Modulo - 1]
        /\ fbox_out'.start = fbox_out.start /\ fbox_out'.end = fbox_out.end
        /\ fbox_out'.buffer = fbox_out.buffer
    <2>1. (fbox_out.seq + 1) % Modulo \in 0 .. Modulo - 1
      BY <1>5, Constantes
    <2> QED BY <1>1, <1>2, <2>1 DEF TypesFbox
  <1> HIDE DEF e, u, h
  <1>9. /\ boite' \in [1 .. Taille - 1 -> Unites]
        /\ \A v \in 1 .. Taille - 1 : boite'[v].genre = "entete" => v + boite'[v].n <= Taille
    <2>1. boite'[u] = h /\ \A v \in 1 .. Taille - 1 : v # u => boite'[v] = boite[v]
      BY <1>1, <1>2, <1>5 DEF TypesFbox
    <2>2. boite' \in [1 .. Taille - 1 -> Unites]
      BY <1>1, <1>2, <1>7 DEF TypesFbox, Unites
    <2>3. u + h.n <= Taille
      BY <1>4, <1>5, <1>6, <1>7, Constantes
    <2> QED BY <1>2, <2>1, <2>2, <2>3 DEF TypesFbox
  <1>10. publies' \in Seq(Envoyes)
    BY <1>1, <1>2, <1>4, AppendProperties DEF TypesFbox
  <1>11. /\ acteur' \in [Acteurs -> Etats] /\ acteur'[a] = e
         /\ \A b \in Acteurs : b # a => acteur'[b] = acteur[b]
    BY <1>1, <1>2, <1>4, PlacerProprietes DEF TypesFbox
  <1>12. TypesFbox'
    BY <1>1, <1>2, <1>8, <1>9, <1>10, <1>11, MemeMode DEF TypesFbox
  <1>13. VerrousFbox'
    BY <1>1, <1>4, <1>11, Constantes DEF InvFbox, VerrousFbox, EnVerrou
  <1>14. MainsFbox'
    BY <1>1, <1>4, <1>11, Constantes DEF InvFbox, MainsFbox, EnVerrou
  <1>15. PlaceFbox'
    BY <1>1, <1>4, <1>8, <1>11 DEF InvFbox, PlaceFbox, Libre
  <1>16. SansBoite'
    BY <1>1, <1>4, <1>8, <1>11, Constantes DEF InvFbox, SansBoite, EnVerrou
  <1>17. AttenteFbox'
    BY <1>1, <1>4, <1>11, Constantes DEF InvFbox, AttenteFbox
  <1> QED BY <1>12, <1>13, <1>14, <1>15, <1>16, <1>17 DEF InvFbox

(* The first of those pending is gone.                                      *)
LEMMA TailEnvoyes ==
    ASSUME pending_frags \in Seq(Envoyes), pending_frags # <<>>
    PROVE  Tail(pending_frags) \in Seq(Envoyes)
  BY HeadTailProperties

LEMMA InvClore ==
    ASSUME InvFbox, NEW a \in Acteurs, Clore(a)
    PROVE  InvFbox'
  <1> DEFINE e == IF a = progres THEN [pc |-> "attente"] ELSE Repos
             u == fbox_out.end.off + acteur[a].n
             z == IF u = Taille THEN ALaFin(fbox_out.end) ELSE [fbox_out.end EXCEPT !.off = u]
  <1>1. /\ acteur[a].pc = "clore" /\ Placer(a, e) /\ ep_lock' = Personne
        /\ fbox_out' = [fbox_out EXCEPT !.end = z]
        /\ boite' = IF u # Taille /\ Libre > acteur[a].n THEN [boite EXCEPT ![u] = Zero] ELSE boite
        /\ pending_frags' = IF a = progres THEN Tail(pending_frags) ELSE pending_frags
        /\ faits' = IF a = progres THEN faits ELSE [faits EXCEPT ![a] = @ + 1]
        /\ UNCHANGED <<mode, publies, fbox_in, startp, lecteur, recus, egare, send_count,
                       pending_frags_lock, component_lock, waiting, pending_endpoints, fifo>>
    BY DEF Clore, Reussir, Donner, varsRecu
  <1>2. TypesFbox /\ acteur[a] \in Etats
    BY DEF InvFbox, TypesFbox
  <1>3. acteur[a] \in EtatsBoite
    BY <1>1, <1>2, EtatsProprietes DEF EnVerrou
  <1>4. /\ e \in Etats /\ (a = progres => e.pc = "attente") /\ (a # progres => e.pc = "repos")
        /\ acteur[a].n \in 1 .. Taille - 1
    BY <1>3, BoiteProprietes DEF Etats, EtatsSans, Repos
  <1>5. /\ fbox_out.end.off \in 1 .. Taille - 1 /\ fbox_out.end.hb \in BOOLEAN
        /\ Libre \in Nat /\ Libre <= Taille - fbox_out.end.off
    <2>1. fbox_out.start \in Offsets /\ fbox_out.end \in Offsets
      BY <1>2 DEF TypesFbox
    <2> QED BY <2>1, LibreProprietes DEF Libre, Offsets
  <1>6. acteur[a].n <= Libre /\ u \in 2 .. Taille
    BY <1>1, <1>4, <1>5, Constantes DEF InvFbox, PlaceFbox
  <1>7. z \in Offsets
    <2>1. ALaFin(fbox_out.end) \in Offsets
      BY Constantes, <1>5 DEF ALaFin, Offsets
    <2>2. u # Taille => [fbox_out.end EXCEPT !.off = u] \in Offsets
      <3>1. fbox_out.end \in [off : 1 .. Taille - 1, hb : BOOLEAN]
        BY <1>2 DEF TypesFbox, Offsets
      <3>2. u # Taille => u \in 1 .. Taille - 1
        BY <1>6, Constantes
      <3> HIDE DEF u
      <3> QED BY <3>1, <3>2 DEF Offsets
    <2> QED BY <2>1, <2>2
  <1> HIDE DEF e, u, z
  <1>8. fbox_out' \in [buffer : BOOLEAN, start : Offsets, end : Offsets, seq : 0 .. Modulo - 1]
        /\ fbox_out'.buffer = fbox_out.buffer
    BY <1>1, <1>2, <1>7 DEF TypesFbox
  <1>9. /\ boite' \in [1 .. Taille - 1 -> Unites]
        /\ \A v \in 1 .. Taille - 1 : boite'[v].genre = "entete" => v + boite'[v].n <= Taille
    BY <1>1, <1>2 DEF TypesFbox, Unites, Zero
  <1>10. a = progres => pending_frags # <<>>
    BY <1>1 DEF InvFbox, MainsFbox
  <1>11. pending_frags' \in Seq(Envoyes) /\ (a = progres => pending_frags # <<>>)
    BY <1>1, <1>2, <1>10, TailEnvoyes DEF TypesFbox
  <1>12. a # progres => a \in Fils
    BY Constantes
  <1>13. faits' \in [Fils -> Nat] /\ \A f \in Fils : f # a => faits'[f] = faits[f]
    BY <1>1, <1>2, <1>12 DEF TypesFbox
  <1>14. /\ acteur' \in [Acteurs -> Etats] /\ acteur'[a] = e
         /\ \A b \in Acteurs : b # a => acteur'[b] = acteur[b]
    BY <1>1, <1>2, <1>4, PlacerProprietes DEF TypesFbox
  <1>15. TypesFbox'
    BY <1>1, <1>2, <1>8, <1>9, <1>11, <1>13, <1>14, MemeMode DEF TypesFbox
  <1>16. \A b \in Acteurs : b # a => acteur[b].pc \notin EnVerrou
    BY <1>1, Constantes DEF InvFbox, VerrousFbox, EnVerrou
  <1>17. VerrousFbox'
    BY <1>1, <1>4, <1>14, <1>16, Constantes DEF InvFbox, VerrousFbox, EnVerrou
  <1>18. MainsFbox'
    BY <1>1, <1>4, <1>12, <1>13, <1>14, Constantes DEF InvFbox, MainsFbox, EnVerrou
  <1>19. PlaceFbox'
    BY <1>4, <1>14, <1>16 DEF PlaceFbox, EnVerrou
  <1>20. SansBoite'
    BY <1>1, <1>4, <1>8, <1>14, Constantes DEF InvFbox, SansBoite, EnVerrou
  <1>21. AttenteFbox'
    BY <1>1, <1>4, <1>10, <1>14, Constantes DEF InvFbox, AttenteFbox
  <1> QED BY <1>15, <1>17, <1>18, <1>19, <1>20, <1>21 DEF InvFbox

LEMMA InvEchouer ==
    ASSUME InvFbox, NEW a \in Acteurs, Echouer(a)
    PROVE  InvFbox'
  <1> DEFINE c == acteur[a]
             p == CASE c.tag = "donnees" -> "ep"
                    [] c.tag = "fragment" /\ c.pour = "sendi" -> "send"
                    [] OTHER -> "attendre"
             e == IF a = progres THEN Repos ELSE [pc |-> p, m |-> c.m, pour |-> c.pour]
  <1>1. /\ c.pc = "echec" /\ Placer(a, e) /\ ep_lock' = Personne
        /\ a = progres => pending_frags_lock' = Personne /\ component_lock' = Personne
        /\ a # progres => UNCHANGED <<pending_frags_lock, component_lock>>
        /\ UNCHANGED <<mode, fbox_out, boite, publies, fbox_in, startp, lecteur, recus, egare, send_count,
                       pending_frags, waiting, pending_endpoints, fifo, faits>>
    BY DEF Echouer, varsBoite, varsRecu, varsAttente
  <1>2. TypesFbox /\ c \in Etats
    BY DEF InvFbox, TypesFbox
  <1>3. c \in EtatsBoite
    BY <1>1, <1>2, EtatsProprietes DEF EnVerrou
  <1>4. p \in {"ep", "send", "attendre"} /\ c.m \in Envoyes /\ c.pour \in Pours
    BY <1>3, BoiteProprietes
  <1>5. /\ e \in Etats
        /\ a = progres => e.pc = "repos"
        /\ a # progres => e.pc = p /\ e.m = c.m
    <2> HIDE DEF p
    <2>1. [pc |-> p, m |-> c.m, pour |-> c.pour] \in EtatsEnvoi
      BY <1>4 DEF EtatsEnvoi
    <2>2. Repos \in EtatsSans /\ Repos.pc = "repos"
      BY DEF EtatsSans, Repos
    <2> QED BY <2>1, <2>2 DEF Etats
  <1>6. fbox_out.buffer
    BY <1>1, <1>2 DEF InvFbox, SansBoite, EnVerrou, TypesFbox
  <1> HIDE DEF p, e
  <1>7. /\ acteur' \in [Acteurs -> Etats] /\ acteur'[a] = e
        /\ \A b \in Acteurs : b # a => acteur'[b] = acteur[b]
    BY <1>1, <1>2, <1>5, PlacerProprietes DEF TypesFbox
  <1>8. TypesFbox'
    BY <1>1, <1>2, <1>7, MemeMode DEF TypesFbox
  <1>9. \A b \in Acteurs : b # a => acteur[b].pc \notin EnVerrou
    BY <1>1, Constantes DEF InvFbox, VerrousFbox, EnVerrou
  <1>10. VerrousFbox'
    BY <1>1, <1>4, <1>5, <1>7, <1>9, Constantes DEF InvFbox, VerrousFbox, EnVerrou
  <1>11. MainsFbox'
    BY <1>1, <1>4, <1>5, <1>7, Constantes DEF InvFbox, MainsFbox, EnVerrou
  <1>12. PlaceFbox'
    BY <1>4, <1>5, <1>7, <1>9 DEF PlaceFbox, EnVerrou
  <1>13. SansBoite'
    BY <1>1, <1>6 DEF SansBoite
  <1>14. AttenteFbox'
    BY <1>1, <1>4, <1>5, <1>7, Constantes DEF InvFbox, AttenteFbox
  <1> QED BY <1>8, <1>10, <1>11, <1>12, <1>13, <1>14 DEF InvFbox

LEMMA InvWrite_ep ==
    ASSUME InvFbox, NEW a \in Acteurs, Write_ep(a)
    PROVE  InvFbox'
  <1> DEFINE e == IF fbox_out.buffer
                  THEN [pc |-> "prendre", m |-> acteur[a].m, tag |-> "fragment", n |-> 1,
                        pour |-> acteur[a].pour]
                  ELSE [acteur[a] EXCEPT !.pc = "compter"]
  <1>1. /\ acteur[a].pc = "ep" /\ Placer(a, e)
        /\ UNCHANGED <<mode, fbox_out, boite, publies, fbox_in, startp, lecteur, recus, egare, send_count,
                       ep_lock, pending_frags_lock, component_lock, pending_frags, waiting,
                       pending_endpoints, fifo, faits>>
    BY DEF Write_ep, varsBoite, varsRecu, varsAttente, varsVerrous
  <1>2. TypesFbox /\ acteur[a] \in Etats
    BY DEF InvFbox, TypesFbox
  <1>3. acteur[a] \in EtatsEnvoi
    BY <1>1, <1>2, EtatsProprietes DEF EnVerrou
  <1>4. acteur[a].m \in Envoyes /\ acteur[a].pour \in Pours
    BY <1>3, EnvoiProprietes
  <1>5. /\ e \in Etats /\ e.m = acteur[a].m /\ e.pc \in {"prendre", "compter"}
        /\ e.pc = "prendre" <=> fbox_out.buffer
    <2>1. CASE fbox_out.buffer
      <3>1. [pc |-> "prendre", m |-> acteur[a].m, tag |-> "fragment", n |-> 1,
             pour |-> acteur[a].pour] \in EtatsBoite
        BY <1>4, Constantes DEF EtatsBoite
      <3> QED BY <2>1, <3>1 DEF Etats
    <2>2. CASE ~ fbox_out.buffer
      BY <2>2, <1>3, EnvoiProprietes
    <2> QED BY <2>1, <2>2
  <1>6. a = progres => fbox_out.buffer
    BY <1>1, <1>2 DEF InvFbox, MainsFbox, SansBoite
  <1> HIDE DEF e
  <1>7. /\ acteur' \in [Acteurs -> Etats] /\ acteur'[a] = e
        /\ \A b \in Acteurs : b # a => acteur'[b] = acteur[b]
    BY <1>1, <1>2, <1>5, PlacerProprietes DEF TypesFbox
  <1>8. TypesFbox'
    BY <1>1, <1>2, <1>7, MemeMode DEF TypesFbox
  <1>9. VerrousFbox'
    BY <1>1, <1>5, <1>7, Constantes DEF InvFbox, VerrousFbox, EnVerrou
  <1>10. MainsFbox'
    BY <1>1, <1>5, <1>6, <1>7, Constantes DEF InvFbox, MainsFbox, EnVerrou
  <1>11. PlaceFbox'
    BY <1>1, <1>5, <1>7 DEF InvFbox, PlaceFbox, Libre
  <1>12. SansBoite'
    BY <1>1, <1>5, <1>7 DEF InvFbox, SansBoite, EnVerrou
  <1>13. AttenteFbox'
    BY <1>1, <1>5, <1>7, Constantes DEF InvFbox, AttenteFbox
  <1> QED BY <1>8, <1>9, <1>10, <1>11, <1>12, <1>13 DEF InvFbox

LEMMA InvSendi ==
    ASSUME InvFbox, NEW f \in Fils, Sendi(f)
    PROVE  InvFbox'
  <1> DEFINE m == <<f, faits[f] + 1>>
             n == mode.envois[f][m[2]]
             e == IF n = 0 \/ pending_frags # <<>> THEN [pc |-> "send", m |-> m, pour |-> "sendi"]
                   ELSE IF fbox_out.buffer
                   THEN [pc |-> "prendre", m |-> m, tag |-> "donnees", n |-> n, pour |-> "sendi"]
                   ELSE [pc |-> "ep", m |-> m, pour |-> "sendi"]
  <1>1. /\ acteur[f] = Repos /\ Placer(f, e) /\ faits[f] < Len(mode.envois[f])
        /\ UNCHANGED <<mode, fbox_out, boite, publies, fbox_in, startp, lecteur, recus, egare, send_count,
                       ep_lock, pending_frags_lock, component_lock, pending_frags, waiting,
                       pending_endpoints, fifo, faits>>
    BY DEF Sendi, varsBoite, varsRecu, varsAttente, varsVerrous
  <1>2. TypesFbox /\ acteur[f] \in Etats /\ faits[f] \in Nat /\ f \in Acteurs /\ f # progres
    BY Constantes DEF InvFbox, TypesFbox
  <1>3. acteur[f].pc = "repos"
    BY <1>1 DEF Repos
  <1>4. m \in Envoyes /\ n \in 0 .. Taille - 1
    <2>1. faits[f] + 1 \in 1 .. Len(mode.envois[f])
      <3>1. Len(mode.envois[f]) \in Nat
        BY <1>2, EnvoyesProprietes DEF TypesFbox
      <3> QED BY <1>1, <1>2, <3>1
    <2> QED BY <1>2, <2>1, EnvoyesProprietes DEF TypesFbox
  <1>5. /\ e \in Etats /\ e.m = m /\ e.pc \in {"send", "prendre", "ep"}
        /\ e.pc = "prendre" => fbox_out.buffer
    <2> HIDE DEF m, n
    <2>1. [pc |-> "send", m |-> m, pour |-> "sendi"] \in EtatsEnvoi
          /\ [pc |-> "ep", m |-> m, pour |-> "sendi"] \in EtatsEnvoi
      BY <1>4 DEF EtatsEnvoi, Pours
    <2>2. n # 0 => [pc |-> "prendre", m |-> m, tag |-> "donnees", n |-> n, pour |-> "sendi"] \in EtatsBoite
      <3>1. n # 0 => n \in 1 .. Taille - 1
        BY <1>4, Constantes
      <3> QED BY <1>4, <3>1 DEF EtatsBoite, Pours
    <2> QED BY <2>1, <2>2 DEF Etats
  <1> HIDE DEF e, n
  <1>7. /\ acteur' \in [Acteurs -> Etats] /\ acteur'[f] = e
        /\ \A b \in Acteurs : b # f => acteur'[b] = acteur[b]
    BY <1>1, <1>2, <1>5, PlacerProprietes DEF TypesFbox
  <1>8. TypesFbox'
    BY <1>1, <1>2, <1>7, MemeMode DEF TypesFbox
  <1>9. VerrousFbox'
    BY <1>1, <1>2, <1>3, <1>5, <1>7 DEF InvFbox, VerrousFbox, EnVerrou
  <1>10. MainsFbox'
    BY <1>1, <1>2, <1>5, <1>7, Constantes DEF InvFbox, MainsFbox, EnVerrou
  <1>11. PlaceFbox'
    BY <1>1, <1>5, <1>7 DEF InvFbox, PlaceFbox, Libre
  <1>12. SansBoite'
    BY <1>1, <1>5, <1>7 DEF InvFbox, SansBoite, EnVerrou
  <1>13. AttenteFbox'
    BY <1>1, <1>3, <1>5, <1>7, Constantes DEF InvFbox, AttenteFbox
  <1> QED BY <1>8, <1>9, <1>10, <1>11, <1>12, <1>13 DEF InvFbox

LEMMA InvSend ==
    ASSUME InvFbox, NEW f \in Fils, Send(f)
    PROVE  InvFbox'
  <1> DEFINE p == IF pending_frags # <<>> THEN "attendre" ELSE "ep"
             e == [acteur[f] EXCEPT !.pc = p, !.pour = "send"]
  <1>1. /\ acteur[f].pc = "send" /\ Placer(f, e)
        /\ UNCHANGED <<mode, fbox_out, boite, publies, fbox_in, startp, lecteur, recus, egare, send_count,
                       ep_lock, pending_frags_lock, component_lock, pending_frags, waiting,
                       pending_endpoints, fifo, faits>>
    BY DEF Send, varsBoite, varsRecu, varsAttente, varsVerrous
  <1>2. TypesFbox /\ acteur[f] \in Etats /\ f \in Acteurs /\ f # progres
    BY Constantes DEF InvFbox, TypesFbox
  <1>3. acteur[f] \in EtatsEnvoi
    BY <1>1, <1>2, EtatsProprietes DEF EnVerrou
  <1>4. p \in {"attendre", "ep"} /\ (p = "attendre" => fbox_out.buffer)
    BY <1>2 DEF InvFbox, SansBoite, TypesFbox
  <1> HIDE DEF p
  <1>5. e \in Etats /\ e.m = acteur[f].m /\ e.pc = p
    BY <1>3, <1>4 DEF EtatsEnvoi, Pours, Etats
  <1> HIDE DEF e
  <1>7. /\ acteur' \in [Acteurs -> Etats] /\ acteur'[f] = e
        /\ \A b \in Acteurs : b # f => acteur'[b] = acteur[b]
    BY <1>1, <1>2, <1>5, PlacerProprietes DEF TypesFbox
  <1>8. TypesFbox'
    BY <1>1, <1>2, <1>7, MemeMode DEF TypesFbox
  <1>9. VerrousFbox'
    BY <1>1, <1>2, <1>4, <1>5, <1>7 DEF InvFbox, VerrousFbox, EnVerrou
  <1>10. MainsFbox'
    BY <1>1, <1>2, <1>4, <1>5, <1>7, Constantes DEF InvFbox, MainsFbox, EnVerrou
  <1>11. PlaceFbox'
    BY <1>1, <1>4, <1>5, <1>7 DEF InvFbox, PlaceFbox, Libre
  <1>12. SansBoite'
    BY <1>1, <1>4, <1>5, <1>7 DEF InvFbox, SansBoite, EnVerrou
  <1>13. AttenteFbox'
    BY <1>1, <1>4, <1>5, <1>7, Constantes DEF InvFbox, AttenteFbox
  <1> QED BY <1>8, <1>9, <1>10, <1>11, <1>12, <1>13 DEF InvFbox

LEMMA InvAttendre ==
    ASSUME InvFbox, NEW f \in Fils, Attendre(f)
    PROVE  InvFbox'
  <1> DEFINE e == IF waiting THEN Repos ELSE [acteur[f] EXCEPT !.pc = "inscrire"]
  <1>1. /\ acteur[f].pc = "attendre" /\ pending_frags_lock = Personne /\ Placer(f, e)
        /\ pending_frags' = Append(pending_frags, acteur[f].m)
        /\ faits' = IF waiting THEN [faits EXCEPT ![f] = @ + 1] ELSE faits
        /\ pending_frags_lock' = IF waiting THEN pending_frags_lock ELSE f
        /\ UNCHANGED <<mode, fbox_out, boite, publies, fbox_in, startp, lecteur, recus, egare, send_count,
                       ep_lock, component_lock, waiting, pending_endpoints, fifo>>
    BY DEF Attendre, Vers, Donner, varsBoite, varsRecu
  <1>2. TypesFbox /\ acteur[f] \in Etats /\ f \in Acteurs /\ f # progres
    BY Constantes DEF InvFbox, TypesFbox
  <1>3. acteur[f] \in EtatsEnvoi
    BY <1>1, <1>2, EtatsProprietes DEF EnVerrou
  <1>4. acteur[f].m \in Envoyes
    BY <1>3, EnvoiProprietes
  <1>5. e \in Etats /\ e.pc = (IF waiting THEN "repos" ELSE "inscrire")
        /\ (~ waiting => e.m = acteur[f].m)
    <2>1. Repos \in Etats /\ Repos.pc = "repos"
      BY DEF Repos, Etats, EtatsSans
    <2>2. LET x == [acteur[f] EXCEPT !.pc = "inscrire"]
          IN  x \in Etats /\ x.pc = "inscrire" /\ x.m = acteur[f].m
      BY <1>3, EnvoiProprietes
    <2> QED BY <2>1, <2>2
  <1>6. fbox_out.buffer
    BY <1>1, <1>2 DEF InvFbox, SansBoite, EnVerrou, TypesFbox
  <1> HIDE DEF e
  <1>7. /\ acteur' \in [Acteurs -> Etats] /\ acteur'[f] = e
        /\ \A b \in Acteurs : b # f => acteur'[b] = acteur[b]
    BY <1>1, <1>2, <1>5, PlacerProprietes DEF TypesFbox
  <1>8. pending_frags' \in Seq(Envoyes) /\ pending_frags' # <<>>
        /\ (pending_frags # <<>> => pending_frags'[1] = pending_frags[1])
    <2>1. pending_frags \in Seq(Envoyes)
      BY <1>2 DEF TypesFbox
    <2>2. pending_frags # <<>> => 1 \in 1 .. Len(pending_frags)
      BY <2>1
    <2> QED BY <1>1, <1>4, <2>1, <2>2, AppendProperties
  <1>9. faits' \in [Fils -> Nat] /\ \A g \in Fils : g # f => faits'[g] = faits[g]
    BY <1>1, <1>2 DEF TypesFbox
  <1>10. ~ waiting => faits' = faits
    BY <1>1
  <1>11. TypesFbox'
    BY <1>1, <1>2, <1>7, <1>8, <1>9, MemeMode DEF TypesFbox
  <1>12. VerrousFbox'
    <2>1. pending_frags_lock' = f <=> e.pc = "inscrire"
      BY <1>1, <1>2, <1>5, Constantes
    <2>2. \A b \in Acteurs : b # f => pending_frags_lock # b /\ pending_frags_lock' # b
      BY <1>1, <1>2, Constantes
    <2> QED BY <1>1, <1>2, <1>5, <1>7, <2>1, <2>2 DEF InvFbox, VerrousFbox, EnVerrou
  <1>13. MainsFbox'
    BY <1>1, <1>2, <1>5, <1>7, <1>8, <1>9, <1>10, Constantes DEF InvFbox, MainsFbox, EnVerrou
  <1>14. PlaceFbox'
    BY <1>1, <1>5, <1>7 DEF InvFbox, PlaceFbox, Libre
  <1>15. SansBoite'
    BY <1>1, <1>6 DEF SansBoite
  <1>16. AttenteFbox'
    BY <1>1, <1>5, <1>7 DEF InvFbox, AttenteFbox
  <1> QED BY <1>11, <1>12, <1>13, <1>14, <1>15, <1>16 DEF InvFbox

(* A thread that has given its message away.                                *)
LEMMA DonnerProprietes ==
    ASSUME TypesFbox, NEW f \in Fils, Donner(f), UNCHANGED mode
    PROVE  /\ acteur' \in [Acteurs -> Etats'] /\ acteur'[f].pc = "repos"
           /\ \A b \in Acteurs : b # f => acteur'[b] = acteur[b]
           /\ faits' \in [Fils -> Nat] /\ faits'[f] = faits[f] + 1
           /\ \A g \in Fils : g # f => faits'[g] = faits[g]
  <1>1. Repos \in Etats /\ Repos.pc = "repos"
    BY DEF Repos, Etats, EtatsSans
  <1> QED BY <1>1, PlacerProprietes, Constantes, MemeMode DEF Donner, TypesFbox

LEMMA InvInscrire ==
    ASSUME InvFbox, NEW f \in Fils, Inscrire(f)
    PROVE  InvFbox'
  <1>1. /\ acteur[f].pc = "inscrire" /\ component_lock = Personne /\ Donner(f)
        /\ pending_endpoints' = TRUE /\ waiting' = TRUE /\ pending_frags_lock' = Personne
        /\ UNCHANGED <<mode, fbox_out, boite, publies, fbox_in, startp, lecteur, recus, egare, send_count,
                       ep_lock, component_lock, pending_frags, fifo>>
    BY DEF Inscrire, varsBoite, varsRecu
  <1>2. TypesFbox /\ f \in Acteurs /\ f # progres
    BY Constantes DEF InvFbox
  <1>7. /\ acteur' \in [Acteurs -> Etats'] /\ acteur'[f].pc = "repos"
        /\ \A b \in Acteurs : b # f => acteur'[b] = acteur[b]
        /\ faits' \in [Fils -> Nat]
        /\ \A g \in Fils : g # f => faits'[g] = faits[g]
    BY <1>1, <1>2, DonnerProprietes
  <1>8. TypesFbox'
    BY <1>1, <1>2, <1>7, MemeMode DEF TypesFbox
  <1>9. VerrousFbox'
    BY <1>1, <1>2, <1>7, Constantes DEF InvFbox, VerrousFbox, EnVerrou
  <1>10. MainsFbox'
    BY <1>1, <1>2, <1>7, Constantes DEF InvFbox, MainsFbox, EnVerrou
  <1>11. PlaceFbox'
    BY <1>1, <1>7 DEF InvFbox, PlaceFbox, Libre
  <1>12. SansBoite'
    BY <1>1, <1>7 DEF InvFbox, SansBoite, EnVerrou
  <1>13. AttenteFbox'
    BY <1>1 DEF AttenteFbox
  <1> QED BY <1>8, <1>9, <1>10, <1>11, <1>12, <1>13 DEF InvFbox

LEMMA InvCompter ==
    ASSUME InvFbox, NEW f \in Fils, Compter(f)
    PROVE  InvFbox'
  <1> DEFINE p == IF ~ fbox_out.buffer /\ send_count + 1 = mode.seuil THEN "monter" ELSE "fifo"
             e == [pc |-> p, m |-> acteur[f].m, setup |-> FALSE]
  <1>1. /\ acteur[f].pc = "compter" /\ Placer(f, e)
        /\ send_count' = send_count \/ send_count' = send_count + 1
        /\ UNCHANGED <<mode, fbox_out, boite, publies, fbox_in, startp, lecteur, recus, egare,
                       ep_lock, pending_frags_lock, component_lock, pending_frags, waiting,
                       pending_endpoints, fifo, faits>>
    BY DEF Compter, varsBoite, varsRecu, varsAttente, varsVerrous
  <1>2. TypesFbox /\ acteur[f] \in Etats /\ f \in Acteurs /\ f # progres
    BY Constantes DEF InvFbox, TypesFbox
  <1>3. acteur[f] \in EtatsEnvoi
    BY <1>1, <1>2, EtatsProprietes DEF EnVerrou
  <1>4. p \in {"monter", "fifo"} /\ acteur[f].m \in Envoyes
    BY <1>3, EnvoiProprietes
  <1> HIDE DEF p
  <1>5. e \in Etats /\ e.m = acteur[f].m /\ e.pc = p
    BY <1>4 DEF EtatsFifo, Etats
  <1> HIDE DEF e
  <1>6. send_count' \in Nat
    BY <1>1, <1>2 DEF TypesFbox
  <1>7. /\ acteur' \in [Acteurs -> Etats] /\ acteur'[f] = e
        /\ \A b \in Acteurs : b # f => acteur'[b] = acteur[b]
    BY <1>1, <1>2, <1>5, PlacerProprietes DEF TypesFbox
  <1>8. TypesFbox'
    BY <1>1, <1>2, <1>6, <1>7, MemeMode DEF TypesFbox
  <1>9. VerrousFbox'
    BY <1>1, <1>2, <1>4, <1>5, <1>7 DEF InvFbox, VerrousFbox, EnVerrou
  <1>10. MainsFbox'
    BY <1>1, <1>2, <1>4, <1>5, <1>7, Constantes DEF InvFbox, MainsFbox, EnVerrou
  <1>11. PlaceFbox'
    BY <1>1, <1>4, <1>5, <1>7 DEF InvFbox, PlaceFbox, Libre
  <1>12. SansBoite'
    BY <1>1, <1>4, <1>5, <1>7 DEF InvFbox, SansBoite, EnVerrou
  <1>13. AttenteFbox'
    BY <1>1, <1>4, <1>5, <1>7, Constantes DEF InvFbox, AttenteFbox
  <1> QED BY <1>8, <1>9, <1>10, <1>11, <1>12, <1>13 DEF InvFbox

LEMMA InvMonter ==
    ASSUME InvFbox, NEW f \in Fils, Monter(f)
    PROVE  InvFbox'
  <1> DEFINE e == [pc |-> "fifo", m |-> acteur[f].m, setup |-> TRUE]
  <1>1. /\ acteur[f].pc = "monter" /\ Placer(f, e)
        /\ fbox_out' = [fbox_out EXCEPT !.buffer = TRUE]
        /\ UNCHANGED <<mode, boite, publies, fbox_in, startp, lecteur, recus, egare, send_count,
                       ep_lock, pending_frags_lock, component_lock, pending_frags, waiting,
                       pending_endpoints, fifo, faits>>
    BY DEF Monter, varsBoite, varsRecu, varsAttente, varsVerrous
  <1>2. TypesFbox /\ acteur[f] \in Etats /\ f \in Acteurs /\ f # progres
    BY Constantes DEF InvFbox, TypesFbox
  <1>3. acteur[f].m \in Envoyes
    BY <1>1, <1>2, EtatsProprietes DEF EtatsFifo
  <1>5. e \in Etats /\ e.m = acteur[f].m /\ e.pc = "fifo"
    BY <1>3 DEF EtatsFifo, Etats
  <1> HIDE DEF e
  <1>6. /\ fbox_out' \in [buffer : BOOLEAN, start : Offsets, end : Offsets, seq : 0 .. Modulo - 1]
        /\ fbox_out'.buffer /\ fbox_out'.start = fbox_out.start /\ fbox_out'.end = fbox_out.end
    BY <1>1, <1>2 DEF TypesFbox
  <1>7. /\ acteur' \in [Acteurs -> Etats] /\ acteur'[f] = e
        /\ \A b \in Acteurs : b # f => acteur'[b] = acteur[b]
    BY <1>1, <1>2, <1>5, PlacerProprietes DEF TypesFbox
  <1>8. TypesFbox'
    BY <1>1, <1>2, <1>6, <1>7, MemeMode DEF TypesFbox
  <1>9. VerrousFbox'
    BY <1>1, <1>2, <1>5, <1>7 DEF InvFbox, VerrousFbox, EnVerrou
  <1>10. MainsFbox'
    BY <1>1, <1>2, <1>5, <1>7, Constantes DEF InvFbox, MainsFbox, EnVerrou
  <1>11. PlaceFbox'
    BY <1>1, <1>5, <1>6, <1>7 DEF InvFbox, PlaceFbox, Libre
  <1>12. SansBoite'
    BY <1>6 DEF SansBoite
  <1>13. AttenteFbox'
    BY <1>1, <1>5, <1>7, Constantes DEF InvFbox, AttenteFbox
  <1> QED BY <1>8, <1>9, <1>10, <1>11, <1>12, <1>13 DEF InvFbox

LEMMA InvWrite_fifo ==
    ASSUME InvFbox, NEW f \in Fils, Write_fifo(f)
    PROVE  InvFbox'
  <1>1. /\ acteur[f].pc = "fifo" /\ Donner(f)
        /\ fifo' = Append(fifo, [m |-> acteur[f].m, setup |-> acteur[f].setup])
        /\ UNCHANGED <<mode, fbox_out, boite, publies, fbox_in, startp, lecteur, recus, egare, send_count,
                       ep_lock, pending_frags_lock, component_lock, pending_frags, waiting,
                       pending_endpoints>>
    BY DEF Write_fifo, varsBoite, varsRecu, varsVerrous, varsAttente
  <1>2. TypesFbox /\ acteur[f] \in Etats /\ f \in Acteurs /\ f # progres
    BY Constantes DEF InvFbox, TypesFbox
  <1>3. [m |-> acteur[f].m, setup |-> acteur[f].setup] \in Fragments
    BY <1>1, <1>2, EtatsProprietes DEF EtatsFifo, Fragments
  <1>4. fifo' \in Seq(Fragments)
    BY <1>1, <1>2, <1>3, AppendProperties DEF TypesFbox
  <1>7. /\ acteur' \in [Acteurs -> Etats'] /\ acteur'[f].pc = "repos"
        /\ \A b \in Acteurs : b # f => acteur'[b] = acteur[b]
        /\ faits' \in [Fils -> Nat]
        /\ \A g \in Fils : g # f => faits'[g] = faits[g]
    BY <1>1, <1>2, DonnerProprietes
  <1>8. TypesFbox'
    BY <1>1, <1>2, <1>4, <1>7, MemeMode DEF TypesFbox
  <1>9. VerrousFbox'
    BY <1>1, <1>2, <1>7, Constantes DEF InvFbox, VerrousFbox, EnVerrou
  <1>10. MainsFbox'
    BY <1>1, <1>2, <1>7, Constantes DEF InvFbox, MainsFbox, EnVerrou
  <1>11. PlaceFbox'
    BY <1>1, <1>7 DEF InvFbox, PlaceFbox, Libre
  <1>12. SansBoite'
    BY <1>1, <1>7 DEF InvFbox, SansBoite, EnVerrou
  <1>13. AttenteFbox'
    BY <1>1, <1>7, Constantes DEF InvFbox, AttenteFbox
  <1> QED BY <1>8, <1>9, <1>10, <1>11, <1>12, <1>13 DEF InvFbox

LEMMA InvProgress_endpoints ==
    ASSUME InvFbox, Progress_endpoints
    PROVE  InvFbox'
  <1> DEFINE e == [pc |-> "parcourir"]
  <1>1. /\ acteur[progres] = Repos /\ component_lock = Personne /\ component_lock' = progres
        /\ Placer(progres, e)
        /\ UNCHANGED <<mode, fbox_out, boite, publies, fbox_in, startp, lecteur, recus, egare, send_count,
                       ep_lock, pending_frags_lock, pending_frags, waiting,
                       pending_endpoints, fifo, faits>>
    BY DEF Progress_endpoints, varsBoite, varsRecu, varsAttente
  <1>2. TypesFbox /\ acteur[progres].pc = "repos"
    BY <1>1 DEF InvFbox, Repos
  <1>5. e \in Etats /\ e.pc = "parcourir"
    BY DEF EtatsSans, Etats
  <1> HIDE DEF e
  <1>7. /\ acteur' \in [Acteurs -> Etats] /\ acteur'[progres] = e
        /\ \A b \in Acteurs : b # progres => acteur'[b] = acteur[b]
    BY <1>1, <1>2, <1>5, Constantes, PlacerProprietes DEF TypesFbox
  <1>8. TypesFbox'
    BY <1>1, <1>2, <1>7, MemeMode DEF TypesFbox
  <1>9. VerrousFbox'
    BY <1>1, <1>2, <1>5, <1>7, Constantes DEF InvFbox, VerrousFbox, EnVerrou
  <1>10. MainsFbox'
    BY <1>1, <1>2, <1>5, <1>7, Constantes DEF InvFbox, MainsFbox, EnVerrou
  <1>11. PlaceFbox'
    BY <1>1, <1>5, <1>7 DEF InvFbox, PlaceFbox, Libre
  <1>12. SansBoite'
    BY <1>1, <1>5, <1>7 DEF InvFbox, SansBoite, EnVerrou
  <1>13. AttenteFbox'
    BY <1>1, <1>5, <1>7, Constantes DEF InvFbox, AttenteFbox
  <1> QED BY <1>8, <1>9, <1>10, <1>11, <1>12, <1>13 DEF InvFbox

LEMMA InvProgress_waiting ==
    ASSUME InvFbox, Progress_waiting
    PROVE  InvFbox'
  <1> DEFINE e == [pc |-> "attente"]
  <1>1. /\ acteur[progres].pc = "parcourir" /\ pending_frags_lock = Personne
        /\ pending_frags_lock' = progres /\ Placer(progres, e)
        /\ UNCHANGED <<mode, fbox_out, boite, publies, fbox_in, startp, lecteur, recus, egare, send_count,
                       ep_lock, component_lock, pending_frags, waiting,
                       pending_endpoints, fifo, faits>>
    BY DEF Progress_waiting, varsBoite, varsRecu, varsAttente
  <1>2. TypesFbox
    BY DEF InvFbox
  <1>5. e \in Etats /\ e.pc = "attente"
    BY DEF EtatsSans, Etats
  <1> HIDE DEF e
  <1>7. /\ acteur' \in [Acteurs -> Etats] /\ acteur'[progres] = e
        /\ \A b \in Acteurs : b # progres => acteur'[b] = acteur[b]
    BY <1>1, <1>2, <1>5, Constantes, PlacerProprietes DEF TypesFbox
  <1>8. TypesFbox'
    BY <1>1, <1>2, <1>7, MemeMode DEF TypesFbox
  <1>9. VerrousFbox'
    BY <1>1, <1>2, <1>5, <1>7, Constantes DEF InvFbox, VerrousFbox, EnVerrou
  <1>10. MainsFbox'
    BY <1>1, <1>2, <1>5, <1>7, Constantes DEF InvFbox, MainsFbox, EnVerrou
  <1>11. PlaceFbox'
    BY <1>1, <1>5, <1>7 DEF InvFbox, PlaceFbox, Libre
  <1>12. SansBoite'
    BY <1>1, <1>5, <1>7 DEF InvFbox, SansBoite, EnVerrou
  <1>13. AttenteFbox'
    BY <1>1, <1>5, <1>7, Constantes DEF InvFbox, AttenteFbox
  <1> QED BY <1>8, <1>9, <1>10, <1>11, <1>12, <1>13 DEF InvFbox

LEMMA InvFragSuivant ==
    ASSUME InvFbox, FragSuivant
    PROVE  InvFbox'
  <1> DEFINE e == [pc |-> "ep", m |-> Head(pending_frags), pour |-> "attente"]
  <1>1. /\ acteur[progres].pc = "attente" /\ pending_frags # <<>> /\ Placer(progres, e)
        /\ UNCHANGED <<mode, fbox_out, boite, publies, fbox_in, startp, lecteur, recus, egare, send_count,
                       ep_lock, pending_frags_lock, component_lock, pending_frags, waiting,
                       pending_endpoints, fifo, faits>>
    BY DEF FragSuivant, varsBoite, varsRecu, varsAttente, varsVerrous
  <1>2. TypesFbox
    BY DEF InvFbox
  <1>3. Head(pending_frags) \in Envoyes /\ Head(pending_frags) = pending_frags[1]
    BY <1>1, <1>2, HeadTailProperties DEF TypesFbox
  <1>5. e \in Etats /\ e.pc = "ep" /\ e.m = pending_frags[1]
    BY <1>3 DEF EtatsEnvoi, Etats, Pours
  <1> HIDE DEF e
  <1>7. /\ acteur' \in [Acteurs -> Etats] /\ acteur'[progres] = e
        /\ \A b \in Acteurs : b # progres => acteur'[b] = acteur[b]
    BY <1>1, <1>2, <1>5, Constantes, PlacerProprietes DEF TypesFbox
  <1>8. TypesFbox'
    BY <1>1, <1>2, <1>7, MemeMode DEF TypesFbox
  <1>9. VerrousFbox'
    BY <1>1, <1>2, <1>5, <1>7, Constantes DEF InvFbox, VerrousFbox, EnVerrou
  <1>10. MainsFbox'
    BY <1>1, <1>2, <1>5, <1>7, Constantes DEF InvFbox, MainsFbox, EnVerrou
  <1>11. PlaceFbox'
    BY <1>1, <1>5, <1>7 DEF InvFbox, PlaceFbox, Libre
  <1>12. SansBoite'
    BY <1>1, <1>5, <1>7 DEF InvFbox, SansBoite, EnVerrou
  <1>13. AttenteFbox'
    BY <1>1, <1>5, <1>7, Constantes DEF InvFbox, AttenteFbox
  <1> QED BY <1>8, <1>9, <1>10, <1>11, <1>12, <1>13 DEF InvFbox

LEMMA InvPlusRien ==
    ASSUME InvFbox, PlusRien
    PROVE  InvFbox'
  <1>1. /\ acteur[progres].pc = "attente" /\ pending_frags = <<>> /\ Placer(progres, Repos)
        /\ waiting' = FALSE /\ pending_endpoints' = FALSE
        /\ pending_frags_lock' = Personne /\ component_lock' = Personne
        /\ UNCHANGED <<mode, fbox_out, boite, publies, fbox_in, startp, lecteur, recus, egare, send_count,
                       ep_lock, pending_frags, fifo, faits>>
    BY DEF PlusRien, varsBoite, varsRecu
  <1>2. TypesFbox
    BY DEF InvFbox
  <1>5. Repos \in Etats /\ Repos.pc = "repos"
    BY DEF EtatsSans, Etats, Repos
  <1>7. /\ acteur' \in [Acteurs -> Etats] /\ acteur'[progres] = Repos
        /\ \A b \in Acteurs : b # progres => acteur'[b] = acteur[b]
    BY <1>1, <1>2, <1>5, Constantes, PlacerProprietes DEF TypesFbox
  <1>8. TypesFbox'
    BY <1>1, <1>2, <1>7, MemeMode DEF TypesFbox
  <1>9. VerrousFbox'
    BY <1>1, <1>2, <1>5, <1>7, Constantes DEF InvFbox, VerrousFbox, EnVerrou
  <1>10. MainsFbox'
    BY <1>1, <1>2, <1>5, <1>7, Constantes DEF InvFbox, MainsFbox, EnVerrou
  <1>11. PlaceFbox'
    BY <1>1, <1>5, <1>7 DEF InvFbox, PlaceFbox, Libre
  <1>12. SansBoite'
    BY <1>1, <1>5, <1>7 DEF InvFbox, SansBoite, EnVerrou
  <1>13. AttenteFbox'
    BY <1>1 DEF AttenteFbox
  <1> QED BY <1>8, <1>9, <1>10, <1>11, <1>12, <1>13 DEF InvFbox

(* The steps of the reader leave the sender's state as it is.               *)
LEMMA InvLecture ==
    ASSUME InvFbox, Lecture
    PROVE  InvFbox'
  <1>1. UNCHANGED varsLecture /\ UNCHANGED <<mode, fbox_out, boite, publies, send_count, acteur,
                       ep_lock, pending_frags_lock, component_lock, pending_frags, waiting,
                       pending_endpoints, faits>>
    BY DEF Lecture, Progress, Sonder, Traiter, RendrePlace, Poll_fifo, varsLecture, varsBoite,
           varsVerrous, varsAttente
  <1>2. TypesFbox
    BY DEF InvFbox
  <1>3. /\ lecteur # Repos => lecteur \in [pc : {"sonder", "traiter", "rendre", "fifo"}, nb : Nat,
                                           start : Offsets, hdr : {Zero} \cup EnTetesLus]
        /\ Repos.pc = "repos"
    BY <1>2 DEF TypesFbox, Lecteurs, Repos
  <1> DEFINE Bien == /\ fbox_in' \in [buffer : BOOLEAN, start : Offsets, seq : 0 .. Modulo - 1]
                     /\ startp' \in Offsets
                     /\ fifo' \in Seq(Fragments)
                     /\ lecteur' \in Lecteurs
                     /\ lecteur'.pc = "traiter" =>
                          lecteur'.hdr \in EnTetesLus /\ lecteur'.start.off + lecteur'.hdr.n <= Taille
                     /\ recus' \in Seq(Receptions)
                     /\ egare' \in BOOLEAN
                     /\ ~ egare' => /\ lecteur'.pc = "traiter" => lecteur'.hdr \in EnTetes
                                    /\ \A i \in 1 .. Len(recus') : recus'[i].m \in Envoyes
  <1>4. ASSUME Progress PROVE  Bien
    <2>1. lecteur' = [pc |-> IF fbox_in.buffer THEN "sonder" ELSE "fifo", nb |-> 0,
                      start |-> fbox_in.start, hdr |-> Zero]
          /\ UNCHANGED <<fbox_in, startp, fifo, recus, egare>>
      BY <1>4 DEF Progress
    <2>2. lecteur' \in Lecteurs /\ lecteur'.pc # "traiter"
      BY <1>2, <2>1 DEF TypesFbox, Lecteurs
    <2> QED BY <1>2, <2>1, <2>2 DEF TypesFbox
  <1>5. ASSUME Sonder PROVE  Bien
    <2>1. lecteur.pc = "sonder" /\ UNCHANGED <<startp, fifo, recus>>
      BY <1>5 DEF Sonder
    <2>2. lecteur.start \in Offsets /\ lecteur.start.off \in 1 .. Taille - 1 /\ lecteur.nb \in Nat
      BY <1>3, <2>1 DEF Offsets
    <2>3. CASE lecteur.nb < PollCount /\ Valide(boite[lecteur.start.off])
      <3> DEFINE u == boite[lecteur.start.off]
      <3>1. PICK h \in Lues(u, lecteur.start.off) :
              /\ fbox_in' = [fbox_in EXCEPT !.seq = (@ + 1) % Modulo]
              /\ egare' = (egare \/ u.genre = "donnees")
              /\ lecteur' = [lecteur EXCEPT !.pc = "traiter", !.hdr = h]
        BY <1>5, <2>3 DEF Sonder
      <3>2. u \in Unites /\ u.genre \in {"entete", "donnees"} /\ u.seq = fbox_in.seq
            /\ (u.genre = "entete" => lecteur.start.off + u.n <= Taille)
        BY <1>2, <2>2, <2>3 DEF TypesFbox, Valide
      <3>3. /\ h \in EnTetesLus /\ lecteur.start.off + h.n <= Taille
            /\ u.genre # "donnees" => h \in EnTetes
        <4>1. CASE u.genre = "entete"
          <5>1. h = u /\ u \in EnTetes
            BY <3>2, <4>1 DEF Lues, Unites, Zero, LesDonnees
          <5> QED BY <3>2, <4>1, <5>1 DEF EnTetesLus
        <4>2. CASE u.genre = "donnees"
          <5>1. PICK tag \in {"donnees", "saut"}, n \in 1 .. Taille - lecteur.start.off :
                  h = [genre |-> "entete", m |-> Intrus, tag |-> tag, seq |-> u.seq, n |-> n]
            BY <4>2 DEF Lues, Entete
          <5>2. u.seq \in 0 .. Modulo - 1 /\ n \in 1 .. Taille - 1 /\ lecteur.start.off + n <= Taille
            BY <1>2, <2>2, <3>2, <5>1, Constantes DEF TypesFbox
          <5> HIDE DEF u
          <5>3. h \in EnTetesLus /\ h.n = n
            BY <5>1, <5>2 DEF EnTetesLus
          <5> QED BY <4>2, <5>2, <5>3
        <4> QED BY <3>2, <4>1, <4>2
      <3> HIDE DEF u
      <3>4. (fbox_in.seq + 1) % Modulo \in 0 .. Modulo - 1
        BY <1>2, Constantes DEF TypesFbox
      <3>5. fbox_in' \in [buffer : BOOLEAN, start : Offsets, seq : 0 .. Modulo - 1]
        BY <1>2, <3>1, <3>4 DEF TypesFbox
      <3>6. lecteur' \in Lecteurs /\ lecteur'.start = lecteur.start /\ lecteur'.hdr = h
        BY <1>3, <2>1, <3>1, <3>3 DEF Lecteurs
      <3> QED BY <1>2, <2>1, <3>1, <3>3, <3>5, <3>6 DEF TypesFbox
    <2>4. CASE ~ (lecteur.nb < PollCount /\ Valide(boite[lecteur.start.off]))
      <3>1. /\ lecteur' = [lecteur EXCEPT !.pc = IF lecteur.nb > 0 THEN "rendre" ELSE "fifo", !.nb = 0]
            /\ fbox_in' = fbox_in /\ egare' = egare
        BY <1>5, <2>4 DEF Sonder
      <3>2. lecteur' \in Lecteurs /\ lecteur'.pc # "traiter"
        BY <1>3, <2>1, <3>1 DEF Lecteurs
      <3> QED BY <1>2, <2>1, <3>1, <3>2 DEF TypesFbox
    <2> QED BY <2>3, <2>4
  <1>6. ASSUME Traiter PROVE  Bien
    <2> DEFINE x == lecteur.start.off + lecteur.hdr.n
               start == IF x = Taille THEN [off |-> 1, hb |-> ~ lecteur.start.hb]
                        ELSE [lecteur.start EXCEPT !.off = x]
    <2>1. /\ lecteur.pc = "traiter" /\ UNCHANGED <<fbox_in, startp, fifo, egare>>
          /\ lecteur' = [pc |-> "sonder", nb |-> lecteur.nb + 1, start |-> start, hdr |-> Zero]
          /\ recus' = IF lecteur.hdr.tag = "saut" THEN recus
                      ELSE Append(recus, [m |-> lecteur.hdr.m, voie |-> "boite"])
      BY <1>6 DEF Traiter, Recevoir
    <2>2. /\ lecteur.start \in [off : 1 .. Taille - 1, hb : BOOLEAN] /\ lecteur.nb \in Nat
          /\ lecteur.hdr \in EnTetesLus /\ x <= Taille /\ (~ egare => lecteur.hdr \in EnTetes)
      BY <1>2, <1>3, <2>1 DEF Offsets, TypesFbox
    <2>3. /\ lecteur.hdr.n \in 1 .. Taille - 1
          /\ lecteur.hdr.tag # "saut" => lecteur.hdr.m \in Envoyes \cup {Intrus}
          /\ lecteur.hdr.tag # "saut" /\ ~ egare => lecteur.hdr.m \in Envoyes
      BY <2>2 DEF EnTetes, EnTetesLus
    <2>4. x \in 2 .. Taille
      BY <2>2, <2>3, Constantes
    <2>5. start \in Offsets
      <3>1. x # Taille => x \in 1 .. Taille - 1
        BY <2>4, Constantes
      <3> HIDE DEF x
      <3> QED BY <2>2, <3>1, Constantes DEF Offsets
    <2> HIDE DEF start, x
    <2>6. lecteur' \in Lecteurs /\ lecteur'.pc # "traiter"
      BY <2>1, <2>2, <2>5 DEF Lecteurs
    <2> DEFINE r == [m |-> lecteur.hdr.m, voie |-> "boite"]
    <2>7. lecteur.hdr.tag # "saut" => r \in Receptions
      BY <2>3 DEF Receptions
    <2>8. /\ recus' \in Seq(Receptions)
          /\ ~ egare => \A i \in 1 .. Len(recus') : recus'[i].m \in Envoyes
      <3>1. recus \in Seq(Receptions) /\ (~ egare => \A i \in 1 .. Len(recus) : recus[i].m \in Envoyes)
        BY <1>2 DEF TypesFbox
      <3>2. CASE lecteur.hdr.tag = "saut"
        BY <2>1, <3>1, <3>2
      <3>3. CASE lecteur.hdr.tag # "saut"
        <4>1. ~ egare => r.m \in Envoyes
          BY <2>3, <3>3
        <4> HIDE DEF r
        <4>2. PICK rs \in Seq(Receptions) : rs = recus
          BY <3>1
        <4>3. /\ Append(rs, r) \in Seq(Receptions) /\ Len(Append(rs, r)) = Len(rs) + 1 /\ Len(rs) \in Nat
              /\ \A i \in 1 .. Len(rs) : Append(rs, r)[i] = rs[i]
              /\ Append(rs, r)[Len(rs) + 1] = r
          BY <2>7, <3>3, AppendProperties
        <4>4. recus' = Append(rs, r)
          BY <2>1, <3>3, <4>2 DEF r
        <4> QED BY <3>1, <4>1, <4>2, <4>3, <4>4
      <3> QED BY <3>2, <3>3
    <2> QED BY <1>2, <2>1, <2>6, <2>8 DEF TypesFbox
  <1>7. ASSUME RendrePlace PROVE  Bien
    <2>1. /\ lecteur.pc = "rendre" /\ startp' = lecteur.start
          /\ fbox_in' = [fbox_in EXCEPT !.start = lecteur.start]
          /\ lecteur' = [lecteur EXCEPT !.pc = "fifo"]
          /\ UNCHANGED <<fifo, recus, egare>>
      BY <1>7 DEF RendrePlace
    <2>2. lecteur.start \in Offsets
      BY <1>3, <2>1
    <2>3. lecteur' \in Lecteurs /\ lecteur'.pc # "traiter"
      BY <1>3, <2>1 DEF Lecteurs
    <2> QED BY <1>2, <2>1, <2>2, <2>3 DEF TypesFbox
  <1>8. ASSUME Poll_fifo PROVE  Bien
    <2>1. lecteur.pc = "fifo" /\ startp' = startp /\ egare' = egare
      BY <1>8 DEF Poll_fifo
    <2>2. CASE fifo = <<>> \/ lecteur.nb = PollCount
      <3>1. lecteur' = Repos /\ UNCHANGED <<fbox_in, fifo, recus>>
        BY <1>8, <2>2 DEF Poll_fifo
      <3> QED BY <1>2, <1>3, <2>1, <3>1 DEF TypesFbox, Lecteurs
    <2>3. CASE ~ (fifo = <<>> \/ lecteur.nb = PollCount)
      <3>1. /\ fifo' = Tail(fifo)
            /\ recus' = Append(recus, [m |-> Head(fifo).m, voie |-> "fifo"])
            /\ fbox_in' = [fbox_in EXCEPT !.buffer = @ \/ Head(fifo).setup]
            /\ lecteur' = [lecteur EXCEPT !.nb = @ + 1]
        BY <1>8, <2>3 DEF Poll_fifo, Recevoir
      <3>2. fifo \in Seq(Fragments) /\ fifo # <<>>
        BY <1>2, <2>3 DEF TypesFbox
      <3>3. Head(fifo) \in Fragments /\ Tail(fifo) \in Seq(Fragments)
        BY <3>2, HeadTailProperties
      <3>4. [m |-> Head(fifo).m, voie |-> "fifo"] \in Receptions /\ Head(fifo).setup \in BOOLEAN
        BY <3>3 DEF Fragments, Receptions
      <3>5. recus' \in Seq(Receptions)
            /\ (~ egare => \A i \in 1 .. Len(recus') : recus'[i].m \in Envoyes)
        <4> DEFINE r == [m |-> Head(fifo).m, voie |-> "fifo"]
        <4>1. r \in Receptions /\ r.m \in Envoyes
          BY <3>3, <3>4 DEF Fragments
        <4> HIDE DEF r
        <4>2. PICK rs \in Seq(Receptions) : rs = recus
          BY <1>2 DEF TypesFbox
        <4>3. /\ Append(rs, r) \in Seq(Receptions) /\ Len(Append(rs, r)) = Len(rs) + 1 /\ Len(rs) \in Nat
              /\ \A i \in 1 .. Len(rs) : Append(rs, r)[i] = rs[i]
              /\ Append(rs, r)[Len(rs) + 1] = r
          BY <4>1, AppendProperties
        <4>4. recus' = Append(rs, r)
          BY <3>1, <4>2 DEF r
        <4>5. ~ egare => \A i \in 1 .. Len(rs) : rs[i].m \in Envoyes
          BY <1>2, <4>2 DEF TypesFbox
        <4> QED BY <4>1, <4>3, <4>4, <4>5
      <3>6. fbox_in' \in [buffer : BOOLEAN, start : Offsets, seq : 0 .. Modulo - 1]
        BY <1>2, <3>1, <3>4 DEF TypesFbox
      <3>7. lecteur' \in Lecteurs /\ lecteur'.pc # "traiter"
        BY <1>3, <2>1, <3>1 DEF Lecteurs
      <3> QED BY <1>2, <2>1, <3>1, <3>3, <3>5, <3>6, <3>7 DEF TypesFbox
    <2> QED BY <2>2, <2>3
  <1>9. Bien
    BY <1>4, <1>5, <1>6, <1>7, <1>8 DEF Lecture
  <1>10. TypesFbox'
    BY <1>1, <1>2, <1>9, MemeMode DEF TypesFbox
  <1>11. VerrousFbox' /\ MainsFbox' /\ PlaceFbox' /\ SansBoite' /\ AttenteFbox'
    BY <1>1 DEF InvFbox, VerrousFbox, MainsFbox, PlaceFbox, Libre, SansBoite, AttenteFbox
  <1> QED BY <1>10, <1>11 DEF InvFbox

(* What a step is.                                                          *)
LEMMA EtapesFbox ==
    ASSUME NextFbox
    PROVE  \/ \E a \in Acteurs : \/ PrendreVerrou(a) \/ Relire(a) \/ Sauter(a) \/ Ecrire(a)
                                 \/ Publier(a) \/ Clore(a) \/ Echouer(a) \/ Write_ep(a)
           \/ \E f \in Fils : \/ Sendi(f) \/ Send(f) \/ Attendre(f) \/ Inscrire(f)
                              \/ Compter(f) \/ Monter(f) \/ Write_fifo(f)
           \/ Progress_endpoints \/ Progress_waiting \/ FragSuivant \/ PlusRien
           \/ Lecture
  BY Constantes DEF NextFbox, Progresser, Fil, Ecriture

(* All of them.                                                             *)
LEMMA InvSuivant == InvFbox /\ [NextFbox]_varsFbox => InvFbox'
  <1> SUFFICES ASSUME InvFbox, [NextFbox]_varsFbox PROVE InvFbox'
    OBVIOUS
  <1>1. CASE UNCHANGED varsFbox
    <2>1. UNCHANGED <<mode, fbox_out, boite, publies, fbox_in, startp, lecteur, recus, egare, send_count,
                      acteur, ep_lock, pending_frags_lock, component_lock, pending_frags, waiting,
                      pending_endpoints, fifo, faits>>
      BY <1>1 DEF varsFbox, varsBoite, varsRecu, varsVerrous, varsAttente
    <2>2. TypesFbox'
      BY <2>1, MemeMode DEF InvFbox, TypesFbox
    <2> QED BY <2>1, <2>2
               DEF InvFbox, VerrousFbox, MainsFbox, PlaceFbox, Libre, SansBoite, AttenteFbox
  <1>2. CASE NextFbox
    BY <1>2, EtapesFbox, InvPrendreVerrou, InvRelire, InvSauter, InvEcrire, InvPublier,
       InvClore,
       InvEchouer, InvWrite_ep, InvSendi, InvSend, InvAttendre, InvInscrire, InvCompter, InvMonter,
       InvWrite_fifo, InvProgress_endpoints, InvProgress_waiting, InvFragSuivant, InvPlusRien,
       InvLecture
  <1> QED BY <1>1, <1>2

(* Where each thread is, with which message, which locks it holds there,    *)
(* and what it knows of the room in the box: the inductive invariant of     *)
(* sendi, send, write_ep and the progress of both processes.                *)
THEOREM InvFboxTheorem == SpecFbox => []InvFbox
  BY InitTypes, InvSuivant, PTL DEF SpecFbox

(* The type invariant; the locks of the endpoint, of the pending fragments  *)
(* and of the component are held exactly where btl_vader_fbox.h, _send.c    *)
(* and _component.c hold them.                                              *)
THEOREM TypeFboxTheorem == SpecFbox => []TypeFbox
  <1>1. InvFbox => TypeFbox
    <2> SUFFICES ASSUME InvFbox PROVE TypeFbox
      OBVIOUS
    <2>1. TypesFbox
      BY DEF InvFbox
    <2>2. /\ \A i \in DOMAIN pending_frags : pending_frags[i] \in Envoyes
          /\ \A i \in DOMAIN fifo : fifo[i].m \in Envoyes
          /\ \A i \in DOMAIN recus : recus[i].m \in Envoyes \cup {Intrus}
      <3>1. \A i \in 1 .. Len(pending_frags) : pending_frags[i] \in Envoyes
        BY <2>1, ElementOfSeq DEF TypesFbox
      <3>2. \A i \in 1 .. Len(fifo) : fifo[i] \in Fragments
        BY <2>1, ElementOfSeq DEF TypesFbox
      <3>3. \A i \in 1 .. Len(recus) : recus[i] \in Receptions
        BY <2>1, ElementOfSeq DEF TypesFbox
      <3>4. DOMAIN pending_frags = 1 .. Len(pending_frags) /\ DOMAIN fifo = 1 .. Len(fifo)
            /\ DOMAIN recus = 1 .. Len(recus)
        BY <2>1 DEF TypesFbox
      <3> QED BY <3>1, <3>2, <3>3, <3>4 DEF Fragments, Receptions
    <2>3. \A a \in Acteurs : acteur[a] # Repos <=> acteur[a].pc # "repos"
      BY <2>1, EtatsProprietes DEF TypesFbox, Repos
    <2>4. /\ fbox_out.start \in Offsets /\ fbox_out.end \in Offsets
          /\ fbox_in.start \in Offsets /\ startp \in Offsets
          /\ fbox_out.seq \in 0 .. Modulo - 1 /\ fbox_in.seq \in 0 .. Modulo - 1
      BY <2>1 DEF TypesFbox
    <2>5. VerrousFbox
      BY DEF InvFbox
    <2>6. \A a \in Acteurs :
         /\ ep_lock = a <=> acteur[a].pc \in {"relire", "sauter", "ecrire", "publier", "clore", "echec"}
         /\ component_lock = a <=> (a = progres /\ acteur[a] # Repos)
         /\ pending_frags_lock = a <=> \/ a # progres /\ acteur[a].pc = "inscrire"
                                       \/ a = progres /\ acteur[a].pc \notin {"repos", "parcourir"}
      BY <2>3, <2>5 DEF VerrousFbox, EnVerrou
    <2> QED BY <2>2, <2>4, <2>6 DEF TypeFbox
  <1> QED BY <1>1, InvFboxTheorem, PTL

(* Fragments that wait for room are on an endpoint that the progress will   *)
(* visit: a send appends under pending_frags_lock and tests waiting there,  *)
(* and the progress empties the queue and clears waiting under it.          *)
THEOREM AttenteInscriteTheorem == SpecFbox => []AttenteInscrite
  <1>1. InvFbox => AttenteInscrite
    BY DEF InvFbox, AttenteFbox, AttenteInscrite
  <1> QED BY <1>1, InvFboxTheorem, PTL

-----------------------------------------------------------------------------
(* One of a thread's messages comes after another.                          *)
Avant(x, y) == x[1] = y[1] => x[2] < y[2]
Croissant(s) == \A i, j \in DOMAIN s : i < j => Avant(s[i], s[j])

AuFifo == {i \in DOMAIN recus : recus[i].voie = "fifo"}
EnFifo == {"compter", "monter", "fifo"}

(* The box's messages, then those pending, then the one in hand: in order.  *)
OrdreBoite ==
    /\ Croissant(publies)
    /\ Croissant(pending_frags)
    /\ \A i \in DOMAIN publies, j \in DOMAIN pending_frags :
         Avant(publies[i], pending_frags[j]) \/ (j = 1 /\ acteur[progres].pc = "clore")
    /\ \A i \in DOMAIN publies :
         LET f == publies[i][1] IN
         publies[i][2] <= faits[f] \/ (acteur[f].pc = "clore" /\ publies[i][2] <= faits[f] + 1)
    /\ \A i \in DOMAIN pending_frags :
         LET f == pending_frags[i][1] IN
         pending_frags[i][2] <= faits[f]
         \/ (acteur[f].pc = "inscrire" /\ pending_frags[i][2] <= faits[f] + 1)
    /\ \A f \in Fils : acteur[f].pc \in EnVerrou \cup EnFifo \cup {"prendre", "ep"} =>
         \A i \in DOMAIN pending_frags : pending_frags[i][1] # f
    /\ \A f \in Fils : acteur[f].pc \in EnFifo => \A i \in DOMAIN publies : publies[i][1] # f

(* Those of the fifo, received or not: in order, and before all these.      *)
OrdreFifo ==
    /\ \A i, j \in AuFifo : i < j => Avant(recus[i].m, recus[j].m)
    /\ \A i \in AuFifo : \A j \in DOMAIN fifo : Avant(recus[i].m, fifo[j].m)
    /\ \A i, j \in DOMAIN fifo : i < j => Avant(fifo[i].m, fifo[j].m)
    /\ \A i \in AuFifo :
         /\ recus[i].m[2] <= faits[recus[i].m[1]]
         /\ \A j \in DOMAIN publies : Avant(recus[i].m, publies[j])
         /\ \A j \in DOMAIN pending_frags : Avant(recus[i].m, pending_frags[j])
    /\ \A i \in DOMAIN fifo :
         /\ fifo[i].m[2] <= faits[fifo[i].m[1]]
         /\ \A j \in DOMAIN publies : Avant(fifo[i].m, publies[j])
         /\ \A j \in DOMAIN pending_frags : Avant(fifo[i].m, pending_frags[j])

OrdreFbox == OrdreBoite /\ OrdreFifo

(* The messages that are somewhere, their threads and their ranks.          *)
LEMMA MessagesProprietes ==
    ASSUME TypesFbox
    PROVE  /\ \A m \in Envoyes : m[1] \in Fils /\ m[2] \in Nat \ {0} /\ m = <<m[1], m[2]>>
           /\ DOMAIN publies = 1 .. Len(publies) /\ Len(publies) \in Nat
           /\ \A i \in DOMAIN publies : publies[i] \in Envoyes
           /\ DOMAIN pending_frags = 1 .. Len(pending_frags) /\ Len(pending_frags) \in Nat
           /\ \A i \in DOMAIN pending_frags : pending_frags[i] \in Envoyes
           /\ DOMAIN fifo = 1 .. Len(fifo) /\ Len(fifo) \in Nat
           /\ \A i \in DOMAIN fifo : fifo[i].m \in Envoyes
           /\ DOMAIN recus = 1 .. Len(recus) /\ Len(recus) \in Nat
           /\ \A i \in DOMAIN recus : recus[i].voie = "fifo" \/ ~ egare => recus[i].m \in Envoyes
  <1>1. \A m \in Envoyes : m[1] \in Fils /\ m[2] \in Nat \ {0} /\ m = <<m[1], m[2]>>
    BY EnvoyesProprietes DEF TypesFbox
  <1>2. \A i \in 1 .. Len(pending_frags) : pending_frags[i] \in Envoyes
    BY ElementOfSeq DEF TypesFbox
  <1>3. \A i \in 1 .. Len(fifo) : fifo[i] \in Fragments
    BY ElementOfSeq DEF TypesFbox
  <1>4. \A i \in 1 .. Len(recus) : /\ recus[i] \in Receptions
                                   /\ ~ egare => recus[i].m \in Envoyes
    BY ElementOfSeq DEF TypesFbox
  <1>5. \A i \in 1 .. Len(publies) : publies[i] \in Envoyes
    BY ElementOfSeq DEF TypesFbox
  <1>6. /\ DOMAIN publies = 1 .. Len(publies) /\ Len(publies) \in Nat
        /\ DOMAIN pending_frags = 1 .. Len(pending_frags) /\ Len(pending_frags) \in Nat
        /\ DOMAIN fifo = 1 .. Len(fifo) /\ Len(fifo) \in Nat
        /\ DOMAIN recus = 1 .. Len(recus) /\ Len(recus) \in Nat
    BY DEF TypesFbox
  <1> QED BY <1>1, <1>2, <1>3, <1>4, <1>5, <1>6 DEF Fragments, Receptions

(* A step in which one thread goes elsewhere and nothing is given away.     *)
LEMMA OrdreEtat ==
    ASSUME TypesFbox, OrdreFbox, NEW a \in Acteurs,
           UNCHANGED <<publies, pending_frags, fifo, recus, faits>>,
           \A b \in Acteurs : b # a => acteur'[b] = acteur[b],
           acteur[a].pc \notin {"clore", "inscrire"},
           a \in Fils /\ acteur'[a].pc \in EnVerrou \cup EnFifo \cup {"prendre", "ep"} =>
             acteur[a].pc \in EnVerrou \cup EnFifo \cup {"prendre", "ep"} \/ pending_frags = <<>>,
           a \in Fils /\ acteur'[a].pc \in EnFifo => acteur[a].pc \in EnFifo \/ publies = <<>>
    PROVE  OrdreFbox'
  <1>1. OrdreFifo'
    BY DEF OrdreFbox, OrdreFifo, AuFifo, Avant
  <1>2. /\ Croissant(publies)' /\ Croissant(pending_frags)'
        /\ \A i \in DOMAIN publies, j \in DOMAIN pending_frags :
             Avant(publies[i], pending_frags[j]) \/ (j = 1 /\ acteur'[progres].pc = "clore")
    BY Constantes DEF OrdreFbox, OrdreBoite, Croissant, Avant
  <1>3. \A i \in DOMAIN publies :
         LET f == publies[i][1] IN
         publies[i][2] <= faits[f] \/ (acteur'[f].pc = "clore" /\ publies[i][2] <= faits[f] + 1)
    BY MessagesProprietes, Constantes DEF OrdreFbox, OrdreBoite
  <1>4. \A i \in DOMAIN pending_frags :
         LET f == pending_frags[i][1] IN
         pending_frags[i][2] <= faits[f]
         \/ (acteur'[f].pc = "inscrire" /\ pending_frags[i][2] <= faits[f] + 1)
    BY MessagesProprietes, Constantes DEF OrdreFbox, OrdreBoite
  <1>5. \A f \in Fils : acteur'[f].pc \in EnVerrou \cup EnFifo \cup {"prendre", "ep"} =>
         \A i \in DOMAIN pending_frags : pending_frags[i][1] # f
    BY Constantes DEF OrdreFbox, OrdreBoite
  <1>6. \A f \in Fils : acteur'[f].pc \in EnFifo => \A i \in DOMAIN publies : publies[i][1] # f
    BY Constantes DEF OrdreFbox, OrdreBoite
  <1> HIDE DEF OrdreBoite
  <1>7. OrdreBoite'
    BY <1>2, <1>3, <1>4, <1>5, <1>6 DEF OrdreBoite
  <1> QED BY <1>1, <1>7 DEF OrdreFbox

(* What a sequence has with one more element, and without its first.        *)
LEMMA AppendElements ==
    ASSUME NEW S, NEW s \in Seq(S), NEW e \in S
    PROVE  /\ DOMAIN Append(s, e) = 1 .. Len(s) + 1 /\ Len(s) \in Nat /\ DOMAIN s = 1 .. Len(s)
           /\ \A i \in 1 .. Len(s) : Append(s, e)[i] = s[i]
           /\ Append(s, e)[Len(s) + 1] = e
  BY AppendProperties

LEMMA TailElements ==
    ASSUME NEW S, NEW s \in Seq(S), s # <<>>
    PROVE  /\ DOMAIN Tail(s) = 1 .. Len(s) - 1 /\ Len(s) \in Nat \ {0} /\ DOMAIN s = 1 .. Len(s)
           /\ \A i \in 1 .. Len(s) - 1 : Tail(s)[i] = s[i + 1]
           /\ Head(s) = s[1]
  BY HeadTailProperties

(* The order of messages after each action that moves one.                  *)
LEMMA OrdrePublier ==
    ASSUME InvFbox, OrdreFbox, NEW a \in Acteurs, Publier(a)
    PROVE  OrdreFbox'
  <1> DEFINE m == acteur[a].m
             n == Len(publies)
  <1>1. /\ acteur[a].pc = "publier" /\ publies' = Append(publies, m)
        /\ Placer(a, [acteur[a] EXCEPT !.pc = "clore"])
        /\ UNCHANGED <<pending_frags, fifo, recus, faits>>
    BY DEF Publier, Vers, varsRecu, varsAttente
  <1>2. TypesFbox /\ acteur[a] \in Etats
    BY DEF InvFbox, TypesFbox
  <1>3. acteur[a] \in EtatsBoite
    BY <1>1, <1>2, EtatsProprietes DEF EnVerrou
  <1>4. m \in Envoyes /\ [acteur[a] EXCEPT !.pc = "clore"].pc = "clore"
        /\ [acteur[a] EXCEPT !.pc = "clore"] \in Etats
    BY <1>3, BoiteProprietes DEF EnVerrou
  <1>5. /\ acteur'[a].pc = "clore"
        /\ \A b \in Acteurs : b # a => acteur'[b] = acteur[b]
    BY <1>1, <1>2, <1>4, PlacerProprietes DEF TypesFbox
  <1>6. /\ DOMAIN publies' = 1 .. n + 1 /\ n \in Nat /\ DOMAIN publies = 1 .. n
        /\ \A i \in 1 .. n : publies'[i] = publies[i]
        /\ publies'[n + 1] = m
    BY <1>1, <1>2, <1>4, AppendElements DEF TypesFbox
  <1>7. m[1] \in Fils /\ m[2] \in Nat
    BY <1>2, <1>4, MessagesProprietes
  <1> DEFINE DeA == /\ a \in Fils /\ m[1] = a /\ m[2] = faits[a] + 1
                    /\ \A i \in DOMAIN pending_frags : pending_frags[i][1] # a
             DuProgres == /\ a = progres /\ 1 \in DOMAIN pending_frags /\ m = pending_frags[1]
                          /\ m[2] <= faits[m[1]]
  <1>8. DeA \/ DuProgres
    <2>1. CASE a \in Fils
      BY <1>1, <2>1 DEF InvFbox, MainsFbox, OrdreFbox, OrdreBoite, EnVerrou
    <2>2. CASE a = progres
      <3>1. pending_frags # <<>> /\ m = pending_frags[1]
        BY <1>1, <2>2 DEF InvFbox, MainsFbox
      <3>2. 1 \in DOMAIN pending_frags
        BY <1>2, <3>1, MessagesProprietes DEF TypesFbox
      <3>3. acteur[m[1]].pc # "inscrire"
        BY <1>1, <1>7, <2>2, Constantes DEF InvFbox, VerrousFbox
      <3> QED BY <2>2, <3>1, <3>2, <3>3 DEF OrdreFbox, OrdreBoite
    <2> QED BY <2>1, <2>2, Constantes
  <1> HIDE DEF m, n
  <1>9. \A i \in 1 .. n : Avant(publies[i], m)
    <2>1. CASE DeA
      <3>1. \A i \in 1 .. n : publies[i][1] = a => publies[i][2] <= faits[a]
        BY <1>1, <1>6 DEF OrdreFbox, OrdreBoite
      <3>2. \A i \in 1 .. n : publies[i][2] \in Nat
        BY <1>2, <1>6, MessagesProprietes
      <3>3. faits[a] \in Nat
        BY <1>2, <2>1 DEF TypesFbox
      <3> QED BY <2>1, <3>1, <3>2, <3>3 DEF Avant
    <2>2. CASE DuProgres
      BY <1>1, <1>6, <2>2 DEF OrdreFbox, OrdreBoite
    <2> QED BY <1>8, <2>1, <2>2
  <1>10. Croissant(publies)'
    BY <1>6, <1>9 DEF OrdreFbox, OrdreBoite, Croissant, Avant
  <1>11. \A j \in DOMAIN pending_frags : Avant(m, pending_frags[j]) \/ (j = 1 /\ a = progres)
    <2>1. CASE DeA
      BY <2>1 DEF Avant
    <2>2. CASE DuProgres
      BY <1>2, <2>2, MessagesProprietes DEF OrdreFbox, OrdreBoite, Croissant
    <2> QED BY <1>8, <2>1, <2>2
  <1>12. \A i \in DOMAIN publies', j \in DOMAIN pending_frags :
            Avant(publies'[i], pending_frags[j]) \/ (j = 1 /\ acteur'[progres].pc = "clore")
    BY <1>1, <1>5, <1>6, <1>11, Constantes DEF OrdreFbox, OrdreBoite
  <1>13. \A i \in DOMAIN publies' :
         LET f == publies'[i][1] IN
         publies'[i][2] <= faits[f] \/ (acteur'[f].pc = "clore" /\ publies'[i][2] <= faits[f] + 1)
    <2>1. \A i \in 1 .. n :
            LET f == publies[i][1] IN
            publies[i][2] <= faits[f] \/ (acteur'[f].pc = "clore" /\ publies[i][2] <= faits[f] + 1)
      <3> SUFFICES ASSUME NEW i \in 1 .. n
                   PROVE  LET f == publies[i][1] IN
                          publies[i][2] <= faits[f]
                          \/ (acteur'[f].pc = "clore" /\ publies[i][2] <= faits[f] + 1)
        OBVIOUS
      <3>1. publies[i][1] \in Acteurs
        BY <1>2, <1>6, MessagesProprietes, Constantes
      <3>2. acteur[publies[i][1]].pc = "clore" => acteur'[publies[i][1]].pc = "clore"
        BY <1>1, <1>5, <3>1
      <3> QED BY <1>6, <3>2 DEF OrdreFbox, OrdreBoite
    <2>2. m[2] <= faits[m[1]] \/ (acteur'[m[1]].pc = "clore" /\ m[2] <= faits[m[1]] + 1)
      <3>1. CASE DeA
        <4>1. faits[a] \in Nat
          BY <1>2, <3>1 DEF TypesFbox
        <4> QED BY <1>5, <3>1, <4>1
      <3>2. CASE DuProgres
        BY <3>2
      <3> QED BY <1>8, <3>1, <3>2
    <2> QED BY <1>6, <2>1, <2>2
  <1>14. \A i \in DOMAIN pending_frags :
         LET f == pending_frags[i][1] IN
         pending_frags[i][2] <= faits[f]
         \/ (acteur'[f].pc = "inscrire" /\ pending_frags[i][2] <= faits[f] + 1)
    BY <1>1, <1>2, <1>5, MessagesProprietes, Constantes DEF OrdreFbox, OrdreBoite
  <1>15. \A f \in Fils : acteur'[f].pc \in EnVerrou \cup EnFifo \cup {"prendre", "ep"} =>
         \A i \in DOMAIN pending_frags : pending_frags[i][1] # f
    BY <1>1, <1>5, Constantes DEF OrdreFbox, OrdreBoite, EnVerrou
  <1>16. \A f \in Fils : acteur'[f].pc \in EnFifo => m[1] # f
    <2>1. CASE DeA
      BY <1>5, <2>1 DEF EnFifo
    <2>2. CASE DuProgres
      BY <1>5, <2>2, Constantes DEF OrdreFbox, OrdreBoite, EnFifo
    <2> QED BY <1>8, <2>1, <2>2
  <1>17. \A f \in Fils : acteur'[f].pc \in EnFifo => \A i \in DOMAIN publies' : publies'[i][1] # f
    BY <1>5, <1>6, <1>16, Constantes DEF OrdreFbox, OrdreBoite, EnFifo
  <1>18. OrdreBoite'
    BY <1>1, <1>10, <1>12, <1>13, <1>14, <1>15, <1>17
       DEF OrdreBoite, OrdreFbox, Croissant, Avant
  <1>19. /\ \A i \in AuFifo : Avant(recus[i].m, m)
         /\ \A i \in DOMAIN fifo : Avant(fifo[i].m, m)
    <2>1. CASE DeA
      <3>1. faits[a] \in Nat
        BY <1>2, <2>1 DEF TypesFbox
      <3>2. /\ \A i \in AuFifo : recus[i].m[2] \in Nat
            /\ \A i \in DOMAIN fifo : fifo[i].m[2] \in Nat
        BY <1>2, MessagesProprietes DEF AuFifo
      <3> QED BY <2>1, <3>1, <3>2 DEF OrdreFbox, OrdreFifo, Avant
    <2>2. CASE DuProgres
      BY <2>2 DEF OrdreFbox, OrdreFifo
    <2> QED BY <1>8, <2>1, <2>2
  <1>20. /\ \A i \in AuFifo : \A j \in DOMAIN publies' : Avant(recus[i].m, publies'[j])
         /\ \A i \in DOMAIN fifo : \A j \in DOMAIN publies' : Avant(fifo[i].m, publies'[j])
    BY <1>6, <1>19 DEF OrdreFbox, OrdreFifo
  <1>21. OrdreFifo'
    BY <1>1, <1>20 DEF OrdreFifo, OrdreFbox, AuFifo, Avant
  <1> QED BY <1>18, <1>21 DEF OrdreFbox

LEMMA OrdreClore ==
    ASSUME InvFbox, OrdreFbox, NEW a \in Acteurs, Clore(a)
    PROVE  OrdreFbox'
  <1> DEFINE e == IF a = progres THEN [pc |-> "attente"] ELSE Repos
  <1>1. /\ acteur[a].pc = "clore" /\ Placer(a, e)
        /\ pending_frags' = IF a = progres THEN Tail(pending_frags) ELSE pending_frags
        /\ faits' = IF a = progres THEN faits ELSE [faits EXCEPT ![a] = @ + 1]
        /\ UNCHANGED <<publies, fifo, recus>>
    BY DEF Clore, Reussir, Donner, varsRecu
  <1>2. TypesFbox
    BY DEF InvFbox
  <1>3. e \in Etats /\ e.pc \in {"attente", "repos"}
    BY DEF Etats, EtatsSans, Repos
  <1> HIDE DEF e
  <1>4. /\ acteur'[a].pc \in {"attente", "repos"}
        /\ \A b \in Acteurs : b # a => acteur'[b] = acteur[b]
    BY <1>1, <1>2, <1>3, PlacerProprietes DEF TypesFbox
  <1>5. CASE a = progres
    <2>1. pending_frags # <<>>
      BY <1>1, <1>5 DEF InvFbox, MainsFbox
    <2>2. /\ DOMAIN pending_frags' = 1 .. Len(pending_frags) - 1 /\ Len(pending_frags) \in Nat \ {0}
          /\ DOMAIN pending_frags = 1 .. Len(pending_frags)
          /\ \A i \in 1 .. Len(pending_frags) - 1 : pending_frags'[i] = pending_frags[i + 1]
      BY <1>1, <1>2, <1>5, <2>1, TailElements DEF TypesFbox
    <2>3. \A i \in DOMAIN pending_frags' : i + 1 \in DOMAIN pending_frags /\ i + 1 # 1
                                           /\ pending_frags'[i] = pending_frags[i + 1]
      BY <2>2
    <2>4. faits' = faits /\ UNCHANGED <<publies, fifo, recus>>
      BY <1>1, <1>5
    <2>5. \A f \in Fils : acteur'[f] = acteur[f]
      BY <1>4, <1>5, Constantes
    <2>6. Croissant(publies)' /\ Croissant(pending_frags)'
      <3>1. Croissant(pending_frags)'
        <4> SUFFICES ASSUME NEW i \in DOMAIN pending_frags', NEW j \in DOMAIN pending_frags', i < j
                     PROVE  Avant(pending_frags'[i], pending_frags'[j])
          BY DEF Croissant, Avant
        <4>1. i + 1 < j + 1
          BY <2>2
        <4> QED BY <2>3, <4>1 DEF OrdreFbox, OrdreBoite, Croissant
      <3> QED BY <2>4, <3>1 DEF OrdreFbox, OrdreBoite, Croissant, Avant
    <2>7. \A i \in DOMAIN publies, j \in DOMAIN pending_frags' : Avant(publies[i], pending_frags'[j])
      BY <2>3 DEF OrdreFbox, OrdreBoite
    <2>8. OrdreBoite'
      <3>1. \A i \in DOMAIN publies :
              LET f == publies[i][1] IN
              publies[i][2] <= faits[f] \/ (acteur'[f].pc = "clore" /\ publies[i][2] <= faits[f] + 1)
        BY <1>2, <2>5, MessagesProprietes DEF OrdreFbox, OrdreBoite
      <3>2. \A i \in DOMAIN pending_frags' :
              LET f == pending_frags'[i][1] IN
              pending_frags'[i][2] <= faits[f]
              \/ (acteur'[f].pc = "inscrire" /\ pending_frags'[i][2] <= faits[f] + 1)
        BY <1>2, <2>3, <2>5, MessagesProprietes DEF OrdreFbox, OrdreBoite
      <3>3. \A f \in Fils : acteur'[f].pc \in EnVerrou \cup EnFifo \cup {"prendre", "ep"} =>
             \A i \in DOMAIN pending_frags' : pending_frags'[i][1] # f
        BY <2>3, <2>5 DEF OrdreFbox, OrdreBoite
      <3>4. \A f \in Fils : acteur'[f].pc \in EnFifo => \A i \in DOMAIN publies : publies[i][1] # f
        BY <2>5 DEF OrdreFbox, OrdreBoite
      <3> QED BY <2>4, <2>6, <2>7, <3>1, <3>2, <3>3, <3>4 DEF OrdreBoite, Avant
    <2>9. OrdreFifo'
      BY <2>3, <2>4 DEF OrdreFbox, OrdreFifo, AuFifo, Avant
    <2> QED BY <2>8, <2>9 DEF OrdreFbox
  <1>6. CASE a # progres
    <2>1. /\ a \in Fils /\ faits' = [faits EXCEPT ![a] = @ + 1]
          /\ UNCHANGED <<publies, pending_frags, fifo, recus>>
      BY <1>1, <1>6, Constantes
    <2>2. /\ \A f \in Fils : faits[f] \in Nat /\ faits'[f] \in Nat /\ faits[f] <= faits'[f]
          /\ faits'[a] = faits[a] + 1
          /\ \A f \in Fils : f # a => faits'[f] = faits[f]
      BY <1>2, <2>1 DEF TypesFbox
    <2>3. \A i \in DOMAIN publies :
            LET f == publies[i][1] IN
            publies[i][2] <= faits'[f] \/ (acteur'[f].pc = "clore" /\ publies[i][2] <= faits'[f] + 1)
      <3> SUFFICES ASSUME NEW i \in DOMAIN publies
                   PROVE  LET f == publies[i][1] IN
                          publies[i][2] <= faits'[f]
                          \/ (acteur'[f].pc = "clore" /\ publies[i][2] <= faits'[f] + 1)
        OBVIOUS
      <3>1. publies[i][1] \in Fils /\ publies[i][2] \in Nat
        BY <1>2, MessagesProprietes
      <3> QED BY <1>4, <2>2, <3>1, Constantes DEF OrdreFbox, OrdreBoite
    <2>4. \A i \in DOMAIN pending_frags :
            LET f == pending_frags[i][1] IN
            pending_frags[i][2] <= faits'[f]
            \/ (acteur'[f].pc = "inscrire" /\ pending_frags[i][2] <= faits'[f] + 1)
      <3> SUFFICES ASSUME NEW i \in DOMAIN pending_frags
                   PROVE  LET f == pending_frags[i][1] IN
                          pending_frags[i][2] <= faits'[f]
                          \/ (acteur'[f].pc = "inscrire" /\ pending_frags[i][2] <= faits'[f] + 1)
        OBVIOUS
      <3>1. pending_frags[i][1] \in Fils /\ pending_frags[i][2] \in Nat
        BY <1>2, MessagesProprietes
      <3> QED BY <1>1, <1>4, <2>2, <3>1, Constantes DEF OrdreFbox, OrdreBoite
    <2>5. /\ \A f \in Fils : acteur'[f].pc \in EnVerrou \cup EnFifo \cup {"prendre", "ep"} =>
                \A i \in DOMAIN pending_frags : pending_frags[i][1] # f
          /\ \A f \in Fils : acteur'[f].pc \in EnFifo => \A i \in DOMAIN publies : publies[i][1] # f
      BY <1>4, Constantes DEF OrdreFbox, OrdreBoite, EnVerrou, EnFifo
    <2>6. \A i \in DOMAIN publies, j \in DOMAIN pending_frags :
            Avant(publies[i], pending_frags[j]) \/ (j = 1 /\ acteur'[progres].pc = "clore")
      BY <1>4, <1>6, Constantes DEF OrdreFbox, OrdreBoite
    <2>7. OrdreBoite'
      BY <2>1, <2>3, <2>4, <2>5, <2>6 DEF OrdreBoite, OrdreFbox, Croissant, Avant
    <2>8. /\ \A i \in AuFifo : recus[i].m[2] <= faits'[recus[i].m[1]]
          /\ \A i \in DOMAIN fifo : fifo[i].m[2] <= faits'[fifo[i].m[1]]
      <3>1. /\ \A i \in AuFifo : recus[i].m[1] \in Fils /\ recus[i].m[2] \in Nat
            /\ \A i \in DOMAIN fifo : fifo[i].m[1] \in Fils /\ fifo[i].m[2] \in Nat
        BY <1>2, MessagesProprietes DEF AuFifo
      <3> QED BY <2>2, <3>1 DEF OrdreFbox, OrdreFifo
    <2>9. OrdreFifo'
      BY <2>1, <2>8 DEF OrdreFbox, OrdreFifo, AuFifo, Avant
    <2> QED BY <2>7, <2>9 DEF OrdreFbox
  <1> QED BY <1>5, <1>6

LEMMA OrdreAttendre ==
    ASSUME InvFbox, OrdreFbox, NEW f \in Fils, Attendre(f)
    PROVE  OrdreFbox'
  <1> DEFINE m == acteur[f].m
             n == Len(pending_frags)
             e == IF waiting THEN Repos ELSE [acteur[f] EXCEPT !.pc = "inscrire"]
  <1>1. /\ acteur[f].pc = "attendre" /\ pending_frags_lock = Personne /\ Placer(f, e)
        /\ pending_frags' = Append(pending_frags, m)
        /\ faits' = IF waiting THEN [faits EXCEPT ![f] = @ + 1] ELSE faits
        /\ UNCHANGED <<publies, fifo, recus>>
    BY DEF Attendre, Vers, Donner, varsBoite, varsRecu
  <1>2. TypesFbox /\ acteur[f] \in Etats /\ f \in Acteurs /\ f # progres
    BY Constantes DEF InvFbox, TypesFbox
  <1>3. acteur[f] \in EtatsEnvoi
    BY <1>1, <1>2, EtatsProprietes DEF EnVerrou
  <1>4. m \in Envoyes /\ m[1] = f /\ m[2] = faits[f] + 1 /\ faits[f] \in Nat
    <2>1. m \in Envoyes /\ faits[f] \in Nat
      BY <1>2, <1>3, EnvoiProprietes DEF TypesFbox
    <2>2. m = <<f, faits[f] + 1>>
      BY <1>1 DEF InvFbox, MainsFbox
    <2> HIDE DEF m
    <2> QED BY <2>1, <2>2
  <1>5. e \in Etats /\ e.pc = IF waiting THEN "repos" ELSE "inscrire"
    <2>1. Repos \in Etats /\ Repos.pc = "repos"
      BY DEF Repos, Etats, EtatsSans
    <2>2. LET x == [acteur[f] EXCEPT !.pc = "inscrire"]
          IN  x \in Etats /\ x.pc = "inscrire"
      BY <1>3, EnvoiProprietes
    <2> QED BY <2>1, <2>2
  <1> HIDE DEF e, m, n
  <1>6. /\ acteur'[f].pc = IF waiting THEN "repos" ELSE "inscrire"
        /\ \A b \in Acteurs : b # f => acteur'[b] = acteur[b]
    BY <1>1, <1>2, <1>5, PlacerProprietes DEF TypesFbox
  <1>7. /\ DOMAIN pending_frags' = 1 .. n + 1 /\ n \in Nat /\ DOMAIN pending_frags = 1 .. n
        /\ \A i \in 1 .. n : pending_frags'[i] = pending_frags[i]
        /\ pending_frags'[n + 1] = m
    BY <1>1, <1>2, <1>4, AppendElements DEF TypesFbox, n
  <1>8. /\ \A g \in Fils : faits[g] \in Nat /\ faits'[g] \in Nat /\ faits[g] <= faits'[g]
        /\ \A g \in Fils : g # f => faits'[g] = faits[g]
        /\ faits[f] + 1 <= faits'[f] \/ (acteur'[f].pc = "inscrire" /\ faits'[f] = faits[f])
    <2>1. faits \in [Fils -> Nat]
      BY <1>2 DEF TypesFbox
    <2>2. CASE waiting
      <3>1. faits' = [faits EXCEPT ![f] = faits[f] + 1] /\ faits[f] \in Nat
        BY <1>1, <2>1, <2>2
      <3>2. faits'[f] = faits[f] + 1 /\ \A g \in Fils : g # f => faits'[g] = faits[g]
        BY <2>1, <3>1
      <3> QED BY <2>1, <3>1, <3>2
    <2>3. CASE ~ waiting
      <3>1. faits' = faits
        BY <1>1, <2>3
      <3> QED BY <1>6, <2>1, <2>3, <3>1
    <2> QED BY <2>2, <2>3
  <1>9. /\ \A i \in DOMAIN publies : publies[i][1] \in Fils /\ publies[i][2] \in Nat
        /\ \A i \in DOMAIN pending_frags : pending_frags[i][1] \in Fils /\ pending_frags[i][2] \in Nat
        /\ \A i \in AuFifo : recus[i].m[1] \in Fils /\ recus[i].m[2] \in Nat
        /\ \A i \in DOMAIN fifo : fifo[i].m[1] \in Fils /\ fifo[i].m[2] \in Nat
    BY <1>2, MessagesProprietes DEF AuFifo
  <1>10. /\ \A i \in DOMAIN publies : publies[i][1] = f => publies[i][2] <= faits[f]
         /\ \A i \in DOMAIN pending_frags : pending_frags[i][1] = f => pending_frags[i][2] <= faits[f]
         /\ \A i \in AuFifo : recus[i].m[1] = f => recus[i].m[2] <= faits[f]
         /\ \A i \in DOMAIN fifo : fifo[i].m[1] = f => fifo[i].m[2] <= faits[f]
    BY <1>1 DEF OrdreFbox, OrdreBoite, OrdreFifo
  <1>11. /\ \A i \in DOMAIN publies : Avant(publies[i], m)
         /\ \A i \in DOMAIN pending_frags : Avant(pending_frags[i], m)
         /\ \A i \in AuFifo : Avant(recus[i].m, m)
         /\ \A i \in DOMAIN fifo : Avant(fifo[i].m, m)
    BY <1>4, <1>9, <1>10 DEF Avant
  <1>12. Croissant(publies)' /\ Croissant(pending_frags)'
    <2>1. Croissant(pending_frags)'
      BY <1>7, <1>11 DEF OrdreFbox, OrdreBoite, Croissant, Avant
    <2> QED BY <1>1, <2>1 DEF OrdreFbox, OrdreBoite, Croissant, Avant
  <1>13. \A i \in DOMAIN publies, j \in DOMAIN pending_frags' :
            Avant(publies[i], pending_frags'[j]) \/ (j = 1 /\ acteur'[progres].pc = "clore")
    BY <1>2, <1>6, <1>7, <1>11, Constantes DEF OrdreFbox, OrdreBoite
  <1>14. \A i \in DOMAIN publies :
           LET g == publies[i][1] IN
           publies[i][2] <= faits'[g] \/ (acteur'[g].pc = "clore" /\ publies[i][2] <= faits'[g] + 1)
    <2> SUFFICES ASSUME NEW i \in DOMAIN publies
                 PROVE  LET g == publies[i][1] IN
                        publies[i][2] <= faits'[g]
                        \/ (acteur'[g].pc = "clore" /\ publies[i][2] <= faits'[g] + 1)
      OBVIOUS
    <2>1. CASE publies[i][1] = f
      BY <1>8, <1>9, <1>10, <2>1
    <2>2. CASE publies[i][1] # f
      BY <1>6, <1>8, <1>9, <2>2, Constantes DEF OrdreFbox, OrdreBoite
    <2> QED BY <2>1, <2>2
  <1>15. \A i \in DOMAIN pending_frags' :
           LET g == pending_frags'[i][1] IN
           pending_frags'[i][2] <= faits'[g]
           \/ (acteur'[g].pc = "inscrire" /\ pending_frags'[i][2] <= faits'[g] + 1)
    <2>1. m[2] <= faits'[f] \/ (acteur'[f].pc = "inscrire" /\ m[2] <= faits'[f] + 1)
      BY <1>4, <1>8, <1>2
    <2>2. \A i \in 1 .. n :
            LET g == pending_frags[i][1] IN
            pending_frags[i][2] <= faits'[g]
            \/ (acteur'[g].pc = "inscrire" /\ pending_frags[i][2] <= faits'[g] + 1)
      <3> SUFFICES ASSUME NEW i \in 1 .. n
                   PROVE  LET g == pending_frags[i][1] IN
                          pending_frags[i][2] <= faits'[g]
                          \/ (acteur'[g].pc = "inscrire" /\ pending_frags[i][2] <= faits'[g] + 1)
        OBVIOUS
      <3>1. CASE pending_frags[i][1] = f
        BY <1>7, <1>8, <1>9, <1>10, <3>1
      <3>2. CASE pending_frags[i][1] # f
        BY <1>6, <1>7, <1>8, <1>9, <3>2, Constantes DEF OrdreFbox, OrdreBoite
      <3> QED BY <3>1, <3>2
    <2> QED BY <1>4, <1>7, <2>1, <2>2
  <1>16. \A g \in Fils : acteur'[g].pc \in EnVerrou \cup EnFifo \cup {"prendre", "ep"} =>
           g # f /\ \A i \in DOMAIN pending_frags' : pending_frags'[i][1] # g
    <2>1. \A g \in Fils : acteur'[g].pc \in EnVerrou \cup EnFifo \cup {"prendre", "ep"} => g # f
      BY <1>6 DEF EnVerrou, EnFifo
    <2> QED BY <1>4, <1>6, <1>7, <2>1, Constantes DEF OrdreFbox, OrdreBoite
  <1>17. \A g \in Fils : acteur'[g].pc \in EnFifo => \A i \in DOMAIN publies : publies[i][1] # g
    BY <1>6, <1>16, Constantes DEF OrdreFbox, OrdreBoite
  <1>18. OrdreBoite'
    BY <1>1, <1>12, <1>13, <1>14, <1>15, <1>16, <1>17 DEF OrdreBoite
  <1>19. /\ \A i \in AuFifo : /\ recus[i].m[2] <= faits'[recus[i].m[1]]
                              /\ \A j \in DOMAIN pending_frags' : Avant(recus[i].m, pending_frags'[j])
         /\ \A i \in DOMAIN fifo : /\ fifo[i].m[2] <= faits'[fifo[i].m[1]]
                                   /\ \A j \in DOMAIN pending_frags' : Avant(fifo[i].m, pending_frags'[j])
    <2>1. /\ \A i \in AuFifo : recus[i].m[2] <= faits'[recus[i].m[1]]
          /\ \A i \in DOMAIN fifo : fifo[i].m[2] <= faits'[fifo[i].m[1]]
      BY <1>8, <1>9 DEF OrdreFbox, OrdreFifo
    <2>2. /\ \A i \in AuFifo : \A j \in DOMAIN pending_frags' : Avant(recus[i].m, pending_frags'[j])
          /\ \A i \in DOMAIN fifo : \A j \in DOMAIN pending_frags' : Avant(fifo[i].m, pending_frags'[j])
      BY <1>7, <1>11 DEF OrdreFbox, OrdreFifo
    <2> QED BY <2>1, <2>2
  <1>20. OrdreFifo'
    BY <1>1, <1>19 DEF OrdreFbox, OrdreFifo, AuFifo, Avant
  <1> QED BY <1>18, <1>20 DEF OrdreFbox

LEMMA OrdreInscrire ==
    ASSUME InvFbox, OrdreFbox, NEW f \in Fils, Inscrire(f)
    PROVE  OrdreFbox'
  <1>1. /\ acteur[f].pc = "inscrire" /\ Donner(f)
        /\ UNCHANGED <<mode, publies, pending_frags, fifo, recus>>
    BY DEF Inscrire, varsBoite, varsRecu
  <1>2. TypesFbox
    BY DEF InvFbox
  <1>3. /\ acteur'[f].pc = "repos"
        /\ \A b \in Acteurs : b # f => acteur'[b] = acteur[b]
        /\ faits'[f] = faits[f] + 1
        /\ \A g \in Fils : g # f => faits'[g] = faits[g]
        /\ \A g \in Fils : faits[g] \in Nat
    BY <1>1, <1>2, DonnerProprietes DEF TypesFbox
  <1>4. /\ \A i \in DOMAIN publies : publies[i][1] \in Fils /\ publies[i][2] \in Nat
        /\ \A i \in DOMAIN pending_frags : pending_frags[i][1] \in Fils /\ pending_frags[i][2] \in Nat
        /\ \A i \in AuFifo : recus[i].m[1] \in Fils /\ recus[i].m[2] \in Nat
        /\ \A i \in DOMAIN fifo : fifo[i].m[1] \in Fils /\ fifo[i].m[2] \in Nat
    BY <1>2, MessagesProprietes DEF AuFifo
  <1>5. \A i \in DOMAIN publies :
          LET g == publies[i][1] IN
          publies[i][2] <= faits'[g] \/ (acteur'[g].pc = "clore" /\ publies[i][2] <= faits'[g] + 1)
    <2> SUFFICES ASSUME NEW i \in DOMAIN publies
                 PROVE  LET g == publies[i][1] IN
                        publies[i][2] <= faits'[g]
                        \/ (acteur'[g].pc = "clore" /\ publies[i][2] <= faits'[g] + 1)
      OBVIOUS
    <2>1. CASE publies[i][1] = f
      BY <1>1, <1>3, <1>4, <2>1 DEF OrdreFbox, OrdreBoite
    <2>2. CASE publies[i][1] # f
      BY <1>3, <1>4, <2>2, Constantes DEF OrdreFbox, OrdreBoite
    <2> QED BY <2>1, <2>2
  <1>6. \A i \in DOMAIN pending_frags :
          LET g == pending_frags[i][1] IN
          pending_frags[i][2] <= faits'[g]
          \/ (acteur'[g].pc = "inscrire" /\ pending_frags[i][2] <= faits'[g] + 1)
    <2> SUFFICES ASSUME NEW i \in DOMAIN pending_frags
                 PROVE  LET g == pending_frags[i][1] IN
                        pending_frags[i][2] <= faits'[g]
                        \/ (acteur'[g].pc = "inscrire" /\ pending_frags[i][2] <= faits'[g] + 1)
      OBVIOUS
    <2>1. CASE pending_frags[i][1] = f
      BY <1>1, <1>3, <1>4, <2>1 DEF OrdreFbox, OrdreBoite
    <2>2. CASE pending_frags[i][1] # f
      BY <1>3, <1>4, <2>2, Constantes DEF OrdreFbox, OrdreBoite
    <2> QED BY <2>1, <2>2
  <1>7. /\ \A g \in Fils : acteur'[g].pc \in EnVerrou \cup EnFifo \cup {"prendre", "ep"} =>
             \A i \in DOMAIN pending_frags : pending_frags[i][1] # g
        /\ \A g \in Fils : acteur'[g].pc \in EnFifo => \A i \in DOMAIN publies : publies[i][1] # g
    BY <1>3, Constantes DEF OrdreFbox, OrdreBoite, EnVerrou, EnFifo
  <1>8. \A i \in DOMAIN publies, j \in DOMAIN pending_frags :
          Avant(publies[i], pending_frags[j]) \/ (j = 1 /\ acteur'[progres].pc = "clore")
    BY <1>3, Constantes DEF OrdreFbox, OrdreBoite
  <1>9. OrdreBoite'
    BY <1>1, <1>5, <1>6, <1>7, <1>8 DEF OrdreBoite, OrdreFbox, Croissant, Avant
  <1>10. /\ \A i \in AuFifo : recus[i].m[2] <= faits'[recus[i].m[1]]
         /\ \A i \in DOMAIN fifo : fifo[i].m[2] <= faits'[fifo[i].m[1]]
    <2>1. \A g \in Fils : faits[g] <= faits'[g] /\ faits'[g] \in Nat
      BY <1>3
    <2> QED BY <1>3, <1>4, <2>1 DEF OrdreFbox, OrdreFifo
  <1>11. OrdreFifo'
    BY <1>1, <1>10 DEF OrdreFbox, OrdreFifo, AuFifo, Avant
  <1> QED BY <1>9, <1>11 DEF OrdreFbox

LEMMA OrdreWrite_fifo ==
    ASSUME InvFbox, OrdreFbox, NEW f \in Fils, Write_fifo(f)
    PROVE  OrdreFbox'
  <1> DEFINE m == acteur[f].m
             n == Len(fifo)
             x == [m |-> m, setup |-> acteur[f].setup]
  <1>1. /\ acteur[f].pc = "fifo" /\ Donner(f) /\ fifo' = Append(fifo, x)
        /\ UNCHANGED <<mode, publies, pending_frags, recus>>
    BY DEF Write_fifo, varsBoite, varsRecu, varsAttente
  <1>2. TypesFbox /\ acteur[f] \in Etats /\ f \in Acteurs /\ f # progres
    BY Constantes DEF InvFbox, TypesFbox
  <1>3. m \in Envoyes /\ x \in Fragments /\ x.m = m
    BY <1>1, <1>2, EtatsProprietes DEF EtatsFifo, Fragments
  <1>4. m[1] = f /\ m[2] = faits[f] + 1 /\ faits[f] \in Nat
    <2>1. m = <<f, faits[f] + 1>> /\ faits[f] \in Nat
      BY <1>1, <1>2 DEF InvFbox, MainsFbox, TypesFbox
    <2> HIDE DEF m
    <2> QED BY <2>1
  <1>5. /\ acteur'[f].pc = "repos"
        /\ \A b \in Acteurs : b # f => acteur'[b] = acteur[b]
        /\ faits'[f] = faits[f] + 1
        /\ \A g \in Fils : g # f => faits'[g] = faits[g]
        /\ \A g \in Fils : faits[g] \in Nat /\ faits'[g] \in Nat /\ faits[g] <= faits'[g]
    <2>1. faits \in [Fils -> Nat]
      BY <1>2 DEF TypesFbox
    <2>2. /\ acteur'[f].pc = "repos"
          /\ \A b \in Acteurs : b # f => acteur'[b] = acteur[b]
          /\ faits'[f] = faits[f] + 1
          /\ \A g \in Fils : g # f => faits'[g] = faits[g]
      BY <1>1, <1>2, DonnerProprietes
    <2> QED BY <2>1, <2>2
  <1> HIDE DEF m, n, x
  <1>6. /\ DOMAIN fifo' = 1 .. n + 1 /\ n \in Nat /\ DOMAIN fifo = 1 .. n
        /\ \A i \in 1 .. n : fifo'[i] = fifo[i]
        /\ fifo'[n + 1].m = m
    BY <1>1, <1>2, <1>3, AppendElements DEF TypesFbox, n
  <1>7. /\ \A i \in DOMAIN publies : publies[i][1] \in Fils /\ publies[i][2] \in Nat
        /\ \A i \in DOMAIN pending_frags : pending_frags[i][1] \in Fils /\ pending_frags[i][2] \in Nat
        /\ \A i \in AuFifo : recus[i].m[1] \in Fils /\ recus[i].m[2] \in Nat
        /\ \A i \in DOMAIN fifo : fifo[i].m[1] \in Fils /\ fifo[i].m[2] \in Nat
    BY <1>2, MessagesProprietes DEF AuFifo
  <1>8. /\ \A i \in DOMAIN publies : publies[i][1] # f
        /\ \A i \in DOMAIN pending_frags : pending_frags[i][1] # f
    BY <1>1 DEF OrdreFbox, OrdreBoite, EnFifo
  <1>9. /\ \A i \in DOMAIN publies :
             LET g == publies[i][1] IN
             publies[i][2] <= faits'[g] \/ (acteur'[g].pc = "clore" /\ publies[i][2] <= faits'[g] + 1)
        /\ \A i \in DOMAIN pending_frags :
             LET g == pending_frags[i][1] IN
             pending_frags[i][2] <= faits'[g]
             \/ (acteur'[g].pc = "inscrire" /\ pending_frags[i][2] <= faits'[g] + 1)
    BY <1>5, <1>7, <1>8, Constantes DEF OrdreFbox, OrdreBoite
  <1>10. /\ \A g \in Fils : acteur'[g].pc \in EnVerrou \cup EnFifo \cup {"prendre", "ep"} =>
              \A i \in DOMAIN pending_frags : pending_frags[i][1] # g
         /\ \A g \in Fils : acteur'[g].pc \in EnFifo => \A i \in DOMAIN publies : publies[i][1] # g
    BY <1>5, Constantes DEF OrdreFbox, OrdreBoite, EnVerrou, EnFifo
  <1>11. \A i \in DOMAIN publies, j \in DOMAIN pending_frags :
          Avant(publies[i], pending_frags[j]) \/ (j = 1 /\ acteur'[progres].pc = "clore")
    BY <1>2, <1>5, Constantes DEF OrdreFbox, OrdreBoite
  <1>12. OrdreBoite'
    BY <1>1, <1>9, <1>10, <1>11 DEF OrdreBoite, OrdreFbox, Croissant, Avant
  <1>13. /\ \A i \in AuFifo : Avant(recus[i].m, m)
         /\ \A i \in DOMAIN fifo : Avant(fifo[i].m, m)
    BY <1>4, <1>7 DEF OrdreFbox, OrdreFifo, Avant
  <1>14. /\ \A i \in DOMAIN publies : Avant(m, publies[i])
         /\ \A i \in DOMAIN pending_frags : Avant(m, pending_frags[i])
    BY <1>4, <1>8 DEF Avant
  <1>15. \A i, j \in DOMAIN fifo' : i < j => Avant(fifo'[i].m, fifo'[j].m)
    BY <1>6, <1>13 DEF OrdreFbox, OrdreFifo
  <1>16. \A i \in AuFifo : \A j \in DOMAIN fifo' : Avant(recus[i].m, fifo'[j].m)
    BY <1>6, <1>13 DEF OrdreFbox, OrdreFifo
  <1>17. \A i \in AuFifo : recus[i].m[2] <= faits'[recus[i].m[1]]
    BY <1>5, <1>7 DEF OrdreFbox, OrdreFifo
  <1>18. \A i \in DOMAIN fifo' :
           /\ fifo'[i].m[2] <= faits'[fifo'[i].m[1]]
           /\ \A j \in DOMAIN publies : Avant(fifo'[i].m, publies[j])
           /\ \A j \in DOMAIN pending_frags : Avant(fifo'[i].m, pending_frags[j])
    <2>1. \A i \in 1 .. n : fifo[i].m[2] <= faits'[fifo[i].m[1]]
      BY <1>5, <1>6, <1>7 DEF OrdreFbox, OrdreFifo
    <2>2. m[2] <= faits'[m[1]]
      BY <1>4, <1>5
    <2> QED BY <1>6, <1>14, <2>1, <2>2 DEF OrdreFbox, OrdreFifo
  <1>19. OrdreFifo'
    BY <1>1, <1>15, <1>16, <1>17, <1>18 DEF OrdreFifo, OrdreFbox, AuFifo, Avant
  <1> QED BY <1>12, <1>19 DEF OrdreFbox

LEMMA OrdreLecture ==
    ASSUME InvFbox, OrdreFbox, Lecture
    PROVE  OrdreFbox'
  <1>1. UNCHANGED <<publies, acteur, pending_frags, faits>>
    BY DEF Lecture, Progress, Sonder, Traiter, RendrePlace, Poll_fifo, varsLecture, varsBoite,
           varsVerrous, varsAttente
  <1>2. TypesFbox
    BY DEF InvFbox
  <1>3. OrdreBoite'
    BY <1>1 DEF OrdreFbox, OrdreBoite, Croissant, Avant
  <1> DEFINE n == Len(recus)
  <1>4. ASSUME UNCHANGED <<fifo, recus>> PROVE OrdreFifo'
    BY <1>1, <1>4 DEF OrdreFbox, OrdreFifo, AuFifo, Avant
  <1>5. ASSUME UNCHANGED fifo, NEW m \in Envoyes \cup {Intrus},
               recus' = Append(recus, [m |-> m, voie |-> "boite"])
        PROVE  OrdreFifo'
    <2>1. [m |-> m, voie |-> "boite"] \in Receptions
      BY DEF Receptions
    <2>2. /\ DOMAIN recus' = 1 .. n + 1 /\ n \in Nat /\ DOMAIN recus = 1 .. n
          /\ \A i \in 1 .. n : recus'[i] = recus[i]
          /\ recus'[n + 1].voie = "boite"
      BY <1>2, <1>5, <2>1, AppendElements DEF TypesFbox
    <2>3. AuFifo' = AuFifo /\ \A i \in AuFifo : recus'[i] = recus[i]
      BY <2>2 DEF AuFifo
    <2> QED BY <1>1, <1>5, <2>3 DEF OrdreFbox, OrdreFifo
  <1>6. ASSUME fifo # <<>>, fifo' = Tail(fifo),
               recus' = Append(recus, [m |-> Head(fifo).m, voie |-> "fifo"])
        PROVE  OrdreFifo'
    <2> DEFINE k == Len(fifo)
    <2>1. /\ DOMAIN fifo' = 1 .. k - 1 /\ k \in Nat \ {0} /\ DOMAIN fifo = 1 .. k
          /\ \A i \in 1 .. k - 1 : fifo'[i] = fifo[i + 1]
          /\ Head(fifo) = fifo[1]
      BY <1>2, <1>6, TailElements DEF TypesFbox
    <2>2. [m |-> Head(fifo).m, voie |-> "fifo"] \in Receptions
      BY <1>2, <2>1, MessagesProprietes DEF Receptions
    <2>3. /\ DOMAIN recus' = 1 .. n + 1 /\ n \in Nat /\ DOMAIN recus = 1 .. n
          /\ \A i \in 1 .. n : recus'[i] = recus[i]
          /\ recus'[n + 1].voie = "fifo" /\ recus'[n + 1].m = fifo[1].m
      BY <1>2, <1>6, <2>1, <2>2, AppendElements DEF TypesFbox
    <2> HIDE DEF n, k
    <2>4. AuFifo' = AuFifo \cup {n + 1} /\ AuFifo \subseteq 1 .. n
          /\ \A i \in AuFifo : recus'[i] = recus[i]
      BY <2>3 DEF AuFifo
    <2>5. 1 \in DOMAIN fifo /\ \A i \in 1 .. k - 1 : i + 1 \in DOMAIN fifo /\ 1 < i + 1
      BY <2>1
    <2>6. \A i, j \in AuFifo' : i < j => Avant(recus'[i].m, recus'[j].m)
      <3> SUFFICES ASSUME NEW i \in AuFifo', NEW j \in AuFifo', i < j
                   PROVE  Avant(recus'[i].m, recus'[j].m)
        OBVIOUS
      <3>1. i \in AuFifo
        BY <2>3, <2>4
      <3>2. CASE j \in AuFifo
        BY <2>4, <3>1, <3>2 DEF OrdreFbox, OrdreFifo
      <3>3. CASE j = n + 1
        BY <2>3, <2>4, <2>5, <3>1, <3>3 DEF OrdreFbox, OrdreFifo
      <3> QED BY <2>4, <3>2, <3>3
    <2>7. \A i \in AuFifo' : \A j \in DOMAIN fifo' : Avant(recus'[i].m, fifo'[j].m)
      BY <2>1, <2>3, <2>4, <2>5 DEF OrdreFbox, OrdreFifo
    <2>8. \A i, j \in DOMAIN fifo' : i < j => Avant(fifo'[i].m, fifo'[j].m)
      <3> SUFFICES ASSUME NEW i \in 1 .. k - 1, NEW j \in 1 .. k - 1, i < j
                   PROVE  Avant(fifo'[i].m, fifo'[j].m)
        BY <2>1
      <3>1. i + 1 < j + 1
        BY <2>1
      <3> QED BY <2>1, <2>5, <3>1 DEF OrdreFbox, OrdreFifo
    <2>9. \A i \in AuFifo' :
            /\ recus'[i].m[2] <= faits[recus'[i].m[1]]
            /\ \A j \in DOMAIN publies : Avant(recus'[i].m, publies[j])
            /\ \A j \in DOMAIN pending_frags : Avant(recus'[i].m, pending_frags[j])
      BY <2>3, <2>4, <2>5 DEF OrdreFbox, OrdreFifo
    <2>10. \A i \in DOMAIN fifo' :
            /\ fifo'[i].m[2] <= faits[fifo'[i].m[1]]
            /\ \A j \in DOMAIN publies : Avant(fifo'[i].m, publies[j])
            /\ \A j \in DOMAIN pending_frags : Avant(fifo'[i].m, pending_frags[j])
      BY <2>1, <2>5 DEF OrdreFbox, OrdreFifo
    <2> QED BY <1>1, <2>6, <2>7, <2>8, <2>9, <2>10 DEF OrdreFifo, Avant
  <1>7. CASE Progress \/ Sonder \/ RendrePlace
    BY <1>3, <1>4, <1>7 DEF Progress, Sonder, RendrePlace, OrdreFbox
  <1>8. CASE Traiter
    <2>1. lecteur.pc = "traiter" /\ UNCHANGED fifo
          /\ recus' = IF lecteur.hdr.tag = "saut" THEN recus
                      ELSE Append(recus, [m |-> lecteur.hdr.m, voie |-> "boite"])
      BY <1>8 DEF Traiter, Recevoir
    <2>2. lecteur.hdr.tag # "saut" => lecteur.hdr.m \in Envoyes \cup {Intrus}
      BY <1>2, <2>1 DEF TypesFbox, EnTetes, EnTetesLus
    <2> QED BY <1>3, <1>4, <1>5, <2>1, <2>2 DEF OrdreFbox
  <1>9. CASE Poll_fifo
    BY <1>3, <1>4, <1>6, <1>9 DEF Poll_fifo, Recevoir, OrdreFbox
  <1> QED BY <1>7, <1>8, <1>9 DEF Lecture

LEMMA OrdreSuivant == InvFbox /\ OrdreFbox /\ [NextFbox]_varsFbox => OrdreFbox'
  <1> SUFFICES ASSUME InvFbox, OrdreFbox, [NextFbox]_varsFbox PROVE OrdreFbox'
    OBVIOUS
  <1> USE DEF varsBoite, varsRecu, varsAttente
  <1>1. TypesFbox /\ acteur \in [Acteurs -> Etats]
    BY DEF InvFbox, TypesFbox
  <1>2. ASSUME NEW a \in Acteurs, NEW e, Placer(a, e),
               UNCHANGED <<publies, pending_frags, fifo, recus, faits>>,
               acteur[a].pc \notin {"clore", "inscrire"},
               a \in Fils /\ e.pc \in EnVerrou \cup EnFifo \cup {"prendre", "ep"} =>
                 acteur[a].pc \in EnVerrou \cup EnFifo \cup {"prendre", "ep"} \/ pending_frags = <<>>,
               a \in Fils /\ e.pc \in EnFifo => acteur[a].pc \in EnFifo \/ publies = <<>>
        PROVE  OrdreFbox'
    <2>1. acteur'[a] = e /\ \A b \in Acteurs : b # a => acteur'[b] = acteur[b]
      BY <1>1, <1>2 DEF Placer
    <2> QED BY <1>1, <1>2, <2>1, OrdreEtat
  <1> DEFINE Loin == EnVerrou \cup EnFifo \cup {"prendre", "ep"}
  <1>3. \A a \in Acteurs : acteur[a].pc \in EnVerrou \cup {"prendre"} => acteur[a] \in EtatsBoite
    BY <1>1, EtatsProprietes
  <1>4. \A a \in Acteurs :
          acteur[a].pc \in {"ep", "send", "attendre", "inscrire", "compter"} => acteur[a] \in EtatsEnvoi
    BY <1>1, EtatsProprietes
  <1>5. CASE UNCHANGED varsFbox
    BY <1>5 DEF varsFbox, OrdreFbox, OrdreBoite, OrdreFifo, AuFifo, Croissant, Avant
  <1>6. ASSUME NEW a \in Acteurs, PrendreVerrou(a) \/ Relire(a) \/ Sauter(a) \/ Ecrire(a)
        PROVE  OrdreFbox'
    <2>1. PICK p \in {"relire", "ecrire", "sauter", "echec", "publier"} :
            /\ Placer(a, [acteur[a] EXCEPT !.pc = p])
            /\ UNCHANGED <<publies, pending_frags, fifo, recus, faits>>
            /\ acteur[a].pc \in {"prendre", "relire", "sauter", "ecrire"}
      BY <1>6 DEF PrendreVerrou, Relire, Sauter, Ecrire, Vers
    <2>2. [acteur[a] EXCEPT !.pc = p].pc = p
      BY <1>3, <2>1, BoiteProprietes DEF EnVerrou
    <2> QED BY <1>2, <2>1, <2>2 DEF EnVerrou, EnFifo
  <1>7. ASSUME NEW a \in Acteurs, Echouer(a) PROVE OrdreFbox'
    <2>1. PICK e : /\ Placer(a, e) /\ (a \in Fils => e.pc \in {"ep", "send", "attendre"})
                   /\ UNCHANGED <<publies, pending_frags, fifo, recus, faits>>
                   /\ acteur[a].pc = "echec"
      BY <1>7, Constantes DEF Echouer
    <2> QED BY <1>2, <2>1 DEF EnVerrou, EnFifo
  <1>8. ASSUME NEW a \in Acteurs, Write_ep(a) PROVE OrdreFbox'
    <2> DEFINE e == IF fbox_out.buffer
                    THEN [pc |-> "prendre", m |-> acteur[a].m, tag |-> "fragment", n |-> 1,
                          pour |-> acteur[a].pour]
                    ELSE [acteur[a] EXCEPT !.pc = "compter"]
    <2>1. /\ Placer(a, e) /\ acteur[a].pc = "ep"
          /\ UNCHANGED <<publies, pending_frags, fifo, recus, faits>>
      BY <1>8 DEF Write_ep
    <2>2. e.pc = IF fbox_out.buffer THEN "prendre" ELSE "compter"
      <3>1. [acteur[a] EXCEPT !.pc = "compter"].pc = "compter"
        BY <1>4, <2>1, EnvoiProprietes
      <3> QED BY <3>1
    <2>3. e.pc = "compter" => publies = <<>>
      BY <2>2 DEF InvFbox, SansBoite
    <2> HIDE DEF e
    <2> QED BY <1>2, <2>1, <2>2, <2>3 DEF EnFifo
  <1>9. ASSUME NEW f \in Fils, Sendi(f) PROVE OrdreFbox'
    <2>1. PICK e : /\ Placer(f, e) /\ e.pc \in {"send", "prendre", "ep"}
                   /\ (e.pc # "send" => pending_frags = <<>>)
                   /\ UNCHANGED <<publies, pending_frags, fifo, recus, faits>>
                   /\ acteur[f] = Repos
      BY <1>9 DEF Sendi
    <2> QED BY <1>2, <2>1, Constantes DEF EnVerrou, EnFifo, Repos
  <1>10. ASSUME NEW f \in Fils, Send(f) PROVE OrdreFbox'
    <2> DEFINE p == IF pending_frags # <<>> THEN "attendre" ELSE "ep"
               e == [acteur[f] EXCEPT !.pc = p, !.pour = "send"]
    <2>1. /\ Placer(f, e) /\ acteur[f].pc = "send"
          /\ UNCHANGED <<publies, pending_frags, fifo, recus, faits>>
      BY <1>10 DEF Send
    <2>2. e.pc = p
      BY <1>4, <2>1, Constantes DEF EtatsEnvoi
    <2> HIDE DEF e
    <2> QED BY <1>2, <2>1, <2>2, Constantes DEF EnVerrou, EnFifo
  <1>11. ASSUME NEW f \in Fils, Compter(f) \/ Monter(f) PROVE OrdreFbox'
    <2>1. PICK e : /\ Placer(f, e) /\ acteur[f].pc \in EnFifo
                   /\ UNCHANGED <<publies, pending_frags, fifo, recus, faits>>
      BY <1>11 DEF Compter, Monter, EnFifo
    <2> QED BY <1>2, <2>1, Constantes DEF EnFifo
  <1>12. ASSUME Progress_endpoints \/ Progress_waiting \/ FragSuivant \/ PlusRien PROVE OrdreFbox'
    <2>1. PICK e : /\ Placer(progres, e) /\ acteur[progres].pc \notin {"clore", "inscrire"}
                   /\ UNCHANGED <<publies, pending_frags, fifo, recus, faits>>
      BY <1>12 DEF Progress_endpoints, Progress_waiting, FragSuivant, PlusRien, Repos
    <2> QED BY <1>2, <2>1, Constantes
  <1>13. CASE NextFbox
    BY <1>6, <1>7, <1>8, <1>9, <1>10, <1>11, <1>12, <1>13, EtapesFbox, OrdrePublier, OrdreClore,
       OrdreAttendre, OrdreInscrire, OrdreWrite_fifo, OrdreLecture
  <1> QED BY <1>5, <1>13

LEMMA OrdreInit == InitFbox => OrdreFbox
  BY DEF InitFbox, OrdreFbox, OrdreBoite, OrdreFifo, AuFifo, Croissant, Repos

(* A thread's messages keep their order among those received by the fifo,   *)
(* in the fifo, in the box and pending: what goes to the box or waits came  *)
(* after all that went by the fifo, since send queues behind pending_frags. *)
THEOREM OrdreFboxTheorem == SpecFbox => []OrdreFbox
  BY OrdreInit, OrdreSuivant, InvFboxTheorem, PTL DEF SpecFbox

-----------------------------------------------------------------------------
(* The instances send less than half as many messages as there are numbers: *)
(* with those that skip the end of the box, no number is used twice.        *)
PeuDeMessages ==
    \A mo \in Modes : IsFiniteSet(EnvoyesDe(mo)) /\ 2 * Cardinality(EnvoyesDe(mo)) < Modulo

(* A place in the box: its lap, whose parity is the high bit, and its unit. *)
Places == [tour : Nat, off : 1 .. Taille - 1]
Offset(x) == [off |-> x.off, hb |-> x.tour % 2 = 1]
Suite(x, n) == IF x.off + n = Taille THEN [tour |-> x.tour + 1, off |-> 1]
               ELSE [tour |-> x.tour, off |-> x.off + n]

(* n units from x on are before y; y is at most a lap after x.              *)
Devance(x, n, y) == x.tour < y.tour \/ (x.tour = y.tour /\ x.off + n <= y.off)
Tient(x, y) == (x.tour = y.tour /\ x.off <= y.off) \/ (y.tour = x.tour + 1 /\ y.off <= x.off)

(* The offset and the high bit of a place, and of the same unit a lap on.   *)
LEMMA OffsetProprietes ==
    ASSUME NEW x \in Places
    PROVE  /\ Offset(x) \in Offsets /\ Offset(x).off = x.off
           /\ Offset([x EXCEPT !.tour = x.tour + 1]).hb = ~ Offset(x).hb
           /\ x.off \in 1 .. Taille - 1 /\ x.tour \in Nat
  <1>1. x.tour \in Nat /\ x.off \in 1 .. Taille - 1
    BY DEF Places
  <1>2. ((x.tour + 1) % 2 = 1) <=> ~ (x.tour % 2 = 1)
    BY <1>1
  <1> QED BY <1>1, <1>2 DEF Offset, Offsets, Places

(* The place of the next header.                                            *)
LEMMA SuiteProprietes ==
    ASSUME NEW x \in Places, NEW n \in 1 .. Taille - 1, x.off + n <= Taille
    PROVE  /\ Suite(x, n) \in Places
           /\ Devance(x, n, Suite(x, n))
           /\ Offset(Suite(x, n)) = IF x.off + n = Taille THEN [off |-> 1, hb |-> ~ Offset(x).hb]
                                    ELSE [Offset(x) EXCEPT !.off = x.off + n]
           /\ \A z \in Places : \A k \in Nat : Devance(z, k, x) => Devance(z, k, Suite(x, n))
  <1>1. x.tour \in Nat /\ x.off \in 1 .. Taille - 1
    BY DEF Places
  <1>2. ((x.tour + 1) % 2 = 1) <=> ~ (x.tour % 2 = 1)
    BY <1>1
  <1>3. Suite(x, n) \in Places
    BY <1>1, Constantes DEF Suite, Places
  <1>4. Devance(x, n, Suite(x, n))
    BY <1>1, Constantes DEF Suite, Devance
  <1>5. Offset(Suite(x, n)) = IF x.off + n = Taille THEN [off |-> 1, hb |-> ~ Offset(x).hb]
                              ELSE [Offset(x) EXCEPT !.off = x.off + n]
    BY <1>1, <1>2 DEF Suite, Offset
  <1>6. \A z \in Places : \A k \in Nat : Devance(z, k, x) => Devance(z, k, Suite(x, n))
    BY <1>1, Constantes DEF Suite, Devance, Places
  <1> QED BY <1>3, <1>4, <1>5, <1>6

(* What is free from y on, when x is at most a lap before.                  *)
LEMMA LibreTour ==
    ASSUME NEW x \in Places, NEW y \in Places, Tient(x, y)
    PROVE  BUFFER_FREE(Offset(x), Offset(y)) =
             IF x.tour = y.tour THEN Taille - y.off ELSE x.off - y.off
  <1>1. x.tour \in Nat /\ x.off \in 1 .. Taille - 1 /\ y.tour \in Nat /\ y.off \in 1 .. Taille - 1
    BY DEF Places
  <1>2. ((x.tour + 1) % 2 = 1) <=> ~ (x.tour % 2 = 1)
    BY <1>1
  <1>3. CASE x.tour = y.tour
    BY <1>1, <1>3, Constantes DEF Tient, BUFFER_FREE, Offset
  <1>4. CASE y.tour = x.tour + 1
    <2>1. Offset(x).hb # Offset(y).hb /\ Offset(x).off = x.off /\ Offset(y).off = y.off
      BY <1>1, <1>2, <1>4 DEF Offset
    <2>2. y.off <= x.off
      BY <1>1, <1>4 DEF Tient
    <2> QED BY <1>1, <1>4, <2>1, <2>2 DEF BUFFER_FREE
  <1> QED BY <1>3, <1>4 DEF Tient

(* The headers put in the box: h[i] at q[i], after c[i] messages of those   *)
(* published.                                                               *)
ChaineTypes(h, q, c) ==
    h \in [Nat -> EnTetes] /\ q \in [Nat -> Places] /\ c \in [Nat -> Nat]

ChaineComptes(c, n, pub) ==
    c[0] = 0 /\ c[n] = Len(pub) /\ \A i \in 0 .. n : c[i] <= Len(pub)

ChaineLiens(h, q, n) ==
    \A i \in 0 .. n - 1 :
        h[i].seq = i /\ q[i].off + h[i].n <= Taille /\ q[i + 1] = Suite(q[i], h[i].n)

ChaineMessages(h, c, n, pub) ==
    \A i \in 0 .. n - 1 :
        /\ h[i].tag = "saut" => c[i + 1] = c[i]
        /\ h[i].tag # "saut" =>
             c[i + 1] = c[i] + 1 /\ c[i] + 1 \in DOMAIN pub /\ pub[c[i] + 1] = h[i].m

ChaineOrdre(h, q, n) == \A i, j \in 0 .. n : i < j => Devance(q[i], h[i].n, q[j])

ChaineNombre(q, n, pub) ==
    n <= 2 * Len(pub) /\ (q[n].off > 1 => n <= 2 * Len(pub) - 1)

Enchaine(h, q, c, n, pub) ==
    /\ ChaineTypes(h, q, c)
    /\ ChaineComptes(c, n, pub)
    /\ ChaineLiens(h, q, n)
    /\ ChaineMessages(h, c, n, pub)
    /\ ChaineOrdre(h, q, n)
    /\ ChaineNombre(q, n, pub)

(* The messages published, with that of one more header.                    *)
Prolonge(pub, suivants, e) ==
    /\ Len(pub) \in Nat /\ DOMAIN pub = 1 .. Len(pub)
    /\ Len(suivants) \in Nat /\ DOMAIN suivants = 1 .. Len(suivants)
    /\ \A i \in 1 .. Len(pub) : suivants[i] = pub[i]
    /\ e.tag = "saut" => Len(suivants) = Len(pub)
    /\ e.tag # "saut" => Len(suivants) = Len(pub) + 1 /\ suivants[Len(pub) + 1] = e.m

(* One more header keeps the chain one.                                     *)
LEMMA ChaineAllonge ==
    ASSUME NEW h, NEW q, NEW c, NEW n \in Nat, NEW pub, Enchaine(h, q, c, n, pub),
           NEW e \in EnTetes, e.seq = n, q[n].off + e.n <= Taille,
           NEW suivants, Prolonge(pub, suivants, e),
           e.tag = "saut" => q[n].off > 1 /\ q[n].off + e.n = Taille
    PROVE  Enchaine([h EXCEPT ![n] = e], [q EXCEPT ![n + 1] = Suite(q[n], e.n)],
                  [c EXCEPT ![n + 1] = Len(suivants)], n + 1, suivants)
  <1> DEFINE h2 == [h EXCEPT ![n] = e]
             q2 == [q EXCEPT ![n + 1] = Suite(q[n], e.n)]
             c2 == [c EXCEPT ![n + 1] = Len(suivants)]
  <1>1. h \in [Nat -> EnTetes] /\ q \in [Nat -> Places] /\ c \in [Nat -> Nat]
    BY DEF Enchaine, ChaineTypes
  <1>2. c[0] = 0 /\ c[n] = Len(pub) /\ Len(pub) \in Nat /\ Len(suivants) \in Nat
        /\ Len(pub) <= Len(suivants)
    <2>1. c[0] = 0 /\ c[n] = Len(pub)
      BY DEF Enchaine, ChaineComptes
    <2>2. Len(pub) \in Nat /\ Len(suivants) \in Nat
      BY DEF Prolonge
    <2>3. e.tag = "saut" => Len(suivants) = Len(pub)
      BY DEF Prolonge
    <2>4. e.tag # "saut" => Len(suivants) = Len(pub) + 1
      BY DEF Prolonge
    <2> QED BY <2>1, <2>2, <2>3, <2>4
  <1>3. e.n \in 1 .. Taille - 1 /\ q[n] \in Places /\ q[n].off \in 1 .. Taille - 1
    BY <1>1 DEF EnTetes, Places
  <1>4. Suite(q[n], e.n) \in Places
    BY <1>3, SuiteProprietes
  <1>5. /\ h2 \in [Nat -> EnTetes] /\ q2 \in [Nat -> Places] /\ c2 \in [Nat -> Nat]
        /\ h2[n] = e /\ q2[n + 1] = Suite(q[n], e.n) /\ c2[n + 1] = Len(suivants)
        /\ \A i \in Nat : i # n => h2[i] = h[i]
        /\ \A i \in Nat : i # n + 1 => q2[i] = q[i] /\ c2[i] = c[i]
    BY <1>1, <1>2, <1>4
  <1> HIDE DEF h2, q2, c2
  <1>12. \A i \in 0 .. n : i \in Nat /\ i # n + 1 /\ q2[i] = q[i] /\ c2[i] = c[i] /\ i + 1 \in Nat
    <2> SUFFICES ASSUME NEW i \in 0 .. n
                 PROVE  i \in Nat /\ i # n + 1 /\ q2[i] = q[i] /\ c2[i] = c[i] /\ i + 1 \in Nat
      OBVIOUS
    <2>1. i \in Nat /\ i # n + 1 /\ i + 1 \in Nat
      OBVIOUS
    <2> QED BY <1>5, <2>1
  <1>13. \A i \in 0 .. n : i # n => i \in 0 .. n - 1 /\ i + 1 \in 0 .. n /\ h2[i] = h[i]
    BY <1>5, <1>12
  <1>6. ChaineComptes(c2, n + 1, suivants)
    <2>1. \A i \in 0 .. n : c2[i] = c[i] /\ c[i] <= Len(pub) /\ c[i] \in Nat
      BY <1>1, <1>12 DEF Enchaine, ChaineComptes
    <2>2. c2[0] = 0
      BY <1>2, <1>12
    <2>3. ASSUME NEW i \in 0 .. n + 1 PROVE c2[i] <= Len(suivants)
      <3>1. CASE i = n + 1
        BY <1>2, <1>5, <3>1
      <3>2. CASE i # n + 1
        <4>1. i \in 0 .. n
          BY <3>2
        <4>2. c2[i] = c[i] /\ c[i] <= Len(pub) /\ c[i] \in Nat
          BY <2>1, <4>1
        <4> QED BY <1>2, <4>2
      <3> QED BY <3>1, <3>2
    <2> QED BY <1>5, <2>2, <2>3 DEF ChaineComptes
  <1>7. ChaineLiens(h2, q2, n + 1)
    <2> SUFFICES ASSUME NEW i \in 0 .. n
                 PROVE  h2[i].seq = i /\ q2[i].off + h2[i].n <= Taille /\ q2[i + 1] = Suite(q2[i], h2[i].n)
      BY DEF ChaineLiens
    <2>1. CASE i = n
      BY <1>5, <1>12, <2>1
    <2>2. CASE i # n
      <3>1. i \in 0 .. n - 1 /\ h2[i] = h[i] /\ q2[i] = q[i] /\ q2[i + 1] = q[i + 1]
        BY <1>12, <1>13, <2>2
      <3> QED BY <3>1 DEF Enchaine, ChaineLiens
    <2> QED BY <2>1, <2>2
  <1>8. ChaineMessages(h2, c2, n + 1, suivants)
    <2> SUFFICES ASSUME NEW i \in 0 .. n
                 PROVE  /\ h2[i].tag = "saut" => c2[i + 1] = c2[i]
                        /\ h2[i].tag # "saut" =>
                             /\ c2[i + 1] = c2[i] + 1 /\ c2[i] + 1 \in DOMAIN suivants
                             /\ suivants[c2[i] + 1] = h2[i].m
      BY DEF ChaineMessages
    <2>1. CASE i = n
      <3>1. h2[i] = e /\ c2[i] = Len(pub) /\ c2[i + 1] = Len(suivants)
        BY <1>2, <1>5, <1>12, <2>1
      <3>2. CASE e.tag = "saut"
        BY <3>1, <3>2 DEF Prolonge
      <3>3. CASE e.tag # "saut"
        <4>1. Len(suivants) = Len(pub) + 1 /\ suivants[Len(pub) + 1] = e.m
              /\ DOMAIN suivants = 1 .. Len(suivants)
          BY <3>3 DEF Prolonge
        <4>2. Len(pub) + 1 \in DOMAIN suivants
          BY <1>2, <4>1
        <4> QED BY <3>1, <3>3, <4>1, <4>2
      <3> QED BY <3>2, <3>3
    <2>2. CASE i # n
      <3>1. i \in 0 .. n - 1 /\ h2[i] = h[i] /\ c2[i] = c[i] /\ c2[i + 1] = c[i + 1]
        BY <1>12, <1>13, <2>2
      <3>2. ASSUME NEW k \in DOMAIN pub PROVE k \in DOMAIN suivants /\ suivants[k] = pub[k]
        <4>1. k \in 1 .. Len(pub)
          BY DEF Prolonge
        <4>2. suivants[k] = pub[k] /\ DOMAIN suivants = 1 .. Len(suivants)
          BY <4>1 DEF Prolonge
        <4> QED BY <1>2, <4>1, <4>2
      <3>3. /\ h[i].tag = "saut" => c[i + 1] = c[i]
            /\ h[i].tag # "saut" =>
                 c[i + 1] = c[i] + 1 /\ c[i] + 1 \in DOMAIN pub /\ pub[c[i] + 1] = h[i].m
        BY <3>1 DEF Enchaine, ChaineMessages
      <3> QED BY <3>1, <3>2, <3>3
    <2> QED BY <2>1, <2>2
  <1>9. ChaineOrdre(h2, q2, n + 1)
    <2> SUFFICES ASSUME NEW i \in 0 .. n + 1, NEW j \in 0 .. n + 1, i < j
                 PROVE  Devance(q2[i], h2[i].n, q2[j])
      BY DEF ChaineOrdre
    <2>4. i \in 0 .. n
      OBVIOUS
    <2>1. CASE j = n + 1 /\ i = n
      <3>1. Devance(q[n], e.n, Suite(q[n], e.n))
        BY <1>3, SuiteProprietes
      <3> QED BY <1>5, <1>12, <2>1, <2>4, <3>1
    <2>2. CASE j = n + 1 /\ i # n
      <3>1. i \in 0 .. n - 1 /\ h2[i] = h[i] /\ q2[i] = q[i] /\ i \in Nat
        BY <1>12, <1>13, <2>2, <2>4
      <3>2. Devance(q[i], h[i].n, q[n])
        BY <3>1 DEF Enchaine, ChaineOrdre
      <3>3. q[i] \in Places /\ h[i] \in EnTetes
        BY <1>1, <3>1
      <3>4. h[i].n \in Nat
        BY <3>3, Constantes DEF EnTetes
      <3>5. Devance(q[i], h[i].n, Suite(q[n], e.n))
        BY <1>3, <3>2, <3>3, <3>4, SuiteProprietes
      <3> QED BY <1>5, <2>2, <3>1, <3>5
    <2>3. CASE j # n + 1
      <3>1. j \in 0 .. n /\ i # n
        BY <2>3, <2>4
      <3>2. h2[i] = h[i] /\ q2[i] = q[i] /\ q2[j] = q[j]
        BY <1>12, <1>13, <2>4, <3>1
      <3> QED BY <2>4, <3>1, <3>2 DEF Enchaine, ChaineOrdre
    <2> QED BY <2>1, <2>2, <2>3
  <1>10. ChaineNombre(q2, n + 1, suivants)
    <2>1. n <= 2 * Len(pub) /\ (q[n].off > 1 => n <= 2 * Len(pub) - 1)
      BY DEF Enchaine, ChaineNombre
    <2>2. CASE e.tag = "saut"
      <3>1. q2[n + 1].off = 1 /\ q[n].off > 1
        BY <1>5, <2>2 DEF Suite
      <3>2. Len(suivants) = Len(pub)
        BY <2>2 DEF Prolonge
      <3> QED BY <1>2, <2>1, <3>1, <3>2 DEF ChaineNombre
    <2>3. CASE e.tag # "saut"
      <3>1. Len(suivants) = Len(pub) + 1
        BY <2>3 DEF Prolonge
      <3> QED BY <1>2, <2>1, <3>1 DEF ChaineNombre
    <2> QED BY <2>2, <2>3
  <1>11. Enchaine(h2, q2, c2, n + 1, suivants)
    BY <1>5, <1>6, <1>7, <1>8, <1>9, <1>10 DEF Enchaine, ChaineTypes
  <1> QED BY <1>11 DEF h2, q2, c2

(* Between two places of the chain that are within a lap, the others are.   *)
LEMMA ChaineTient ==
    ASSUME NEW h, NEW q, NEW c, NEW n \in Nat, NEW pub, Enchaine(h, q, c, n, pub),
           NEW s \in 0 .. n, Tient(q[s], q[n]), NEW i \in s .. n, NEW j \in i .. n
    PROVE  Tient(q[i], q[j])
  <1>1. q \in [Nat -> Places] /\ h \in [Nat -> EnTetes]
    BY DEF Enchaine, ChaineTypes
  <1>2. /\ \A k \in Nat : q[k].tour \in Nat /\ q[k].off \in 1 .. Taille - 1
        /\ \A k \in Nat : h[k].n \in 1 .. Taille - 1
    BY <1>1 DEF Places, EnTetes
  <1>3. \A k, l \in 0 .. n : k < l => q[k].tour < q[l].tour \/ (q[k].tour = q[l].tour /\ q[k].off < q[l].off)
    <2> SUFFICES ASSUME NEW k \in 0 .. n, NEW l \in 0 .. n, k < l
                 PROVE  q[k].tour < q[l].tour \/ (q[k].tour = q[l].tour /\ q[k].off < q[l].off)
      OBVIOUS
    <2>1. Devance(q[k], h[k].n, q[l])
      BY DEF Enchaine, ChaineOrdre
    <2>2. k \in Nat /\ l \in Nat
      OBVIOUS
    <2>3. q[k].off \in Nat /\ q[l].off \in Nat /\ h[k].n \in Nat \ {0}
      BY <1>2, <2>2, Constantes
    <2> QED BY <2>1, <2>3 DEF Devance
  <1>4. \A k, l \in 0 .. n : k <= l => q[k].tour < q[l].tour \/ (q[k].tour = q[l].tour /\ q[k].off <= q[l].off)
    <2> SUFFICES ASSUME NEW k \in 0 .. n, NEW l \in 0 .. n, k <= l
                 PROVE  q[k].tour < q[l].tour \/ (q[k].tour = q[l].tour /\ q[k].off <= q[l].off)
      OBVIOUS
    <2>1. l \in Nat
      OBVIOUS
    <2>2. q[l].off \in Nat /\ q[k].off \in Nat
      BY <1>2, <2>1, Constantes
    <2>3. CASE k = l
      BY <2>2, <2>3
    <2>4. CASE k < l
      BY <1>3, <2>2, <2>4
    <2> QED BY <2>3, <2>4
  <1>5. /\ s \in 0 .. n /\ i \in 0 .. n /\ j \in 0 .. n /\ n \in 0 .. n /\ s <= i /\ i <= j /\ j <= n
    OBVIOUS
  <1>6. /\ q[s].tour < q[i].tour \/ (q[s].tour = q[i].tour /\ q[s].off <= q[i].off)
        /\ q[i].tour < q[j].tour \/ (q[i].tour = q[j].tour /\ q[i].off <= q[j].off)
        /\ q[j].tour < q[n].tour \/ (q[j].tour = q[n].tour /\ q[j].off <= q[n].off)
    BY <1>4, <1>5
  <1> QED BY <1>2, <1>5, <1>6 DEF Tient

(* The units of a header that may be unread are not among those free.       *)
LEMMA ChaineLibre ==
    ASSUME NEW h, NEW q, NEW c, NEW n \in Nat, NEW pub, Enchaine(h, q, c, n, pub),
           NEW s \in 0 .. n, Tient(q[s], q[n]), NEW e \in s .. n, NEW i \in s .. e - 1
    PROVE  \/ q[i].off + h[i].n <= q[e].off
           \/ q[e].off + BUFFER_FREE(Offset(q[s]), Offset(q[e])) <= q[i].off
  <1>1. q \in [Nat -> Places] /\ h \in [Nat -> EnTetes]
    BY DEF Enchaine, ChaineTypes
  <1>6. s \in Nat /\ e \in Nat /\ i \in Nat /\ i < e /\ i \in s .. n /\ s \in 0 .. n /\ e \in i .. n /\ i \in s .. e
        /\ i \in 0 .. n /\ e \in 0 .. n /\ s \in s .. n
    OBVIOUS
  <1>2. /\ q[s] \in Places /\ q[i] \in Places /\ q[e] \in Places /\ h[i].n \in 1 .. Taille - 1
        /\ q[s].tour \in Nat /\ q[s].off \in 1 .. Taille - 1
        /\ q[i].tour \in Nat /\ q[i].off \in 1 .. Taille - 1
        /\ q[e].tour \in Nat /\ q[e].off \in 1 .. Taille - 1
    BY <1>1, <1>6 DEF Places, EnTetes
  <1>3. Tient(q[s], q[e]) /\ Tient(q[s], q[i])
    BY <1>6, ChaineTient
  <1>4. Devance(q[i], h[i].n, q[e])
    BY <1>6 DEF Enchaine, ChaineOrdre
  <1>5. BUFFER_FREE(Offset(q[s]), Offset(q[e])) =
             IF q[s].tour = q[e].tour THEN Taille - q[e].off ELSE q[s].off - q[e].off
    BY <1>2, <1>3, LibreTour
  <1> QED BY <1>2, <1>3, <1>4, <1>5 DEF Tient, Devance

-----------------------------------------------------------------------------
AuBoite == {i \in DOMAIN recus : recus[i].voie = "boite"}

(* How many headers the sender has gone past, and the reader.               *)
Fin == IF \E a \in Acteurs : acteur[a].pc = "clore" THEN fbox_out.seq - 1 ELSE fbox_out.seq
Traites == IF lecteur.pc = "traiter" THEN fbox_in.seq - 1 ELSE fbox_in.seq

(* Who knows of which place: the sender is s headers on, the reader said p. *)
AnneauPlaces(q, s, p) ==
    /\ s <= p /\ p <= Traites /\ fbox_in.seq <= fbox_out.seq /\ s <= Fin
    /\ fbox_out.start = Offset(q[s]) /\ fbox_out.end = Offset(q[Fin])
    /\ startp = Offset(q[p]) /\ fbox_in.start = Offset(q[p])
    /\ Tient(q[s], q[fbox_out.seq])

(* The headers from there on are in the box with their data.                *)
AnneauUnites(h, q, s) ==
    \A i \in s .. fbox_out.seq - 1 :
        /\ boite[q[i].off] = h[i]
        /\ h[i].tag # "saut" =>
             \A k \in 1 .. h[i].n - 1 : EstDonnee(boite[q[i].off + k], h[i].m)

AnneauNumeros == \A u \in 1 .. Taille - 1 : boite[u].genre = "entete" => boite[u].seq < fbox_out.seq

AnneauEcrivain(h) ==
    \A a \in Acteurs :
        /\ acteur[a].pc = "clore" => h[fbox_out.seq - 1].n = acteur[a].n
        /\ acteur[a].pc = "publier" =>
             \A k \in 1 .. acteur[a].n - 1 : EstDonnee(boite[fbox_out.end.off + k], acteur[a].m)

(* Nothing but a header is where the next header will be, unless the sender *)
(* has one published and is about to clear the place of the next.           *)
AnneauVide ==
    /\ boite[1].genre # "donnees"
    /\ (\A a \in Acteurs : acteur[a].pc # "clore") => boite[fbox_out.end.off].genre # "donnees"

AnneauLecteur(h, q, p) ==
    /\ lecteur.pc \in {"sonder", "traiter", "rendre"} => lecteur.start = Offset(q[Traites])
    /\ lecteur.pc = "traiter" => lecteur.hdr = h[Traites]
    /\ lecteur.pc \in {"repos", "fifo"} \/ (lecteur.pc = "sonder" /\ lecteur.nb = 0) => p = Traites

(* What has been received from the box are the first messages put into it.  *)
AnneauRecus(c) ==
    /\ Cardinality(AuBoite) = c[Traites]
    /\ \A i \in AuBoite : \E k \in 1 .. c[Traites] : recus[i].m = publies[k]
    /\ \A i, j \in AuBoite : i < j => Avant(recus[i].m, recus[j].m)

AnneauDe(h, q, c, s, p) ==
    /\ Enchaine(h, q, c, fbox_out.seq, publies)
    /\ AnneauPlaces(q, s, p)
    /\ AnneauUnites(h, q, s)
    /\ AnneauNumeros
    /\ AnneauEcrivain(h)
    /\ AnneauVide
    /\ AnneauLecteur(h, q, p)
    /\ AnneauRecus(c)

AnneauFbox == \E h, q, c : \E s, p \in Nat : AnneauDe(h, q, c, s, p)

(* A message is published once: there are few.                              *)
LEMMA NombrePublies ==
    ASSUME PeuDeMessages, TypesFbox, OrdreFbox
    PROVE  2 * Len(publies) < Modulo
  <1>1. IsFiniteSet(Envoyes) /\ 2 * Cardinality(Envoyes) < Modulo /\ Cardinality(Envoyes) \in Nat
    <2>1. IsFiniteSet(Envoyes) /\ 2 * Cardinality(Envoyes) < Modulo
      BY DEF PeuDeMessages, TypesFbox, Envoyes
    <2> QED BY <2>1, FS_CardinalityType
  <1> DEFINE n == Len(publies)
  <1>2. n \in Nat /\ publies \in [1 .. n -> Envoyes]
    BY DEF TypesFbox
  <1>3. \A i, j \in 1 .. n : i < j => publies[i] # publies[j]
    <2> SUFFICES ASSUME NEW i \in 1 .. n, NEW j \in 1 .. n, i < j
                 PROVE  publies[i] # publies[j]
      OBVIOUS
    <2>1. Avant(publies[i], publies[j])
      BY <1>2 DEF OrdreFbox, OrdreBoite, Croissant
    <2>2. publies[i][2] \in Nat
      BY <1>2, MessagesProprietes
    <2> QED BY <2>1, <2>2 DEF Avant
  <1>4. IsFiniteSet(1 .. n) /\ Cardinality(1 .. n) = n
    BY <1>2, FS_Interval
  <1>5. ASSUME Cardinality(Envoyes) < n PROVE FALSE
    <2>1. \E i, j \in 1 .. n : i # j /\ publies[i] = publies[j]
      BY <1>1, <1>2, <1>4, <1>5, FS_PigeonHole
    <2> QED BY <1>2, <1>3, <2>1
  <1>6. n <= Cardinality(Envoyes)
    BY <1>1, <1>2, <1>5
  <1> HIDE DEF n
  <1>7. 2 * n < Modulo
    BY <1>1, <1>2, <1>6, Constantes
  <1> QED BY <1>7 DEF n

(* Only one thread at a time is at the box.                                 *)
LEMMA SeulEcrivain ==
    ASSUME InvFbox, NEW a \in Acteurs, acteur[a].pc \in EnVerrou
    PROVE  \A b \in Acteurs : b # a => acteur[b].pc \notin EnVerrou
  BY DEF InvFbox, VerrousFbox

(* The numbers of the chain as numbers, its places as places.               *)
LEMMA AnneauProprietes ==
    ASSUME InvFbox, NEW h, NEW q, NEW c, NEW s \in Nat, NEW p \in Nat, AnneauDe(h, q, c, s, p)
    PROVE  /\ fbox_out.seq \in Nat /\ fbox_in.seq \in Nat /\ Fin \in Nat /\ Traites \in Nat
           /\ Fin <= fbox_out.seq /\ Traites <= fbox_in.seq
           /\ h \in [Nat -> EnTetes] /\ q \in [Nat -> Places] /\ c \in [Nat -> Nat]
           /\ \A i \in Nat : h[i].n \in 1 .. Taille - 1 /\ h[i].genre = "entete"
           /\ \A i \in Nat : q[i].off \in 1 .. Taille - 1 /\ q[i].tour \in Nat /\ Offset(q[i]).off = q[i].off
           /\ (\A a \in Acteurs : acteur[a].pc # "clore") => Fin = fbox_out.seq
           /\ lecteur.pc # "traiter" => Traites = fbox_in.seq
  <1>1. fbox_out.seq \in Nat /\ fbox_in.seq \in Nat
    BY Constantes DEF InvFbox, TypesFbox
  <1>2. s <= p /\ p <= Traites /\ s <= Fin
    BY DEF AnneauDe, AnneauPlaces
  <1>3. /\ Fin \in Nat /\ Fin <= fbox_out.seq
        /\ (\A a \in Acteurs : acteur[a].pc # "clore") => Fin = fbox_out.seq
    BY <1>1, <1>2 DEF Fin
  <1>4. Traites \in Nat /\ Traites <= fbox_in.seq /\ (lecteur.pc # "traiter" => Traites = fbox_in.seq)
    BY <1>1, <1>2 DEF Traites
  <1>5. h \in [Nat -> EnTetes] /\ q \in [Nat -> Places] /\ c \in [Nat -> Nat]
    BY DEF AnneauDe, Enchaine, ChaineTypes
  <1>6. \A i \in Nat : h[i].n \in 1 .. Taille - 1 /\ h[i].genre = "entete"
    BY <1>5 DEF EnTetes
  <1>7. \A i \in Nat : q[i].off \in 1 .. Taille - 1 /\ q[i].tour \in Nat
    BY <1>5 DEF Places
  <1>8. \A i \in Nat : Offset(q[i]).off = q[i].off
    BY DEF Offset
  <1> QED BY <1>1, <1>3, <1>4, <1>5, <1>6, <1>7, <1>8

(* A chain that goes on from another, for messages that go on from others.  *)
Poursuit(h2, q2, c2, h, q, c) ==
    /\ \A i \in Nat : i < fbox_out.seq => h2[i] = h[i]
    /\ \A i \in Nat : i <= fbox_out.seq => q2[i] = q[i] /\ c2[i] = c[i]
    /\ \A k \in DOMAIN publies : k \in DOMAIN publies' /\ publies'[k] = publies[k]

(* What the sender's steps leave to the reader.                             *)
LEMMA AnneauEcrit ==
    ASSUME InvFbox, NEW h, NEW q, NEW c, NEW s \in Nat, NEW p \in Nat, AnneauDe(h, q, c, s, p),
           UNCHANGED <<mode, lecteur, recus, fbox_in, startp>>,
           NEW h2, NEW q2, NEW c2,
           Poursuit(h2, q2, c2, h, q, c)
    PROVE  AnneauLecteur(h2, q2, p)' /\ AnneauRecus(c2)' /\ Traites' = Traites
  <1>1. /\ fbox_out.seq \in Nat /\ fbox_in.seq \in Nat /\ Traites \in Nat
        /\ Traites <= fbox_in.seq /\ c \in [Nat -> Nat]
    BY AnneauProprietes
  <1>2. fbox_in.seq <= fbox_out.seq
    BY DEF AnneauDe, AnneauPlaces
  <1>3. Traites' = Traites /\ AuBoite' = AuBoite
    BY DEF Traites, AuBoite
  <1>4. lecteur.pc = "traiter" => Traites < fbox_out.seq
    BY <1>1, <1>2 DEF Traites
  <1>5. q2[Traites] = q[Traites] /\ c2[Traites] = c[Traites]
        /\ (lecteur.pc = "traiter" => h2[Traites] = h[Traites])
    BY <1>1, <1>2, <1>4 DEF Poursuit
  <1>6. AnneauLecteur(h2, q2, p)'
    BY <1>3, <1>5 DEF AnneauDe, AnneauLecteur
  <1>7. c[Traites] \in Nat /\ c[Traites] <= Len(publies)
    <2>1. Traites \in 0 .. fbox_out.seq
      BY <1>1, <1>2
    <2> QED BY <1>1, <2>1 DEF AnneauDe, Enchaine, ChaineComptes
  <1>8. \A k \in 1 .. c[Traites] : publies'[k] = publies[k]
    <2>1. DOMAIN publies = 1 .. Len(publies) /\ Len(publies) \in Nat
      BY MessagesProprietes DEF InvFbox
    <2> QED BY <1>7, <2>1 DEF Poursuit
  <1>9. AnneauRecus(c2)'
    BY <1>3, <1>5, <1>8 DEF AnneauDe, AnneauRecus, Avant
  <1> QED BY <1>3, <1>6, <1>9

(* What the reader's steps leave to the sender.                             *)
LEMMA AnneauLu ==
    ASSUME NEW h, NEW q, NEW c, NEW s \in Nat, NEW p \in Nat, AnneauDe(h, q, c, s, p),
           UNCHANGED <<mode, fbox_out, boite, publies, acteur>>
    PROVE  /\ Enchaine(h, q, c, fbox_out.seq, publies)' /\ AnneauUnites(h, q, s)' /\ AnneauNumeros'
           /\ AnneauEcrivain(h)' /\ AnneauVide' /\ Fin' = Fin
  <1>1. EnTetes' = EnTetes
    BY MemeMode
  <1>2. Enchaine(h, q, c, fbox_out.seq, publies)'
    BY <1>1
       DEF AnneauDe, Enchaine, ChaineTypes, ChaineComptes, ChaineLiens, ChaineMessages,
           ChaineOrdre, ChaineNombre
  <1>3. AnneauUnites(h, q, s)' /\ AnneauNumeros' /\ AnneauEcrivain(h)' /\ AnneauVide'
    BY DEF AnneauDe, AnneauUnites, AnneauNumeros, AnneauEcrivain, AnneauVide, EstDonnee
  <1>4. Fin' = Fin
    BY DEF Fin
  <1> QED BY <1>2, <1>3, <1>4

(* A step that is neither the reader's nor about what is in the box.        *)
LEMMA AnneauStable ==
    ASSUME InvFbox, NEW h, NEW q, NEW c, NEW s \in Nat, NEW p \in Nat, AnneauDe(h, q, c, s, p),
           UNCHANGED <<mode, startp, boite, publies, lecteur, recus, fbox_in>>,
           fbox_out'.start = fbox_out.start, fbox_out'.end = fbox_out.end, fbox_out'.seq = fbox_out.seq,
           \A a \in Acteurs : \/ acteur'[a] = acteur[a]
                              \/ acteur[a].pc \notin {"publier", "clore"}
                                 /\ acteur'[a].pc \notin {"publier", "clore"}
    PROVE  AnneauDe(h, q, c, s, p)'
  <1>1. EnTetes' = EnTetes
    BY MemeMode
  <1>2. Enchaine(h, q, c, fbox_out.seq, publies)'
    BY <1>1
       DEF AnneauDe, Enchaine, ChaineTypes, ChaineComptes, ChaineLiens, ChaineMessages,
           ChaineOrdre, ChaineNombre
  <1>3. AnneauUnites(h, q, s)' /\ AnneauNumeros'
    BY DEF AnneauDe, AnneauUnites, AnneauNumeros, EstDonnee
  <1>4. AnneauEcrivain(h)' /\ AnneauVide'
    BY DEF AnneauDe, AnneauEcrivain, AnneauVide, EstDonnee
  <1>5. Fin' = Fin
    BY DEF Fin
  <1>6. Traites' = Traites
    BY DEF Traites
  <1>7. AnneauPlaces(q, s, p)'
    BY <1>5, <1>6 DEF AnneauDe, AnneauPlaces
  <1>8. AnneauLecteur(h, q, p)' /\ AnneauRecus(c)'
    BY <1>6 DEF AnneauDe, AnneauLecteur, AnneauRecus, AuBoite, Avant
  <1> QED BY <1>2, <1>3, <1>4, <1>7, <1>8 DEF AnneauDe

(* The sender reads startp: it knows of p headers given back.               *)
LEMMA AnneauRelire ==
    ASSUME InvFbox, NEW h, NEW q, NEW c, NEW s \in Nat, NEW p \in Nat, AnneauDe(h, q, c, s, p),
           NEW a \in Acteurs, Relire(a)
    PROVE  AnneauDe(h, q, c, p, p)'
  <1> DEFINE n == fbox_out.seq
  <1>1. /\ acteur[a].pc = "relire"
        /\ fbox_out' = [fbox_out EXCEPT !.start = startp]
        /\ \E x : Placer(a, x) /\ x.pc \notin {"publier", "clore"}
        /\ UNCHANGED <<mode, boite, publies, fbox_in, startp, lecteur, recus>>
    <2>1. acteur[a].pc = "relire" /\ acteur[a] \in Etats
      BY DEF InvFbox, TypesFbox, Relire
    <2>2. acteur[a] \in EtatsBoite
      BY <2>1, EtatsProprietes DEF EnVerrou
    <2>3. \A l \in {"ecrire", "sauter", "echec"} : [acteur[a] EXCEPT !.pc = l].pc = l
      BY <2>2, BoiteProprietes DEF EnVerrou
    <2>4. PICK l \in {"ecrire", "sauter", "echec"} : Placer(a, [acteur[a] EXCEPT !.pc = l])
      BY DEF Relire, Vers
    <2>5. [acteur[a] EXCEPT !.pc = l].pc = l /\ l \notin {"publier", "clore"}
      BY <2>3, <2>4
    <2> QED BY <2>1, <2>4, <2>5 DEF Relire, varsRecu
  <1>2. \A b \in Acteurs : /\ acteur[b].pc \notin {"publier", "clore"}
                           /\ acteur'[b].pc \notin {"publier", "clore"}
    <2>1. acteur \in [Acteurs -> Etats]
      BY DEF InvFbox, TypesFbox
    <2>2. \A b \in Acteurs : acteur[b].pc \notin {"publier", "clore"}
      BY <1>1, SeulEcrivain DEF EnVerrou
    <2> QED BY <1>1, <2>1, <2>2 DEF Placer
  <1>3. fbox_out'.start = startp /\ fbox_out'.end = fbox_out.end /\ fbox_out'.seq = n
    BY <1>1 DEF InvFbox, TypesFbox
  <1>4. n \in Nat /\ Traites \in Nat /\ Traites <= fbox_in.seq /\ fbox_in.seq \in Nat /\ Fin = n
    BY <1>2, AnneauProprietes
  <1>5. Fin' = n
    BY <1>2, <1>3 DEF Fin
  <1>6. EnTetes' = EnTetes
    BY <1>1, MemeMode
  <1>7. Enchaine(h, q, c, fbox_out.seq, publies)'
    BY <1>1, <1>3, <1>6
       DEF AnneauDe, Enchaine, ChaineTypes, ChaineComptes, ChaineLiens, ChaineMessages,
           ChaineOrdre, ChaineNombre
  <1>8. s <= p /\ p <= Traites /\ fbox_in.seq <= n /\ p <= n
    BY <1>4 DEF AnneauDe, AnneauPlaces
  <1>9. Tient(q[p], q[n])
    <2>1. s \in 0 .. n /\ p \in s .. n /\ n \in p .. n
      BY <1>4, <1>8
    <2>2. Enchaine(h, q, c, n, publies) /\ Tient(q[s], q[n])
      BY DEF AnneauDe, AnneauPlaces
    <2> HIDE DEF n
    <2> QED BY <1>4, <2>1, <2>2, ChaineTient
  <1>10. AnneauLecteur(h, q, p)' /\ AnneauRecus(c)' /\ Traites' = Traites
    <2>1. Poursuit(h, q, c, h, q, c)
      BY <1>1 DEF Poursuit
    <2> QED BY <1>1, <2>1, AnneauEcrit
  <1>11. AnneauPlaces(q, p, p)'
    BY <1>1, <1>3, <1>4, <1>5, <1>8, <1>9, <1>10 DEF AnneauDe, AnneauPlaces
  <1>12. AnneauUnites(h, q, p)'
    <2>1. \A i \in p .. n - 1 : i \in s .. n - 1
      BY <1>4, <1>8
    <2> QED BY <1>1, <1>3, <2>1 DEF AnneauDe, AnneauUnites, EstDonnee
  <1>13. AnneauNumeros' /\ AnneauEcrivain(h)' /\ AnneauVide'
    BY <1>1, <1>2, <1>3 DEF AnneauDe, AnneauNumeros, AnneauEcrivain, AnneauVide
  <1> QED BY <1>7, <1>10, <1>11, <1>12, <1>13 DEF AnneauDe

(* The free room that the sender knows of, by places.                       *)
LEMMA AnneauLibre ==
    ASSUME InvFbox, NEW h, NEW q, NEW c, NEW s \in Nat, NEW p \in Nat, AnneauDe(h, q, c, s, p)
    PROVE  /\ Tient(q[s], q[Fin])
           /\ Libre = IF q[s].tour = q[Fin].tour THEN Taille - q[Fin].off ELSE q[s].off - q[Fin].off
           /\ fbox_out.end.off = q[Fin].off /\ fbox_out.start.off = q[s].off
           /\ \A i \in s .. Fin - 1 : \/ q[i].off + h[i].n <= fbox_out.end.off
                                      \/ fbox_out.end.off + Libre <= q[i].off
           /\ \A i \in 0 .. fbox_out.seq - 1 : q[i].off + h[i].n <= Taille
  <1> DEFINE n == fbox_out.seq
             f == Fin
  <1>1. /\ n \in Nat /\ f \in Nat /\ f <= n /\ q \in [Nat -> Places]
        /\ \A i \in Nat : Offset(q[i]).off = q[i].off
    BY AnneauProprietes
  <1>2. /\ s <= f /\ fbox_out.start = Offset(q[s]) /\ fbox_out.end = Offset(q[f]) /\ Tient(q[s], q[n])
        /\ Enchaine(h, q, c, n, publies)
    BY DEF AnneauDe, AnneauPlaces
  <1>3. Libre = BUFFER_FREE(Offset(q[s]), Offset(q[f])) /\ fbox_out.end.off = q[f].off
        /\ fbox_out.start.off = q[s].off
    BY <1>1, <1>2 DEF Libre
  <1> HIDE DEF n, f
  <1>4. s \in 0 .. n /\ s \in s .. n /\ f \in s .. n
    BY <1>1, <1>2
  <1>5. Tient(q[s], q[f])
    BY <1>1, <1>2, <1>4, ChaineTient
  <1>6. Libre = IF q[s].tour = q[f].tour THEN Taille - q[f].off ELSE q[s].off - q[f].off
    BY <1>1, <1>3, <1>5, LibreTour
  <1>7. \A i \in s .. f - 1 : q[i].off + h[i].n <= q[f].off \/ q[f].off + Libre <= q[i].off
    BY <1>1, <1>2, <1>3, <1>4, ChaineLibre
  <1>8. \A i \in 0 .. n - 1 : q[i].off + h[i].n <= Taille
    BY <1>2 DEF Enchaine, ChaineLiens
  <1> QED BY <1>3, <1>5, <1>6, <1>7, <1>8 DEF n, f

(* A header is put at the end of the chain, and its number is used.         *)
Ajoute(e) ==
    /\ e \in EnTetes /\ e.seq = fbox_out.seq /\ fbox_out.end.off + e.n <= Taille
    /\ UNCHANGED <<mode, lecteur, recus, fbox_in, startp>>
    /\ Prolonge(publies, publies', e)
    /\ e.tag = "saut" => fbox_out.end.off > 1 /\ fbox_out.end.off + e.n = Taille
    /\ e.tag # "saut" => \A k \in 1 .. e.n - 1 : EstDonnee(boite[fbox_out.end.off + k], e.m)
    /\ 0 < Libre
    /\ boite' = [boite EXCEPT ![fbox_out.end.off] = e]
    /\ fbox_out'.seq = fbox_out.seq + 1

Ajoutee(h2, q2, c2, q, s, p, n, e) ==
    /\ Enchaine(h2, q2, c2, fbox_out'.seq, publies')
    /\ AnneauUnites(h2, q2, s)' /\ AnneauNumeros'
    /\ AnneauLecteur(h2, q2, p)' /\ AnneauRecus(c2)' /\ Traites' = Traites
    /\ h2[n] = e /\ q2[n + 1] = Suite(q[n], e.n)
    /\ \A i \in Nat : i <= n => q2[i] = q[i]

(* One more header, the chain's next, put where the sender is.              *)
LEMMA AnneauAjoute ==
    ASSUME InvFbox, NEW h, NEW q, NEW c, NEW s \in Nat, NEW p \in Nat, AnneauDe(h, q, c, s, p),
           \A a \in Acteurs : acteur[a].pc # "clore", NEW e, Ajoute(e)
    PROVE  \E h2, q2, c2 : Ajoutee(h2, q2, c2, q, s, p, fbox_out.seq, e)
  <1> USE DEF Ajoute
  <1>0. PICK n, h2, q2, c2 : /\ n = fbox_out.seq
                             /\ h2 = [h EXCEPT ![n] = e]
                             /\ q2 = [q EXCEPT ![n + 1] = Suite(q[n], e.n)]
                             /\ c2 = [c EXCEPT ![n + 1] = Len(publies')]
    OBVIOUS
  <1>1. /\ n \in Nat /\ Fin = n /\ h \in [Nat -> EnTetes] /\ q \in [Nat -> Places] /\ c \in [Nat -> Nat]
        /\ \A i \in Nat : h[i].n \in 1 .. Taille - 1
        /\ \A i \in Nat : q[i].off \in 1 .. Taille - 1
    BY <1>0, AnneauProprietes
  <1>2. /\ fbox_out.end.off = q[n].off
        /\ \A i \in s .. n - 1 : q[i].off + h[i].n <= q[n].off \/ q[n].off + Libre <= q[i].off
        /\ \A i \in 0 .. n - 1 : q[i].off + h[i].n <= Taille
    BY <1>0, <1>1, AnneauLibre
  <1>3. Libre \in Nat \ {0}
    BY LibreProprietes DEF Libre, InvFbox, TypesFbox
  <1>4. e.n \in 1 .. Taille - 1 /\ e.genre = "entete"
    BY DEF EnTetes
  <1>5. Suite(q[n], e.n) \in Places
    BY <1>1, <1>2, <1>4, SuiteProprietes
  <1>6. Len(publies') \in Nat
    BY DEF Prolonge
  <1>7. /\ h2[n] = e /\ q2[n + 1] = Suite(q[n], e.n)
        /\ \A i \in Nat : i < n => h2[i] = h[i]
        /\ \A i \in Nat : i <= n => q2[i] = q[i] /\ c2[i] = c[i]
    <2>1. n + 1 \in Nat /\ \A i \in Nat : (i <= n => i # n + 1) /\ (i < n => i # n)
      BY <1>1
    <2>2. h2[n] = e /\ \A i \in Nat : i # n => h2[i] = h[i]
      BY <1>0, <1>1
    <2>3. q2[n + 1] = Suite(q[n], e.n) /\ \A i \in Nat : i # n + 1 => q2[i] = q[i]
      BY <1>0, <1>1, <2>1
    <2>4. \A i \in Nat : i # n + 1 => c2[i] = c[i]
      BY <1>0, <1>1
    <2> QED BY <2>1, <2>2, <2>3, <2>4
  <1>8. Enchaine(h2, q2, c2, n + 1, publies')
    <2>1. Enchaine(h, q, c, n, publies)
      BY <1>0 DEF AnneauDe
    <2>2. e.seq = n /\ q[n].off + e.n <= Taille
      BY <1>0, <1>2
    <2>3. e.tag = "saut" => q[n].off > 1 /\ q[n].off + e.n = Taille
      BY <1>2
    <2> QED BY <1>0, <1>1, <2>1, <2>2, <2>3, ChaineAllonge
  <1>9. EnTetes' = EnTetes
    BY MemeMode
  <1>11. \A k \in DOMAIN publies : k \in DOMAIN publies' /\ publies'[k] = publies[k]
    <2>1. DOMAIN publies = 1 .. Len(publies) /\ DOMAIN publies' = 1 .. Len(publies')
          /\ Len(publies) \in Nat /\ Len(publies') \in Nat
          /\ \A i \in 1 .. Len(publies) : publies'[i] = publies[i]
      BY DEF Prolonge
    <2>2. Len(publies) <= Len(publies')
      <3>1. e.tag = "saut" => Len(publies') = Len(publies)
        BY DEF Prolonge
      <3>2. e.tag # "saut" => Len(publies') = Len(publies) + 1
        BY DEF Prolonge
      <3>3. Len(publies) \in Nat /\ Len(publies') \in Nat
        BY DEF Prolonge
      <3> QED BY <3>1, <3>2, <3>3
    <2> QED BY <2>1, <2>2
  <1>12. AnneauLecteur(h2, q2, p)' /\ AnneauRecus(c2)' /\ Traites' = Traites
    <2>1. /\ \A i \in Nat : i < fbox_out.seq => h2[i] = h[i]
          /\ \A i \in Nat : i <= fbox_out.seq => q2[i] = q[i] /\ c2[i] = c[i]
      BY <1>0, <1>7
    <2>2. Poursuit(h2, q2, c2, h, q, c)
      BY <1>11, <2>1 DEF Poursuit
    <2> QED BY <2>2, AnneauEcrit
  <1>13. /\ boite' \in [1 .. Taille - 1 -> Unites] /\ boite'[q[n].off] = e
         /\ \A v \in 1 .. Taille - 1 : v # q[n].off => boite'[v] = boite[v]
    <2>1. boite \in [1 .. Taille - 1 -> Unites] /\ e \in Unites
      BY DEF InvFbox, TypesFbox, Unites
    <2> QED BY <1>1, <1>2, <2>1
  <1>14. AnneauNumeros'
    <2> SUFFICES ASSUME NEW u \in 1 .. Taille - 1, boite'[u].genre = "entete"
                 PROVE  boite'[u].seq < n + 1
      BY <1>0 DEF AnneauNumeros
    <2>1. CASE u = q[n].off
      <3>1. boite'[u] = e /\ e.seq = n
        BY <1>0, <1>13, <2>1
      <3> QED BY <1>1, <3>1
    <2>2. CASE u # q[n].off
      <3>1. boite'[u] = boite[u]
        BY <1>13, <2>2
      <3>2. boite[u].seq < n
        BY <1>0, <3>1 DEF AnneauDe, AnneauNumeros
      <3>3. boite[u].seq \in Nat
        <4>1. boite[u] \in Unites /\ boite[u].genre = "entete"
          BY <3>1 DEF InvFbox, TypesFbox
        <4>2. boite[u] \in EnTetes
          BY <4>1 DEF Unites, Zero, LesDonnees
        <4> QED BY <4>2, Constantes DEF EnTetes
      <3> QED BY <1>1, <3>1, <3>2, <3>3
    <2> QED BY <2>1, <2>2
  <1>15. AnneauUnites(h2, q2, s)'
    <2> SUFFICES ASSUME NEW i \in s .. n
                 PROVE  /\ boite'[q2[i].off] = h2[i]
                        /\ h2[i].tag # "saut" =>
                             \A k \in 1 .. h2[i].n - 1 : EstDonnee(boite'[q2[i].off + k], h2[i].m)
      <3>1. \A i : i \in s .. (n + 1) - 1 => i \in s .. n
        BY <1>1
      <3> QED BY <1>0, <3>1 DEF AnneauUnites
    <2>1. CASE i = n
      <3>1. q2[i] = q[n] /\ h2[i] = e
        BY <1>1, <1>7, <2>1
      <3>2. ASSUME e.tag # "saut", NEW k \in 1 .. e.n - 1
            PROVE  EstDonnee(boite'[q[n].off + k], e.m)
        <4>1. q[n].off + k \in 1 .. Taille - 1 /\ q[n].off + k # q[n].off
          BY <1>1, <1>2, <1>4, Constantes
        <4> QED BY <1>2, <1>13, <3>2, <4>1
      <3> QED BY <1>13, <3>1, <3>2
    <2>2. CASE i # n
      <3>1. i \in Nat /\ i < n /\ i \in s .. n - 1 /\ i \in 0 .. n - 1
        <4>1. i \in Nat /\ i < n
          BY <1>1, <2>2
        <4> QED BY <1>1, <4>1
      <3>2. q2[i] = q[i] /\ h2[i] = h[i] /\ q[i].off \in 1 .. Taille - 1 /\ h[i].n \in 1 .. Taille - 1
        BY <1>1, <1>7, <3>1
      <3>3. q[i].off + h[i].n <= q[n].off \/ q[n].off + Libre <= q[i].off
        BY <1>2, <3>1
      <3>4. q[i].off + h[i].n <= Taille
        BY <1>2, <3>1
      <3>5. ASSUME NEW k \in 0 .. h[i].n - 1
            PROVE  q[i].off + k \in 1 .. Taille - 1 /\ q[i].off + k # q[n].off
        BY <1>1, <1>3, <3>2, <3>3, <3>4, Constantes
      <3>6. \A k \in 0 .. h[i].n - 1 : boite'[q[i].off + k] = boite[q[i].off + k]
        BY <1>13, <3>5
      <3>7. boite'[q[i].off] = boite[q[i].off]
        BY <3>2, <3>6
      <3>8. /\ boite[q[i].off] = h[i]
            /\ h[i].tag # "saut" => \A k \in 1 .. h[i].n - 1 : EstDonnee(boite[q[i].off + k], h[i].m)
        BY <1>0, <3>1 DEF AnneauDe, AnneauUnites
      <3>9. \A k \in 1 .. h[i].n - 1 : k \in 0 .. h[i].n - 1
        OBVIOUS
      <3> QED BY <3>2, <3>6, <3>7, <3>8, <3>9
    <2> QED BY <2>1, <2>2
  <1>16. \A i \in Nat : i <= fbox_out.seq => q2[i] = q[i]
    BY <1>0, <1>7
  <1>17. h2[fbox_out.seq] = e /\ q2[fbox_out.seq + 1] = Suite(q[fbox_out.seq], e.n)
    BY <1>0, <1>7
  <1>18. Enchaine(h2, q2, c2, fbox_out'.seq, publies')
    BY <1>8, <1>0
  <1> QED BY <1>17, <1>18, <1>12, <1>14, <1>15, <1>16 DEF Ajoutee

(* The sender goes on to write.                                             *)
LEMMA EcrivainVa ==
    ASSUME InvFbox, NEW a \in Acteurs, acteur[a].pc \in EnVerrou, NEW l \in EnVerrou, Vers(a, l)
    PROVE  /\ acteur'[a].pc = l /\ acteur'[a].m = acteur[a].m /\ acteur'[a].n = acteur[a].n
           /\ acteur[a].n \in 1 .. Taille - 1 /\ acteur[a].m \in Envoyes
           /\ acteur[a].tag \in {"donnees", "fragment"}
           /\ \A b \in Acteurs : b # a => /\ acteur'[b] = acteur[b]
                                          /\ acteur[b].pc \notin EnVerrou
                                          /\ acteur[b].pc \notin {"publier", "clore"}
  <1>1. acteur \in [Acteurs -> Etats] /\ acteur[a] \in Etats
    BY DEF InvFbox, TypesFbox
  <1>2. acteur[a] \in EtatsBoite
    BY <1>1, EtatsProprietes
  <1>3. acteur'[a] = [acteur[a] EXCEPT !.pc = l] /\ \A b \in Acteurs : b # a => acteur'[b] = acteur[b]
    BY <1>1 DEF Vers, Placer
  <1>4. \A b \in Acteurs : b # a => acteur[b].pc \notin EnVerrou
    BY SeulEcrivain
  <1>5. "publier" \in EnVerrou /\ "clore" \in EnVerrou
    BY DEF EnVerrou
  <1> QED BY <1>2, <1>3, <1>4, <1>5, BoiteProprietes

(* It writes in what has been given back only.                              *)
LEMMA AnneauEcrire ==
    ASSUME InvFbox, NEW h, NEW q, NEW c, NEW s \in Nat, NEW p \in Nat, AnneauDe(h, q, c, s, p),
           NEW a \in Acteurs, Ecrire(a)
    PROVE  AnneauDe(h, q, c, s, p)'
  <1>0. PICK n, x, m, u : n = fbox_out.seq /\ x = acteur[a].n /\ m = acteur[a].m /\ u = fbox_out.end.off
    OBVIOUS
  <1>1. /\ acteur[a].pc = "ecrire" /\ Vers(a, "publier")
        /\ \E nombres \in [u + 1 .. u + x - 1 -> mode.leurres \cup {AucunNumero}] :
             boite' = [v \in DOMAIN boite |-> IF v \in DOMAIN nombres
                                              THEN Donnees(m, nombres[v]) ELSE boite[v]]
        /\ UNCHANGED <<mode, fbox_out, publies, fbox_in, startp, lecteur, recus>>
    BY <1>0 DEF Ecrire, varsRecu
  <1>2. /\ acteur'[a].pc = "publier" /\ acteur'[a].m = m /\ acteur'[a].n = x
        /\ x \in 1 .. Taille - 1
        /\ \A b \in Acteurs : b # a => acteur'[b] = acteur[b] /\ acteur[b].pc \notin {"publier", "clore"}
    BY <1>0, <1>1, EcrivainVa DEF EnVerrou
  <1>3. \A b \in Acteurs : acteur[b].pc # "clore" /\ acteur'[b].pc # "clore"
    BY <1>1, <1>2
  <1>4. /\ n \in Nat /\ Fin = n /\ Fin' = n
        /\ \A i \in Nat : h[i].n \in 1 .. Taille - 1
        /\ \A i \in Nat : q[i].off \in 1 .. Taille - 1
    <2>1. Fin' = fbox_out'.seq
      BY <1>3 DEF Fin
    <2> QED BY <1>0, <1>1, <1>3, <2>1, AnneauProprietes
  <1>5. /\ \A i \in s .. n - 1 : q[i].off + h[i].n <= u \/ u + Libre <= q[i].off
        /\ \A i \in 0 .. n - 1 : q[i].off + h[i].n <= Taille
    BY <1>0, <1>4, AnneauLibre
  <1>6. u \in 1 .. Taille - 1 /\ Libre \in Nat /\ Libre <= Taille - u
    <2>1. fbox_out.start \in Offsets /\ fbox_out.end \in Offsets
      BY DEF InvFbox, TypesFbox
    <2> QED BY <1>0, <2>1, LibreProprietes DEF Libre, Offsets
  <1>7. x <= Libre
    BY <1>0, <1>1 DEF InvFbox, PlaceFbox
  <1>8. /\ boite \in [1 .. Taille - 1 -> Unites]
        /\ \A v \in 1 .. Taille - 1 : v \in u + 1 .. u + x - 1 => EstDonnee(boite'[v], m)
        /\ \A v \in 1 .. Taille - 1 : v \notin u + 1 .. u + x - 1 => boite'[v] = boite[v]
    <2>1. boite \in [1 .. Taille - 1 -> Unites]
      BY DEF InvFbox, TypesFbox
    <2>2. PICK nombres \in [u + 1 .. u + x - 1 -> mode.leurres \cup {AucunNumero}] :
             boite' = [v \in DOMAIN boite |-> IF v \in DOMAIN nombres
                                              THEN Donnees(m, nombres[v]) ELSE boite[v]]
      BY <1>1
    <2> QED BY <2>1, <2>2 DEF EstDonnee, Donnees
  <1>9. AnneauNumeros'
    <2> SUFFICES ASSUME NEW v \in 1 .. Taille - 1, boite'[v].genre = "entete"
                 PROVE  boite'[v].seq < n
      BY <1>0, <1>1 DEF AnneauNumeros
    <2>1. v \notin u + 1 .. u + x - 1
      BY <1>8 DEF EstDonnee
    <2>2. boite'[v] = boite[v]
      BY <1>8, <2>1
    <2> QED BY <1>0, <2>2 DEF AnneauDe, AnneauNumeros
  <1>10. AnneauUnites(h, q, s)'
    <2> SUFFICES ASSUME NEW i \in s .. n - 1
                 PROVE  /\ boite'[q[i].off] = h[i]
                        /\ h[i].tag # "saut" =>
                             \A k \in 1 .. h[i].n - 1 : EstDonnee(boite'[q[i].off + k], h[i].m)
      BY <1>0, <1>1 DEF AnneauUnites
    <2>1. i \in Nat /\ i \in 0 .. n - 1
      BY <1>4
    <2>2. q[i].off \in 1 .. Taille - 1 /\ h[i].n \in 1 .. Taille - 1
          /\ q[i].off + h[i].n <= Taille
          /\ (q[i].off + h[i].n <= u \/ u + Libre <= q[i].off)
      BY <1>4, <1>5, <2>1
    <2>3. ASSUME NEW k \in 0 .. h[i].n - 1
          PROVE  q[i].off + k \in 1 .. Taille - 1 /\ q[i].off + k \notin u + 1 .. u + x - 1
      BY <1>2, <1>6, <1>7, <2>2, Constantes
    <2>4. \A k \in 0 .. h[i].n - 1 : boite'[q[i].off + k] = boite[q[i].off + k]
      BY <1>8, <2>3
    <2>5. boite'[q[i].off] = boite[q[i].off]
      BY <2>2, <2>4
    <2>6. /\ boite[q[i].off] = h[i]
          /\ h[i].tag # "saut" => \A k \in 1 .. h[i].n - 1 : EstDonnee(boite[q[i].off + k], h[i].m)
      BY <1>0 DEF AnneauDe, AnneauUnites
    <2>7. \A k \in 1 .. h[i].n - 1 : k \in 0 .. h[i].n - 1
      OBVIOUS
    <2> QED BY <2>4, <2>5, <2>6, <2>7
  <1>11. AnneauEcrivain(h)'
    <2>1. ASSUME NEW k \in 1 .. x - 1 PROVE EstDonnee(boite'[u + k], m)
      <3>1. u + k \in 1 .. Taille - 1 /\ u + k \in u + 1 .. u + x - 1
        BY <1>2, <1>6, <1>7, Constantes
      <3> QED BY <1>8, <3>1
    <2>2. \A b \in Acteurs : acteur'[b].pc = "publier" => b = a
      BY <1>2
    <2> QED BY <1>0, <1>1, <1>2, <1>3, <2>1, <2>2 DEF AnneauEcrivain
  <1>12. AnneauLecteur(h, q, p)' /\ AnneauRecus(c)' /\ Traites' = Traites
    <2>1. Poursuit(h, q, c, h, q, c)
      BY <1>1 DEF Poursuit
    <2> QED BY <1>1, <2>1, AnneauEcrit
  <1>13. AnneauPlaces(q, s, p)'
    BY <1>1, <1>4, <1>12 DEF AnneauDe, AnneauPlaces
  <1>14. EnTetes' = EnTetes
    BY <1>1, MemeMode
  <1>15. Enchaine(h, q, c, fbox_out.seq, publies)'
    BY <1>1, <1>14
       DEF AnneauDe, Enchaine, ChaineTypes, ChaineComptes, ChaineLiens, ChaineMessages,
           ChaineOrdre, ChaineNombre
  <1>16. AnneauVide'
    <2>1. /\ 1 \in 1 .. Taille - 1 /\ 1 \notin u + 1 .. u + x - 1
          /\ u \in 1 .. Taille - 1 /\ u \notin u + 1 .. u + x - 1
      BY <1>6, Constantes
    <2>2. boite'[1] = boite[1] /\ boite'[u] = boite[u]
      BY <1>8, <2>1
    <2> QED BY <1>0, <1>1, <1>3, <2>2 DEF AnneauDe, AnneauVide
  <1> QED BY <1>9, <1>10, <1>11, <1>12, <1>13, <1>15, <1>16 DEF AnneauDe

(* It clears the next header's place if that is known to be free.           *)
LEMMA AnneauClore ==
    ASSUME InvFbox, NEW h, NEW q, NEW c, NEW s \in Nat, NEW p \in Nat, AnneauDe(h, q, c, s, p),
           NEW a \in Acteurs, Clore(a)
    PROVE  AnneauDe(h, q, c, s, p)'
  <1>0. PICK n, x, u : n = fbox_out.seq /\ x = acteur[a].n /\ u = fbox_out.end.off
    OBVIOUS
  <1>1. /\ acteur[a].pc = "clore"
        /\ Placer(a, IF a = progres THEN [pc |-> "attente"] ELSE Repos)
        /\ fbox_out' = [fbox_out EXCEPT !.end = IF u + x = Taille THEN ALaFin(fbox_out.end)
                                                ELSE [fbox_out.end EXCEPT !.off = u + x]]
        /\ boite' = IF u + x # Taille /\ Libre > x THEN [boite EXCEPT ![u + x] = Zero] ELSE boite
        /\ UNCHANGED <<mode, publies, fbox_in, startp, lecteur, recus>>
    BY <1>0 DEF Clore, Reussir, Donner, varsRecu
  <1>2. acteur \in [Acteurs -> Etats] /\ acteur[a] \in EtatsBoite
    <2>1. acteur \in [Acteurs -> Etats] /\ acteur[a] \in Etats
      BY DEF InvFbox, TypesFbox
    <2> QED BY <1>1, <2>1, EtatsProprietes DEF EnVerrou
  <1>3. x \in 1 .. Taille - 1 /\ x <= Libre
    <2>1. x \in 1 .. Taille - 1
      BY <1>0, <1>2, BoiteProprietes
    <2>2. x <= Libre
      BY <1>0, <1>1 DEF InvFbox, PlaceFbox
    <2> QED BY <2>1, <2>2
  <1>4. \A b \in Acteurs : acteur'[b].pc \notin {"publier", "clore"}
    <2>1. \A b \in Acteurs : b # a => acteur[b].pc \notin {"publier", "clore"}
      BY <1>1, SeulEcrivain DEF EnVerrou
    <2>2. acteur'[a].pc \in {"attente", "repos"} /\ \A b \in Acteurs : b # a => acteur'[b] = acteur[b]
      BY <1>1, <1>2 DEF Placer, Repos
    <2> QED BY <2>1, <2>2
  <1>5. /\ fbox_out'.start = fbox_out.start /\ fbox_out'.seq = n
        /\ fbox_out'.end = IF u + x = Taille THEN ALaFin(fbox_out.end)
                           ELSE [fbox_out.end EXCEPT !.off = u + x]
    <2>1. fbox_out \in [buffer : BOOLEAN, start : Offsets, end : Offsets, seq : 0 .. Modulo - 1]
      BY DEF InvFbox, TypesFbox
    <2> QED BY <1>0, <1>1, <2>1
  <1>6. /\ n \in Nat /\ Fin \in Nat /\ q \in [Nat -> Places]
        /\ \A i \in Nat : h[i].n \in 1 .. Taille - 1
        /\ \A i \in Nat : q[i].off \in 1 .. Taille - 1 /\ Offset(q[i]).off = q[i].off
    BY <1>0, AnneauProprietes
  <1>7. Fin = n - 1 /\ Fin' = n /\ n - 1 \in Nat
    BY <1>0, <1>1, <1>4, <1>5, <1>6 DEF Fin
  <1>8. s <= n - 1 /\ fbox_out.end = Offset(q[n - 1]) /\ h[n - 1].n = x
    BY <1>0, <1>1, <1>7 DEF AnneauDe, AnneauPlaces, AnneauEcrivain
  <1>9. q[n - 1].off = u /\ u \in 1 .. Taille - 1 /\ u + x <= Taille /\ q[n] = Suite(q[n - 1], x)
    <2>1. n - 1 \in 0 .. n - 1 /\ (n - 1) + 1 = n
      BY <1>6, <1>7
    <2>2. Enchaine(h, q, c, n, publies)
      BY <1>0 DEF AnneauDe
    <2>3. q[n - 1].off + h[n - 1].n <= Taille /\ q[(n - 1) + 1] = Suite(q[n - 1], h[n - 1].n)
      BY <2>1, <2>2 DEF Enchaine, ChaineLiens
    <2> QED BY <1>0, <1>6, <1>7, <1>8, <2>1, <2>3
  <1>10. fbox_out'.end = Offset(q[n])
    <2>1. q[n - 1] \in Places
      BY <1>6, <1>7
    <2>2. Offset(Suite(q[n - 1], x)) = IF u + x = Taille THEN [off |-> 1, hb |-> ~ Offset(q[n - 1]).hb]
                                    ELSE [Offset(q[n - 1]) EXCEPT !.off = u + x]
      BY <1>3, <1>9, <2>1, SuiteProprietes
    <2> QED BY <1>5, <1>8, <1>9, <2>2 DEF ALaFin
  <1>11. /\ boite \in [1 .. Taille - 1 -> Unites]
         /\ \A v \in 1 .. Taille - 1 : boite'[v] = boite[v] \/ (v = u + x /\ x < Libre /\ boite'[v] = Zero)
    <2>1. boite \in [1 .. Taille - 1 -> Unites]
      BY DEF InvFbox, TypesFbox
    <2> QED BY <1>1, <1>3, <2>1
  <1>12. AnneauNumeros'
    <2> SUFFICES ASSUME NEW v \in 1 .. Taille - 1, boite'[v].genre = "entete"
                 PROVE  boite'[v].seq < n
      BY <1>5 DEF AnneauNumeros
    <2>1. boite'[v] = boite[v]
      BY <1>11 DEF Zero
    <2> QED BY <1>0, <2>1 DEF AnneauDe, AnneauNumeros
  <1>13. /\ \A i \in s .. n - 2 : q[i].off + h[i].n <= u \/ u + Libre <= q[i].off
         /\ \A i \in 0 .. n - 1 : q[i].off + h[i].n <= Taille
    <2>1. /\ \A i \in s .. Fin - 1 : q[i].off + h[i].n <= u \/ u + Libre <= q[i].off
          /\ \A i \in 0 .. n - 1 : q[i].off + h[i].n <= Taille
      BY <1>0, AnneauLibre
    <2>2. Fin - 1 = n - 2
      BY <1>6, <1>7
    <2> QED BY <2>1, <2>2
  <1>14. AnneauUnites(h, q, s)'
    <2> SUFFICES ASSUME NEW i \in s .. n - 1
                 PROVE  /\ boite'[q[i].off] = h[i]
                        /\ h[i].tag # "saut" =>
                             \A k \in 1 .. h[i].n - 1 : EstDonnee(boite'[q[i].off + k], h[i].m)
      BY <1>5 DEF AnneauUnites
    <2>1. i \in Nat /\ i \in 0 .. n - 1 /\ (i # n - 1 => i \in s .. n - 2)
      BY <1>6
    <2>2. q[i].off \in 1 .. Taille - 1 /\ h[i].n \in 1 .. Taille - 1
          /\ q[i].off + h[i].n <= Taille
      BY <1>6, <1>13, <2>1
    <2>3. q[i].off + h[i].n <= u + x \/ u + Libre <= q[i].off
      <3>1. CASE i = n - 1
        BY <1>3, <1>8, <1>9, <3>1
      <3>2. CASE i # n - 1
        <4>1. q[i].off + h[i].n <= u \/ u + Libre <= q[i].off
          BY <1>13, <2>1, <3>2
        <4> QED BY <1>3, <1>9, <2>2, <4>1, Constantes
      <3> QED BY <3>1, <3>2
    <2>4. Libre \in Nat
      BY LibreProprietes DEF Libre, InvFbox, TypesFbox
    <2>5. ASSUME NEW k \in 0 .. h[i].n - 1
          PROVE  q[i].off + k \in 1 .. Taille - 1 /\ ~ (q[i].off + k = u + x /\ x < Libre)
      BY <1>3, <1>9, <2>2, <2>3, <2>4, Constantes
    <2>6. \A k \in 0 .. h[i].n - 1 : boite'[q[i].off + k] = boite[q[i].off + k]
      BY <1>11, <2>5
    <2>7. boite'[q[i].off] = boite[q[i].off]
      <3>1. 0 \in 0 .. h[i].n - 1 /\ q[i].off + 0 = q[i].off
        BY <2>2
      <3> QED BY <2>6, <3>1
    <2>8. /\ boite[q[i].off] = h[i]
          /\ h[i].tag # "saut" => \A k \in 1 .. h[i].n - 1 : EstDonnee(boite[q[i].off + k], h[i].m)
      BY <1>0 DEF AnneauDe, AnneauUnites
    <2>9. \A k \in 1 .. h[i].n - 1 : k \in 0 .. h[i].n - 1
      OBVIOUS
    <2> QED BY <2>6, <2>7, <2>8, <2>9
  <1>15. AnneauEcrivain(h)'
    BY <1>4 DEF AnneauEcrivain
  <1>16. AnneauLecteur(h, q, p)' /\ AnneauRecus(c)' /\ Traites' = Traites
    <2>1. Poursuit(h, q, c, h, q, c)
      BY <1>1 DEF Poursuit
    <2> QED BY <1>1, <2>1, AnneauEcrit
  <1>17. AnneauPlaces(q, s, p)'
    <2>1. s <= n
      BY <1>6, <1>8
    <2> QED BY <1>0, <1>1, <1>5, <1>7, <1>10, <1>16, <2>1 DEF AnneauDe, AnneauPlaces
  <1>18. EnTetes' = EnTetes
    BY <1>1, MemeMode
  <1>19. Enchaine(h, q, c, fbox_out.seq, publies)'
    BY <1>0, <1>1, <1>5, <1>18
       DEF AnneauDe, Enchaine, ChaineTypes, ChaineComptes, ChaineLiens, ChaineMessages,
           ChaineOrdre, ChaineNombre
  <1>20. AnneauVide'
    <2>1. boite[1].genre # "donnees" /\ boite'[1].genre # "donnees"
      <3>1. 1 \in 1 .. Taille - 1
        BY Constantes
      <3>2. boite[1].genre # "donnees"
        BY DEF AnneauDe, AnneauVide
      <3> QED BY <1>11, <3>1, <3>2 DEF Zero
    <2>2. boite'[fbox_out'.end.off].genre # "donnees"
      <3>1. CASE u + x = Taille
        BY <1>5, <2>1, <3>1 DEF ALaFin
      <3>2. CASE u + x # Taille /\ Libre > x
        <4>1. fbox_out'.end.off = u + x /\ u + x \in 1 .. Taille - 1
          <5>1. fbox_out.end \in Offsets
            BY DEF InvFbox, TypesFbox
          <5> QED BY <1>3, <1>5, <1>9, <3>2, <5>1, Constantes DEF Offsets
        <4>2. boite' = [boite EXCEPT ![u + x] = Zero]
          BY <1>1, <3>2
        <4> QED BY <1>11, <4>1, <4>2 DEF Zero
      <3>3. CASE u + x # Taille /\ ~ (Libre > x)
        <4>1. fbox_out'.end.off = u + x
          <5>1. fbox_out.end \in Offsets
            BY DEF InvFbox, TypesFbox
          <5> QED BY <1>5, <3>3, <5>1 DEF Offsets
        <4>2. boite' = boite
          BY <1>1, <3>3
        <4>3. Libre = x
          <5>1. Libre \in Nat
            BY LibreProprietes DEF Libre, InvFbox, TypesFbox
          <5> QED BY <1>3, <3>3, <5>1
        <4>4. /\ Libre = IF q[s].tour = q[Fin].tour THEN Taille - q[Fin].off ELSE q[s].off - q[Fin].off
              /\ q[Fin].off = u
          BY <1>0, AnneauLibre
        <4>5. q[s].off = u + x
          <5>1. q[s].off \in 1 .. Taille - 1
            BY <1>6
          <5> QED BY <1>3, <1>9, <3>3, <4>3, <4>4, <5>1, Constantes
        <4>6. s \in s .. n - 1
          BY <1>6, <1>8
        <4>7. boite[u + x] = h[s]
          BY <1>0, <4>5, <4>6 DEF AnneauDe, AnneauUnites
        <4>8. h[s].genre = "entete"
          BY AnneauProprietes
        <4> QED BY <4>1, <4>2, <4>7, <4>8
      <3> QED BY <3>1, <3>2, <3>3
    <2> QED BY <2>1, <2>2 DEF AnneauVide
  <1> QED BY <1>12, <1>14, <1>15, <1>16, <1>17, <1>19, <1>20 DEF AnneauDe

(* Numbers do not wrap.                                                     *)
LEMMA Numero ==
    ASSUME PeuDeMessages, TypesFbox, OrdreFbox, NEW h, NEW q, NEW c,
           Enchaine(h, q, c, fbox_out.seq, publies), q[fbox_out.seq].off > 1
    PROVE  (fbox_out.seq + 1) % Modulo = fbox_out.seq + 1
  <1>1. 2 * Len(publies) < Modulo /\ Len(publies) \in Nat
    BY NombrePublies, MessagesProprietes
  <1>2. fbox_out.seq <= 2 * Len(publies) - 1
    BY DEF Enchaine, ChaineNombre
  <1>3. fbox_out.seq \in Nat
    BY Constantes DEF TypesFbox
  <1> QED BY <1>1, <1>2, <1>3, Constantes

LEMMA AnneauSauter ==
    ASSUME PeuDeMessages, InvFbox, OrdreFbox,
           NEW h, NEW q, NEW c, NEW s \in Nat, NEW p \in Nat, AnneauDe(h, q, c, s, p),
           NEW a \in Acteurs, Sauter(a)
    PROVE  AnneauFbox'
  <1>0. PICK n, u, e : /\ n = fbox_out.seq /\ u = fbox_out.end.off
                       /\ e = Entete(a, "saut", n, Taille - u)
    OBVIOUS
  <1>1. /\ acteur[a].pc = "sauter" /\ \E l \in {"echec", "ecrire"} : Vers(a, l)
        /\ boite' = [boite EXCEPT ![u] = e]
        /\ fbox_out' = [fbox_out EXCEPT !.seq = (@ + 1) % Modulo, !.end = ALaFin(fbox_out.end)]
        /\ UNCHANGED <<mode, publies, fbox_in, startp, lecteur, recus>>
    BY <1>0 DEF Sauter, varsRecu
  <1>2. \A b \in Acteurs : acteur[b].pc # "clore" /\ acteur'[b].pc \notin {"publier", "clore"}
    <2>1. PICK l \in {"echec", "ecrire"} : Vers(a, l)
      BY <1>1
    <2>2. /\ acteur'[a].pc = l
          /\ \A b \in Acteurs : b # a => acteur'[b] = acteur[b] /\ acteur[b].pc \notin {"publier", "clore"}
      BY <1>1, <2>1, EcrivainVa DEF EnVerrou
    <2> QED BY <1>1, <2>2
  <1>3. /\ n \in Nat /\ Fin = n /\ q \in [Nat -> Places] /\ Traites \in Nat /\ Traites <= fbox_in.seq
        /\ fbox_in.seq \in Nat
        /\ \A i \in Nat : q[i].off \in 1 .. Taille - 1 /\ q[i].tour \in Nat /\ Offset(q[i]).off = q[i].off
    BY <1>0, <1>2, AnneauProprietes
  <1>4. /\ s <= p /\ p <= Traites /\ fbox_in.seq <= n /\ s <= n
        /\ fbox_out.start = Offset(q[s]) /\ fbox_out.end = Offset(q[n])
        /\ startp = Offset(q[p]) /\ fbox_in.start = Offset(q[p])
    BY <1>0, <1>3 DEF AnneauDe, AnneauPlaces
  <1>5. /\ Tient(q[s], q[n]) /\ fbox_out.end.off = q[n].off /\ fbox_out.start.off = q[s].off
        /\ Libre = IF q[s].tour = q[n].tour THEN Taille - q[n].off ELSE q[s].off - q[n].off
    BY <1>3, AnneauLibre
  <1>6. 0 < Libre /\ Libre < acteur[a].n /\ q[s].off <= q[n].off /\ acteur[a].n \in 1 .. Taille - 1
    <2>1. 0 < Libre /\ Libre < acteur[a].n /\ fbox_out.start.off <= fbox_out.end.off
      BY <1>1 DEF InvFbox, PlaceFbox
    <2>2. acteur[a].n \in 1 .. Taille - 1
      BY <1>1, EcrivainVa DEF EnVerrou
    <2> QED BY <1>5, <2>1, <2>2
  <1>7. q[s].tour = q[n].tour /\ q[n].off > 1 /\ u = q[n].off /\ u \in 1 .. Taille - 1
    <2>1. q[s].off \in 1 .. Taille - 1 /\ q[n].off \in 1 .. Taille - 1
          /\ q[s].tour \in Nat /\ q[n].tour \in Nat
      BY <1>3
    <2>2. q[s].tour = q[n].tour
      <3>1. ASSUME q[s].tour # q[n].tour PROVE FALSE
        <4>1. q[n].off <= q[s].off /\ Libre = q[s].off - q[n].off
          BY <1>5, <3>1 DEF Tient
        <4> QED BY <1>6, <2>1, <4>1
      <3> QED BY <3>1
    <2>3. Libre = Taille - q[n].off
      BY <1>5, <2>2
    <2>4. q[n].off > 1
      BY <1>6, <2>1, <2>3, Constantes
    <2>5. u = q[n].off
      BY <1>0, <1>5
    <2> QED BY <2>1, <2>2, <2>4, <2>5
  <1>8. e \in EnTetes /\ e.seq = n /\ e.n = Taille - u /\ e.tag = "saut" /\ u + e.n = Taille
        /\ e.n \in 1 .. Taille - 1
    <2>1. n \in 0 .. Modulo - 1
      BY <1>0 DEF InvFbox, TypesFbox
    <2>2. Taille - u \in 1 .. Taille - 1 /\ u + (Taille - u) = Taille
      BY <1>7, Constantes
    <2> QED BY <1>0, <2>1, <2>2 DEF Entete, EnTetes
  <1>9. fbox_out'.seq = n + 1 /\ fbox_out'.start = fbox_out.start
        /\ fbox_out'.end = ALaFin(fbox_out.end)
    <2>1. fbox_out \in [buffer : BOOLEAN, start : Offsets, end : Offsets, seq : 0 .. Modulo - 1]
      BY DEF InvFbox, TypesFbox
    <2>2. (n + 1) % Modulo = n + 1
      BY <1>0, <1>7, Numero DEF AnneauDe, InvFbox
    <2> QED BY <1>0, <1>1, <2>1, <2>2
  <1>10. Prolonge(publies, publies', e)
    <2>1. Len(publies) \in Nat /\ DOMAIN publies = 1 .. Len(publies)
      BY MessagesProprietes DEF InvFbox
    <2> QED BY <1>1, <1>8, <2>1 DEF Prolonge
  <1>11. PICK h2, q2, c2 : Ajoutee(h2, q2, c2, q, s, p, n, e)
    <2>1. e.seq = fbox_out.seq /\ fbox_out.end.off + e.n <= Taille /\ fbox_out'.seq = fbox_out.seq + 1
          /\ boite' = [boite EXCEPT ![fbox_out.end.off] = e]
          /\ fbox_out.end.off > 1 /\ fbox_out.end.off + e.n = Taille
      BY <1>0, <1>1, <1>7, <1>8, <1>9, Constantes
    <2>2. Ajoute(e)
      BY <1>1, <1>6, <1>8, <1>10, <2>1 DEF Ajoute
    <2> QED BY <1>0, <1>2, <2>2, AnneauAjoute
  <1>20. /\ AnneauUnites(h2, q2, s)' /\ AnneauNumeros'
         /\ AnneauLecteur(h2, q2, p)' /\ AnneauRecus(c2)' /\ Traites' = Traites
         /\ h2[n] = e /\ q2[n + 1] = Suite(q[n], e.n)
         /\ \A i \in Nat : i <= n => q2[i] = q[i]
    BY <1>11 DEF Ajoutee
  <1>21. Enchaine(h2, q2, c2, fbox_out.seq, publies)'
    BY <1>1, <1>11, MemeMode
       DEF Ajoutee, Enchaine, ChaineTypes, ChaineComptes, ChaineLiens, ChaineMessages,
           ChaineOrdre, ChaineNombre
  <1>12. Fin' = n + 1
    BY <1>2, <1>9 DEF Fin
  <1>13. q2[s] = q[s] /\ q2[p] = q[p] /\ p <= n
    BY <1>3, <1>4, <1>20
  <1>14. q2[n + 1] = [tour |-> q[n].tour + 1, off |-> 1]
    BY <1>7, <1>8, <1>20 DEF Suite
  <1>15. fbox_out'.end = Offset(q2[n + 1])
    <2>1. q[n] \in Places
      BY <1>3
    <2>2. Offset(Suite(q[n], e.n)) = [off |-> 1, hb |-> ~ Offset(q[n]).hb]
      BY <1>7, <1>8, <2>1, SuiteProprietes
    <2> QED BY <1>4, <1>9, <1>20, <2>2 DEF ALaFin
  <1>16. Tient(q2[s], q2[n + 1])
    BY <1>3, <1>7, <1>13, <1>14 DEF Tient
  <1>17. AnneauPlaces(q2, s, p)'
    BY <1>1, <1>3, <1>4, <1>9, <1>20, <1>12, <1>13, <1>15, <1>16 DEF AnneauPlaces
  <1>18. AnneauEcrivain(h2)'
    BY <1>2 DEF AnneauEcrivain
  <1>22. AnneauVide'
    <2>1. boite \in [1 .. Taille - 1 -> Unites] /\ 1 \in 1 .. Taille - 1
      BY Constantes DEF InvFbox, TypesFbox
    <2>2. boite'[1].genre # "donnees"
      BY <1>0, <1>1, <2>1 DEF AnneauDe, AnneauVide, Entete
    <2> QED BY <1>9, <2>2 DEF AnneauVide, ALaFin
  <1>19. AnneauDe(h2, q2, c2, s, p)'
    BY <1>20, <1>21, <1>17, <1>18, <1>22 DEF AnneauDe
  <1> QED BY <1>19 DEF AnneauFbox

LEMMA AnneauPublier ==
    ASSUME PeuDeMessages, InvFbox, InvFbox', OrdreFbox',
           NEW h, NEW q, NEW c, NEW s \in Nat, NEW p \in Nat, AnneauDe(h, q, c, s, p),
           NEW a \in Acteurs, Publier(a)
    PROVE  AnneauFbox'
  <1>0. PICK n, x, m, u, e : /\ n = fbox_out.seq /\ x = acteur[a].n /\ m = acteur[a].m
                             /\ u = fbox_out.end.off
                             /\ e = Entete(m, acteur[a].tag, n, x)
    OBVIOUS
  <1>1. /\ acteur[a].pc = "publier" /\ Vers(a, "clore")
        /\ boite' = [boite EXCEPT ![u] = e]
        /\ fbox_out' = [fbox_out EXCEPT !.seq = (@ + 1) % Modulo]
        /\ publies' = Append(publies, m)
        /\ UNCHANGED <<mode, fbox_in, startp, lecteur, recus>>
    BY <1>0 DEF Publier, varsRecu
  <1>2. /\ acteur'[a].pc = "clore" /\ acteur'[a].n = x /\ x \in 1 .. Taille - 1 /\ m \in Envoyes
        /\ acteur[a].tag \in {"donnees", "fragment"}
        /\ \A b \in Acteurs : b # a => acteur'[b] = acteur[b] /\ acteur[b].pc \notin {"publier", "clore"}
    BY <1>0, <1>1, EcrivainVa DEF EnVerrou
  <1>3. /\ \A b \in Acteurs : acteur[b].pc # "clore"
        /\ \A b \in Acteurs : acteur'[b].pc # "publier" /\ (acteur'[b].pc = "clore" => b = a)
    BY <1>1, <1>2
  <1>4. /\ n \in Nat /\ Fin = n /\ q \in [Nat -> Places] /\ Traites \in Nat /\ Traites <= fbox_in.seq
        /\ fbox_in.seq \in Nat
        /\ \A i \in Nat : q[i].off \in 1 .. Taille - 1 /\ q[i].tour \in Nat /\ Offset(q[i]).off = q[i].off
    BY <1>0, <1>3, AnneauProprietes
  <1>5. /\ s <= p /\ p <= Traites /\ fbox_in.seq <= n /\ s <= n
        /\ fbox_out.start = Offset(q[s]) /\ fbox_out.end = Offset(q[n])
        /\ startp = Offset(q[p]) /\ fbox_in.start = Offset(q[p])
    BY <1>0, <1>4 DEF AnneauDe, AnneauPlaces
  <1>6. /\ Tient(q[s], q[n]) /\ u = q[n].off
        /\ Libre = IF q[s].tour = q[n].tour THEN Taille - q[n].off ELSE q[s].off - q[n].off
    BY <1>0, <1>4, AnneauLibre
  <1>7. x <= Libre
    BY <1>0, <1>1 DEF InvFbox, PlaceFbox
  <1>8. u + x <= Taille /\ 0 < Libre
    BY <1>2, <1>4, <1>6, <1>7, Constantes DEF Tient
  <1>9. e \in EnTetes /\ e.seq = n /\ e.n = x /\ e.tag # "saut" /\ e.m = m
    <2>1. n \in 0 .. Modulo - 1
      BY <1>0 DEF InvFbox, TypesFbox
    <2> QED BY <1>0, <1>2, <2>1 DEF Entete, EnTetes
  <1>10. Prolonge(publies, publies', e)
    <2>1. publies \in Seq(Envoyes)
      BY DEF InvFbox, TypesFbox
    <2>2. /\ DOMAIN publies' = 1 .. Len(publies) + 1 /\ Len(publies) \in Nat /\ DOMAIN publies = 1 .. Len(publies)
          /\ \A i \in 1 .. Len(publies) : publies'[i] = publies[i]
          /\ publies'[Len(publies) + 1] = m
      BY <1>1, <1>2, <2>1, AppendElements
    <2>3. Len(publies') = Len(publies) + 1
      BY <1>1, <1>2, <2>1, AppendProperties
    <2>4. DOMAIN publies' = 1 .. Len(publies')
      BY <2>2, <2>3
    <2>5. Len(publies') \in Nat
      BY <2>2, <2>3
    <2>6. publies'[Len(publies) + 1] = e.m
      BY <1>9, <2>2
    <2> HIDE DEF Prolonge
    <2>7. e.tag = "saut" => Len(publies') = Len(publies)
      BY <1>9
    <2> QED BY <2>2, <2>3, <2>4, <2>5, <2>6, <2>7 DEF Prolonge
  <1>11. fbox_out'.seq = n + 1 /\ fbox_out'.start = fbox_out.start /\ fbox_out'.end = fbox_out.end
    <2>1. fbox_out \in [buffer : BOOLEAN, start : Offsets, end : Offsets, seq : 0 .. Modulo - 1]
      BY DEF InvFbox, TypesFbox
    <2>2. (2 * Len(publies) < Modulo)'
      <3>1. (PeuDeMessages /\ TypesFbox /\ OrdreFbox => 2 * Len(publies) < Modulo)'
        BY NombrePublies, PTL
      <3> QED BY <3>1 DEF InvFbox, PeuDeMessages
    <2>3. Len(publies) \in Nat /\ Len(publies') = Len(publies) + 1
      BY <1>9, <1>10 DEF Prolonge
    <2>4. n <= 2 * Len(publies)
      BY <1>0 DEF AnneauDe, Enchaine, ChaineNombre
    <2>5. n + 1 < Modulo
      BY <1>4, <2>2, <2>3, <2>4, Constantes
    <2>6. (n + 1) % Modulo = n + 1
      <3>1. n \in Nat /\ Modulo \in Nat
        BY <1>4, Constantes
      <3> QED BY <2>5, <3>1
    <2> QED BY <1>0, <1>1, <2>1, <2>6
  <1>12. \A k \in 1 .. x - 1 : EstDonnee(boite[u + k], m)
    BY <1>0, <1>1 DEF AnneauDe, AnneauEcrivain
  <1>13. PICK h2, q2, c2 : Ajoutee(h2, q2, c2, q, s, p, n, e)
    <2>1. e.seq = fbox_out.seq /\ fbox_out.end.off + e.n <= Taille /\ fbox_out'.seq = fbox_out.seq + 1
          /\ boite' = [boite EXCEPT ![fbox_out.end.off] = e]
          /\ \A k \in 1 .. e.n - 1 : EstDonnee(boite[fbox_out.end.off + k], e.m)
      BY <1>0, <1>1, <1>8, <1>9, <1>11, <1>12
    <2>2. Ajoute(e)
      BY <1>1, <1>8, <1>9, <1>10, <2>1 DEF Ajoute
    <2> QED BY <1>0, <1>3, <2>2, AnneauAjoute
  <1>20. /\ AnneauUnites(h2, q2, s)' /\ AnneauNumeros'
         /\ AnneauLecteur(h2, q2, p)' /\ AnneauRecus(c2)' /\ Traites' = Traites
         /\ h2[n] = e /\ q2[n + 1] = Suite(q[n], e.n)
         /\ \A i \in Nat : i <= n => q2[i] = q[i]
    BY <1>13 DEF Ajoutee
  <1>21. Enchaine(h2, q2, c2, fbox_out.seq, publies)'
    BY <1>1, <1>13, MemeMode
       DEF Ajoutee, Enchaine, ChaineTypes, ChaineComptes, ChaineLiens, ChaineMessages,
           ChaineOrdre, ChaineNombre
  <1>14. Fin' = n
    <2>1. Fin' = fbox_out'.seq - 1
      BY <1>2 DEF Fin
    <2> QED BY <1>4, <1>11, <2>1
  <1>15. q2[s] = q[s] /\ q2[p] = q[p] /\ p <= n /\ q2[n] = q[n]
    BY <1>4, <1>5, <1>20
  <1>16. Tient(q2[s], q2[n + 1])
    <2>1. q2[n + 1] = Suite(q[n], x)
      BY <1>9, <1>20
    <2> QED BY <1>2, <1>4, <1>6, <1>7, <1>15, <2>1, Constantes DEF Tient, Suite
  <1>17. AnneauPlaces(q2, s, p)'
    BY <1>1, <1>4, <1>5, <1>11, <1>20, <1>14, <1>15, <1>16 DEF AnneauPlaces
  <1>18. AnneauEcrivain(h2)'
    <2>1. h2[fbox_out'.seq - 1].n = acteur'[a].n
      <3>1. fbox_out'.seq - 1 = n
        BY <1>4, <1>11
      <3> QED BY <1>2, <1>9, <1>20, <3>1
    <2> QED BY <1>3, <2>1 DEF AnneauEcrivain
  <1>22. AnneauVide'
    <2>1. boite \in [1 .. Taille - 1 -> Unites] /\ 1 \in 1 .. Taille - 1
      BY Constantes DEF InvFbox, TypesFbox
    <2>2. boite'[1].genre # "donnees"
      BY <1>0, <1>1, <2>1 DEF AnneauDe, AnneauVide, Entete
    <2> QED BY <1>2, <2>2 DEF AnneauVide
  <1>19. AnneauDe(h2, q2, c2, s, p)'
    BY <1>20, <1>21, <1>17, <1>18, <1>22 DEF AnneauDe
  <1> QED BY <1>19 DEF AnneauFbox

-----------------------------------------------------------------------------
(* The header after those that the reader has gone past; there are data in  *)
(* its place in no other case than that between publication and clearing.   *)
LEMMA AnneauProchain ==
    ASSUME InvFbox, NEW h, NEW q, NEW c, NEW s \in Nat, NEW p \in Nat, AnneauDe(h, q, c, s, p),
           lecteur.pc = "sonder"
    PROVE  /\ lecteur.start.off = q[fbox_in.seq].off
           /\ Valide(boite[lecteur.start.off]) /\ boite[lecteur.start.off].genre = "entete" =>
                fbox_in.seq < fbox_out.seq /\ boite[lecteur.start.off] = h[fbox_in.seq]
           /\ boite[lecteur.start.off].genre = "donnees" => \E a \in Acteurs : acteur[a].pc = "clore"
  <1>0. PICK r, n : r = fbox_in.seq /\ n = fbox_out.seq
    OBVIOUS
  <1>1. /\ n \in Nat /\ r \in Nat /\ Traites = r
        /\ \A i \in Nat : q[i].off \in 1 .. Taille - 1 /\ Offset(q[i]).off = q[i].off
    BY <1>0, AnneauProprietes
  <1>2. s <= p /\ p <= r /\ r <= n
    BY <1>0, <1>1 DEF AnneauDe, AnneauPlaces
  <1>3. lecteur.start = Offset(q[r])
    BY <1>1 DEF AnneauDe, AnneauLecteur
  <1>4. lecteur.start.off = q[r].off /\ q[r].off \in 1 .. Taille - 1
    BY <1>1, <1>3
  <1>5. ASSUME Valide(boite[q[r].off]), boite[q[r].off].genre = "entete"
        PROVE  r < n /\ boite[q[r].off] = h[r]
    <2>1. boite[q[r].off].genre = "entete" /\ boite[q[r].off].seq = r
      BY <1>0, <1>5 DEF Valide
    <2>2. r < n
      BY <1>0, <1>4, <2>1 DEF AnneauDe, AnneauNumeros
    <2>3. r \in s .. n - 1
      BY <1>1, <1>2, <2>2
    <2> QED BY <1>0, <2>2, <2>3 DEF AnneauDe, AnneauUnites
  <1>6. ASSUME boite[q[r].off].genre = "donnees", \A a \in Acteurs : acteur[a].pc # "clore"
        PROVE  FALSE
    <2>1. CASE r < n
      <3>1. r \in s .. n - 1
        BY <1>1, <1>2, <2>1
      <3>2. boite[q[r].off] = h[r] /\ h[r].genre = "entete"
        BY <1>0, <1>1, <3>1, AnneauProprietes DEF AnneauDe, AnneauUnites
      <3> QED BY <1>6, <3>2
    <2>2. CASE r = n
      <3>1. Fin = n
        BY <1>0, <1>6, AnneauProprietes
      <3>2. fbox_out.end.off = q[r].off
        BY <1>1, <2>2, <3>1 DEF AnneauDe, AnneauPlaces
      <3> QED BY <1>6, <3>2 DEF AnneauDe, AnneauVide
    <2> QED BY <1>1, <1>2, <2>1, <2>2
  <1> QED BY <1>0, <1>4, <1>5, <1>6

(* What the reader takes is a header as long as it is not deceived.         *)
LEMMA SonderPropre ==
    ASSUME InvFbox, Sonder, ~ egare'
    PROVE  LET u == boite[lecteur.start.off] IN
           lecteur.nb < PollCount /\ Valide(u) =>
             /\ u.genre = "entete"
             /\ fbox_in' = [fbox_in EXCEPT !.seq = (@ + 1) % Modulo]
             /\ lecteur' = [lecteur EXCEPT !.pc = "traiter", !.hdr = u]
  <1> SUFFICES ASSUME lecteur.nb < PollCount, Valide(boite[lecteur.start.off])
               PROVE  /\ boite[lecteur.start.off].genre = "entete"
                      /\ fbox_in' = [fbox_in EXCEPT !.seq = (@ + 1) % Modulo]
                      /\ lecteur' = [lecteur EXCEPT !.pc = "traiter", !.hdr = boite[lecteur.start.off]]
    OBVIOUS
  <1>1. PICK u : u = boite[lecteur.start.off]
    OBVIOUS
  <1>2. /\ fbox_in' = [fbox_in EXCEPT !.seq = (@ + 1) % Modulo]
        /\ egare' = (egare \/ u.genre = "donnees")
        /\ \E h \in Lues(u, lecteur.start.off) : lecteur' = [lecteur EXCEPT !.pc = "traiter", !.hdr = h]
    BY <1>1 DEF Sonder
  <1>3. u.genre = "entete"
    BY <1>1, <1>2 DEF Valide
  <1>4. Lues(u, lecteur.start.off) = {u}
    BY <1>3 DEF Lues
  <1>5. lecteur' = [lecteur EXCEPT !.pc = "traiter", !.hdr = u]
    BY <1>2, <1>4
  <1> QED BY <1>1, <1>2, <1>3, <1>5

(* What has been received when the reader has nothing more from the box.    *)
LEMMA AnneauRecusEncore ==
    ASSUME NEW c, AnneauRecus(c), Traites' = Traites, UNCHANGED publies, AuBoite' = AuBoite,
           \A i \in AuBoite : recus'[i] = recus[i]
    PROVE  AnneauRecus(c)'
  BY DEF AnneauRecus, Avant

(* The reader's steps.                                                      *)
LEMMA AnneauProgress ==
    ASSUME InvFbox, NEW h, NEW q, NEW c, NEW s \in Nat, NEW p \in Nat, AnneauDe(h, q, c, s, p),
           Progress
    PROVE  AnneauDe(h, q, c, s, p)'
  <1>1. /\ lecteur.pc = "repos" /\ lecteur'.pc \in {"sonder", "fifo"} /\ lecteur'.start = fbox_in.start
        /\ UNCHANGED <<mode, fbox_out, boite, publies, acteur, fbox_in, startp, recus>>
    BY DEF Progress, varsLecture, varsBoite, Repos
  <1>2. Traites' = Traites
    BY <1>1 DEF Traites
  <1>3. /\ Enchaine(h, q, c, fbox_out.seq, publies)' /\ AnneauUnites(h, q, s)' /\ AnneauNumeros'
        /\ AnneauEcrivain(h)' /\ AnneauVide' /\ Fin' = Fin
    BY <1>1, AnneauLu
  <1>4. p = Traites /\ fbox_in.start = Offset(q[p])
    BY <1>1 DEF AnneauDe, AnneauLecteur, AnneauPlaces
  <1>5. AnneauLecteur(h, q, p)'
    BY <1>1, <1>2, <1>4 DEF AnneauLecteur
  <1>6. AnneauPlaces(q, s, p)'
    BY <1>1, <1>2, <1>3 DEF AnneauDe, AnneauPlaces
  <1>7. AnneauRecus(c)'
    BY <1>1, <1>2, AnneauRecusEncore DEF AuBoite, AnneauDe
  <1> QED BY <1>3, <1>5, <1>6, <1>7 DEF AnneauDe

LEMMA AnneauSonder ==
    ASSUME PeuDeMessages, InvFbox, OrdreFbox,
           NEW h, NEW q, NEW c, NEW s \in Nat, NEW p \in Nat, AnneauDe(h, q, c, s, p),
           Sonder, ~ egare'
    PROVE  AnneauDe(h, q, c, s, p)'
  <1>1. /\ lecteur.pc = "sonder" /\ UNCHANGED <<mode, fbox_out, boite, publies, acteur, startp, recus>>
    BY DEF Sonder, varsLecture, varsBoite
  <1>2. /\ Enchaine(h, q, c, fbox_out.seq, publies)' /\ AnneauUnites(h, q, s)' /\ AnneauNumeros'
        /\ AnneauEcrivain(h)' /\ AnneauVide' /\ Fin' = Fin
    BY <1>1, AnneauLu
  <1>3. lecteur \in [pc : {"sonder", "traiter", "rendre", "fifo"}, nb : Nat, start : Offsets,
                     hdr : {Zero} \cup EnTetesLus]
    BY <1>1 DEF InvFbox, TypesFbox, Lecteurs, Repos
  <1>4. fbox_in \in [buffer : BOOLEAN, start : Offsets, seq : 0 .. Modulo - 1]
    BY DEF InvFbox, TypesFbox
  <1>5. fbox_in.seq \in Nat /\ fbox_out.seq \in Nat /\ Traites = fbox_in.seq
    BY <1>1, AnneauProprietes
  <1>6. lecteur.start = Offset(q[Traites])
    BY <1>1 DEF AnneauDe, AnneauLecteur
  <1>7. CASE lecteur.nb < PollCount /\ Valide(boite[lecteur.start.off])
    <2>1. /\ fbox_in' = [fbox_in EXCEPT !.seq = (@ + 1) % Modulo]
          /\ lecteur' = [lecteur EXCEPT !.pc = "traiter", !.hdr = boite[lecteur.start.off]]
          /\ boite[lecteur.start.off].genre = "entete"
      BY <1>7, SonderPropre
    <2>2. fbox_in.seq < fbox_out.seq /\ boite[lecteur.start.off] = h[fbox_in.seq]
      BY <1>1, <1>7, <2>1, AnneauProchain
    <2>3. fbox_in.seq + 1 < Modulo /\ Modulo \in Nat
      <3>1. fbox_out.seq \in 0 .. Modulo - 1
        BY DEF InvFbox, TypesFbox
      <3> QED BY <1>5, <2>2, <3>1, Constantes
    <2>4. (fbox_in.seq + 1) % Modulo = fbox_in.seq + 1
      BY <1>5, <2>3
    <2>5. fbox_in'.seq = fbox_in.seq + 1 /\ fbox_in'.start = fbox_in.start
      BY <1>4, <2>1, <2>4
    <2>6. /\ lecteur'.pc = "traiter" /\ lecteur'.hdr = h[fbox_in.seq] /\ lecteur'.start = lecteur.start
      BY <1>3, <2>1, <2>2
    <2>7. Traites' = Traites
      BY <1>5, <2>5, <2>6 DEF Traites
    <2>8. AnneauPlaces(q, s, p)'
      BY <1>1, <1>2, <1>5, <2>2, <2>5, <2>7 DEF AnneauDe, AnneauPlaces
    <2>9. AnneauLecteur(h, q, p)'
      BY <1>5, <1>6, <2>6, <2>7 DEF AnneauLecteur
    <2>10. AnneauRecus(c)'
      BY <1>1, <2>7, AnneauRecusEncore DEF AuBoite, AnneauDe
    <2> QED BY <1>2, <2>8, <2>9, <2>10 DEF AnneauDe
  <1>8. CASE ~ (lecteur.nb < PollCount /\ Valide(boite[lecteur.start.off]))
    <2>1. /\ lecteur' = [lecteur EXCEPT !.pc = IF lecteur.nb > 0 THEN "rendre" ELSE "fifo", !.nb = 0]
          /\ UNCHANGED fbox_in
      BY <1>8 DEF Sonder
    <2>2. /\ lecteur'.start = lecteur.start
          /\ (lecteur.nb = 0 /\ lecteur'.pc = "fifo") \/ lecteur'.pc = "rendre"
      BY <1>3, <2>1
    <2>3. Traites' = Traites
      BY <1>1, <2>1, <2>2 DEF Traites
    <2>4. AnneauPlaces(q, s, p)'
      BY <1>1, <1>2, <2>1, <2>3 DEF AnneauDe, AnneauPlaces
    <2>5. AnneauLecteur(h, q, p)'
      BY <1>1, <1>6, <2>2, <2>3 DEF AnneauDe, AnneauLecteur
    <2>6. AnneauRecus(c)'
      BY <1>1, <2>3, AnneauRecusEncore DEF AuBoite, AnneauDe
    <2> QED BY <1>2, <2>4, <2>5, <2>6 DEF AnneauDe
  <1> QED BY <1>7, <1>8

LEMMA AnneauRendre ==
    ASSUME InvFbox, NEW h, NEW q, NEW c, NEW s \in Nat, NEW p \in Nat, AnneauDe(h, q, c, s, p),
           RendrePlace
    PROVE  \E r \in Nat : AnneauDe(h, q, c, s, r)'
  <1>1. /\ lecteur.pc = "rendre" /\ startp' = lecteur.start
        /\ fbox_in' = [fbox_in EXCEPT !.start = lecteur.start]
        /\ lecteur' = [lecteur EXCEPT !.pc = "fifo"]
        /\ UNCHANGED <<mode, fbox_out, boite, publies, acteur, recus>>
    BY DEF RendrePlace, varsLecture, varsBoite
  <1>2. /\ Enchaine(h, q, c, fbox_out.seq, publies)' /\ AnneauUnites(h, q, s)' /\ AnneauNumeros'
        /\ AnneauEcrivain(h)' /\ AnneauVide' /\ Fin' = Fin
    BY <1>1, AnneauLu
  <1>3. lecteur'.pc = "fifo"
    <2>1. lecteur \in [pc : {"sonder", "traiter", "rendre", "fifo"}, nb : Nat, start : Offsets,
                     hdr : {Zero} \cup EnTetesLus]
      BY <1>1 DEF InvFbox, TypesFbox, Lecteurs, Repos
    <2> QED BY <1>1, <2>1
  <1>4. fbox_in'.start = lecteur.start /\ fbox_in'.seq = fbox_in.seq
    <2>1. fbox_in \in [buffer : BOOLEAN, start : Offsets, seq : 0 .. Modulo - 1]
      BY DEF InvFbox, TypesFbox
    <2> QED BY <1>1, <2>1
  <1>5. PICK r : r = Traites
    OBVIOUS
  <1>6. r \in Nat /\ Traites' = r
    BY <1>1, <1>3, <1>4, <1>5, AnneauProprietes DEF Traites
  <1>7. lecteur.start = Offset(q[r])
    BY <1>1, <1>5 DEF AnneauDe, AnneauLecteur
  <1>8. s <= r
    BY <1>5, <1>6 DEF AnneauDe, AnneauPlaces
  <1>9. AnneauPlaces(q, s, r)'
    BY <1>1, <1>2, <1>4, <1>6, <1>7, <1>8 DEF AnneauDe, AnneauPlaces
  <1>10. AnneauLecteur(h, q, r)'
    BY <1>3, <1>6 DEF AnneauLecteur
  <1>11. AnneauRecus(c)'
    BY <1>1, <1>5, <1>6, AnneauRecusEncore DEF AuBoite, AnneauDe
  <1>12. AnneauDe(h, q, c, s, r)'
    BY <1>2, <1>9, <1>10, <1>11 DEF AnneauDe
  <1> QED BY <1>6, <1>12

LEMMA AnneauPoll_fifo ==
    ASSUME InvFbox, NEW h, NEW q, NEW c, NEW s \in Nat, NEW p \in Nat, AnneauDe(h, q, c, s, p),
           Poll_fifo
    PROVE  AnneauDe(h, q, c, s, p)'
  <1>1. lecteur.pc = "fifo" /\ UNCHANGED <<mode, fbox_out, boite, publies, acteur, startp>>
    BY DEF Poll_fifo, varsLecture, varsBoite
  <1>2. /\ Enchaine(h, q, c, fbox_out.seq, publies)' /\ AnneauUnites(h, q, s)' /\ AnneauNumeros'
        /\ AnneauEcrivain(h)' /\ AnneauVide' /\ Fin' = Fin
    BY <1>1, AnneauLu
  <1>3. /\ lecteur'.pc \in {"repos", "fifo"} /\ fbox_in'.start = fbox_in.start
        /\ fbox_in'.seq = fbox_in.seq
    <2>1. lecteur \in [pc : {"sonder", "traiter", "rendre", "fifo"}, nb : Nat, start : Offsets,
                     hdr : {Zero} \cup EnTetesLus]
      BY <1>1 DEF InvFbox, TypesFbox, Lecteurs, Repos
    <2>2. fbox_in \in [buffer : BOOLEAN, start : Offsets, seq : 0 .. Modulo - 1]
      BY DEF InvFbox, TypesFbox
    <2> QED BY <1>1, <2>1, <2>2 DEF Poll_fifo, Repos
  <1>4. Traites' = Traites
    BY <1>1, <1>3 DEF Traites
  <1>5. p = Traites
    BY <1>1 DEF AnneauDe, AnneauLecteur
  <1>6. AnneauLecteur(h, q, p)'
    BY <1>3, <1>4, <1>5 DEF AnneauLecteur
  <1>7. AnneauPlaces(q, s, p)'
    BY <1>1, <1>2, <1>3, <1>4 DEF AnneauDe, AnneauPlaces
  <1>8. AuBoite' = AuBoite /\ \A i \in AuBoite : recus'[i] = recus[i]
    <2>1. CASE UNCHANGED recus
      BY <2>1 DEF AuBoite
    <2>2. CASE fifo # <<>> /\ recus' = Append(recus, [m |-> Head(fifo).m, voie |-> "fifo"])
      <3>1. TypesFbox
        BY DEF InvFbox
      <3>2. Head(fifo).m \in Envoyes
        BY <2>2, <3>1, TailElements, MessagesProprietes DEF TypesFbox
      <3>3. [m |-> Head(fifo).m, voie |-> "fifo"] \in Receptions
        BY <3>2 DEF Receptions
      <3>4. /\ DOMAIN recus' = 1 .. Len(recus) + 1 /\ Len(recus) \in Nat /\ DOMAIN recus = 1 .. Len(recus)
            /\ \A i \in 1 .. Len(recus) : recus'[i] = recus[i]
            /\ recus'[Len(recus) + 1].voie = "fifo"
        BY <2>2, <3>1, <3>3, AppendElements DEF TypesFbox
      <3> QED BY <3>4 DEF AuBoite
    <2> QED BY <2>1, <2>2 DEF Poll_fifo, Recevoir
  <1>9. AnneauRecus(c)'
    BY <1>1, <1>4, <1>8, AnneauRecusEncore DEF AnneauDe
  <1> QED BY <1>2, <1>6, <1>7, <1>9 DEF AnneauDe

LEMMA AnneauTraiter ==
    ASSUME InvFbox, OrdreFbox,
           NEW h, NEW q, NEW c, NEW s \in Nat, NEW p \in Nat, AnneauDe(h, q, c, s, p),
           Traiter
    PROVE  AnneauDe(h, q, c, s, p)'
  <1>0. PICK t, n, e : t = Traites /\ n = fbox_out.seq /\ e = lecteur.hdr
    OBVIOUS
  <1>1. /\ lecteur.pc = "traiter"
        /\ lecteur'.pc = "sonder" /\ lecteur'.nb = lecteur.nb + 1
        /\ lecteur'.start = IF lecteur.start.off + e.n = Taille
                            THEN [off |-> 1, hb |-> ~ lecteur.start.hb]
                            ELSE [lecteur.start EXCEPT !.off = lecteur.start.off + e.n]
        /\ recus' = IF e.tag = "saut" THEN recus ELSE Append(recus, [m |-> e.m, voie |-> "boite"])
        /\ UNCHANGED <<mode, fbox_out, boite, publies, acteur, fbox_in, startp>>
    BY <1>0 DEF Traiter, Recevoir, varsLecture, varsBoite
  <1>2. /\ Enchaine(h, q, c, fbox_out.seq, publies)' /\ AnneauUnites(h, q, s)' /\ AnneauNumeros'
        /\ AnneauEcrivain(h)' /\ AnneauVide' /\ Fin' = Fin
    BY <1>1, AnneauLu
  <1>3. /\ n \in Nat /\ t \in Nat /\ fbox_in.seq \in Nat
        /\ h \in [Nat -> EnTetes] /\ q \in [Nat -> Places] /\ c \in [Nat -> Nat]
        /\ \A i \in Nat : h[i].n \in 1 .. Taille - 1
        /\ \A i \in Nat : q[i].off \in 1 .. Taille - 1 /\ Offset(q[i]).off = q[i].off
    BY <1>0, AnneauProprietes
  <1>4. t = fbox_in.seq - 1 /\ fbox_in.seq = t + 1
    <2>1. t = fbox_in.seq - 1
      BY <1>0, <1>1 DEF Traites
    <2> QED BY <1>3, <2>1
  <1>5. p <= t /\ t + 1 <= n /\ t \in 0 .. n - 1
    <2>1. p <= t /\ fbox_in.seq <= n
      BY <1>0 DEF AnneauDe, AnneauPlaces
    <2> QED BY <1>3, <1>4, <2>1
  <1>6. Traites' = t + 1
    BY <1>1, <1>4 DEF Traites
  <1>7. lecteur.start = Offset(q[t]) /\ e = h[t]
    BY <1>0, <1>1 DEF AnneauDe, AnneauLecteur
  <1>8. q[t].off + e.n <= Taille /\ q[t + 1] = Suite(q[t], e.n)
    <2>1. Enchaine(h, q, c, n, publies)
      BY <1>0 DEF AnneauDe
    <2> QED BY <1>5, <1>7, <2>1 DEF Enchaine, ChaineLiens
  <1>9. lecteur'.start = Offset(q[t + 1])
    <2>1. q[t] \in Places /\ e.n \in 1 .. Taille - 1 /\ Offset(q[t]).off = q[t].off
      BY <1>3, <1>7
    <2>2. Offset(Suite(q[t], e.n)) = IF q[t].off + e.n = Taille THEN [off |-> 1, hb |-> ~ Offset(q[t]).hb]
                                    ELSE [Offset(q[t]) EXCEPT !.off = q[t].off + e.n]
      BY <1>8, <2>1, SuiteProprietes
    <2> QED BY <1>1, <1>7, <1>8, <2>1, <2>2
  <1>10. AnneauLecteur(h, q, p)'
    <2>1. lecteur'.nb # 0
      <3>1. lecteur \in [pc : {"sonder", "traiter", "rendre", "fifo"}, nb : Nat, start : Offsets,
                         hdr : {Zero} \cup EnTetesLus]
        BY <1>1 DEF InvFbox, TypesFbox, Lecteurs, Repos
      <3> QED BY <1>1, <3>1
    <2> QED BY <1>1, <1>6, <1>9, <2>1 DEF AnneauLecteur
  <1>11. AnneauPlaces(q, s, p)'
    <2>1. p <= t + 1
      BY <1>3, <1>5
    <2> QED BY <1>1, <1>2, <1>6, <2>1 DEF AnneauDe, AnneauPlaces
  <1>12. /\ e.tag = "saut" => c[t + 1] = c[t]
         /\ e.tag # "saut" =>
              c[t + 1] = c[t] + 1 /\ c[t] + 1 \in DOMAIN publies /\ publies[c[t] + 1] = e.m
    <2>1. Enchaine(h, q, c, n, publies)
      BY <1>0 DEF AnneauDe
    <2> QED BY <1>5, <1>7, <2>1 DEF Enchaine, ChaineMessages
  <1>13. /\ Cardinality(AuBoite) = c[t] /\ c[t] \in Nat
         /\ \A i \in AuBoite : \E k \in 1 .. c[t] : recus[i].m = publies[k]
         /\ \A i, j \in AuBoite : i < j => Avant(recus[i].m, recus[j].m)
    BY <1>0, <1>3 DEF AnneauDe, AnneauRecus
  <1>14. AnneauRecus(c)'
    <2>1. CASE e.tag = "saut"
      BY <1>1, <1>6, <1>12, <1>13, <2>1 DEF AnneauRecus, AuBoite, Avant
    <2>2. CASE e.tag # "saut"
      <3>0. PICK l : l = Len(recus)
        OBVIOUS
      <3>1. e.m \in Envoyes
        BY <1>3, <1>7, <2>2 DEF EnTetes
      <3>2. [m |-> e.m, voie |-> "boite"] \in Receptions
        BY <3>1 DEF Receptions
      <3>3. /\ DOMAIN recus' = 1 .. l + 1 /\ l \in Nat /\ DOMAIN recus = 1 .. l
            /\ \A i \in 1 .. l : recus'[i] = recus[i]
            /\ recus'[l + 1].voie = "boite" /\ recus'[l + 1].m = e.m
        BY <1>1, <2>2, <3>0, <3>2, AppendElements DEF InvFbox, TypesFbox
      <3>4. AuBoite' = AuBoite \cup {l + 1} /\ AuBoite \subseteq 1 .. l /\ l + 1 \notin AuBoite
        BY <3>3 DEF AuBoite
      <3>5. IsFiniteSet(AuBoite)
        <4>1. IsFiniteSet(1 .. l)
          BY <3>3, FS_Interval
        <4>2. AuBoite \in SUBSET (1 .. l)
          BY <3>4
        <4> QED BY <4>1, <4>2, FS_Subset
      <3>6. Cardinality(AuBoite') = c[t] + 1
        BY <1>13, <3>4, <3>5, FS_AddElement
      <3>7. \A i \in AuBoite' : \E k \in 1 .. c[t] + 1 : recus'[i].m = publies[k]
        <4>1. ASSUME NEW i \in AuBoite PROVE \E k \in 1 .. c[t] + 1 : recus'[i].m = publies[k]
          <5>1. PICK k \in 1 .. c[t] : recus[i].m = publies[k]
            BY <1>13
          <5>2. k \in 1 .. c[t] + 1 /\ recus'[i] = recus[i]
            BY <1>13, <3>3, <3>4
          <5> QED BY <5>1, <5>2
        <4>2. c[t] + 1 \in 1 .. c[t] + 1 /\ recus'[l + 1].m = publies[c[t] + 1]
          BY <1>12, <1>13, <2>2, <3>3
        <4> QED BY <3>4, <4>1, <4>2
      <3>8. ASSUME NEW i \in AuBoite', NEW j \in AuBoite', i < j
            PROVE  Avant(recus'[i].m, recus'[j].m)
        <4>1. i \in AuBoite /\ recus'[i] = recus[i]
          BY <3>3, <3>4, <3>8
        <4>2. CASE j \in AuBoite
          BY <1>13, <3>3, <3>4, <3>8, <4>1, <4>2
        <4>3. CASE j = l + 1
          <5>1. PICK k \in 1 .. c[t] : recus[i].m = publies[k]
            BY <1>13, <4>1
          <5>2. DOMAIN publies = 1 .. Len(publies) /\ Len(publies) \in Nat
            BY MessagesProprietes DEF InvFbox
          <5>3. k \in DOMAIN publies /\ c[t] + 1 \in DOMAIN publies /\ k < c[t] + 1
            BY <1>12, <1>13, <2>2, <5>2
          <5>4. Avant(publies[k], publies[c[t] + 1])
            BY <5>3 DEF OrdreFbox, OrdreBoite, Croissant
          <5> QED BY <1>12, <2>2, <3>3, <4>1, <4>3, <5>1, <5>4
        <4> QED BY <3>4, <4>2, <4>3
      <3> QED BY <1>1, <1>6, <1>12, <2>2, <3>6, <3>7, <3>8 DEF AnneauRecus
    <2> QED BY <2>1, <2>2
  <1> QED BY <1>2, <1>10, <1>11, <1>14 DEF AnneauDe

-----------------------------------------------------------------------------
LEMMA AnneauInit == InitFbox => AnneauFbox
  <1> SUFFICES ASSUME InitFbox PROVE AnneauFbox
    OBVIOUS
  <1>0. PICK e, h, q, c : /\ e = Entete(progres, "saut", 0, 1)
                          /\ h = [i \in Nat |-> e]
                          /\ q = [i \in Nat |-> [tour |-> 0, off |-> 1]]
                          /\ c = [i \in Nat |-> 0]
    OBVIOUS
  <1>1. e \in EnTetes
    <2>1. 0 \in 0 .. Modulo - 1 /\ 1 \in 1 .. Taille - 1
      BY Constantes
    <2> QED BY <1>0, <2>1, Constantes DEF Entete, EnTetes
  <1>2. [tour |-> 0, off |-> 1] \in Places /\ Offset([tour |-> 0, off |-> 1]) = Debut
    <2>1. 1 \in 1 .. Taille - 1
      BY Constantes
    <2>2. ~ (0 % 2 = 1)
      OBVIOUS
    <2> QED BY <2>1, <2>2 DEF Places, Offset, Debut
  <1>3. h \in [Nat -> EnTetes] /\ q \in [Nat -> Places] /\ c \in [Nat -> Nat]
    BY <1>0, <1>1, <1>2
  <1>4. /\ fbox_out.seq = 0 /\ fbox_in.seq = 0 /\ publies = <<>> /\ Len(publies) = 0
        /\ fbox_out.start = Debut /\ fbox_out.end = Debut /\ fbox_in.start = Debut /\ startp = Debut
        /\ lecteur = Repos /\ lecteur.pc = "repos" /\ recus = <<>>
        /\ \A a \in Acteurs : acteur[a].pc = "repos"
        /\ \A u \in 1 .. Taille - 1 : boite[u].genre = "zero"
    BY DEF InitFbox, Repos, Zero
  <1>5. q[0] = [tour |-> 0, off |-> 1] /\ q[0].off = 1 /\ c[0] = 0
    BY <1>0
  <1>6. Enchaine(h, q, c, 0, <<>>)
    <2>1. ChaineComptes(c, 0, <<>>)
      BY <1>0 DEF ChaineComptes
    <2>2. ChaineLiens(h, q, 0) /\ ChaineMessages(h, c, 0, <<>>) /\ ChaineOrdre(h, q, 0)
      BY DEF ChaineLiens, ChaineMessages, ChaineOrdre
    <2>3. ChaineNombre(q, 0, <<>>)
      BY <1>5 DEF ChaineNombre
    <2> QED BY <1>3, <2>1, <2>2, <2>3 DEF Enchaine, ChaineTypes
  <1>7. Fin = 0 /\ Traites = 0
    BY <1>4 DEF Fin, Traites
  <1>8. AnneauPlaces(q, 0, 0)
    BY <1>2, <1>4, <1>5, <1>7 DEF AnneauPlaces, Tient
  <1>9. AnneauUnites(h, q, 0) /\ AnneauNumeros /\ AnneauEcrivain(h) /\ AnneauLecteur(h, q, 0)
    BY <1>4, <1>7 DEF AnneauUnites, AnneauNumeros, AnneauEcrivain, AnneauLecteur
  <1>12. AnneauVide
    <2>1. 1 \in 1 .. Taille - 1
      BY Constantes
    <2> QED BY <1>4, <2>1 DEF AnneauVide, Debut
  <1>10. AnneauRecus(c)
    <2>1. AuBoite = {}
      BY <1>4 DEF AuBoite
    <2> QED BY <1>5, <1>7, <2>1, FS_EmptySet DEF AnneauRecus
  <1>11. AnneauDe(h, q, c, 0, 0)
    BY <1>4, <1>6, <1>8, <1>9, <1>10, <1>12 DEF AnneauDe
  <1> QED BY <1>11 DEF AnneauFbox

(* The steps that leave the box and the reader alone.                       *)
LEMMA AnneauAilleurs ==
    ASSUME InvFbox, NEW h, NEW q, NEW c, NEW s \in Nat, NEW p \in Nat, AnneauDe(h, q, c, s, p),
           UNCHANGED <<mode, startp, boite, publies, lecteur, recus, fbox_in>>,
           fbox_out' = [fbox_out EXCEPT !.buffer = fbox_out'.buffer],
           NEW a \in Acteurs, NEW e, Placer(a, e),
           acteur[a].pc \notin {"publier", "clore"}, e.pc \notin {"publier", "clore"}
    PROVE  AnneauDe(h, q, c, s, p)'
  <1>1. acteur \in [Acteurs -> Etats]
        /\ fbox_out \in [buffer : BOOLEAN, start : Offsets, end : Offsets, seq : 0 .. Modulo - 1]
    BY DEF InvFbox, TypesFbox
  <1>2. fbox_out'.start = fbox_out.start /\ fbox_out'.end = fbox_out.end /\ fbox_out'.seq = fbox_out.seq
    BY <1>1
  <1>3. \A b \in Acteurs : \/ acteur'[b] = acteur[b]
                           \/ acteur[b].pc \notin {"publier", "clore"}
                              /\ acteur'[b].pc \notin {"publier", "clore"}
    BY <1>1 DEF Placer
  <1> QED BY <1>2, <1>3, AnneauStable

(* The actions that are not about the box.                                  *)
LEMMA AnneauAutres ==
    ASSUME InvFbox, NEW h, NEW q, NEW c, NEW s \in Nat, NEW p \in Nat, AnneauDe(h, q, c, s, p),
           \/ \E a \in Acteurs : PrendreVerrou(a) \/ Echouer(a) \/ Write_ep(a)
           \/ \E f \in Fils : Sendi(f) \/ Send(f) \/ Attendre(f) \/ Inscrire(f)
                              \/ Compter(f) \/ Monter(f) \/ Write_fifo(f)
           \/ Progress_endpoints \/ Progress_waiting \/ FragSuivant \/ PlusRien
    PROVE  AnneauDe(h, q, c, s, p)'
  <1> DEFINE DeCote == {"publier", "clore"}
             Reste == /\ UNCHANGED <<mode, startp, boite, publies, lecteur, recus, fbox_in>>
                      /\ fbox_out' = [fbox_out EXCEPT !.buffer = fbox_out'.buffer]
  <1>1. acteur \in [Acteurs -> Etats]
        /\ fbox_out \in [buffer : BOOLEAN, start : Offsets, end : Offsets, seq : 0 .. Modulo - 1]
    BY DEF InvFbox, TypesFbox
  <1>2. fbox_out' = fbox_out => fbox_out' = [fbox_out EXCEPT !.buffer = fbox_out'.buffer]
    BY <1>1
  <1>3. \A a \in Acteurs : acteur[a].pc \in EnVerrou \cup {"prendre"} => acteur[a] \in EtatsBoite
    BY <1>1, EtatsProprietes
  <1>4. \A a \in Acteurs :
          acteur[a].pc \in {"ep", "send", "attendre", "inscrire", "compter"} => acteur[a] \in EtatsEnvoi
    BY <1>1, EtatsProprietes
  <1>5. ASSUME NEW a \in Acteurs, NEW e, Placer(a, e), Reste,
               acteur[a].pc \notin DeCote, e.pc \notin DeCote
        PROVE  AnneauDe(h, q, c, s, p)'
    BY <1>5, AnneauAilleurs
  <1>6. ASSUME NEW a \in Acteurs, PrendreVerrou(a) PROVE AnneauDe(h, q, c, s, p)'
    <2>1. PICK l \in {"relire", "ecrire"} : Placer(a, [acteur[a] EXCEPT !.pc = l])
      BY <1>6 DEF PrendreVerrou, Vers
    <2>2. acteur[a].pc = "prendre" /\ Reste
      BY <1>2, <1>6 DEF PrendreVerrou, varsBoite, varsRecu
    <2>3. [acteur[a] EXCEPT !.pc = l].pc = l
      BY <1>3, <2>1, <2>2, BoiteProprietes DEF EnVerrou
    <2> QED BY <1>5, <2>1, <2>2, <2>3
  <1>7. ASSUME NEW a \in Acteurs, Echouer(a) PROVE AnneauDe(h, q, c, s, p)'
    <2>1. PICK e : /\ Placer(a, e) /\ e.pc \in {"repos", "ep", "send", "attendre"}
      BY <1>7 DEF Echouer, Repos
    <2>2. acteur[a].pc = "echec" /\ Reste
      BY <1>2, <1>7 DEF Echouer, varsBoite, varsRecu
    <2> QED BY <1>5, <2>1, <2>2
  <1>8. ASSUME NEW a \in Acteurs, Write_ep(a) PROVE AnneauDe(h, q, c, s, p)'
    <2>1. acteur[a].pc = "ep" /\ Reste
      BY <1>2, <1>8 DEF Write_ep, varsBoite, varsRecu
    <2>2. [acteur[a] EXCEPT !.pc = "compter"].pc = "compter"
      BY <1>4, <2>1, EnvoiProprietes
    <2>3. PICK e : Placer(a, e) /\ e.pc \in {"prendre", "compter"}
      <3>1. CASE fbox_out.buffer
        BY <1>8, <3>1 DEF Write_ep
      <3>2. CASE ~ fbox_out.buffer
        <4>1. Placer(a, [acteur[a] EXCEPT !.pc = "compter"])
          BY <1>8, <3>2 DEF Write_ep
        <4> QED BY <2>2, <4>1
      <3> QED BY <3>1, <3>2
    <2> QED BY <1>5, <2>1, <2>3
  <1>9. ASSUME NEW f \in Fils, Sendi(f) PROVE AnneauDe(h, q, c, s, p)'
    <2>1. PICK e : Placer(f, e) /\ e.pc \in {"send", "prendre", "ep"}
      BY <1>9 DEF Sendi
    <2>2. acteur[f].pc = "repos" /\ Reste
      BY <1>2, <1>9 DEF Sendi, varsBoite, varsRecu, Repos
    <2> QED BY <1>5, <2>1, <2>2, Constantes
  <1>10. ASSUME NEW f \in Fils, Send(f) PROVE AnneauDe(h, q, c, s, p)'
    <2>1. PICK l \in {"attendre", "ep"} : Placer(f, [acteur[f] EXCEPT !.pc = l, !.pour = "send"])
      BY <1>10 DEF Send
    <2>2. acteur[f].pc = "send" /\ Reste
      BY <1>2, <1>10 DEF Send, varsBoite, varsRecu
    <2>3. [acteur[f] EXCEPT !.pc = l, !.pour = "send"].pc = l
      BY <1>4, <2>2, Constantes DEF EtatsEnvoi
    <2> QED BY <1>5, <2>1, <2>2, <2>3, Constantes
  <1>11. ASSUME NEW f \in Fils, Attendre(f) PROVE AnneauDe(h, q, c, s, p)'
    <2>1. acteur[f].pc = "attendre" /\ Reste
      BY <1>2, <1>11 DEF Attendre, varsBoite, varsRecu
    <2>2. [acteur[f] EXCEPT !.pc = "inscrire"].pc = "inscrire"
      BY <1>4, <2>1, Constantes, EnvoiProprietes
    <2>3. PICK e : Placer(f, e) /\ e.pc \in {"repos", "inscrire"}
      <3>1. CASE waiting
        BY <1>11, <3>1 DEF Attendre, Donner, Repos
      <3>2. CASE ~ waiting
        <4>1. Placer(f, [acteur[f] EXCEPT !.pc = "inscrire"])
          BY <1>11, <3>2 DEF Attendre, Vers
        <4> QED BY <2>2, <4>1
      <3> QED BY <3>1, <3>2
    <2> QED BY <1>5, <2>1, <2>3, Constantes
  <1>12. ASSUME NEW f \in Fils, Inscrire(f) \/ Write_fifo(f) PROVE AnneauDe(h, q, c, s, p)'
    <2>1. acteur[f].pc \in {"inscrire", "fifo"} /\ Reste
      BY <1>2, <1>12 DEF Inscrire, Write_fifo, varsBoite, varsRecu
    <2>2. Placer(f, Repos) /\ Repos.pc = "repos"
      BY <1>12 DEF Inscrire, Write_fifo, Donner, Repos
    <2> QED BY <1>5, <2>1, <2>2, Constantes
  <1>13. ASSUME NEW f \in Fils, Compter(f) \/ Monter(f) PROVE AnneauDe(h, q, c, s, p)'
    <2>1. acteur[f].pc \in {"compter", "monter"} /\ UNCHANGED <<mode, startp, boite, publies, lecteur, recus, fbox_in>>
      BY <1>13 DEF Compter, Monter, varsBoite, varsRecu
    <2>2. PICK e : Placer(f, e) /\ e.pc \in {"monter", "fifo"}
      BY <1>13 DEF Compter, Monter
    <2>3. fbox_out' = [fbox_out EXCEPT !.buffer = fbox_out'.buffer]
      <3>1. CASE Compter(f)
        BY <1>2, <3>1 DEF Compter, varsBoite
      <3>2. CASE Monter(f)
        BY <1>1, <3>2 DEF Monter
      <3> QED BY <1>13, <3>1, <3>2
    <2> QED BY <1>5, <2>1, <2>2, <2>3, Constantes
  <1>14. ASSUME Progress_endpoints \/ Progress_waiting \/ FragSuivant \/ PlusRien
         PROVE  AnneauDe(h, q, c, s, p)'
    <2>1. acteur[progres].pc \in {"repos", "parcourir", "attente"} /\ Reste
      BY <1>2, <1>14
         DEF Progress_endpoints, Progress_waiting, FragSuivant, PlusRien, varsBoite, varsRecu,
             Repos
    <2>2. PICK e : Placer(progres, e) /\ e.pc \in {"repos", "parcourir", "attente", "ep"}
      BY <1>14 DEF Progress_endpoints, Progress_waiting, FragSuivant, PlusRien, Repos
    <2> QED BY <1>5, <2>1, <2>2, Constantes
  <1> QED BY <1>6, <1>7, <1>8, <1>9, <1>10, <1>11, <1>12, <1>13, <1>14

(* All of them.                                                             *)
LEMMA AnneauSuivant ==
    ASSUME PeuDeMessages, InvFbox, OrdreFbox, InvFbox', OrdreFbox', AnneauFbox, [NextFbox]_varsFbox,
           ~ egare'
    PROVE  AnneauFbox'
  <1>1. PICK h, q, c : \E s, p \in Nat : AnneauDe(h, q, c, s, p)
    BY DEF AnneauFbox
  <1>2. PICK s \in Nat, p \in Nat : AnneauDe(h, q, c, s, p)
    BY <1>1
  <1>3. ASSUME AnneauDe(h, q, c, s, p)' PROVE AnneauFbox'
    BY <1>3 DEF AnneauFbox
  <1>4. CASE UNCHANGED varsFbox
    <2>1. UNCHANGED <<mode, fbox_out, boite, publies, fbox_in, startp, lecteur, recus, acteur>>
      BY <1>4 DEF varsFbox, varsBoite, varsRecu
    <2> QED BY <1>2, <1>3, <2>1, AnneauStable
  <1>5. ASSUME NEW a \in Acteurs,
               Relire(a) \/ Sauter(a) \/ Ecrire(a) \/ Publier(a) \/ Clore(a)
        PROVE  AnneauFbox'
    <2>1. ASSUME Relire(a) PROVE AnneauFbox'
      <3>1. AnneauDe(h, q, c, p, p)'
        BY <1>2, <2>1, AnneauRelire
      <3> QED BY <3>1 DEF AnneauFbox
    <2> QED BY <1>2, <1>3, <1>5, <2>1, AnneauSauter, AnneauEcrire, AnneauPublier, AnneauClore
  <1>6. ASSUME Lecture PROVE AnneauFbox'
    <2>1. ASSUME RendrePlace PROVE AnneauFbox'
      <3>1. \E r \in Nat : AnneauDe(h, q, c, s, r)'
        BY <1>2, <2>1, AnneauRendre
      <3> QED BY <3>1 DEF AnneauFbox
    <2> QED BY <1>2, <1>3, <1>6, <2>1, AnneauProgress, AnneauSonder, AnneauTraiter,
               AnneauPoll_fifo
        DEF Lecture
  <1>7. CASE NextFbox
    <2>1. ASSUME \/ \E a \in Acteurs : PrendreVerrou(a) \/ Echouer(a) \/ Write_ep(a)
                 \/ \E f \in Fils : Sendi(f) \/ Send(f) \/ Attendre(f) \/ Inscrire(f)
                                    \/ Compter(f) \/ Monter(f) \/ Write_fifo(f)
                 \/ Progress_endpoints \/ Progress_waiting \/ FragSuivant \/ PlusRien
          PROVE  AnneauFbox'
      BY <1>2, <1>3, <2>1, AnneauAutres
    <2> QED BY <1>5, <1>6, <1>7, <2>1, EtapesFbox
  <1> QED BY <1>4, <1>7

(* A reader that has taken data for a header has done so for good, and only *)
(* check_fboxes does.                                                       *)
LEMMA EgareReste ==
    ASSUME InvFbox, [NextFbox]_varsFbox
    PROVE  /\ egare => egare'
           /\ ~ egare' => ~ egare /\ egare' = egare
           /\ ~ egare /\ egare' => Sonder
  <1>1. egare \in BOOLEAN
    BY DEF InvFbox, TypesFbox
  <1>2. egare' = egare \/ (Sonder /\ egare')
    <2>1. CASE UNCHANGED varsFbox
      BY <2>1 DEF varsFbox, varsRecu
    <2>2. ASSUME NEW a \in Acteurs,
                 PrendreVerrou(a) \/ Relire(a) \/ Sauter(a) \/ Ecrire(a) \/ Publier(a)
                 \/ Clore(a) \/ Echouer(a) \/ Write_ep(a)
          PROVE  egare' = egare
      BY <2>2 DEF PrendreVerrou, Relire, Sauter, Ecrire, Publier, Clore, Echouer, Write_ep, varsRecu
    <2>3. ASSUME NEW f \in Fils, Sendi(f) \/ Send(f) \/ Attendre(f) \/ Inscrire(f)
                                 \/ Compter(f) \/ Monter(f) \/ Write_fifo(f)
          PROVE  egare' = egare
      BY <2>3 DEF Sendi, Send, Attendre, Inscrire, Compter, Monter, Write_fifo, varsRecu
    <2>4. ASSUME Progress_endpoints \/ Progress_waiting \/ FragSuivant \/ PlusRien
          PROVE  egare' = egare
      BY <2>4 DEF Progress_endpoints, Progress_waiting, FragSuivant, PlusRien, varsRecu
    <2>5. ASSUME Lecture PROVE egare' = egare \/ (Sonder /\ egare')
      <3>1. ASSUME Sonder PROVE egare' = egare \/ (Sonder /\ egare')
        <4>1. \/ egare' = (egare \/ boite[lecteur.start.off].genre = "donnees")
              \/ egare' = egare
          BY <3>1 DEF Sonder
        <4> QED BY <1>1, <3>1, <4>1
      <3> QED BY <2>5, <3>1 DEF Lecture, Progress, Traiter, RendrePlace, Poll_fifo
    <2> QED BY <2>1, <2>2, <2>3, <2>4, <2>5, EtapesFbox
  <1> QED BY <1>1, <1>2

(* Until the reader has taken data for a header, the headers of the box     *)
(* form a chain, each where the one before ends; the sender overwrites none *)
(* the reader has not given back, and the reader is at the place of the     *)
(* header whose number it expects, though start, end and startp are read by *)
(* each side at other times than written.                                   *)
THEOREM AnneauTheorem ==
    ASSUME PeuDeMessages
    PROVE  SpecFbox => [](~ egare => AnneauFbox)
  <1>1. InvFbox /\ OrdreFbox /\ InvFbox' /\ OrdreFbox' /\ (~ egare => AnneauFbox) /\ [NextFbox]_varsFbox
          => (~ egare => AnneauFbox)'
    BY AnneauSuivant, EgareReste
  <1>2. InitFbox => (~ egare => AnneauFbox)
    BY AnneauInit
  <1> QED BY <1>1, <1>2, InvFboxTheorem, OrdreFboxTheorem, PTL DEF SpecFbox

(* Until it has taken data for a header, what mca_btl_vader_check_fboxes    *)
(* hands over is a header that a sender published and the data it wrote for *)
(* it, untouched until the callback is done, whatever the data show:        *)
(* fbox_sendi writes only in what the reader has given back.                *)
(* Some hypothesis on the numbers is needed: see PeuDeMessages.             *)
THEOREM IntegriteTheorem ==
    ASSUME PeuDeMessages
    PROVE  SpecFbox => []Integrite
  <1>1. InvFbox /\ TypeFbox /\ (~ egare => AnneauFbox) => Integrite
    <2> SUFFICES ASSUME InvFbox, TypeFbox, AnneauFbox, lecteur.pc = "traiter"
                 PROVE  /\ boite[lecteur.start.off] = lecteur.hdr
                        /\ lecteur.hdr.tag # "saut" =>
                             \A k \in 1 .. lecteur.hdr.n - 1 :
                               EstDonnee(boite[lecteur.start.off + k], lecteur.hdr.m)
      BY DEF Integrite
    <2>1. PICK h, q, c : \E s, p \in Nat : AnneauDe(h, q, c, s, p)
      BY DEF AnneauFbox
    <2>2. PICK s \in Nat, p \in Nat : AnneauDe(h, q, c, s, p)
      BY <2>1
    <2>3. PICK t, n : t = Traites /\ n = fbox_out.seq
      OBVIOUS
    <2>4. /\ t \in Nat /\ n \in Nat /\ fbox_in.seq \in Nat
          /\ \A i \in Nat : Offset(q[i]).off = q[i].off
      BY <2>2, <2>3, AnneauProprietes
    <2>5. t = fbox_in.seq - 1
      BY <2>3 DEF Traites
    <2>6. s <= p /\ p <= t /\ fbox_in.seq <= n
      BY <2>2, <2>3 DEF AnneauDe, AnneauPlaces
    <2>7. t \in s .. n - 1
      BY <2>4, <2>5, <2>6
    <2>8. lecteur.start = Offset(q[t]) /\ lecteur.hdr = h[t]
      BY <2>2, <2>3 DEF AnneauDe, AnneauLecteur
    <2>9. lecteur.start.off = q[t].off
      BY <2>4, <2>8
    <2> QED BY <2>2, <2>3, <2>7, <2>8, <2>9 DEF AnneauDe, AnneauUnites
  <1> QED BY <1>1, InvFboxTheorem, TypeFboxTheorem, AnneauTheorem, PTL

(* Until the reader has taken data for a header, a thread's messages are    *)
(* received in the order in which it sent them but for one case: the box,   *)
(* set up by another thread, overtakes the fifo.                            *)
THEOREM DesordreAuMontageTheorem ==
    ASSUME PeuDeMessages
    PROVE  SpecFbox => []DesordreAuMontage
  <1>1. InvFbox /\ OrdreFbox /\ (~ egare => AnneauFbox) => DesordreAuMontage
    <2> SUFFICES ASSUME InvFbox, OrdreFbox, AnneauFbox, ~ egare,
                        NEW i \in DOMAIN recus, NEW j \in DOMAIN recus, i < j,
                        recus[i].m[1] = recus[j].m[1], Rang(recus[i]) > Rang(recus[j])
                 PROVE  recus[i].voie = "boite" /\ recus[j].voie = "fifo"
      BY DEF DesordreAuMontage
    <2>1. PICK h, q, c : \E s, p \in Nat : AnneauDe(h, q, c, s, p)
      BY DEF AnneauFbox
    <2>2. PICK s \in Nat, p \in Nat : AnneauDe(h, q, c, s, p)
      BY <2>1
    <2>3. TypesFbox
      BY DEF InvFbox
    <2>4. recus[i].m[2] \in Nat /\ recus[j].m[2] \in Nat
      BY <2>3, MessagesProprietes
    <2>5. ~ Avant(recus[i].m, recus[j].m)
      BY <2>4 DEF Avant, Rang
    <2>6. recus[i].voie \in {"fifo", "boite"} /\ recus[j].voie \in {"fifo", "boite"}
      <3>1. recus[i] \in Receptions /\ recus[j] \in Receptions
        BY <2>3, MessagesProprietes, ElementOfSeq DEF TypesFbox
      <3> QED BY <3>1 DEF Receptions
    <2>7. ASSUME recus[i].voie = "boite", recus[j].voie = "boite" PROVE FALSE
      BY <2>2, <2>5, <2>7 DEF AnneauDe, AnneauRecus, AuBoite
    <2>8. ASSUME recus[i].voie = "fifo", recus[j].voie = "fifo" PROVE FALSE
      BY <2>5, <2>8 DEF OrdreFbox, OrdreFifo, AuFifo
    <2>9. ASSUME recus[i].voie = "fifo", recus[j].voie = "boite" PROVE FALSE
      <3>1. PICK k \in 1 .. c[Traites] : recus[j].m = publies[k]
        BY <2>2, <2>9 DEF AnneauDe, AnneauRecus, AuBoite
      <3>2. k \in DOMAIN publies
        <4>1. c[Traites] \in Nat /\ c[Traites] <= Len(publies)
          <5>1. Traites \in Nat /\ Traites <= fbox_in.seq /\ fbox_in.seq \in Nat /\ fbox_out.seq \in Nat
                /\ c \in [Nat -> Nat]
            BY <2>2, AnneauProprietes
          <5>2. fbox_in.seq <= fbox_out.seq
            BY <2>2 DEF AnneauDe, AnneauPlaces
          <5>3. Traites \in 0 .. fbox_out.seq
            BY <5>1, <5>2
          <5> QED BY <2>2, <5>1, <5>3 DEF AnneauDe, Enchaine, ChaineComptes
        <4>2. DOMAIN publies = 1 .. Len(publies) /\ Len(publies) \in Nat
          BY <2>3, MessagesProprietes
        <4> QED BY <4>1, <4>2
      <3> QED BY <2>5, <2>9, <3>1, <3>2 DEF OrdreFbox, OrdreFifo, AuFifo
    <2> QED BY <2>6, <2>7, <2>8, <2>9
  <1> QED BY <1>1, InvFboxTheorem, OrdreFboxTheorem, AnneauTheorem, PTL

(* Whatever the data show, the reader takes data for a header only while    *)
(* the sender has published the header before that place and not yet        *)
(* cleared it: what is at the reader's place is otherwise a header, or has  *)
(* been cleared, or has never been written.                                 *)
THEOREM FenetreTheorem ==
    ASSUME PeuDeMessages
    PROVE  SpecFbox => LeurreDansLaFenetre
  <1> DEFINE Fenetre == ~ egare /\ egare' => \E a \in Acteurs : acteur[a].pc = "clore"
  <1>1. InvFbox /\ (~ egare => AnneauFbox) /\ [NextFbox]_varsFbox => Fenetre
    <2> SUFFICES ASSUME InvFbox, AnneauFbox, [NextFbox]_varsFbox, ~ egare, egare'
                 PROVE  \E a \in Acteurs : acteur[a].pc = "clore"
      OBVIOUS
    <2>1. Sonder
      BY EgareReste
    <2>2. lecteur.pc = "sonder" /\ boite[lecteur.start.off].genre = "donnees"
      BY <2>1 DEF Sonder
    <2>3. PICK h, q, c : \E s, p \in Nat : AnneauDe(h, q, c, s, p)
      BY DEF AnneauFbox
    <2>4. PICK s \in Nat, p \in Nat : AnneauDe(h, q, c, s, p)
      BY <2>3
    <2> QED BY <2>2, <2>4, AnneauProchain
  <1>2. InvFbox /\ (~ egare => AnneauFbox) /\ [NextFbox]_varsFbox => [Fenetre]_varsFbox
    BY <1>1
  <1> HIDE DEF Fenetre
  <1>3. SpecFbox => [][Fenetre]_varsFbox
    BY <1>2, InvFboxTheorem, AnneauTheorem, PTL DEF SpecFbox
  <1> QED BY <1>3 DEF LeurreDansLaFenetre, Fenetre

(* If data show no number, as when none goes past the unit of its header,   *)
(* all that passes the check of check_fboxes is a header.                   *)
THEOREM SansLeurreTheorem ==
    ASSUME \A mo \in Modes : mo.leurres = {}
    PROVE  SpecFbox => []EntetesSeuls
  <1>1. InitFbox => EntetesSeuls
    BY DEF InitFbox, EntetesSeuls
  <1>2. InvFbox /\ EntetesSeuls /\ [NextFbox]_varsFbox => EntetesSeuls'
    <2> SUFFICES ASSUME InvFbox, ~ egare, [NextFbox]_varsFbox, egare' PROVE FALSE
      BY DEF EntetesSeuls
    <2>1. Sonder
      BY EgareReste
    <2>2. PICK u : u = boite[lecteur.start.off]
      OBVIOUS
    <2>3. lecteur.pc = "sonder" /\ Valide(u) /\ u.genre = "donnees"
      BY <2>1, <2>2 DEF Sonder
    <2>4. lecteur.start.off \in 1 .. Taille - 1
      BY <2>3 DEF InvFbox, TypesFbox, Lecteurs, Repos, Offsets
    <2>5. u \in LesDonnees
      <3>1. u \in Unites
        BY <2>2, <2>4 DEF InvFbox, TypesFbox
      <3> QED BY <2>3, <3>1 DEF Unites, EnTetes, Zero
    <2>6. u.seq = AucunNumero
      BY <2>5 DEF LesDonnees, InvFbox, TypesFbox
    <2>7. fbox_in.seq \in 0 .. Modulo - 1
      BY DEF InvFbox, TypesFbox
    <2> QED BY <2>3, <2>6, <2>7, Constantes DEF Valide, AucunNumero
  <1> QED BY <1>1, <1>2, InvFboxTheorem, PTL DEF SpecFbox

-----------------------------------------------------------------------------
(* The lanes of Canal.                                                      *)
LesVoies == {"fifo", "boite"}
FilFifo == [i \in DOMAIN fifo |-> fifo[i].m]
FilBoite == SubSeq(publies, Lus + 1, Len(publies))
PrisBoite == Messages_de("boite") \cup (IF EnMain THEN {lecteur.hdr.m} ELSE {})
Files == [v \in LesVoies |-> IF v = "boite" THEN FilBoite ELSE FilFifo]
Pris == [v \in LesVoies |-> Messages_de(v) \cup
                            (IF v = "boite" /\ EnMain THEN {lecteur.hdr.m} ELSE {})]
ElementsDe(s) == {s[i] : i \in DOMAIN s}

(* Each lane on its own.                                                    *)
LEMMA PrisProprietes ==
    /\ Pris["boite"] = PrisBoite /\ Pris["fifo"] = Messages_de("fifo")
    /\ Files["boite"] = FilBoite /\ Files["fifo"] = FilFifo
    /\ Files = [Files EXCEPT !["boite"] = FilBoite] /\ Pris = [Pris EXCEPT !["boite"] = PrisBoite]
  BY DEF Pris, Files, PrisBoite, LesVoies

(* What puts a message into a lane, takes one from it, or does neither.     *)
LEMMA DeposerRaffine ==
    ASSUME NEW v \in LesVoies, NEW m \in Messages,
           m \notin ElementsDe(FilFifo) \cup ElementsDe(FilBoite) \cup Messages_de("fifo") \cup PrisBoite,
           FilFifo' = IF v = "fifo" THEN Append(FilFifo, m) ELSE FilFifo,
           FilBoite' = IF v = "boite" THEN Append(FilBoite, m) ELSE FilBoite,
           UNCHANGED Pris, ~ egare, UNCHANGED egare
    PROVE  LeCanal!Next
  <1>1. Files' = [Files EXCEPT ![v] = Append(@, m)]
    BY DEF Files, LesVoies
  <1>2. m \notin UNION {ElementsDe(Files[w]) \cup Pris[w] : w \in LesVoies}
    BY PrisProprietes DEF LesVoies
  <1>3. LeCanal!Partis = UNION {ElementsDe(Files[w]) \cup Pris[w] : w \in LesVoies}
    BY DEF LeCanal!Partis, LeCanal!Elements, ElementsDe, Files, Pris, LesVoies, FilBoite,
           FilFifo
  <1>4. LeCanal!Deposer(v, m)
    BY <1>1, <1>2, <1>3 DEF LeCanal!Deposer, Files, Pris, LesVoies, FilBoite, FilFifo
  <1> QED BY <1>4 DEF LeCanal!Next, LeCanal!Echanger, LesVoies

LEMMA RetirerRaffine ==
    ASSUME NEW v \in LesVoies, Files[v] # <<>>, ~ egare, UNCHANGED egare,
           FilFifo' = IF v = "fifo" THEN Tail(FilFifo) ELSE FilFifo,
           FilBoite' = IF v = "boite" THEN Tail(FilBoite) ELSE FilBoite,
           Messages_de("fifo")' = IF v = "fifo" THEN Messages_de("fifo") \cup {Head(FilFifo)}
                                  ELSE Messages_de("fifo"),
           PrisBoite' = IF v = "boite" THEN PrisBoite \cup {Head(FilBoite)} ELSE PrisBoite
    PROVE  LeCanal!Next
  <1>1. Files' = [Files EXCEPT ![v] = Tail(@)]
    BY DEF Files, LesVoies
  <1>2. Pris' = [Pris EXCEPT ![v] = @ \cup {Head(Files[v])}]
    <2> DEFINE P == [w \in LesVoies |-> IF w = "boite" THEN PrisBoite ELSE Messages_de("fifo")]
    <2>1. Pris = P
      BY DEF Pris, PrisBoite, LesVoies
    <2>2. P' = [P EXCEPT ![v] = @ \cup {Head(Files[v])}]
      BY PrisProprietes DEF LesVoies
    <2>3. Pris' = P'
      BY DEF Pris, PrisBoite, LesVoies
    <2> QED BY <2>1, <2>2, <2>3
  <1>3. LeCanal!Retirer(v)
    BY <1>1, <1>2 DEF LeCanal!Retirer, Files, Pris, LesVoies, FilBoite, FilFifo
  <1> QED BY <1>3 DEF LeCanal!Next, LeCanal!Echanger, LesVoies

LEMMA ResterRaffine ==
    ASSUME UNCHANGED <<publies, fifo, recus>>,
           EnMain' <=> EnMain, EnMain => lecteur'.hdr = lecteur.hdr
    PROVE  UNCHANGED Files /\ UNCHANGED Pris
  <1>1. Lus' = Lus
    BY DEF Lus
  <1>2. \A v \in LesVoies : Messages_de(v)' = Messages_de(v)
    BY DEF Messages_de
  <1> QED BY <1>1, <1>2 DEF Files, Pris, FilBoite, FilFifo

(* The end of a sequence from a place on,                                   *)
LEMMA FinSuite ==
    ASSUME NEW S, NEW s \in Seq(S), NEW l \in 0 .. Len(s)
    PROVE  /\ SubSeq(s, l + 1, Len(s)) \in Seq(S)
           /\ Len(SubSeq(s, l + 1, Len(s))) = Len(s) - l
           /\ \A i \in 1 .. Len(s) - l : SubSeq(s, l + 1, Len(s))[i] = s[l + i]
  <1>1. PICK n, x : n = Len(s) /\ x = SubSeq(s, l + 1, n)
    OBVIOUS
  <1>2. l + 1 \in Int /\ n \in Int /\ n \in Nat /\ l \in Nat /\ l <= n
    BY <1>1
  <1>3. \A i \in l + 1 .. n : s[i] \in S
    BY <1>1, <1>2, ElementOfSeq
  <1>4. /\ x \in Seq(S)
        /\ Len(x) = IF l + 1 <= n THEN n - (l + 1) + 1 ELSE 0
        /\ \A i \in 1 .. n - (l + 1) + 1 : x[i] = s[l + 1 + i - 1]
    BY <1>1, <1>2, <1>3, SubSeqProperties
  <1>5. n - (l + 1) + 1 = n - l /\ \A i \in Nat : l + 1 + i - 1 = l + i
    BY <1>2
  <1> QED BY <1>1, <1>2, <1>4, <1>5

(* when one more element comes                                              *)
LEMMA FinAppend ==
    ASSUME NEW S, NEW s \in Seq(S), NEW e \in S, NEW l \in 0 .. Len(s)
    PROVE  SubSeq(Append(s, e), l + 1, Len(Append(s, e))) = Append(SubSeq(s, l + 1, Len(s)), e)
  <1>1. PICK n, a, x, y : /\ n = Len(s) /\ a = Append(s, e)
                          /\ x = SubSeq(a, l + 1, Len(a)) /\ y = SubSeq(s, l + 1, n)
    OBVIOUS
  <1>2. /\ n \in Nat /\ l \in Nat /\ l <= n /\ a \in Seq(S) /\ Len(a) = n + 1
        /\ \A i \in 1 .. n : a[i] = s[i]
        /\ a[n + 1] = e
    BY <1>1, AppendProperties
  <1>3. /\ x \in Seq(S) /\ Len(x) = n + 1 - l
        /\ \A i \in 1 .. n + 1 - l : x[i] = a[l + i]
    <2>1. l \in 0 .. Len(a) /\ a \in Seq(S) /\ x = SubSeq(a, l + 1, Len(a))
      BY <1>1, <1>2
    <2>2. /\ x \in Seq(S) /\ Len(x) = Len(a) - l
          /\ \A i \in 1 .. Len(a) - l : x[i] = a[l + i]
      BY ONLY <2>1, FinSuite
    <2> QED BY <1>2, <2>2
  <1>4. /\ y \in Seq(S) /\ Len(y) = n - l
        /\ \A i \in 1 .. n - l : y[i] = s[l + i]
    BY <1>1, FinSuite
  <1>5. /\ Append(y, e) \in Seq(S) /\ Len(Append(y, e)) = n - l + 1
        /\ \A i \in 1 .. n - l : Append(y, e)[i] = y[i]
        /\ Append(y, e)[n - l + 1] = e
    BY <1>4, AppendProperties
  <1>6. \A i \in 1 .. Len(x) : x[i] = Append(y, e)[i]
    <2> SUFFICES ASSUME NEW i \in 1 .. n + 1 - l PROVE x[i] = Append(y, e)[i]
      BY <1>3
    <2>1. CASE i = n - l + 1
      <3>1. l + i = n + 1
        BY <1>2, <2>1
      <3> QED BY <1>2, <1>3, <1>5, <2>1, <3>1
    <2>2. CASE i # n - l + 1
      <3>1. i \in 1 .. n - l /\ l + i \in 1 .. n
        BY <1>2, <2>2
      <3> QED BY <1>2, <1>3, <1>4, <1>5, <3>1
    <2> QED BY <2>1, <2>2
  <1>7. Len(x) = Len(Append(y, e))
    BY <1>2, <1>3, <1>5
  <1>8. x = Append(y, e)
    BY <1>3, <1>5, <1>6, <1>7, SeqEqual
  <1> QED BY <1>1, <1>8

(* and when its first one goes.                                             *)
LEMMA FinTail ==
    ASSUME NEW S, NEW s \in Seq(S), NEW l \in Nat, l < Len(s)
    PROVE  /\ SubSeq(s, l + 1, Len(s)) # <<>>
           /\ Head(SubSeq(s, l + 1, Len(s))) = s[l + 1]
           /\ Tail(SubSeq(s, l + 1, Len(s))) = SubSeq(s, l + 2, Len(s))
  <1>1. Len(s) \in Nat
    OBVIOUS
  <1>2. l + 1 \in 1 .. Len(s) /\ Len(s) \in l + 1 .. Len(s) /\ l + 1 + 1 = l + 2 /\ l \in 0 .. Len(s)
    BY <1>1
  <1>3. PICK x : x = SubSeq(s, l + 1, Len(s))
    OBVIOUS
  <1>4. x \in Seq(S) /\ Len(x) = Len(s) - l
    BY <1>2, <1>3, FinSuite
  <1>5. Len(x) # 0
    BY <1>1, <1>4
  <1>6. x # <<>>
    BY <1>5
  <1>7. Head(x) = s[l + 1] /\ Tail(x) = SubSeq(s, l + 1 + 1, Len(s))
    BY <1>2, <1>3, HeadTailOfSubSeq
  <1> QED BY <1>2, <1>3, <1>6, <1>7

(* The reader has the first messages of those published.                    *)
LEMMA LusProprietes ==
    ASSUME InvFbox, NEW h, NEW q, NEW c, NEW s \in Nat, NEW p \in Nat, AnneauDe(h, q, c, s, p)
    PROVE  /\ fbox_in.seq \in 0 .. fbox_out.seq
           /\ Lus = c[fbox_in.seq] /\ Lus \in 0 .. Len(publies)
           /\ \A m \in PrisBoite : \E k \in 1 .. Lus : m = publies[k]
           /\ Len(publies) \in Nat /\ DOMAIN publies = 1 .. Len(publies)
           /\ publies \in Seq(Envoyes)
  <1>0. PICK t, r, n, l : t = Traites /\ r = fbox_in.seq /\ n = fbox_out.seq /\ l = Len(publies)
    OBVIOUS
  <1>1. /\ t \in Nat /\ r \in Nat /\ n \in Nat /\ t <= r
        /\ c \in [Nat -> Nat]
        /\ lecteur.pc # "traiter" => t = r
        /\ lecteur.pc = "traiter" => t = r - 1
    <2>1. /\ t \in Nat /\ r \in Nat /\ n \in Nat /\ t <= r
          /\ c \in [Nat -> Nat]
          /\ lecteur.pc # "traiter" => t = r
      BY <1>0, AnneauProprietes
    <2>2. lecteur.pc = "traiter" => t = r - 1
      BY <1>0 DEF Traites
    <2> QED BY <2>1, <2>2
  <1>2. r <= n
    BY <1>0 DEF AnneauDe, AnneauPlaces
  <1>3. r \in 0 .. n /\ t \in 0 .. n
    BY <1>1, <1>2
  <1>4. l \in Nat /\ DOMAIN publies = 1 .. l /\ publies \in Seq(Envoyes)
    BY <1>0, MessagesProprietes DEF InvFbox, TypesFbox
  <1>5. c[r] \in 0 .. l /\ c[t] \in 0 .. l
    <2>1. c[r] <= l /\ c[t] <= l /\ c[r] \in Nat /\ c[t] \in Nat
      BY <1>0, <1>1, <1>3 DEF AnneauDe, Enchaine, ChaineComptes
    <2> QED BY <1>4, <2>1
  <1>6. /\ EnMain => c[r] = c[t] + 1 /\ publies[c[r]] = lecteur.hdr.m
        /\ ~ EnMain => c[r] = c[t]
    <2>1. CASE lecteur.pc = "traiter"
      <3>1. t \in 0 .. n - 1 /\ t + 1 = r
        BY <1>1, <1>2, <2>1
      <3>2. lecteur.hdr = h[t]
        BY <1>0, <2>1 DEF AnneauDe, AnneauLecteur
      <3>3. /\ h[t].tag = "saut" => c[t + 1] = c[t]
            /\ h[t].tag # "saut" => c[t + 1] = c[t] + 1 /\ publies[c[t] + 1] = h[t].m
        BY <1>0, <3>1 DEF AnneauDe, Enchaine, ChaineMessages
      <3> QED BY <2>1, <3>1, <3>2, <3>3 DEF EnMain
    <2>2. CASE lecteur.pc # "traiter"
      BY <1>1, <2>2 DEF EnMain
    <2> QED BY <2>1, <2>2
  <1>7. Cardinality(AuBoite) = c[t] /\ \A i \in AuBoite : \E k \in 1 .. c[t] : recus[i].m = publies[k]
    BY <1>0 DEF AnneauDe, AnneauRecus
  <1>8. Lus = c[r]
    <2>1. Lus = Cardinality(AuBoite) + (IF EnMain THEN 1 ELSE 0)
      BY DEF Lus, AuBoite
    <2> QED BY <1>5, <1>6, <1>7, <2>1
  <1>9. \A m \in PrisBoite : \E k \in 1 .. c[r] : m = publies[k]
    <2>1. ASSUME NEW m \in Messages_de("boite") PROVE \E k \in 1 .. c[r] : m = publies[k]
      <3>1. PICK i \in AuBoite : m = recus[i].m
        BY <2>1 DEF Messages_de, AuBoite
      <3>2. PICK k \in 1 .. c[t] : recus[i].m = publies[k]
        BY <1>7
      <3>3. k \in 1 .. c[r]
        BY <1>5, <1>6
      <3> QED BY <3>1, <3>2, <3>3
    <2>2. ASSUME EnMain PROVE \E k \in 1 .. c[r] : lecteur.hdr.m = publies[k]
      <3>1. c[r] \in 1 .. c[r]
        BY <1>5, <1>6, <2>2
      <3> QED BY <1>6, <2>2, <3>1
    <2> QED BY <2>1, <2>2 DEF PrisBoite
  <1> QED BY <1>0, <1>3, <1>4, <1>5, <1>8, <1>9

(* What goes into a lane is in none.                                        *)
LEMMA NouveauMessage ==
    ASSUME InvFbox, OrdreFbox, AnneauFbox, NEW m \in Envoyes,
           \A i \in DOMAIN publies : publies[i] # m,
           \A i \in DOMAIN fifo : fifo[i].m # m,
           \A i \in AuFifo : recus[i].m # m
    PROVE  m \notin ElementsDe(FilFifo) \cup ElementsDe(FilBoite) \cup Messages_de("fifo") \cup PrisBoite
  <1>1. PICK h, q, c : \E s, p \in Nat : AnneauDe(h, q, c, s, p)
    BY DEF AnneauFbox
  <1>2. PICK s \in Nat, p \in Nat : AnneauDe(h, q, c, s, p)
    BY <1>1
  <1>3. PICK l, n : l = Lus /\ n = Len(publies)
    OBVIOUS
  <1>4. /\ l \in 0 .. n /\ n \in Nat /\ DOMAIN publies = 1 .. n /\ publies \in Seq(Envoyes)
        /\ \A x \in PrisBoite : \E k \in 1 .. l : x = publies[k]
    BY <1>2, <1>3, LusProprietes
  <1>5. m \notin ElementsDe(FilFifo)
    BY DEF ElementsDe, FilFifo
  <1>6. m \notin ElementsDe(FilBoite)
    <2>1. PICK x : x = SubSeq(publies, l + 1, n)
      OBVIOUS
    <2>2. x \in Seq(Envoyes) /\ Len(x) = n - l /\ \A i \in 1 .. n - l : x[i] = publies[l + i]
      BY <1>3, <1>4, <2>1, FinSuite
    <2>3. DOMAIN x = 1 .. n - l
      BY <2>2
    <2>4. ASSUME NEW i \in DOMAIN x PROVE x[i] # m
      <3>1. i \in 1 .. n - l /\ l + i \in 1 .. n
        BY <1>4, <2>3, <2>4
      <3> QED BY <1>4, <2>2, <3>1
    <2> QED BY <1>3, <2>1, <2>4 DEF ElementsDe, FilBoite
  <1>7. m \notin Messages_de("fifo")
    BY DEF Messages_de, AuFifo
  <1>8. m \notin PrisBoite
    <2> SUFFICES ASSUME m \in PrisBoite PROVE FALSE
      OBVIOUS
    <2>1. PICK k \in 1 .. l : m = publies[k]
      BY <1>4
    <2>2. k \in 1 .. n
      BY <1>4
    <2> QED BY <1>4, <2>1, <2>2
  <1> QED BY <1>5, <1>6, <1>7, <1>8

LEMMA EnvoyesMessages ==
    ASSUME InvFbox
    PROVE  Envoyes \subseteq Messages
  BY DEF InvFbox, TypesFbox, Envoyes, Messages

(* A header published puts its message into the box's lane.                 *)
LEMMA PublierRaffine ==
    ASSUME InvFbox, OrdreFbox, InvFbox', OrdreFbox', AnneauFbox, ~ egare, UNCHANGED egare,
           NEW a \in Acteurs, Publier(a)
    PROVE  LeCanal!Next
  <1>1. PICK m, n : m = acteur[a].m /\ n = Len(publies)
    OBVIOUS
  <1>2. /\ acteur[a].pc = "publier" /\ publies' = Append(publies, m)
        /\ UNCHANGED <<mode, fifo, recus, lecteur, faits, pending_frags>>
    BY <1>1 DEF Publier, varsRecu, varsAttente
  <1>3. acteur[a] \in EtatsBoite /\ m \in Envoyes
    <2>1. acteur[a] \in EtatsBoite
      BY <1>2, EtatsProprietes DEF InvFbox, TypesFbox, EnVerrou
    <2> QED BY <1>1, <2>1, BoiteProprietes
  <1>4. publies \in Seq(Envoyes) /\ DOMAIN publies = 1 .. n /\ n \in Nat
    BY <1>1, MessagesProprietes DEF InvFbox, TypesFbox
  <1>5. /\ DOMAIN publies' = 1 .. n + 1 /\ publies'[n + 1] = m
        /\ \A i \in 1 .. n : publies'[i] = publies[i]
    BY <1>1, <1>2, <1>3, <1>4, AppendElements
  <1>6. m[2] \in Nat
    BY <1>3, MessagesProprietes DEF InvFbox
  <1>7. ~ Avant(m, m)
    BY <1>6 DEF Avant
  <1>8. \A i \in DOMAIN publies : publies[i] # m
    <2> SUFFICES ASSUME NEW i \in 1 .. n PROVE publies[i] # m
      BY <1>4
    <2>1. i \in 1 .. n + 1 /\ n + 1 \in 1 .. n + 1 /\ i < n + 1
      BY <1>4
    <2>2. Avant(publies'[i], publies'[n + 1])
      BY <1>5, <2>1 DEF OrdreFbox, OrdreBoite, Croissant
    <2> QED BY <1>5, <1>7, <2>2
  <1>9. n + 1 \in DOMAIN publies'
    BY <1>4, <1>5
  <1>10. \A i \in DOMAIN fifo : fifo[i].m # m
    <2>1. \A i \in DOMAIN fifo : Avant(fifo[i].m, m)
      BY <1>2, <1>5, <1>9 DEF OrdreFbox, OrdreFifo, Avant
    <2> QED BY <1>7, <2>1
  <1>11. \A i \in AuFifo : recus[i].m # m
    <2>1. \A i \in AuFifo : Avant(recus[i].m, m)
      BY <1>2, <1>5, <1>9 DEF OrdreFbox, OrdreFifo, AuFifo, Avant
    <2> QED BY <1>7, <2>1
  <1>12. EnMain' = EnMain /\ Lus' = Lus
    BY <1>2 DEF EnMain, Lus
  <1>13. FilBoite' = Append(FilBoite, m)
    <2>1. Lus \in 0 .. n
      <3>1. PICK h, q, c : \E s, p \in Nat : AnneauDe(h, q, c, s, p)
        BY DEF AnneauFbox
      <3>2. PICK s \in Nat, p \in Nat : AnneauDe(h, q, c, s, p)
        BY <3>1
      <3> QED BY <1>1, <3>2, LusProprietes
    <2>2. SubSeq(Append(publies, m), Lus + 1, Len(Append(publies, m)))
            = Append(SubSeq(publies, Lus + 1, Len(publies)), m)
      BY <1>1, <1>3, <1>4, <2>1, FinAppend
    <2> QED BY <1>2, <1>12, <2>2 DEF FilBoite
  <1>14. FilFifo' = FilFifo
    BY <1>2 DEF FilFifo
  <1>15. UNCHANGED Pris
    BY <1>2, <1>12 DEF Pris, Messages_de
  <1>16. m \in Messages
    BY <1>3, EnvoyesMessages
  <1>17. m \notin ElementsDe(FilFifo) \cup ElementsDe(FilBoite) \cup Messages_de("fifo") \cup PrisBoite
    BY <1>3, <1>8, <1>10, <1>11, NouveauMessage
  <1>18. "boite" \in LesVoies /\ "boite" # "fifo"
    BY DEF LesVoies
  <1> QED BY <1>13, <1>14, <1>15, <1>16, <1>17, <1>18, DeposerRaffine

(* A fragment written goes into the fifo's lane.                            *)
LEMMA Write_fifoRaffine ==
    ASSUME InvFbox, OrdreFbox, InvFbox', OrdreFbox', AnneauFbox, ~ egare, UNCHANGED egare,
           NEW f \in Fils, Write_fifo(f)
    PROVE  LeCanal!Next
  <1>1. PICK e, n : e = [m |-> acteur[f].m, setup |-> acteur[f].setup] /\ n = Len(fifo)
    OBVIOUS
  <1>2. /\ acteur[f].pc = "fifo" /\ fifo' = Append(fifo, e)
        /\ UNCHANGED <<mode, publies, recus, lecteur>>
    BY <1>1 DEF Write_fifo, varsRecu, varsBoite
  <1>3. acteur[f] \in EtatsFifo
    BY <1>2, EtatsProprietes, Constantes DEF InvFbox, TypesFbox
  <1>4. e \in Fragments /\ e.m \in Envoyes
    BY <1>1, <1>3 DEF EtatsFifo, Fragments
  <1>5. fifo \in Seq(Fragments) /\ n \in Nat
    BY <1>1 DEF InvFbox, TypesFbox
  <1>6. /\ DOMAIN fifo' = 1 .. n + 1 /\ DOMAIN fifo = 1 .. n /\ fifo'[n + 1] = e
        /\ \A i \in 1 .. n : fifo'[i] = fifo[i]
    BY <1>1, <1>2, <1>4, <1>5, AppendElements
  <1>7. e.m[2] \in Nat
    BY <1>4, MessagesProprietes DEF InvFbox
  <1>8. ~ Avant(e.m, e.m)
    BY <1>7 DEF Avant
  <1>9. n + 1 \in DOMAIN fifo'
    BY <1>5, <1>6
  <1>10. \A i \in DOMAIN fifo : fifo[i].m # e.m
    <2> SUFFICES ASSUME NEW i \in 1 .. n PROVE fifo[i].m # e.m
      BY <1>6
    <2>1. i \in 1 .. n + 1 /\ n + 1 \in 1 .. n + 1 /\ i < n + 1
      BY <1>5
    <2>2. Avant(fifo'[i].m, fifo'[n + 1].m)
      BY <1>6, <2>1 DEF OrdreFbox, OrdreFifo, Avant
    <2> QED BY <1>6, <1>8, <2>2
  <1>11. \A i \in DOMAIN publies : publies[i] # e.m
    <2>1. \A i \in DOMAIN publies : Avant(e.m, publies[i])
      BY <1>2, <1>6, <1>9 DEF OrdreFbox, OrdreFifo, Avant
    <2> QED BY <1>8, <2>1
  <1>12. \A i \in AuFifo : recus[i].m # e.m
    <2>1. \A i \in AuFifo : Avant(recus[i].m, e.m)
      BY <1>2, <1>6, <1>9 DEF OrdreFbox, OrdreFifo, AuFifo, Avant
    <2> QED BY <1>8, <2>1
  <1>13. EnMain' = EnMain /\ Lus' = Lus
    BY <1>2 DEF EnMain, Lus
  <1>14. FilBoite' = FilBoite
    BY <1>2, <1>13 DEF FilBoite
  <1>15. UNCHANGED Pris
    BY <1>2, <1>13 DEF Pris, Messages_de
  <1>16. FilFifo' = Append(FilFifo, e.m)
    <2>1. FilFifo \in Seq(Envoyes) /\ Len(FilFifo) = n /\ \A i \in 1 .. n : FilFifo[i] = fifo[i].m
      <3>1. \A i \in 1 .. n : fifo[i].m \in Envoyes
        <4>1. \A i \in 1 .. n : fifo[i] \in Fragments
          BY <1>1, <1>5, ElementOfSeq
        <4> QED BY <4>1 DEF Fragments
      <3>2. FilFifo = [i \in 1 .. n |-> fifo[i].m]
        BY <1>6 DEF FilFifo
      <3> QED BY <1>5, <3>1, <3>2
    <2>2. FilFifo' = [i \in 1 .. n + 1 |-> fifo'[i].m]
      BY <1>6 DEF FilFifo
    <2>3. /\ Append(FilFifo, e.m) \in Seq(Envoyes) /\ Len(Append(FilFifo, e.m)) = n + 1
          /\ \A i \in 1 .. n : Append(FilFifo, e.m)[i] = fifo[i].m
          /\ Append(FilFifo, e.m)[n + 1] = e.m
      BY <1>4, <2>1, AppendProperties
    <2>4. \A i \in 1 .. n + 1 : fifo'[i].m = Append(FilFifo, e.m)[i]
      <3> SUFFICES ASSUME NEW i \in 1 .. n + 1 PROVE fifo'[i].m = Append(FilFifo, e.m)[i]
        OBVIOUS
      <3>1. i = n + 1 \/ i \in 1 .. n
        BY <1>5
      <3> QED BY <1>6, <2>3, <3>1
    <2>5. Append(FilFifo, e.m) = [i \in 1 .. n + 1 |-> Append(FilFifo, e.m)[i]]
      BY <1>5, <2>3
    <2> QED BY <2>2, <2>4, <2>5
  <1>17. e.m \in Messages
    BY <1>4, EnvoyesMessages
  <1>18. e.m \notin ElementsDe(FilFifo) \cup ElementsDe(FilBoite) \cup Messages_de("fifo") \cup PrisBoite
    BY <1>4, <1>10, <1>11, <1>12, NouveauMessage
  <1>19. "fifo" \in LesVoies /\ "boite" # "fifo"
    BY DEF LesVoies
  <1> QED BY <1>14, <1>15, <1>16, <1>17, <1>18, <1>19, DeposerRaffine

(* The reader takes a message from the box when it has its header:          *)
LEMMA SonderRaffine ==
    ASSUME InvFbox, OrdreFbox, AnneauFbox, ~ egare, UNCHANGED egare, Sonder
    PROVE  LeCanal!Next \/ (UNCHANGED Files /\ UNCHANGED Pris)
  <1>1. PICK h, q, c : \E s, p \in Nat : AnneauDe(h, q, c, s, p)
    BY DEF AnneauFbox
  <1>2. PICK s \in Nat, p \in Nat : AnneauDe(h, q, c, s, p)
    BY <1>1
  <1>3. PICK u, l, r, e : /\ u = boite[lecteur.start.off] /\ l = Lus /\ r = fbox_in.seq
                          /\ e = (lecteur.nb < PollCount /\ Valide(u))
    OBVIOUS
  <1>4. /\ lecteur.pc = "sonder" /\ UNCHANGED <<publies, fifo, recus>>
        /\ e => lecteur' = [lecteur EXCEPT !.pc = "traiter", !.hdr = u] /\ u.genre = "entete"
        /\ ~ e => lecteur' = [lecteur EXCEPT !.pc = IF lecteur.nb > 0 THEN "rendre" ELSE "fifo", !.nb = 0]
    BY <1>3, SonderPropre DEF Sonder, varsLecture, varsBoite
  <1>5. lecteur \in [pc : {"sonder", "traiter", "rendre", "fifo"}, nb : Nat, start : Offsets,
                     hdr : {Zero} \cup EnTetesLus]
    BY <1>4 DEF InvFbox, TypesFbox, Lecteurs, Repos
  <1>6. ~ EnMain
    BY <1>4 DEF EnMain
  <1>7. ASSUME ~ e \/ u.tag = "saut" PROVE UNCHANGED Files /\ UNCHANGED Pris
    <2>1. ~ EnMain'
      <3>1. CASE e
        BY <1>4, <1>5, <1>7, <3>1 DEF EnMain
      <3>2. CASE ~ e
        BY <1>4, <1>5, <3>2 DEF EnMain
      <3> QED BY <3>1, <3>2
    <2> QED BY <1>4, <1>6, <2>1, ResterRaffine
  <1>8. ASSUME e, u.tag # "saut" PROVE LeCanal!Next
    <2>1. r < fbox_out.seq /\ u = h[r]
      BY <1>2, <1>3, <1>4, <1>8, AnneauProchain
    <2>2. /\ r \in 0 .. fbox_out.seq /\ l = c[r] /\ l \in 0 .. Len(publies) /\ fbox_out.seq \in Nat
          /\ publies \in Seq(Envoyes) /\ DOMAIN publies = 1 .. Len(publies) /\ Len(publies) \in Nat
      BY <1>2, <1>3, LusProprietes, AnneauProprietes
    <2>3. r \in 0 .. fbox_out.seq - 1
      BY <2>1, <2>2
    <2>4. l + 1 \in DOMAIN publies /\ publies[l + 1] = u.m
      BY <1>2, <1>8, <2>1, <2>2, <2>3 DEF AnneauDe, Enchaine, ChaineMessages
    <2>5. l \in Nat /\ l < Len(publies)
      BY <2>2, <2>4
    <2>6. EnMain' /\ lecteur'.hdr = u
      BY <1>4, <1>5, <1>8 DEF EnMain
    <2>7. Lus' = l + 1
      <3>1. Cardinality(AuBoite)' = Cardinality(AuBoite)
        BY <1>4 DEF AuBoite
      <3>2. l = Cardinality(AuBoite) + 0 /\ Lus' = Cardinality(AuBoite)' + 1
        BY <1>3, <1>6, <2>6 DEF Lus, AuBoite
      <3>3. Cardinality(AuBoite) \in Nat
        BY <1>2, AnneauProprietes DEF AnneauDe, AnneauRecus
      <3> QED BY <3>1, <3>2, <3>3
    <2>8. FilBoite # <<>> /\ Head(FilBoite) = u.m /\ FilBoite' = Tail(FilBoite)
      <3>1. /\ SubSeq(publies, l + 1, Len(publies)) # <<>>
            /\ Head(SubSeq(publies, l + 1, Len(publies))) = u.m
            /\ Tail(SubSeq(publies, l + 1, Len(publies))) = SubSeq(publies, l + 2, Len(publies))
        BY <2>2, <2>4, <2>5, FinTail
      <3>2. FilBoite = SubSeq(publies, l + 1, Len(publies))
        BY <1>3 DEF FilBoite
      <3>3. FilBoite' = SubSeq(publies, l + 2, Len(publies))
        <4>1. l + 1 + 1 = l + 2
          BY <2>5
        <4> QED BY <1>4, <2>7, <4>1 DEF FilBoite
      <3> QED BY <3>1, <3>2, <3>3
    <2>9. FilFifo' = FilFifo
      BY <1>4 DEF FilFifo
    <2>10. Messages_de("fifo")' = Messages_de("fifo") /\ Messages_de("boite")' = Messages_de("boite")
      BY <1>4 DEF Messages_de
    <2>11. PrisBoite' = PrisBoite \cup {Head(FilBoite)}
      BY <1>6, <2>6, <2>8, <2>10 DEF PrisBoite
    <2>12. Files["boite"] # <<>> /\ "boite" \in LesVoies /\ "boite" # "fifo"
      BY <2>8, PrisProprietes DEF LesVoies
    <2> QED BY <2>8, <2>9, <2>10, <2>11, <2>12, RetirerRaffine
  <1> QED BY <1>7, <1>8

(* and has then only to hand it over;                                       *)
LEMMA AppendRecus ==
    ASSUME InvFbox, NEW m \in Envoyes, NEW v \in LesVoies, Recevoir(m, v)
    PROVE  /\ Messages_de(v)' = Messages_de(v) \cup {m}
           /\ \A w \in LesVoies : w # v => Messages_de(w)' = Messages_de(w)
           /\ Cardinality(AuBoite)' = Cardinality(AuBoite) + (IF v = "boite" THEN 1 ELSE 0)
           /\ Cardinality(AuBoite) \in Nat
  <1>1. PICK e, n : e = [m |-> m, voie |-> v] /\ n = Len(recus)
    OBVIOUS
  <1>2. recus \in Seq(Receptions) /\ n \in Nat /\ e \in Receptions /\ recus' = Append(recus, e)
    BY <1>1 DEF InvFbox, TypesFbox, Receptions, LesVoies, Recevoir
  <1>3. /\ DOMAIN recus' = 1 .. n + 1 /\ DOMAIN recus = 1 .. n /\ recus'[n + 1] = e
        /\ \A i \in 1 .. n : recus'[i] = recus[i]
    BY <1>1, <1>2, AppendElements
  <1>4. e.m = m /\ e.voie = v
    BY <1>1
  <1>5. \A w \in LesVoies : {j \in DOMAIN recus' : recus'[j].voie = w}
          = {j \in DOMAIN recus : recus[j].voie = w} \cup (IF w = v THEN {n + 1} ELSE {})
    <2> TAKE w \in LesVoies
    <2>1. \A j : j \in 1 .. n + 1 <=> j \in 1 .. n \/ j = n + 1
      BY <1>2
    <2>2. n + 1 \notin 1 .. n
      BY <1>2
    <2> QED BY <1>3, <1>4, <2>1, <2>2
  <1>6. \A w \in LesVoies : Messages_de(w)' = Messages_de(w) \cup (IF w = v THEN {m} ELSE {})
    <2> TAKE w \in LesVoies
    <2>1. \A i \in {j \in DOMAIN recus : recus[j].voie = w} : recus'[i] = recus[i]
      BY <1>3
    <2>2. Messages_de(w)' = {recus'[i].m : i \in {j \in DOMAIN recus' : recus'[j].voie = w}}
      BY DEF Messages_de
    <2>3. recus'[n + 1].m = m
      BY <1>3, <1>4
    <2> QED BY <1>5, <2>1, <2>2, <2>3 DEF Messages_de
  <1>7. AuBoite' = AuBoite \cup (IF v = "boite" THEN {n + 1} ELSE {})
    BY <1>5 DEF AuBoite, LesVoies
  <1>8. IsFiniteSet(AuBoite) /\ n + 1 \notin AuBoite
    <2>1. IsFiniteSet(1 .. n)
      BY <1>2, FS_Interval
    <2>2. AuBoite \subseteq 1 .. n
      BY <1>3 DEF AuBoite
    <2>3. IsFiniteSet(AuBoite)
      BY <2>1, <2>2, FS_Subset
    <2>4. n + 1 \notin 1 .. n
      BY <1>2
    <2> QED BY <2>2, <2>3, <2>4
  <1>9. Cardinality(AuBoite) \in Nat /\ Cardinality(AuBoite \cup {n + 1}) = Cardinality(AuBoite) + 1
    BY <1>8, FS_CardinalityType, FS_AddElement
  <1>10. Cardinality(AuBoite)' = Cardinality(AuBoite) + (IF v = "boite" THEN 1 ELSE 0)
    <2>1. CASE v = "boite"
      BY <1>7, <1>9, <2>1
    <2>2. CASE v # "boite"
      BY <1>7, <1>9, <2>2
    <2> QED BY <2>1, <2>2
  <1> QED BY <1>6, <1>9, <1>10

LEMMA TraiterRaffine ==
    ASSUME InvFbox, AnneauFbox, Traiter
    PROVE  UNCHANGED Files /\ UNCHANGED Pris
  <1>1. PICK e : e = lecteur.hdr
    OBVIOUS
  <1>2. /\ lecteur.pc = "traiter" /\ lecteur'.pc = "sonder" /\ UNCHANGED <<publies, fifo>>
        /\ IF e.tag = "saut" THEN UNCHANGED recus ELSE Recevoir(e.m, "boite")
    BY <1>1 DEF Traiter, varsLecture, varsBoite
  <1>3. ~ EnMain' /\ (EnMain <=> e.tag # "saut")
    BY <1>1, <1>2 DEF EnMain
  <1>4. CASE e.tag = "saut"
    BY <1>2, <1>3, <1>4, ResterRaffine
  <1>5. CASE e.tag # "saut"
    <2>1. e.m \in Envoyes
      <3>1. PICK h, q, c : \E s, p \in Nat : AnneauDe(h, q, c, s, p)
        BY DEF AnneauFbox
      <3>2. PICK s \in Nat, p \in Nat : AnneauDe(h, q, c, s, p)
        BY <3>1
      <3>3. e = h[Traites] /\ Traites \in Nat /\ h \in [Nat -> EnTetes]
        BY <1>1, <1>2, <3>2, AnneauProprietes DEF AnneauDe, AnneauLecteur
      <3>4. e \in EnTetes
        BY <3>3
      <3> QED BY <1>5, <3>4 DEF EnTetes
    <2>2. /\ Messages_de("boite")' = Messages_de("boite") \cup {e.m}
          /\ Messages_de("fifo")' = Messages_de("fifo")
          /\ Cardinality(AuBoite)' = Cardinality(AuBoite) + 1 /\ Cardinality(AuBoite) \in Nat
      BY <1>2, <1>5, <2>1, AppendRecus DEF LesVoies
    <2>3. Lus' = Lus
      <3>1. Lus = Cardinality(AuBoite) + 1 /\ Lus' = Cardinality(AuBoite)' + 0
        BY <1>3, <1>5 DEF Lus, AuBoite
      <3> QED BY <2>2, <3>1
    <2>4. UNCHANGED Files
      BY <1>2, <2>3 DEF Files, FilBoite, FilFifo
    <2>5. \A v \in LesVoies : Messages_de(v)' \cup {} =
            Messages_de(v) \cup (IF v = "boite" THEN {e.m} ELSE {})
      BY <2>2 DEF LesVoies
    <2>6. UNCHANGED Pris
      BY <1>1, <1>3, <1>5, <2>5 DEF Pris
    <2> QED BY <2>4, <2>6
  <1> QED BY <1>4, <1>5

(* from the fifo it takes it and hands it over at once.                     *)
LEMMA Poll_fifoRaffine ==
    ASSUME InvFbox, ~ egare, UNCHANGED egare, Poll_fifo
    PROVE  LeCanal!Next \/ (UNCHANGED Files /\ UNCHANGED Pris)
  <1>1. lecteur.pc = "fifo" /\ UNCHANGED publies /\ ~ EnMain
    BY DEF Poll_fifo, varsLecture, varsBoite, EnMain
  <1>2. lecteur \in [pc : {"sonder", "traiter", "rendre", "fifo"}, nb : Nat, start : Offsets,
                     hdr : {Zero} \cup EnTetesLus]
    BY <1>1 DEF InvFbox, TypesFbox, Lecteurs, Repos
  <1>3. CASE fifo = <<>> \/ lecteur.nb = PollCount
    <2>1. lecteur' = Repos /\ UNCHANGED <<publies, fifo, recus>>
      BY <1>1, <1>3 DEF Poll_fifo
    <2>2. ~ EnMain'
      BY <2>1 DEF EnMain, Repos
    <2> QED BY <1>1, <2>1, <2>2, ResterRaffine
  <1>4. CASE ~ (fifo = <<>> \/ lecteur.nb = PollCount)
    <2>1. PICK m, n : m = Head(fifo).m /\ n = Len(fifo)
      OBVIOUS
    <2>2. /\ fifo # <<>> /\ fifo' = Tail(fifo) /\ Recevoir(m, "fifo")
          /\ lecteur' = [lecteur EXCEPT !.nb = lecteur.nb + 1]
      BY <1>4, <2>1 DEF Poll_fifo
    <2>3. ~ EnMain'
      BY <1>1, <1>2, <2>2 DEF EnMain
    <2>4. fifo \in Seq(Fragments)
      BY DEF InvFbox, TypesFbox
    <2>5. /\ DOMAIN fifo' = 1 .. n - 1 /\ n \in Nat \ {0} /\ DOMAIN fifo = 1 .. n
          /\ \A i \in 1 .. n - 1 : fifo'[i] = fifo[i + 1]
          /\ m = fifo[1].m
      BY <2>1, <2>2, <2>4, TailElements
    <2>6. \A i \in 1 .. n : fifo[i].m \in Envoyes
      <3>1. \A i \in 1 .. n : fifo[i] \in Fragments
        BY <2>1, <2>4, ElementOfSeq
      <3> QED BY <3>1 DEF Fragments
    <2>7. FilFifo \in Seq(Envoyes) /\ Len(FilFifo) = n /\ \A i \in 1 .. n : FilFifo[i] = fifo[i].m
      <3>1. FilFifo = [i \in 1 .. n |-> fifo[i].m]
        BY <2>5 DEF FilFifo
      <3> QED BY <2>5, <2>6, <3>1
    <2>8. FilFifo # <<>>
      <3>1. Len(FilFifo) # 0
        BY <2>5, <2>7
      <3> QED BY <3>1
    <2>9. /\ Head(FilFifo) = m /\ DOMAIN Tail(FilFifo) = 1 .. n - 1 /\ Tail(FilFifo) \in Seq(Envoyes)
          /\ \A i \in 1 .. n - 1 : Tail(FilFifo)[i] = FilFifo[i + 1]
      <3>1. 1 \in 1 .. n
        BY <2>5
      <3> QED BY <2>5, <2>7, <2>8, <3>1, TailElements
    <2>10. FilFifo' = Tail(FilFifo)
      <3>1. FilFifo' = [i \in 1 .. n - 1 |-> fifo'[i].m]
        BY <2>5 DEF FilFifo
      <3>2. \A i \in 1 .. n - 1 : fifo'[i].m = Tail(FilFifo)[i]
        <4> TAKE i \in 1 .. n - 1
        <4>1. i + 1 \in 1 .. n
          BY <2>5
        <4> QED BY <2>5, <2>7, <2>9, <4>1
      <3>3. Tail(FilFifo) = [i \in 1 .. n - 1 |-> Tail(FilFifo)[i]]
        <4>1. Len(Tail(FilFifo)) = n - 1
          BY <2>7, <2>8, HeadTailProperties
        <4>2. PICK x, k : x = Tail(FilFifo) /\ k = n - 1
          OBVIOUS
        <4>3. x \in Seq(Envoyes) /\ Len(x) = k /\ k \in Nat
          BY <2>5, <2>9, <4>1, <4>2
        <4>4. x = [i \in 1 .. k |-> x[i]]
          BY <4>3
        <4> QED BY <4>2, <4>4
      <3> QED BY <3>1, <3>2, <3>3
    <2>11. m \in Envoyes
      <3>1. 1 \in 1 .. n
        BY <2>5
      <3> QED BY <2>5, <2>6, <3>1
    <2>12. /\ Messages_de("fifo")' = Messages_de("fifo") \cup {m}
           /\ Messages_de("boite")' = Messages_de("boite")
           /\ Cardinality(AuBoite)' = Cardinality(AuBoite) + 0 /\ Cardinality(AuBoite) \in Nat
      BY <2>2, <2>11, AppendRecus DEF LesVoies
    <2>13. Lus' = Lus
      <3>1. Lus = Cardinality(AuBoite) + 0 /\ Lus' = Cardinality(AuBoite)' + 0
        BY <1>1, <2>3 DEF Lus, AuBoite
      <3> QED BY <2>12, <3>1
    <2>14. FilBoite' = FilBoite
      BY <1>1, <2>13 DEF FilBoite
    <2>15. PrisBoite' = PrisBoite
      BY <1>1, <2>3, <2>12 DEF PrisBoite
    <2>16. Files["fifo"] # <<>> /\ "fifo" \in LesVoies /\ "boite" # "fifo"
      BY <2>8, PrisProprietes DEF LesVoies
    <2> QED BY <2>9, <2>10, <2>12, <2>14, <2>15, <2>16, RetirerRaffine
  <1> QED BY <1>3, <1>4

(* Every step is one of these.                                              *)
LEMMA PasCanal ==
    ASSUME InvFbox, OrdreFbox, InvFbox', OrdreFbox', AnneauFbox, ~ egare, UNCHANGED egare,
           [NextFbox]_varsFbox
    PROVE  LeCanal!Next \/ (UNCHANGED Files /\ UNCHANGED Pris)
  <1>1. ASSUME UNCHANGED <<publies, fifo, recus, lecteur>>
        PROVE  UNCHANGED Files /\ UNCHANGED Pris
    BY <1>1, ResterRaffine DEF EnMain
  <1>2. CASE UNCHANGED varsFbox
    BY <1>1, <1>2 DEF varsFbox, varsBoite, varsRecu
  <1>3. ASSUME NEW a \in Acteurs,
               \/ PrendreVerrou(a) \/ Relire(a) \/ Sauter(a) \/ Ecrire(a) \/ Clore(a) \/ Echouer(a)
               \/ Write_ep(a)
        PROVE  UNCHANGED Files /\ UNCHANGED Pris
    <2>1. UNCHANGED <<publies, fifo, recus, lecteur>>
      BY <1>3
         DEF PrendreVerrou, Relire, Sauter, Ecrire, Clore, Echouer, Write_ep, varsBoite,
             varsRecu
    <2> QED BY <1>1, <2>1
  <1>4. ASSUME NEW f \in Fils,
               Sendi(f) \/ Send(f) \/ Attendre(f) \/ Inscrire(f) \/ Compter(f) \/ Monter(f)
        PROVE  UNCHANGED Files /\ UNCHANGED Pris
    <2>1. UNCHANGED <<publies, fifo, recus, lecteur>>
      BY <1>4 DEF Sendi, Send, Attendre, Inscrire, Compter, Monter, varsBoite, varsRecu
    <2> QED BY <1>1, <2>1
  <1>5. ASSUME Progress_endpoints \/ Progress_waiting \/ FragSuivant \/ PlusRien
        PROVE  UNCHANGED Files /\ UNCHANGED Pris
    <2>1. UNCHANGED <<publies, fifo, recus, lecteur>>
      BY <1>5
         DEF Progress_endpoints, Progress_waiting, FragSuivant, PlusRien, varsBoite, varsRecu
    <2> QED BY <1>1, <2>1
  <1>6. ASSUME Lecture PROVE LeCanal!Next \/ (UNCHANGED Files /\ UNCHANGED Pris)
    <2>1. ASSUME Progress PROVE UNCHANGED Files /\ UNCHANGED Pris
      <3>1. /\ lecteur.pc = "repos" /\ lecteur'.pc \in {"sonder", "fifo"}
            /\ UNCHANGED <<publies, fifo, recus>>
        BY <2>1 DEF Progress, varsLecture, varsBoite, Repos
      <3>2. ~ EnMain /\ ~ EnMain'
        BY <3>1 DEF EnMain
      <3> QED BY <3>1, <3>2, ResterRaffine
    <2>2. ASSUME RendrePlace PROVE UNCHANGED Files /\ UNCHANGED Pris
      <3>1. /\ lecteur.pc = "rendre" /\ lecteur' = [lecteur EXCEPT !.pc = "fifo"]
            /\ UNCHANGED <<publies, fifo, recus>>
        BY <2>2 DEF RendrePlace, varsLecture, varsBoite
      <3>2. lecteur \in [pc : {"sonder", "traiter", "rendre", "fifo"}, nb : Nat, start : Offsets,
                         hdr : {Zero} \cup EnTetesLus]
        BY <3>1 DEF InvFbox, TypesFbox, Lecteurs, Repos
      <3>3. lecteur'.pc = "fifo"
        BY <3>1, <3>2
      <3>4. ~ EnMain /\ ~ EnMain'
        BY <3>1, <3>3 DEF EnMain
      <3> QED BY <3>1, <3>4, ResterRaffine
    <2> QED BY <1>6, <2>1, <2>2, SonderRaffine, TraiterRaffine, Poll_fifoRaffine DEF Lecture
  <1>7. CASE NextFbox
    BY <1>3, <1>4, <1>5, <1>6, <1>7, EtapesFbox, PublierRaffine, Write_fifoRaffine
  <1> QED BY <1>2, <1>7

(* Box and fifo implement the two lanes of Canal: what sendi, write_ep and  *)
(* the progress put into one is received once, in its order, whoever skips  *)
(* the end of the box, fails for want of room or waits, until the reader    *)
(* takes data for a header, which breaks the lanes.                         *)
THEOREM CanalTheorem ==
    ASSUME PeuDeMessages
    PROVE  SpecFbox => CanalSpec
  <1>1. InitFbox => LeCanal!Init
    <2> SUFFICES ASSUME InitFbox PROVE LeCanal!Init
      OBVIOUS
    <2>1. /\ fifo = <<>> /\ publies = <<>> /\ recus = <<>> /\ lecteur = Repos /\ egare = FALSE
      BY DEF InitFbox
    <2>2. ~ EnMain
      BY <2>1 DEF EnMain, Repos
    <2>3. Lus = 0
      <3>1. {i \in DOMAIN recus : recus[i].voie = "boite"} = {}
        BY <2>1
      <3> QED BY <2>2, <3>1, FS_EmptySet DEF Lus
    <2>4. SubSeq(publies, Lus + 1, Len(publies)) = <<>>
      <3>1. Len(publies) = 0
        BY <2>1
      <3> QED BY <2>3, <3>1, SubSeqEmpty
    <2>5. [i \in DOMAIN fifo |-> fifo[i].m] = <<>>
      BY <2>1
    <2>6. \A v \in {"fifo", "boite"} : Messages_de(v) = {}
      BY <2>1 DEF Messages_de
    <2> QED BY <2>1, <2>2, <2>4, <2>5, <2>6 DEF LeCanal!Init
  <1>2. InvFbox /\ OrdreFbox /\ InvFbox' /\ OrdreFbox' /\ (~ egare => AnneauFbox) /\ [NextFbox]_varsFbox
          => [LeCanal!Next]_(LeCanal!vars)
    <2> SUFFICES ASSUME InvFbox, OrdreFbox, InvFbox', OrdreFbox', ~ egare => AnneauFbox,
                        [NextFbox]_varsFbox
                 PROVE  LeCanal!Next \/ UNCHANGED LeCanal!vars
      OBVIOUS
    <2>1. UNCHANGED Files /\ UNCHANGED Pris /\ UNCHANGED egare => UNCHANGED LeCanal!vars
      BY DEF LeCanal!vars, Files, Pris, LesVoies, FilBoite, FilFifo
    <2>2. CASE egare'
      BY <2>2 DEF LeCanal!Next, LeCanal!Rompre
    <2>3. CASE ~ egare'
      <3>1. ~ egare /\ UNCHANGED egare
        BY <2>3, EgareReste
      <3> QED BY <2>1, <3>1, PasCanal
    <2> QED BY <2>2, <2>3
  <1> QED BY <1>1, <1>2, InvFboxTheorem, OrdreFboxTheorem, AnneauTheorem, PTL
      DEF SpecFbox, CanalSpec, LeCanal!Spec
=============================================================================
