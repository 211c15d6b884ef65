--------------------------- MODULE CommCidProofs ---------------------------
(***************************************************************************)
(* The agreement on context ids for any number of processes, communicators *)
(* and ids, when each communicator has one creation under it: the          *)
(* creations are as many as one likes and go on together in the processes  *)
(* their communicators share, but the calls made on a communicator are     *)
(* those of one creation.  What the last part says of the ids that are     *)
(* held is about any creations, in any order under any communicators.      *)
(***************************************************************************)
EXTENDS CommCid, SequenceTheorems, WellFoundedInduction, TLAPS

(* The instance has one creation under each communicator.                   *)
UneParComm == \A r, s \in Reqs : Comm(r) = Comm(s) => r = s

-----------------------------------------------------------------------------
(* What the processes have given for a creation, call by call: an odd call  *)
(* is for the ids they have reserved, an even one for the flags.            *)
Appels(p, r) == Len(reductions[Comm(r)][p])
Donne(p, r, k) == reductions[Comm(r)][p][k]
Pair(k) == k % 2 = 0

Contextes ==
    [etape : Etapes, appel : Nat, start : 0 .. MaxCid + 1, nextlocal : Cids, nextcid : Cids,
     flag : {0, 1}]
Occupants == {Libre, Pris} \cup Reqs

TypesInv ==
    /\ mode \in Modes
    /\ communicators \in [Procs -> [Cids -> Occupants]]
    /\ actives \in [Procs -> Seq(Reqs)]
    /\ \A p \in Procs :
         /\ curseur[p] = 1 \/ curseur[p] \in 1 .. Len(actives[p])
         /\ \A i \in 1 .. Len(actives[p]) : p \in Groupe(actives[p][i])
    /\ curseur \in [Procs -> Nat]
    /\ contexte \in [Procs -> [Reqs -> Contextes]]
    /\ reductions \in [DOMAIN mode.groupe -> [Procs -> Seq(Cids)]]

(* m is the greatest of what all have given in call k.                      *)
EstMax(r, k, m) ==
    /\ \A q \in Groupe(r) : Appels(q, r) >= k /\ Donne(q, r, k) <= m
    /\ \E q \in Groupe(r) : Donne(q, r, k) = m

(* Where a process is in a creation, the calls it has made, what it gave in *)
(* the last one and the id that is held for it.  An id that was agreed on   *)
(* though some process had none, pml_max_contextid, is not counted as held. *)
EtapeInv(p, r) ==
    LET c == contexte[p][r]
        n == Appels(p, r)
    IN /\ c.etape = "avant" => n = 0
       /\ c.etape = "chercher" => Pair(n)
       /\ c.etape = "verifier" =>
            /\ ~ Pair(n) /\ c.appel = n /\ Donne(p, r, n) = c.nextlocal /\ c.nextlocal # MaxCid
            /\ Participe(p, r) => communicators[p][c.nextlocal] = r
       /\ c.etape = "conclure" =>
            /\ Pair(n) /\ n > 0 /\ c.appel = n /\ Donne(p, r, n) = c.flag
            /\ EstMax(r, n - 1, c.nextcid)
            /\ Participe(p, r) /\ c.flag = 1 /\ c.nextcid # MaxCid => communicators[p][c.nextcid] = r
       /\ c.etape = "fini" =>
            /\ Pair(n) /\ n > 0
            /\ \A q \in Groupe(r) : Appels(q, r) >= n /\ Donne(q, r, n) # 0
            /\ Participe(p, r) =>
                 /\ EstMax(r, n - 1, c.nextcid)
                 /\ c.nextcid # MaxCid
                 /\ communicators[p][c.nextcid] = r
       /\ c.etape = "erreur" => ~ Pair(n)

(* Nobody is more than a call ahead; who has gone on after the flags of a   *)
(* round, to another, has seen that somebody failed; who had no id makes no *)
(* other call.                                                              *)
AppelsInv(p, r) ==
    LET n == Appels(p, r) IN
    /\ \A q \in Groupe(r) : n <= Appels(q, r) + 1
    /\ contexte[p][r].etape = "chercher" => \A q \in Groupe(r) : n <= Appels(q, r)
    /\ \A k \in 1 .. n :
         Pair(k) /\ (k < n \/ contexte[p][r].etape = "chercher") =>
            \E q \in Groupe(r) : Appels(q, r) >= k /\ Donne(q, r, k) = 0
    /\ \A k \in 1 .. n :
         ~ Pair(k) /\ Donne(p, r, k) = MaxCid => contexte[p][r].etape = "erreur" /\ k = n

PrisInv == \A p \in Procs : \A i \in mode.pris[p] : communicators[p][i] = Pris

Inv ==
    /\ TypesInv
    /\ \A r \in Reqs : \A p \in Groupe(r) : EtapeInv(p, r) /\ AppelsInv(p, r)
    /\ PrisInv

-----------------------------------------------------------------------------
(* A set of naturals that is not empty has a least element; one that is     *)
(* bounded has a greatest.                                                  *)
LEMMA PlusPetit ==
    ASSUME NEW S, S \subseteq Nat, S # {}
    PROVE  \E m \in S : \A x \in S : m <= x
  <1> DEFINE R == OpToRel(<, Nat)
  <1>1. IsWellFoundedOn(R, Nat)
    BY NatLessThanWellFounded
  <1>2. \A x, y \in S : y < x => <<y, x>> \in R
    BY DEF OpToRel
  <1> HIDE DEF R
  <1>3. PICK m \in S : \A y \in S : ~ (<<y, m>> \in R)
    BY <1>1, WFMin
  <1>4. \A y \in S : ~ (y < m)
    BY <1>2, <1>3
  <1> QED BY <1>4

LEMMA PlusGrand ==
    ASSUME NEW n \in Nat, NEW S, S \subseteq 0 .. n, S # {}
    PROVE  \E m \in S : \A x \in S : x <= m
  <1> DEFINE D == {n - x : x \in S}
  <1>1. PICK d \in D : \A e \in D : d <= e
    <2>1. \A x \in S : n - x \in Nat
      OBVIOUS
    <2>2. D \subseteq Nat /\ D # {}
      BY <2>1
    <2> HIDE DEF D
    <2> QED BY <2>2, PlusPetit
  <1>2. PICK m \in S : d = n - m
    OBVIOUS
  <1>3. \A x \in S : x <= m
    <2> SUFFICES ASSUME NEW x \in S PROVE x <= m
      OBVIOUS
    <2>1. d <= n - x
      BY <1>1
    <2> QED BY <1>2, <2>1
  <1> QED BY <1>3

(* The search for a free id.                                                *)
LEMMA ChercherProprietes ==
    ASSUME NEW table, NEW start \in Nat
    PROVE  /\ Chercher(table, start) \in Cids
           /\ Chercher(table, start) # MaxCid => table[Chercher(table, start)] = Libre
  <1> DEFINE libres == {i \in start .. MaxCid - 1 : table[i] = Libre}
  <1>1. MaxCid \in Nat \ {0} /\ libres \subseteq Nat /\ libres \subseteq 0 .. MaxCid - 1
    BY MaxCidAssumption
  <1>2. CASE libres = {}
    BY <1>1, <1>2 DEF Chercher, Cids
  <1>3. CASE libres # {}
    <2>1. \E i \in libres : \A j \in libres : i <= j
      <3> HIDE DEF libres
      <3> QED BY <1>1, <1>3, PlusPetit
    <2>2. Chercher(table, start) \in libres
      <3>1. Chercher(table, start) = CHOOSE i \in libres : \A j \in libres : i <= j
        BY <1>3, Zenon DEF Chercher
      <3> HIDE DEF libres
      <3> QED BY <2>1, <3>1
    <2> QED BY <1>1, <2>2 DEF Cids
  <1> QED BY <1>2, <1>3

-----------------------------------------------------------------------------
LEMMA ModeType ==
    ASSUME TypesInv, NEW r \in Reqs
    PROVE  /\ Comm(r) \in DOMAIN mode.groupe /\ Groupe(r) \subseteq Procs
           /\ mode.membres[r] \subseteq Groupe(r)
           /\ \A p \in Procs : mode.pris[p] \subseteq 0 .. MaxCid - 1
           /\ \A q : Participe(q, r) => q \in Groupe(r)
  <1>1. mode \in Modes
    BY DEF TypesInv
  <1> QED BY <1>1, ModesAssumption DEF Comm, Groupe, Participe

LEMMA AppelsType ==
    ASSUME TypesInv, NEW r \in Reqs, NEW p \in Groupe(r)
    PROVE  /\ p \in Procs /\ reductions[Comm(r)][p] \in Seq(Cids)
           /\ Appels(p, r) \in Nat
           /\ \A k \in 1 .. Appels(p, r) : Donne(p, r, k) \in Cids
  <1>1. reductions[Comm(r)][p] \in Seq(Cids)
    BY ModeType DEF TypesInv
  <1> QED BY <1>1, ModeType DEF Appels, Donne

(* The request the progress comes to.                                       *)
LEMMA VisiteeType ==
    ASSUME TypesInv, NEW p \in Procs, actives[p] # <<>>
    PROVE  Visitee(p) \in Reqs /\ p \in Groupe(Visitee(p))
  <1>1. actives[p] \in Seq(Reqs) /\ curseur[p] \in 1 .. Len(actives[p])
    BY DEF TypesInv
  <1> QED BY <1>1 DEF Visitee, TypesInv

(* The list of the active requests and the place in it.                     *)
ListesInv(as, cs) ==
    /\ as \in [Procs -> Seq(Reqs)] /\ cs \in [Procs -> Nat]
    /\ \A p \in Procs :
         /\ cs[p] = 1 \/ cs[p] \in 1 .. Len(as[p])
         /\ \A i \in 1 .. Len(as[p]) : p \in Groupe(as[p][i])

LEMMA PasserListes ==
    ASSUME TypesInv, NEW p \in Procs, actives[p] # <<>>, Passer(p)
    PROVE  ListesInv(actives', curseur')
  <1>1. actives[p] \in Seq(Reqs) /\ curseur[p] \in 1 .. Len(actives[p]) /\ Len(actives[p]) \in Nat
    BY DEF TypesInv
  <1> DEFINE c == IF curseur[p] = Len(actives[p]) THEN 1 ELSE curseur[p] + 1
  <1>2. c \in 1 .. Len(actives[p]) /\ c \in Nat
    BY <1>1
  <1>3. actives' = actives /\ curseur' = [curseur EXCEPT ![p] = c]
    BY DEF Passer
  <1> HIDE DEF c
  <1> QED BY <1>1, <1>2, <1>3 DEF TypesInv, ListesInv

LEMMA QuitterListes ==
    ASSUME TypesInv, NEW p \in Procs, actives[p] # <<>>, Quitter(p)
    PROVE  ListesInv(actives', curseur')
  <1> DEFINE a == actives[p]
             i == curseur[p]
             u == SubSeq(a, 1, i - 1)
             w == SubSeq(a, i + 1, Len(a))
             b == u \o w
             c == IF i = Len(a) THEN 1 ELSE i
  <1>1. a \in Seq(Reqs) /\ i \in 1 .. Len(a) /\ Len(a) \in Nat
        /\ \A k \in 1 .. Len(a) : p \in Groupe(a[k])
    BY DEF TypesInv
  <1>2. actives' = [actives EXCEPT ![p] = b] /\ curseur' = [curseur EXCEPT ![p] = c]
    BY DEF Quitter
  <1> HIDE DEF a, i
  <1>3. /\ u \in Seq(Reqs) /\ Len(u) = i - 1
        /\ \A k \in 1 .. i - 1 : u[k] = a[k]
    BY <1>1
  <1>4. /\ w \in Seq(Reqs) /\ Len(w) = Len(a) - i
        /\ \A k \in 1 .. Len(a) - i : w[k] = a[i + k]
    BY <1>1
  <1> HIDE DEF u, w
  <1>5. /\ b \in Seq(Reqs) /\ Len(b) = Len(a) - 1
        /\ \A k \in 1 .. i - 1 : b[k] = a[k]
        /\ \A k \in i .. Len(a) - 1 : b[k] = a[k + 1]
    <2>1. /\ b \in Seq(Reqs) /\ Len(b) = Len(u) + Len(w)
          /\ \A k \in 1 .. Len(u) + Len(w) : b[k] = IF k <= Len(u) THEN u[k] ELSE w[k - Len(u)]
      BY <1>3, <1>4, ConcatProperties
    <2> HIDE DEF b
    <2>2. i \in Nat \ {0} /\ Len(a) - i \in Nat /\ Len(u) + Len(w) = Len(a) - 1
      BY <1>1, <1>3, <1>4
    <2>3. ASSUME NEW k \in 1 .. i - 1
          PROVE  b[k] = a[k]
      <3>1. k \in 1 .. Len(a) - 1
        BY <2>2
      <3> QED BY <1>3, <2>1, <2>2, <3>1
    <2>4. ASSUME NEW k \in i .. Len(a) - 1
          PROVE  b[k] = a[k + 1]
      <3>1. k \in 1 .. Len(a) - 1 /\ ~ (k <= i - 1)
        BY <2>2
      <3>2. b[k] = w[k - (i - 1)]
        BY <1>3, <2>1, <2>2, <3>1
      <3>3. k - (i - 1) \in 1 .. Len(a) - i /\ i + (k - (i - 1)) = k + 1
        BY <2>2
      <3> QED BY <1>4, <3>2, <3>3
    <2> QED BY <2>1, <2>2, <2>3, <2>4
  <1> HIDE DEF b
  <1>6. ASSUME NEW k \in 1 .. Len(b)
        PROVE  p \in Groupe(b[k])
    <2>1. CASE k \in 1 .. i - 1
      BY <1>1, <1>5, <2>1
    <2>2. CASE k \in i .. Len(a) - 1
      BY <1>1, <1>5, <2>2
    <2> QED BY <1>1, <1>5, <2>1, <2>2
  <1>7. c \in Nat /\ (c = 1 \/ c \in 1 .. Len(b))
    BY <1>1, <1>5
  <1> HIDE DEF c
  <1> QED BY <1>2, <1>5, <1>6, <1>7 DEF TypesInv, ListesInv

-----------------------------------------------------------------------------
(* A step of p in the creation r: of all the creations and processes, it    *)
(* changes what p knows of r, and p's table, in which it touches the free   *)
(* ids and those of r only.                                                 *)
Pas(p, r, d, t) ==
    /\ mode' = mode
    /\ contexte' = [contexte EXCEPT ![p][r] = d]
    /\ communicators' = [communicators EXCEPT ![p] = t]
    /\ d \in Contextes /\ t \in [Cids -> Occupants]
    /\ \A i \in 0 .. MaxCid - 1 : communicators[p][i] \notin {Libre, r} => t[i] = communicators[p][i]
    /\ \/ UNCHANGED reductions
       \/ \E v \in Cids : Reduire(p, r, v)

LEMMA PasAppels ==
    ASSUME Inv, UneParComm, NEW r \in Reqs, NEW p \in Groupe(r), NEW d, NEW t, Pas(p, r, d, t)
    PROVE  /\ reductions' \in [DOMAIN mode.groupe -> [Procs -> Seq(Cids)]]
           /\ \A s \in Reqs : \A q \in Groupe(s) :
                /\ Appels(q, s)' \in Nat /\ Appels(q, s)' >= Appels(q, s)
                /\ \A k \in 1 .. Appels(q, s) : Donne(q, s, k)' = Donne(q, s, k)
                /\ q # p \/ s # r => Appels(q, s)' = Appels(q, s)
           /\ UNCHANGED reductions => Appels(p, r)' = Appels(p, r)
           /\ \A v \in Cids : Reduire(p, r, v) =>
                Appels(p, r)' = Appels(p, r) + 1 /\ \A k : k = Appels(p, r) + 1 => Donne(p, r, k)' = v
  <1> USE DEF Inv
  <1>1. /\ reductions \in [DOMAIN mode.groupe -> [Procs -> Seq(Cids)]]
        /\ mode' = mode /\ mode \in Modes /\ p \in Procs /\ Comm(r) \in DOMAIN mode.groupe
    BY ModeType DEF TypesInv, Pas
  <1>2. \A s \in Reqs : Comm(s)' = Comm(s) /\ (Comm(s) = Comm(r) => s = r)
                        /\ Comm(s) \in DOMAIN mode.groupe
    BY <1>1, ModeType DEF Comm, UneParComm
  <1>3. CASE UNCHANGED reductions
    <2>1. \A v \in Cids : ~ Reduire(p, r, v)
      <3> SUFFICES ASSUME NEW v \in Cids, Reduire(p, r, v) PROVE FALSE
        OBVIOUS
      <3>1. reductions[Comm(r)][p] = Append(reductions[Comm(r)][p], v)
        BY <1>1, <1>3 DEF Reduire
      <3>2. reductions[Comm(r)][p] \in Seq(Cids)
        BY <1>1
      <3>3. Len(Append(reductions[Comm(r)][p], v)) = Len(reductions[Comm(r)][p]) + 1
        BY <3>2
      <3> QED BY <3>1, <3>2, <3>3
    <2> QED BY <1>1, <1>2, <1>3, <2>1, AppelsType DEF Appels, Donne
  <1>4. ASSUME NEW v \in Cids, Reduire(p, r, v)
        PROVE  /\ reductions' \in [DOMAIN mode.groupe -> [Procs -> Seq(Cids)]]
               /\ \A s \in Reqs : \A q \in Groupe(s) :
                    /\ Appels(q, s)' \in Nat /\ Appels(q, s)' >= Appels(q, s)
                    /\ \A k \in 1 .. Appels(q, s) : Donne(q, s, k)' = Donne(q, s, k)
                    /\ q # p \/ s # r => Appels(q, s)' = Appels(q, s)
               /\ Appels(p, r)' = Appels(p, r) + 1 /\ \A k : k = Appels(p, r) + 1 => Donne(p, r, k)' = v
    <2> DEFINE l == reductions[Comm(r)][p]
    <2>1. l \in Seq(Cids)
      BY <1>1
    <2>2. /\ Append(l, v) \in Seq(Cids) /\ Len(Append(l, v)) = Len(l) + 1 /\ Len(l) \in Nat
          /\ Append(l, v)[Len(l) + 1] = v /\ \A k \in 1 .. Len(l) : Append(l, v)[k] = l[k]
      BY <2>1
    <2>3. reductions' = [reductions EXCEPT ![Comm(r)][p] = Append(l, v)]
      BY <1>4 DEF Reduire
    <2>4. /\ reductions' \in [DOMAIN mode.groupe -> [Procs -> Seq(Cids)]]
          /\ reductions'[Comm(r)][p] = Append(l, v)
          /\ \A c \in DOMAIN mode.groupe, q \in Procs :
               c # Comm(r) \/ q # p => reductions'[c][q] = reductions[c][q]
      <3> HIDE DEF l
      <3> QED BY <1>1, <2>2, <2>3
    <2>5. /\ Appels(p, r)' = Appels(p, r) + 1
          /\ \A k : k = Appels(p, r) + 1 => Donne(p, r, k)' = v
          /\ \A k \in 1 .. Appels(p, r) : Donne(p, r, k)' = Donne(p, r, k)
      <3>1. Appels(p, r)' = Len(Append(l, v)) /\ Appels(p, r) = Len(l)
            /\ \A k : Donne(p, r, k)' = Append(l, v)[k] /\ Donne(p, r, k) = l[k]
        BY <1>2, <2>4, Zenon DEF Appels, Donne
      <3> HIDE DEF l
      <3> QED BY <2>2, <3>1
    <2>6. ASSUME NEW s \in Reqs, NEW q \in Groupe(s), q # p \/ s # r
          PROVE  Appels(q, s)' = Appels(q, s) /\ \A k : Donne(q, s, k)' = Donne(q, s, k)
      <3>1. q \in Procs /\ (Comm(s) # Comm(r) \/ q # p)
        BY <1>2, <2>6, ModeType
      <3> QED BY <1>2, <2>4, <3>1 DEF Appels, Donne
    <2>7. \A s \in Reqs : \A q \in Groupe(s) : Appels(q, s) \in Nat
      BY AppelsType
    <2> QED BY <2>4, <2>5, <2>6, <2>7
  <1>5. ASSUME NEW v \in Cids, Reduire(p, r, v)
        PROVE  reductions' # reductions
    <2>1. Appels(p, r)' = Appels(p, r) + 1 /\ Appels(p, r) \in Nat
      BY <1>4, <1>5, AppelsType
    <2>2. Comm(r)' = Comm(r)
      BY <1>2
    <2> QED BY <2>1, <2>2 DEF Appels
  <1> QED BY <1>3, <1>4, <1>5 DEF Pas

(* What all have given in a call does not change any more.                  *)
LEMMA MaxGarde ==
    ASSUME Inv, UneParComm, NEW r \in Reqs, NEW p \in Groupe(r), NEW d, NEW t, Pas(p, r, d, t),
           NEW s \in Reqs, NEW k \in Nat \ {0}, NEW m, EstMax(s, k, m)
    PROVE  EstMax(s, k, m)'
  <1>1. /\ Groupe(s)' = Groupe(s)
        /\ \A q \in Groupe(s) :
             /\ Appels(q, s) \in Nat /\ Appels(q, s)' \in Nat /\ Appels(q, s)' >= Appels(q, s)
             /\ \A j \in 1 .. Appels(q, s) : Donne(q, s, j)' = Donne(q, s, j)
    <2>1. Groupe(s)' = Groupe(s)
      BY DEF Pas, Groupe, Comm
    <2>2. \A q \in Groupe(s) : Appels(q, s) \in Nat
      BY AppelsType DEF Inv
    <2> QED BY <2>1, <2>2, PasAppels
  <1>2. \A q \in Groupe(s) : Appels(q, s) >= k /\ k \in 1 .. Appels(q, s)
    BY <1>1 DEF EstMax
  <1> QED BY <1>1, <1>2 DEF EstMax

(* So much for the others, p in its other creations included.               *)
LEMMA AutresEtapes ==
    ASSUME Inv, UneParComm, NEW r \in Reqs, NEW p \in Groupe(r), NEW d, NEW t, Pas(p, r, d, t),
           NEW s \in Reqs, NEW q \in Groupe(s), q # p \/ s # r
    PROVE  contexte'[q][s] = contexte[q][s] /\ EtapeInv(q, s)'
  <1> USE DEF Inv
  <1>0. PICK c, n : c = contexte[q][s] /\ n = Appels(q, s)
    OBVIOUS
  <1>1. /\ q \in Procs /\ p \in Procs /\ c \in Contextes /\ n \in Nat
        /\ \A k \in 1 .. n : Donne(q, s, k) \in Cids
        /\ MaxCid \in Nat \ {0} /\ communicators[q] \in [Cids -> Occupants]
    BY <1>0, AppelsType, MaxCidAssumption DEF TypesInv
  <1>2. /\ contexte'[q][s] = c /\ Appels(q, s)' = n
        /\ \A k \in 1 .. n : Donne(q, s, k)' = Donne(q, s, k)
        /\ Groupe(s)' = Groupe(s) /\ (Participe(q, s)' <=> Participe(q, s))
    <2>1. contexte'[q][s] = c
      BY <1>0, <1>1 DEF Pas, TypesInv
    <2>2. Appels(q, s)' = n /\ \A k \in 1 .. n : Donne(q, s, k)' = Donne(q, s, k)
      BY <1>0, PasAppels
    <2> QED BY <2>1, <2>2 DEF Pas, Groupe, Comm, Participe
  <1>3. \A i \in Cids : i # MaxCid /\ communicators[q][i] = s => communicators'[q][i] = s
    <2> SUFFICES ASSUME NEW i \in Cids, i # MaxCid, communicators[q][i] = s
                 PROVE  communicators'[q][i] = s
      OBVIOUS
    <2>1. i \in 0 .. MaxCid - 1 /\ s # Libre
      BY <1>1, ReqsAssumption DEF Cids
    <2>2. CASE q # p
      BY <1>1, <2>2 DEF Pas, TypesInv
    <2>3. CASE q = p
      <3>1. communicators'[p] = t
        BY <1>1 DEF Pas, TypesInv
      <3>2. t[i] = communicators[p][i]
        BY <2>1, <2>3 DEF Pas
      <3> QED BY <2>3, <3>1, <3>2
    <2> QED BY <2>2, <2>3
  <1>4. EtapeInv(q, s)
    OBVIOUS
  <1>5. c.nextlocal \in Cids /\ c.nextcid \in Cids
    BY <1>1 DEF Contextes
  <1>6. \A k \in Nat \ {0}, m \in Cids : EstMax(s, k, m) => EstMax(s, k, m)'
    BY MaxGarde
  <1>7. n > 0 => n \in 1 .. n
    BY <1>1
  <1>8. Pair(n) /\ n > 0 => n - 1 \in Nat \ {0}
    BY <1>1 DEF Pair
  <1>9. c.etape = "conclure" => EstMax(s, n - 1, c.nextcid)'
    BY <1>0, <1>4, <1>5, <1>6, <1>8 DEF EtapeInv
  <1>10. c.etape = "fini" /\ Participe(q, s) => EstMax(s, n - 1, c.nextcid)'
    BY <1>0, <1>4, <1>5, <1>6, <1>8 DEF EtapeInv
  <1>11. c.etape = "fini" => \A x \in Groupe(s) : Appels(x, s)' >= n /\ Donne(x, s, n)' # 0
    <2> SUFFICES ASSUME c.etape = "fini", NEW x \in Groupe(s)
                 PROVE  Appels(x, s)' >= n /\ Donne(x, s, n)' # 0
      OBVIOUS
    <2>1. n > 0 /\ Appels(x, s) >= n /\ Donne(x, s, n) # 0
      BY <1>0, <1>4 DEF EtapeInv
    <2>2. Appels(x, s) \in Nat /\ Appels(x, s)' \in Nat /\ Appels(x, s)' >= Appels(x, s)
          /\ \A k \in 1 .. Appels(x, s) : Donne(x, s, k)' = Donne(x, s, k)
      BY PasAppels, AppelsType
    <2>3. n \in 1 .. Appels(x, s)
      BY <1>1, <2>1, <2>2
    <2> QED BY <1>1, <2>1, <2>2, <2>3
  <1>12. CASE c.etape \in {"avant", "chercher", "erreur"}
    BY <1>0, <1>2, <1>4, <1>12 DEF EtapeInv
  <1>13. CASE c.etape = "verifier"
    <2>1. ~ Pair(n) /\ c.appel = n /\ Donne(q, s, n) = c.nextlocal /\ c.nextlocal # MaxCid
          /\ (Participe(q, s) => communicators[q][c.nextlocal] = s)
      BY <1>0, <1>4, <1>13 DEF EtapeInv
    <2>2. n # 0
      BY <2>1 DEF Pair
    <2>3. Donne(q, s, n)' = c.nextlocal
      BY <1>1, <1>2, <1>7, <2>1, <2>2
    <2>4. Participe(q, s) => communicators'[q][c.nextlocal] = s
      BY <1>3, <1>5, <2>1
    <2> QED BY <1>0, <1>2, <1>13, <2>1, <2>3, <2>4 DEF EtapeInv
  <1>14. CASE c.etape = "conclure"
    <2>1. /\ Pair(n) /\ n > 0 /\ c.appel = n /\ Donne(q, s, n) = c.flag
          /\ Participe(q, s) /\ c.flag = 1 /\ c.nextcid # MaxCid => communicators[q][c.nextcid] = s
      BY <1>0, <1>4, <1>14 DEF EtapeInv
    <2>2. Donne(q, s, n)' = c.flag
      BY <1>2, <1>7, <2>1
    <2>3. Participe(q, s) /\ c.flag = 1 /\ c.nextcid # MaxCid => communicators'[q][c.nextcid] = s
      BY <1>3, <1>5, <2>1
    <2> QED BY <1>0, <1>2, <1>9, <1>14, <2>1, <2>2, <2>3 DEF EtapeInv
  <1>15. CASE c.etape = "fini"
    <2>1. /\ Pair(n) /\ n > 0
          /\ Participe(q, s) => c.nextcid # MaxCid /\ communicators[q][c.nextcid] = s
      BY <1>0, <1>4, <1>15 DEF EtapeInv
    <2>2. Participe(q, s) => communicators'[q][c.nextcid] = s
      BY <1>3, <1>5, <2>1
    <2> QED BY <1>0, <1>2, <1>10, <1>11, <1>15, <2>1, <2>2 DEF EtapeInv
  <1>16. c.etape \in Etapes
    BY <1>1 DEF Contextes
  <1> QED BY <1>0, <1>2, <1>12, <1>13, <1>14, <1>15, <1>16 DEF Etapes

LEMMA AutresAppels ==
    ASSUME Inv, UneParComm, NEW r \in Reqs, NEW p \in Groupe(r), NEW d, NEW t, Pas(p, r, d, t),
           NEW s \in Reqs, NEW q \in Groupe(s), q # p \/ s # r
    PROVE  AppelsInv(q, s)'
  <1> USE DEF Inv
  <1>0. PICK c, n : c = contexte[q][s] /\ n = Appels(q, s)
    OBVIOUS
  <1>1. /\ contexte'[q][s] = c /\ Appels(q, s)' = n /\ n \in Nat
        /\ \A k \in 1 .. n : Donne(q, s, k)' = Donne(q, s, k)
        /\ Groupe(s)' = Groupe(s)
    <2>1. contexte'[q][s] = c
      BY <1>0, AutresEtapes
    <2>2. Appels(q, s)' = n /\ n \in Nat /\ \A k \in 1 .. n : Donne(q, s, k)' = Donne(q, s, k)
      BY <1>0, PasAppels, AppelsType
    <2> QED BY <2>1, <2>2 DEF Pas, Groupe, Comm
  <1>2. \A x \in Groupe(s) :
          /\ Appels(x, s) \in Nat /\ Appels(x, s)' \in Nat /\ Appels(x, s)' >= Appels(x, s)
          /\ \A k \in 1 .. Appels(x, s) : Donne(x, s, k)' = Donne(x, s, k)
    BY PasAppels, AppelsType
  <1>3. AppelsInv(q, s)
    OBVIOUS
  <1>4. /\ \A x \in Groupe(s) : n <= Appels(x, s)' + 1
        /\ c.etape = "chercher" => \A x \in Groupe(s) : n <= Appels(x, s)'
    BY <1>0, <1>1, <1>2, <1>3 DEF AppelsInv
  <1>5. ASSUME NEW k \in 1 .. n, Pair(k), k < n \/ c.etape = "chercher"
        PROVE  \E x \in Groupe(s) : Appels(x, s)' >= k /\ Donne(x, s, k)' = 0
    <2>1. PICK x \in Groupe(s) : Appels(x, s) >= k /\ Donne(x, s, k) = 0
      BY <1>0, <1>3, <1>5 DEF AppelsInv
    <2>2. k \in 1 .. Appels(x, s) /\ Appels(x, s)' >= k
      BY <1>1, <1>2, <2>1
    <2> QED BY <1>2, <2>1, <2>2
  <1>6. \A k \in 1 .. n : ~ Pair(k) /\ Donne(q, s, k)' = MaxCid => c.etape = "erreur" /\ k = n
    BY <1>0, <1>1, <1>3 DEF AppelsInv
  <1> QED BY <1>1, <1>4, <1>5, <1>6 DEF AppelsInv

(* It remains to see to p and r.                                            *)
LEMMA PasInv ==
    ASSUME Inv, UneParComm, NEW r \in Reqs, NEW p \in Groupe(r), NEW d, NEW t, Pas(p, r, d, t),
           ListesInv(actives', curseur'), EtapeInv(p, r)', AppelsInv(p, r)'
    PROVE  Inv'
  <1> USE DEF Inv
  <1>1. p \in Procs /\ mode' = mode /\ mode \in Modes
    BY ModeType DEF Pas, TypesInv
  <1>2. \A s \in Reqs : Groupe(s)' = Groupe(s)
    BY <1>1 DEF Groupe, Comm
  <1>3. TypesInv'
    <2>1. reductions' \in [DOMAIN mode.groupe -> [Procs -> Seq(Cids)]]
      BY PasAppels
    <2>2. contexte' \in [Procs -> [Reqs -> Contextes]] /\ communicators' \in [Procs -> [Cids -> Occupants]]
      BY <1>1 DEF TypesInv, Pas
    <2>3. /\ actives' \in [Procs -> Seq(Reqs)] /\ curseur' \in [Procs -> Nat]
          /\ \A q \in Procs :
               /\ curseur'[q] = 1 \/ curseur'[q] \in 1 .. Len(actives'[q])
               /\ \A i \in 1 .. Len(actives'[q]) : actives'[q][i] \in Reqs /\ q \in Groupe(actives'[q][i])
      BY DEF ListesInv
    <2>4. ASSUME NEW q \in Procs, NEW i \in 1 .. Len(actives'[q])
          PROVE  q \in Groupe(actives[q][i])'
      <3>1. q \in mode.groupe[mode.comm[actives'[q][i]]]
        BY <2>3 DEF Groupe, Comm
      <3> QED BY <1>1, <3>1 DEF Groupe, Comm
    <2> QED BY <1>1, <2>1, <2>2, <2>3, <2>4 DEF TypesInv
  <1>4. PrisInv'
    <2> SUFFICES ASSUME NEW q \in Procs, NEW i \in mode.pris[q]
                 PROVE  communicators'[q][i] = Pris
      BY <1>1 DEF PrisInv
    <2>1. i \in 0 .. MaxCid - 1 /\ communicators[q][i] = Pris /\ Pris \notin {Libre, r}
      BY ModeType, ReqsAssumption DEF PrisInv, Libre, Pris
    <2>2. CASE q # p
      BY <2>1, <2>2 DEF Pas, TypesInv
    <2>3. CASE q = p
      <3>1. communicators'[p] = t
        BY <1>1 DEF Pas, TypesInv
      <3> QED BY <2>1, <2>3, <3>1 DEF Pas
    <2> QED BY <2>2, <2>3
  <1>5. ASSUME NEW s \in Reqs, NEW q \in Groupe(s)
        PROVE  EtapeInv(q, s)' /\ AppelsInv(q, s)'
    BY AutresEtapes, AutresAppels
  <1> QED BY <1>2, <1>3, <1>4, <1>5

(* Everybody has seen the last call of p, and if p goes on to another round *)
(* after it, that somebody failed.                                          *)
Suivi(p, r) ==
    \A q \in Groupe(r) : Appels(p, r) <= Appels(q, r)
Echoue(p, r) ==
    Appels(p, r) > 0 =>
        \E q \in Groupe(r) : Appels(q, r) >= Appels(p, r) /\ Donne(q, r, Appels(p, r)) = 0

LEMMA SansAppel ==
    ASSUME Inv, UneParComm, NEW r \in Reqs, NEW p \in Groupe(r), NEW d, NEW t, Pas(p, r, d, t),
           UNCHANGED reductions, contexte[p][r].etape # "erreur",
           d.etape = "chercher" => Suivi(p, r) /\ Echoue(p, r)
    PROVE  AppelsInv(p, r)'
  <1> USE DEF Inv
  <1>0. PICK n : n = Appels(p, r)
    OBVIOUS
  <1>1. /\ contexte'[p][r] = d /\ n \in Nat /\ Groupe(r)' = Groupe(r)
        /\ \A q \in Groupe(r) : /\ Appels(q, r)' = Appels(q, r) /\ Appels(q, r) \in Nat
                                /\ \A k : Donne(q, r, k)' = Donne(q, r, k)
    <2>1. p \in Procs /\ Comm(r)' = Comm(r) /\ Groupe(r)' = Groupe(r)
      BY ModeType DEF Pas, Comm, Groupe
    <2> QED BY <1>0, <2>1, AppelsType DEF Pas, TypesInv, Appels, Donne
  <1>2. AppelsInv(p, r)
    OBVIOUS
  <1>3. ASSUME NEW k \in 1 .. n, Pair(k), k < n \/ d.etape = "chercher"
        PROVE  \E q \in Groupe(r) : Appels(q, r) >= k /\ Donne(q, r, k) = 0
    <2>1. CASE k < n
      BY <1>0, <1>2, <1>3, <2>1 DEF AppelsInv
    <2>2. CASE ~ (k < n)
      <3>1. k = n /\ n > 0
        BY <1>1, <2>2
      <3> QED BY <1>0, <1>3, <3>1 DEF Echoue
    <2> QED BY <2>1, <2>2
  <1>4. \A k \in 1 .. n : ~ (~ Pair(k) /\ Donne(p, r, k) = MaxCid)
    BY <1>0, <1>2 DEF AppelsInv
  <1>5. /\ \A q \in Groupe(r) : n <= Appels(q, r) + 1
        /\ d.etape = "chercher" => \A q \in Groupe(r) : n <= Appels(q, r)
    BY <1>0, <1>2 DEF AppelsInv, Suivi
  <1> QED BY <1>0, <1>1, <1>3, <1>4, <1>5 DEF AppelsInv

LEMMA AvecAppel ==
    ASSUME Inv, UneParComm, NEW r \in Reqs, NEW p \in Groupe(r), NEW d, NEW t, Pas(p, r, d, t),
           NEW v \in Cids, Reduire(p, r, v), contexte[p][r].etape # "erreur", d.etape # "chercher",
           Suivi(p, r), Pair(Appels(p, r)) => Echoue(p, r),
           Pair(Appels(p, r)) /\ v = MaxCid => d.etape = "erreur"
    PROVE  AppelsInv(p, r)'
  <1> USE DEF Inv
  <1>0. PICK n : n = Appels(p, r)
    OBVIOUS
  <1>1. /\ contexte'[p][r] = d /\ n \in Nat /\ Groupe(r)' = Groupe(r)
        /\ Appels(p, r)' = n + 1 /\ Donne(p, r, n + 1)' = v
        /\ \A k \in 1 .. n : Donne(p, r, k)' = Donne(p, r, k)
    <2>1. p \in Procs /\ Groupe(r)' = Groupe(r)
      BY ModeType DEF Pas, Comm, Groupe
    <2>2. contexte'[p][r] = d
      BY <2>1 DEF Pas, TypesInv
    <2>3. n \in Nat /\ \A k \in 1 .. n : Donne(p, r, k)' = Donne(p, r, k)
      BY <1>0, AppelsType, PasAppels
    <2>4. Appels(p, r)' = n + 1 /\ Donne(p, r, n + 1)' = v
      BY <1>0, PasAppels
    <2> QED BY <2>1, <2>2, <2>3, <2>4
  <1>2. \A q \in Groupe(r) :
          /\ Appels(q, r) \in Nat /\ Appels(q, r)' \in Nat /\ Appels(q, r)' >= Appels(q, r)
          /\ \A k \in 1 .. Appels(q, r) : Donne(q, r, k)' = Donne(q, r, k)
    BY PasAppels, AppelsType
  <1>3. AppelsInv(p, r)
    OBVIOUS
  <1>4. \A q \in Groupe(r) : n + 1 <= Appels(q, r)' + 1
    BY <1>0, <1>1, <1>2 DEF Suivi
  <1>5. ASSUME NEW k \in 1 .. n + 1, Pair(k), k < n + 1
        PROVE  \E q \in Groupe(r) : Appels(q, r)' >= k /\ Donne(q, r, k)' = 0
    <2>1. PICK q \in Groupe(r) : Appels(q, r) >= k /\ Donne(q, r, k) = 0
      <3>1. CASE k < n
        BY <1>0, <1>1, <1>3, <1>5, <3>1 DEF AppelsInv
      <3>2. CASE k = n
        BY <1>0, <1>5, <3>2 DEF Echoue
      <3> QED BY <1>1, <1>5, <3>1, <3>2
    <2>2. k \in 1 .. Appels(q, r) /\ Appels(q, r)' >= k
      BY <1>1, <1>2, <2>1
    <2> QED BY <1>2, <2>1, <2>2
  <1>6. ASSUME NEW k \in 1 .. n + 1, ~ Pair(k), Donne(p, r, k)' = MaxCid
        PROVE  d.etape = "erreur" /\ k = n + 1
    <2>1. CASE k \in 1 .. n
      <3>1. Donne(p, r, k) = MaxCid
        BY <1>1, <1>6, <2>1
      <3> QED BY <1>0, <1>3, <1>6, <2>1, <3>1 DEF AppelsInv
    <2>2. CASE k = n + 1
      <3>1. v = MaxCid
        BY <1>1, <1>6, <2>2
      <3>2. Pair(n)
        BY <1>1, <1>6, <2>2 DEF Pair
      <3> QED BY <1>0, <2>2, <3>1, <3>2
    <2> QED BY <1>1, <2>1, <2>2
  <1> QED BY <1>1, <1>4, <1>5, <1>6 DEF AppelsInv

-----------------------------------------------------------------------------
(* ompi_comm_allreduce_getnextcid, with the table and the start it is       *)
(* given, after a round in which somebody failed or at the beginning.       *)
LEMMA GetnextcidInv ==
    ASSUME Inv, UneParComm, NEW p \in Procs, actives[p] # <<>>, mode' = mode,
           NEW r \in Reqs, r = Visitee(p), contexte[p][r].etape \in {"chercher", "conclure"},
           Pair(Appels(p, r)), Suivi(p, r), Echoue(p, r),
           NEW table \in [Cids -> Occupants], NEW start \in 0 .. MaxCid + 1,
           \A i \in 0 .. MaxCid - 1 :
             communicators[p][i] \notin {Libre, r} => table[i] = communicators[p][i],
           GetnextcidDe(p, r, table, start)
    PROVE  Inv'
  <1> USE DEF Inv
  <1>0. /\ p \in Groupe(r) /\ contexte[p][r] \in Contextes /\ MaxCid \in Nat \ {0}
        /\ start \in Nat
    BY VisiteeType, MaxCidAssumption DEF TypesInv
  <1>1. CASE Retenir(p, r, table, start)
    <2> DEFINE d == [contexte[p][r] EXCEPT !.etape = "chercher", !.appel = 0, !.start = start]
    <2>1. /\ d \in Contextes /\ d.etape = "chercher"
          /\ contexte' = [contexte EXCEPT ![p][r] = d]
          /\ communicators' = [communicators EXCEPT ![p] = table]
          /\ Passer(p) /\ UNCHANGED reductions
      BY <1>0, <1>1 DEF Retenir, Contextes, Etapes
    <2> HIDE DEF d
    <2>2. Pas(p, r, d, table)
      BY <2>1 DEF Pas
    <2>3. AppelsInv(p, r)'
      BY <1>0, <2>1, <2>2, SansAppel
    <2>4. EtapeInv(p, r)'
      <3>1. Appels(p, r)' = Appels(p, r)
        BY <1>0, <2>1, <2>2, PasAppels
      <3>2. contexte'[p][r] = d
        BY <1>0, <2>1 DEF TypesInv
      <3> QED BY <2>1, <3>1, <3>2 DEF EtapeInv
    <2> QED BY <1>0, <2>1, <2>2, <2>3, <2>4, PasInv, PasserListes
  <1>2. CASE Reserver(p, r, table, start)
    <2>0. PICK n, local : n = Appels(p, r) /\ local = IF Participe(p, r) THEN Chercher(table, start) ELSE 0
      OBVIOUS
    <2> DEFINE d == [contexte[p][r] EXCEPT !.etape = "verifier", !.appel = n + 1,
                                           !.start = start, !.nextlocal = local]
               t == IF Participe(p, r) THEN [table EXCEPT ![local] = r] ELSE table
    <2>1. /\ local \in Cids /\ local # MaxCid
          /\ Participe(p, r) => table[local] = Libre
      BY <1>0, <1>2, <2>0, ChercherProprietes DEF Reserver, Cids
    <2>2. n \in Nat
      BY <1>0, <2>0, AppelsType
    <2>3. /\ contexte' = [contexte EXCEPT ![p][r] = d]
          /\ communicators' = [communicators EXCEPT ![p] = t]
          /\ Passer(p) /\ Reduire(p, r, local)
      BY <1>2, <2>0 DEF Reserver, Appel, Appels
    <2>4. d \in Contextes /\ d.etape = "verifier" /\ d.appel = n + 1 /\ d.nextlocal = local
      <3>1. n + 1 \in Nat /\ "verifier" \in Etapes
        BY <2>2 DEF Etapes
      <3>2. d \in Contextes
        BY <1>0, <2>1, <3>1 DEF Contextes
      <3>3. d.etape = "verifier" /\ d.appel = n + 1 /\ d.nextlocal = local
        BY <1>0 DEF Contextes
      <3> QED BY <3>2, <3>3
    <2>5. t \in [Cids -> Occupants] /\ (Participe(p, r) => t[local] = r)
      BY <2>1 DEF Occupants
    <2>6. \A i \in 0 .. MaxCid - 1 : communicators[p][i] \notin {Libre, r} => t[i] = communicators[p][i]
      <3> SUFFICES ASSUME NEW i \in 0 .. MaxCid - 1, communicators[p][i] \notin {Libre, r}
                   PROVE  t[i] = communicators[p][i]
        OBVIOUS
      <3>1. table[i] = communicators[p][i] /\ i \in Cids
        BY <1>0 DEF Cids
      <3> QED BY <2>1, <3>1
    <2> HIDE DEF d, t
    <2>7. Pas(p, r, d, t)
      BY <2>1, <2>3, <2>4, <2>5, <2>6 DEF Pas
    <2>8. AppelsInv(p, r)'
      BY <1>0, <2>1, <2>3, <2>4, <2>7, AvecAppel
    <2>9. EtapeInv(p, r)'
      <3>1. Appels(p, r)' = n + 1 /\ Donne(p, r, n + 1)' = local
        BY <1>0, <2>0, <2>1, <2>2, <2>3, <2>7, PasAppels
      <3>2. contexte'[p][r] = d /\ communicators'[p] = t /\ (Participe(p, r)' <=> Participe(p, r))
        BY <1>0, <2>3 DEF TypesInv, Participe
      <3>3. ~ Pair(n + 1)
        BY <2>0, <2>2 DEF Pair
      <3> QED BY <2>1, <2>4, <2>5, <3>1, <3>2, <3>3 DEF EtapeInv
    <2> QED BY <1>0, <2>3, <2>7, <2>8, <2>9, PasInv, PasserListes
  <1>3. CASE Renoncer(p, r, table, start)
    <2>0. PICK n : n = Appels(p, r)
      OBVIOUS
    <2> DEFINE d == [contexte[p][r] EXCEPT !.etape = "erreur", !.start = start]
    <2>1. /\ d \in Contextes /\ d.etape = "erreur"
          /\ contexte' = [contexte EXCEPT ![p][r] = d]
          /\ communicators' = [communicators EXCEPT ![p] = table]
          /\ Quitter(p) /\ Reduire(p, r, MaxCid)
      BY <1>0, <1>3 DEF Renoncer, Contextes, Etapes
    <2> HIDE DEF d
    <2>2. Pas(p, r, d, table) /\ MaxCid \in Cids /\ n \in Nat
      BY <1>0, <2>0, <2>1, AppelsType DEF Pas, Cids
    <2>3. AppelsInv(p, r)'
      BY <1>0, <2>1, <2>2, AvecAppel
    <2>4. EtapeInv(p, r)'
      <3>1. Appels(p, r)' = n + 1
        BY <1>0, <2>0, <2>1, <2>2, PasAppels
      <3>2. contexte'[p][r] = d
        BY <1>0, <2>1 DEF TypesInv
      <3>3. ~ Pair(n + 1)
        BY <2>0, <2>2 DEF Pair
      <3> QED BY <2>1, <3>1, <3>2, <3>3 DEF EtapeInv
    <2> QED BY <1>0, <2>1, <2>2, <2>3, <2>4, PasInv, QuitterListes
  <1> QED BY <1>1, <1>2, <1>3 DEF GetnextcidDe

(* What the reductions find.                                                *)
LEMMA CompletSuivi ==
    ASSUME Inv, NEW r \in Reqs, NEW p \in Groupe(r), Complet(p, r), contexte[p][r].appel > 0,
           contexte[p][r].appel = Appels(p, r)
    PROVE  /\ Suivi(p, r)
           /\ EstMax(r, Appels(p, r), MaxDe(p, r)) /\ MaxDe(p, r) \in Cids
           /\ MinDe(p, r) = 0 => Echoue(p, r)
           /\ MinDe(p, r) = 1 => \A q \in Groupe(r) : Donne(q, r, Appels(p, r)) # 0
  <1> USE DEF Inv
  <1> DEFINE k == Appels(p, r)
             D == {reductions[Comm(r)][q][k] : q \in Groupe(r)}
  <1>1. \A q \in Groupe(r) : k \in Nat \ {0} /\ Appels(q, r) >= k /\ Donne(q, r, k) \in Cids
    <2>1. k \in Nat \ {0} /\ \A q \in Groupe(r) : Appels(q, r) \in Nat
      BY AppelsType
    <2>2. \A q \in Groupe(r) : Appels(q, r) >= k
      BY <2>1 DEF Complet, Appels
    <2>3. \A q \in Groupe(r) : k \in 1 .. Appels(q, r)
      BY <2>1, <2>2
    <2> HIDE DEF k
    <2> QED BY <2>1, <2>2, <2>3, AppelsType
  <1>2. Donnes(p, r) = D
    BY DEF Donnes
  <1>3. D = {Donne(q, r, k) : q \in Groupe(r)}
    BY DEF Donne
  <1> HIDE DEF D, k
  <1>4. D \subseteq 0 .. MaxCid /\ D # {} /\ D \subseteq Nat /\ MaxCid \in Nat
    BY <1>1, <1>3, MaxCidAssumption DEF Cids
  <1>5. MaxDe(p, r) \in D /\ \A x \in D : x <= MaxDe(p, r)
    <2>1. \E m \in D : \A x \in D : x <= m
      BY <1>4, PlusGrand
    <2> QED BY <1>2, <2>1 DEF MaxDe
  <1>6. MinDe(p, r) \in D /\ \A x \in D : MinDe(p, r) <= x
    <2>1. \E m \in D : \A x \in D : m <= x
      BY <1>4, PlusPetit
    <2> QED BY <1>2, <2>1 DEF MinDe
  <1>7. EstMax(r, k, MaxDe(p, r)) /\ MaxDe(p, r) \in Cids
    BY <1>1, <1>3, <1>4, <1>5 DEF EstMax, Cids
  <1>8. MinDe(p, r) = 0 => \E q \in Groupe(r) : Donne(q, r, k) = 0
    BY <1>3, <1>6
  <1>9. MinDe(p, r) = 1 => \A q \in Groupe(r) : Donne(q, r, k) # 0
    BY <1>1, <1>3, <1>6
  <1> QED BY <1>1, <1>7, <1>8, <1>9 DEF k, Suivi, Echoue

-----------------------------------------------------------------------------
LEMMA InitInv == Init => Inv
  <1> SUFFICES ASSUME Init PROVE Inv
    OBVIOUS
  <1>1. mode \in Modes /\ MaxCid \in Nat \ {0} /\ Infini \in Nat
    BY MaxCidAssumption DEF Init
  <1>2. TypesInv
    <2>1. communicators \in [Procs -> [Cids -> Occupants]]
      BY DEF Init, Cids, Occupants
    <2>2. contexte \in [Procs -> [Reqs -> Contextes]]
      BY <1>1 DEF Init, Contextes, Etapes, Cids
    <2>3. actives \in [Procs -> Seq(Reqs)] /\ curseur \in [Procs -> Nat]
          /\ \A p \in Procs : curseur[p] = 1 /\ Len(actives[p]) = 0
      BY DEF Init
    <2>4. reductions \in [DOMAIN mode.groupe -> [Procs -> Seq(Cids)]]
      BY DEF Init
    <2> QED BY <1>1, <2>1, <2>2, <2>3, <2>4 DEF TypesInv
  <1>3. ASSUME NEW r \in Reqs, NEW p \in Groupe(r)
        PROVE  EtapeInv(p, r) /\ AppelsInv(p, r)
    <2>1. contexte[p][r].etape = "avant" /\ \A q \in Groupe(r) : Appels(q, r) = 0
      <3>1. Comm(r) \in DOMAIN mode.groupe /\ Groupe(r) \subseteq Procs
        BY <1>2, ModeType
      <3>2. \A q \in Procs : reductions[Comm(r)][q] = <<>>
        BY <3>1 DEF Init
      <3> QED BY <3>1, <3>2 DEF Init, Appels
    <2>2. EtapeInv(p, r)
      BY <2>1 DEF EtapeInv
    <2>3. AppelsInv(p, r)
      BY <2>1 DEF AppelsInv
    <2> QED BY <2>2, <2>3
  <1>4. PrisInv
    <2> SUFFICES ASSUME NEW p \in Procs, NEW i \in mode.pris[p]
                 PROVE  communicators[p][i] = Pris
      BY DEF PrisInv
    <2>1. i \in 0 .. MaxCid
      BY <1>1, ModesAssumption
    <2> QED BY <2>1 DEF Init
  <1> QED BY <1>2, <1>3, <1>4 DEF Inv

(* A creation that is asked for.                                            *)
LEMMA NextcidInv ==
    ASSUME Inv, UneParComm, NEW p \in Procs, NEW i \in DOMAIN mode.fils[p], Nextcid_nb(p, i)
    PROVE  Inv'
  <1> USE DEF Inv
  <1> DEFINE fil == mode.fils[p][i]
  <1>1. PICK k \in 1 .. Len(fil) :
          /\ contexte[p][fil[k]].etape = "avant"
          /\ contexte' = [contexte EXCEPT ![p][fil[k]] = [@ EXCEPT !.etape = "chercher",
                                                                  !.start = LowestFree(p)]]
          /\ actives' = [actives EXCEPT ![p] = Append(@, fil[k])]
          /\ UNCHANGED <<mode, communicators, lowest_id, curseur, reductions>>
    BY DEF Nextcid_nb
  <1>2. PICK r : r = fil[k]
    OBVIOUS
  <1>3. r \in Reqs /\ p \in Groupe(r)
    <2>1. mode \in Modes
      BY DEF TypesInv
    <2>2. mode.fils[p] \in Seq(Seq(Reqs))
      BY <2>1, ModesAssumption
    <2>3. fil \in Seq(Reqs)
      BY <2>2
    <2>4. k \in DOMAIN fil
      BY <2>3
    <2> QED BY <1>2, <2>1, <2>3, <2>4, ModesAssumption DEF Groupe, Comm
  <1> DEFINE d == [contexte[p][r] EXCEPT !.etape = "chercher", !.start = LowestFree(p)]
             t == communicators[p]
  <1>4. /\ contexte' = [contexte EXCEPT ![p][r] = d] /\ contexte[p][r].etape = "avant"
        /\ actives' = [actives EXCEPT ![p] = Append(@, r)]
    BY <1>1, <1>2
  <1>5. d \in Contextes /\ d.etape = "chercher"
    <2>1. contexte[p][r] \in Contextes
      BY <1>3 DEF TypesInv
    <2>2. LowestFree(p) \in 0 .. MaxCid + 1
      BY ChercherProprietes, MaxCidAssumption DEF LowestFree, Cids
    <2> QED BY <2>1, <2>2 DEF Contextes, Etapes
  <1> HIDE DEF d
  <1>6. Pas(p, r, d, t)
    BY <1>1, <1>4, <1>5 DEF Pas, TypesInv
  <1>7. Appels(p, r) = 0
    BY <1>3, <1>4 DEF EtapeInv
  <1>8. AppelsInv(p, r)'
    <2>1. Suivi(p, r) /\ Echoue(p, r)
      BY <1>3, <1>7, AppelsType DEF Suivi, Echoue
    <2> QED BY <1>1, <1>3, <1>4, <1>6, <2>1, SansAppel
  <1>9. EtapeInv(p, r)'
    <2>1. Appels(p, r)' = 0
      BY <1>1, <1>3, <1>6, <1>7, PasAppels
    <2>2. contexte'[p][r] = d
      BY <1>3, <1>4 DEF TypesInv
    <2>3. Pair(0)
      BY DEF Pair
    <2> QED BY <1>5, <2>1, <2>2, <2>3 DEF EtapeInv
  <1>10. ListesInv(actives', curseur')
    <2> DEFINE a == actives[p]
    <2>1. a \in Seq(Reqs) /\ curseur[p] \in Nat /\ (curseur[p] = 1 \/ curseur[p] \in 1 .. Len(a))
          /\ \A j \in 1 .. Len(a) : p \in Groupe(a[j])
      BY DEF TypesInv
    <2>2. /\ Append(a, r) \in Seq(Reqs) /\ Len(Append(a, r)) = Len(a) + 1 /\ Len(a) \in Nat
          /\ Append(a, r)[Len(a) + 1] = r /\ \A j \in 1 .. Len(a) : Append(a, r)[j] = a[j]
      BY <1>3, <2>1
    <2>3. curseur[p] = 1 \/ curseur[p] \in 1 .. Len(Append(a, r))
      BY <2>1, <2>2
    <2>4. \A j \in 1 .. Len(Append(a, r)) : p \in Groupe(Append(a, r)[j])
      BY <1>3, <2>1, <2>2
    <2>5. actives' = [actives EXCEPT ![p] = Append(a, r)] /\ curseur' = curseur
      BY <1>1, <1>4
    <2> HIDE DEF a
    <2> QED BY <2>2, <2>3, <2>4, <2>5 DEF TypesInv, ListesInv
  <1> QED BY <1>3, <1>6, <1>8, <1>9, <1>10, PasInv

(* A request that is not complete waits.                                    *)
LEMMA Inchange ==
    ASSUME Inv, ListesInv(actives', curseur'), UNCHANGED <<mode, communicators, contexte, reductions>>
    PROVE  Inv'
  <1>1. \A r \in Reqs : Groupe(r)' = Groupe(r)
    BY DEF Groupe, Comm
  <1>2. TypesInv'
    <2>1. /\ actives' \in [Procs -> Seq(Reqs)] /\ curseur' \in [Procs -> Nat]
          /\ \A q \in Procs :
               /\ curseur'[q] = 1 \/ curseur'[q] \in 1 .. Len(actives'[q])
               /\ \A i \in 1 .. Len(actives'[q]) : q \in mode.groupe[mode.comm[actives'[q][i]]]
      BY DEF ListesInv, Groupe, Comm
    <2> QED BY <2>1 DEF Inv, TypesInv, Groupe, Comm
  <1>3. \A r \in Reqs : \A p \in Groupe(r) : EtapeInv(p, r)' /\ AppelsInv(p, r)'
    <2> SUFFICES ASSUME NEW r \in Reqs, NEW p \in Groupe(r)
                 PROVE  EtapeInv(p, r)' /\ AppelsInv(p, r)'
      OBVIOUS
    <2>1. EtapeInv(p, r) /\ AppelsInv(p, r)
      BY DEF Inv
    <2>2. EtapeInv(p, r)'
      BY <2>1 DEF EtapeInv, EstMax, Appels, Donne, Participe, Groupe, Comm
    <2>3. AppelsInv(p, r)'
      BY <2>1 DEF AppelsInv, Appels, Donne, Groupe, Comm
    <2> QED BY <2>2, <2>3
  <1>4. PrisInv'
    BY DEF Inv, PrisInv
  <1> QED BY <1>1, <1>2, <1>3, <1>4 DEF Inv

LEMMA IncompletInv ==
    ASSUME Inv, NEW p \in Procs, Incomplet(p)
    PROVE  Inv'
  <1>1. TypesInv /\ actives[p] # <<>> /\ Passer(p)
        /\ UNCHANGED <<mode, communicators, contexte, reductions>>
    BY DEF Inv, Incomplet
  <1> QED BY <1>1, PasserListes, Inchange

LEMMA GetnextcidActionInv ==
    ASSUME Inv, UneParComm, NEW p \in Procs, Getnextcid(p)
    PROVE  Inv'
  <1> USE DEF Inv
  <1>0. PICK r : r = Visitee(p)
    OBVIOUS
  <1>1. /\ actives[p] # <<>> /\ contexte[p][r].etape = "chercher" /\ mode' = mode
        /\ GetnextcidDe(p, r, communicators[p], contexte[p][r].start)
    BY <1>0 DEF Getnextcid, Visite
  <1>2. r \in Reqs /\ p \in Groupe(r) /\ contexte[p][r] \in Contextes
        /\ communicators[p] \in [Cids -> Occupants]
    BY <1>0, <1>1, VisiteeType DEF TypesInv
  <1>3. contexte[p][r].start \in 0 .. MaxCid + 1
    BY <1>2 DEF Contextes
  <1>4. Pair(Appels(p, r)) /\ EtapeInv(p, r) /\ AppelsInv(p, r)
    BY <1>1, <1>2 DEF EtapeInv
  <1>5. Suivi(p, r)
    BY <1>1, <1>4 DEF AppelsInv, Suivi
  <1>6. Echoue(p, r)
    <2>1. Appels(p, r) > 0 => Appels(p, r) \in 1 .. Appels(p, r)
      BY <1>2, AppelsType
    <2> QED BY <1>1, <1>4, <2>1 DEF AppelsInv, Echoue
  <1> QED BY <1>0, <1>1, <1>2, <1>3, <1>4, <1>5, <1>6, GetnextcidInv

(* ompi_comm_checkcid: the common id is the greatest of those all have      *)
(* reserved, and who has another tries it.                                  *)
LEMMA CheckcidInv ==
    ASSUME Inv, UneParComm, NEW p \in Procs, Checkcid(p)
    PROVE  Inv'
  <1> USE DEF Inv
  <1>0. PICK r, n, local, commun :
          /\ r = Visitee(p) /\ n = Appels(p, r)
          /\ local = contexte[p][r].nextlocal /\ commun = MaxDe(p, r)
    OBVIOUS
  <1> DEFINE table == IF ~ Participe(p, r) \/ commun = local THEN communicators[p]
                      ELSE TestAndSet([communicators[p] EXCEPT ![local] = Libre], commun, r)
             flag == IF ~ Participe(p, r) \/ table[commun] = r THEN 1 ELSE 0
             d == [contexte[p][r] EXCEPT !.etape = "conclure", !.appel = n + 1,
                                         !.nextcid = commun, !.flag = flag]
  <1>1. /\ actives[p] # <<>> /\ contexte[p][r].etape = "verifier" /\ mode' = mode
        /\ Complet(p, r) /\ Passer(p) /\ Reduire(p, r, flag)
        /\ communicators' = [communicators EXCEPT ![p] = table]
        /\ contexte' = [contexte EXCEPT ![p][r] = d]
    BY <1>0 DEF Checkcid, Visite, Appel, Appels
  <1>2. /\ r \in Reqs /\ p \in Groupe(r) /\ contexte[p][r] \in Contextes
        /\ communicators[p] \in [Cids -> Occupants] /\ n \in Nat /\ MaxCid \in Nat \ {0}
    BY <1>0, <1>1, VisiteeType, AppelsType, MaxCidAssumption DEF TypesInv
  <1>3. /\ ~ Pair(n) /\ contexte[p][r].appel = n /\ n > 0
        /\ local \in Cids /\ local # MaxCid
        /\ Participe(p, r) => communicators[p][local] = r
    <2>1. ~ Pair(n) /\ contexte[p][r].appel = n /\ local # MaxCid
          /\ (Participe(p, r) => communicators[p][local] = r)
      BY <1>0, <1>1, <1>2 DEF EtapeInv
    <2>2. n > 0
      BY <1>2, <2>1 DEF Pair
    <2> QED BY <1>0, <1>2, <2>1, <2>2 DEF Contextes
  <1>4. Suivi(p, r) /\ EstMax(r, n, commun) /\ commun \in Cids
    BY <1>0, <1>1, <1>2, <1>3, CompletSuivi
  <1>5. /\ table \in [Cids -> Occupants]
        /\ \A i \in Cids : communicators[p][i] \notin {Libre, r} => table[i] = communicators[p][i]
    <2> DEFINE u == [communicators[p] EXCEPT ![local] = Libre]
    <2>1. /\ u \in [Cids -> Occupants]
          /\ \A i \in Cids : i # local => u[i] = communicators[p][i]
      BY <1>2, <1>3 DEF Occupants
    <2>2. Participe(p, r) =>
            \A i \in Cids : communicators[p][i] \notin {Libre, r} => u[i] = communicators[p][i]
      BY <1>3, <2>1
    <2> HIDE DEF u
    <2>3. TestAndSet(u, commun, r) \in [Cids -> Occupants]
          /\ \A i \in Cids : u[i] # Libre => TestAndSet(u, commun, r)[i] = u[i]
      BY <1>2, <1>4, <2>1 DEF TestAndSet, Occupants
    <2>4. table = IF ~ Participe(p, r) \/ commun = local THEN communicators[p]
                  ELSE TestAndSet(u, commun, r)
      BY DEF u
    <2> HIDE DEF table
    <2> QED BY <1>2, <2>2, <2>3, <2>4
  <1>6. flag \in Cids /\ flag \in {0, 1} /\ (Participe(p, r) /\ flag = 1 => table[commun] = r)
    <2>1. 0 \in Cids /\ 1 \in Cids
      BY <1>2 DEF Cids
    <2> HIDE DEF table
    <2> QED BY <2>1
  <1> HIDE DEF table, flag
  <1>7. d \in Contextes /\ d.etape = "conclure" /\ d.appel = n + 1 /\ d.nextcid = commun /\ d.flag = flag
    <2>1. n + 1 \in Nat /\ "conclure" \in Etapes
      BY <1>2 DEF Etapes
    <2>2. d \in Contextes
      BY <1>2, <1>4, <1>6, <2>1 DEF Contextes
    <2>3. d.etape = "conclure" /\ d.appel = n + 1 /\ d.nextcid = commun /\ d.flag = flag
      BY <1>2 DEF Contextes
    <2> QED BY <2>2, <2>3
  <1> HIDE DEF d
  <1>8. Pas(p, r, d, table)
    <2>1. 0 .. MaxCid - 1 \subseteq Cids
      BY <1>2 DEF Cids
    <2> QED BY <1>1, <1>5, <1>6, <1>7, <2>1 DEF Pas
  <1>9. AppelsInv(p, r)'
    BY <1>0, <1>1, <1>2, <1>3, <1>4, <1>6, <1>7, <1>8, AvecAppel
  <1>10. EtapeInv(p, r)'
    <2>1. Appels(p, r)' = n + 1 /\ Donne(p, r, n + 1)' = flag
      BY <1>0, <1>1, <1>2, <1>6, <1>8, PasAppels
    <2>2. contexte'[p][r] = d /\ communicators'[p] = table /\ (Participe(p, r)' <=> Participe(p, r))
      BY <1>1, <1>2 DEF TypesInv, Participe
    <2>3. Pair(n + 1) /\ n + 1 > 0 /\ (n + 1) - 1 = n
      BY <1>2, <1>3 DEF Pair
    <2>4. EstMax(r, n, commun)'
      BY <1>2, <1>3, <1>4, <1>8, MaxGarde
    <2> QED BY <1>6, <1>7, <2>1, <2>2, <2>3, <2>4 DEF EtapeInv
  <1> QED BY <1>1, <1>2, <1>8, <1>9, <1>10, PasInv, PasserListes

(* ompi_comm_nextcid_check_flag: where a process is when it looks at the    *)
(* flags of a round.                                                        *)
LEMMA ConclureType ==
    ASSUME Inv, NEW p \in Procs, Visite(p, "conclure"), NEW r, r = Visitee(p), Complet(p, r)
    PROVE  /\ r \in Reqs /\ p \in Groupe(r) /\ contexte[p][r] \in Contextes
           /\ actives[p] # <<>> /\ contexte[p][r].etape = "conclure"
           /\ communicators[p] \in [Cids -> Occupants] /\ MaxCid \in Nat \ {0}
           /\ Appels(p, r) \in Nat \ {0} /\ Appels(p, r) - 1 \in Nat \ {0}
           /\ Pair(Appels(p, r)) /\ contexte[p][r].appel = Appels(p, r)
           /\ Suivi(p, r)
  <1> USE DEF Inv
  <1>1. actives[p] # <<>> /\ contexte[p][r].etape = "conclure"
    BY DEF Visite
  <1>2. /\ r \in Reqs /\ p \in Groupe(r) /\ contexte[p][r] \in Contextes
        /\ communicators[p] \in [Cids -> Occupants] /\ MaxCid \in Nat \ {0}
        /\ Appels(p, r) \in Nat
    BY <1>1, VisiteeType, AppelsType, MaxCidAssumption DEF TypesInv
  <1>3. Pair(Appels(p, r)) /\ Appels(p, r) > 0 /\ contexte[p][r].appel = Appels(p, r)
    BY <1>1, <1>2 DEF EtapeInv
  <1>4. Appels(p, r) - 1 \in Nat \ {0}
    BY <1>2, <1>3 DEF Pair
  <1>5. Suivi(p, r)
    BY <1>2, <1>3, CompletSuivi
  <1> QED BY <1>1, <1>2, <1>3, <1>4, <1>5

LEMMA AttribuerInv ==
    ASSUME Inv, UneParComm, NEW p \in Procs, Attribuer(p)
    PROVE  Inv'
  <1> USE DEF Inv
  <1>0. PICK r, n, c, cid :
          /\ r = Visitee(p) /\ n = Appels(p, r) /\ c = contexte[p][r]
          /\ cid = IF Participe(p, r) THEN contexte[p][r].nextcid
                   ELSE Chercher(communicators[p], contexte[p][r].start)
    OBVIOUS
  <1> DEFINE d == [c EXCEPT !.etape = "fini", !.nextcid = cid]
             t == [communicators[p] EXCEPT ![cid] = r]
  <1>1. /\ Visite(p, "conclure") /\ Complet(p, r) /\ MinDe(p, r) = 1 /\ Quitter(p)
        /\ communicators' = [communicators EXCEPT ![p] = t]
        /\ contexte' = [contexte EXCEPT ![p][r] = d]
        /\ UNCHANGED <<mode, reductions>>
    BY <1>0 DEF Attribuer
  <1>2. /\ r \in Reqs /\ p \in Groupe(r) /\ c \in Contextes
        /\ actives[p] # <<>> /\ c.etape = "conclure"
        /\ communicators[p] \in [Cids -> Occupants] /\ MaxCid \in Nat \ {0}
        /\ n \in Nat \ {0} /\ n - 1 \in Nat \ {0} /\ Pair(n) /\ c.appel = n /\ Suivi(p, r)
    BY <1>0, <1>1, ConclureType
  <1>3. \A q \in Groupe(r) : Appels(q, r) >= n /\ Donne(q, r, n) # 0
    <2>1. \A q \in Groupe(r) : Appels(q, r) \in Nat
      BY <1>2, AppelsType
    <2>2. \A q \in Groupe(r) : Donne(q, r, n) # 0
      BY <1>0, <1>1, <1>2, CompletSuivi
    <2> QED BY <1>0, <1>2, <2>1, <2>2 DEF Suivi
  <1>4. /\ Donne(p, r, n) = c.flag /\ EstMax(r, n - 1, c.nextcid)
        /\ Participe(p, r) /\ c.flag = 1 /\ c.nextcid # MaxCid => communicators[p][c.nextcid] = r
    BY <1>0, <1>2 DEF EtapeInv
  <1>5. c.nextcid # MaxCid
    <2> SUFFICES ASSUME c.nextcid = MaxCid PROVE FALSE
      OBVIOUS
    <2>1. PICK q \in Groupe(r) : Donne(q, r, n - 1) = MaxCid /\ Appels(q, r) >= n - 1
      BY <1>4 DEF EstMax
    <2>2. Appels(q, r) \in Nat /\ Appels(q, r) >= n
      BY <1>2, <1>3, AppelsType
    <2>3. ~ Pair(n - 1) /\ n - 1 \in 1 .. Appels(q, r)
      BY <1>2, <2>2 DEF Pair
    <2>4. n - 1 = Appels(q, r)
      BY <1>2, <2>1, <2>3 DEF AppelsInv
    <2> QED BY <1>2, <2>2, <2>4
  <1>6. Participe(p, r) => communicators[p][c.nextcid] = r
    <2>1. c.flag \in {0, 1} /\ c.flag # 0
      BY <1>2, <1>3, <1>4 DEF Contextes
    <2> QED BY <1>4, <1>5, <2>1
  <1>7. cid \in Cids /\ (~ Participe(p, r) /\ cid # MaxCid => communicators[p][cid] = Libre)
    <2>1. c.nextcid \in Cids /\ c.start \in Nat
      BY <1>2 DEF Contextes
    <2> QED BY <1>0, <2>1, ChercherProprietes
  <1>8. t \in [Cids -> Occupants] /\ t[cid] = r
    BY <1>2, <1>7 DEF Occupants
  <1>9. \A i \in 0 .. MaxCid - 1 : communicators[p][i] \notin {Libre, r} => t[i] = communicators[p][i]
    <2> SUFFICES ASSUME NEW i \in 0 .. MaxCid - 1, communicators[p][i] \notin {Libre, r}
                 PROVE  t[i] = communicators[p][i]
      OBVIOUS
    <2>1. i \in Cids /\ i # MaxCid
      BY <1>2 DEF Cids
    <2>2. i # cid
      BY <1>0, <1>6, <1>7, <2>1
    <2> QED BY <1>2, <2>1, <2>2
  <1>10. d \in Contextes /\ d.etape = "fini" /\ d.nextcid = cid
    <2>1. "fini" \in Etapes
      BY DEF Etapes
    <2> QED BY <1>2, <1>7, <2>1 DEF Contextes
  <1> HIDE DEF d, t
  <1>11. Pas(p, r, d, t)
    BY <1>1, <1>8, <1>9, <1>10 DEF Pas
  <1>12. AppelsInv(p, r)'
    BY <1>0, <1>1, <1>2, <1>10, <1>11, SansAppel
  <1>13. EtapeInv(p, r)'
    <2>1. Appels(p, r)' = n
      BY <1>0, <1>1, <1>2, <1>11, PasAppels
    <2>2. contexte'[p][r] = d /\ communicators'[p] = t /\ (Participe(p, r)' <=> Participe(p, r))
      BY <1>1, <1>2 DEF TypesInv, Participe
    <2>3. EstMax(r, n - 1, c.nextcid)'
      <3>1. EstMax(r, n - 1, c.nextcid)
        BY <1>4
      <3> QED BY <1>2, <1>11, <3>1, MaxGarde
    <2>4. \A q \in Groupe(r)' : Appels(q, r)' >= n /\ Donne(q, r, n)' # 0
      BY <1>1, <1>3 DEF Groupe, Comm, Appels, Donne
    <2> QED BY <1>0, <1>2, <1>5, <1>8, <1>10, <2>1, <2>2, <2>3, <2>4 DEF EtapeInv
  <1> QED BY <1>1, <1>2, <1>11, <1>12, <1>13, PasInv, QuitterListes

(* After a round that failed, who could take the common id gives it back.   *)
LEMMA RecommencerInv ==
    ASSUME Inv, UneParComm, NEW p \in Procs, Recommencer(p)
    PROVE  Inv'
  <1> USE DEF Inv
  <1>0. PICK r, c : r = Visitee(p) /\ c = contexte[p][r]
    OBVIOUS
  <1>1. /\ Visite(p, "conclure") /\ Complet(p, r) /\ MinDe(p, r) = 0 /\ mode' = mode
        /\ GetnextcidDe(p, r, Rendue(p, r).table, Rendue(p, r).start)
    BY <1>0 DEF Recommencer
  <1>2. /\ r \in Reqs /\ p \in Groupe(r) /\ c \in Contextes
        /\ actives[p] # <<>> /\ c.etape = "conclure"
        /\ communicators[p] \in [Cids -> Occupants] /\ MaxCid \in Nat \ {0}
        /\ Pair(Appels(p, r)) /\ Suivi(p, r)
        /\ c.appel > 0 /\ c.appel = Appels(p, r)
    BY <1>0, <1>1, ConclureType
  <1>3. Echoue(p, r)
    BY <1>0, <1>1, <1>2, CompletSuivi
  <1>4. PICK table, start : table = Rendue(p, r).table /\ start = Rendue(p, r).start
    OBVIOUS
  <1>5. /\ table \in [Cids -> Occupants] /\ start \in 0 .. MaxCid + 1
        /\ \A i \in 0 .. MaxCid - 1 :
             communicators[p][i] \notin {Libre, r} => table[i] = communicators[p][i]
    <2>1. c.start \in 0 .. MaxCid + 1 /\ c.nextcid \in Cids
      BY <1>2 DEF Contextes
    <2>2. CASE Participe(p, r) /\ c.flag = 1
      <3>1. table = [communicators[p] EXCEPT ![c.nextcid] = Libre] /\ start = c.nextcid + 1
        BY <1>0, <1>4, <2>2 DEF Rendue
      <3>2. table \in [Cids -> Occupants] /\ start \in 0 .. MaxCid + 1
        BY <1>2, <2>1, <3>1 DEF Occupants, Cids
      <3>3. c.nextcid # MaxCid => communicators[p][c.nextcid] = r
        BY <1>0, <1>2, <2>2 DEF EtapeInv
      <3>4. ASSUME NEW i \in 0 .. MaxCid - 1, communicators[p][i] \notin {Libre, r}
            PROVE  table[i] = communicators[p][i]
        <4>1. i \in Cids /\ i # MaxCid
          BY <1>2 DEF Cids
        <4> QED BY <1>2, <3>1, <3>3, <3>4, <4>1
      <3> QED BY <3>2, <3>4
    <2>3. CASE ~ (Participe(p, r) /\ c.flag = 1)
      BY <1>0, <1>2, <1>4, <2>1, <2>3 DEF Rendue
    <2> QED BY <2>2, <2>3
  <1> QED BY <1>0, <1>1, <1>2, <1>3, <1>4, <1>5, GetnextcidInv

LEMMA StepInv ==
    ASSUME Inv, UneParComm, [Next]_vars
    PROVE  Inv'
  <1>1. CASE UNCHANGED vars
    <2>1. ListesInv(actives', curseur')
      BY <1>1 DEF Inv, TypesInv, ListesInv, vars
    <2> QED BY <1>1, <2>1, Inchange DEF vars
  <1>2. CASE Next
    <2>1. PICK p \in Procs : Proc(p)
      BY <1>2 DEF Next
    <2>2. ASSUME Progress(p) PROVE Inv'
      BY <2>2, IncompletInv, GetnextcidActionInv, CheckcidInv, AttribuerInv, RecommencerInv
         DEF Progress
    <2>3. ASSUME NEW i \in DOMAIN mode.fils[p], Nextcid_nb(p, i) PROVE Inv'
      BY <2>3, NextcidInv
    <2> QED BY <2>1, <2>2, <2>3 DEF Proc
  <1> QED BY <1>1, <1>2

LEMMA ModeGarde ==
    ASSUME Inv, [Next]_vars
    PROVE  mode' = mode
  BY DEF Next, Proc, Progress, Incomplet, Getnextcid, Checkcid, Attribuer, Recommencer,
         Nextcid_nb, vars

(* The rounds of the agreement, in every reachable state: where each        *)
(* process is in them, what it has given and which id is held for it.       *)
THEOREM InvTheorem == Spec /\ UneParComm => []Inv
  <1>1. Init => Inv
    BY InitInv
  <1>2. Inv /\ UneParComm /\ [Next]_vars => Inv'
    BY StepInv
  <1>3. Inv /\ UneParComm /\ [Next]_vars => UneParComm'
    BY ModeGarde DEF UneParComm, Comm
  <1> QED BY <1>1, <1>2, <1>3, PTL DEF Spec

-----------------------------------------------------------------------------
(* The greatest of what all have given in a call is one.                    *)
LEMMA MaxUnique ==
    ASSUME Inv, NEW r \in Reqs, NEW k \in Nat \ {0}, NEW m, NEW n, EstMax(r, k, m), EstMax(r, k, n)
    PROVE  m = n
  <1>1. PICK x \in Groupe(r) : Donne(x, r, k) = m
    BY DEF EstMax
  <1>2. PICK y \in Groupe(r) : Donne(y, r, k) = n
    BY DEF EstMax
  <1>3. \A q \in Groupe(r) : Donne(q, r, k) \in Cids
    <2> SUFFICES ASSUME NEW q \in Groupe(r) PROVE Donne(q, r, k) \in Cids
      OBVIOUS
    <2>1. Appels(q, r) \in Nat /\ Appels(q, r) >= k
          /\ \A j \in 1 .. Appels(q, r) : Donne(q, r, j) \in Cids
      BY AppelsType DEF Inv, EstMax
    <2> QED BY <2>1
  <1>4. m \in Cids /\ n \in Cids /\ m <= n /\ n <= m
    BY <1>1, <1>2, <1>3 DEF EstMax
  <1> QED BY <1>4, MaxCidAssumption DEF Cids

(* The flags of the last round of a process that has the id were all set:   *)
(* no other has gone on to a round after it, nor given up, and those that   *)
(* have not looked at these flags yet hold the id.                          *)
LEMMA AccordInv ==
    ASSUME Inv
    PROVE  Accord
  <1> USE DEF Inv
  <1> SUFFICES ASSUME NEW r \in Reqs, NEW p \in Procs, contexte[p][r].etape = "fini",
                      Participe(p, r), NEW q \in mode.membres[r]
               PROVE  /\ communicators[q][contexte[p][r].nextcid] = r
                      /\ contexte[q][r].nextcid = contexte[p][r].nextcid
                      /\ contexte[q][r].etape # "erreur"
    BY DEF Accord
  <1>1. PICK n, m, c, d : /\ n = Appels(p, r) /\ m = Appels(q, r)
                          /\ c = contexte[p][r] /\ d = contexte[q][r]
    OBVIOUS
  <1>2. p \in Groupe(r) /\ q \in Groupe(r) /\ Participe(q, r) /\ q \in Procs
    BY ModeType DEF Participe
  <1>3. n \in Nat /\ m \in Nat /\ d \in Contextes
    BY <1>1, <1>2, AppelsType DEF TypesInv
  <1>4. /\ Pair(n) /\ n > 0 /\ EstMax(r, n - 1, c.nextcid) /\ c.nextcid # MaxCid
        /\ \A x \in Groupe(r) : Appels(x, r) >= n /\ Donne(x, r, n) # 0
    BY <1>1, <1>2 DEF EtapeInv
  <1>5. n - 1 \in Nat \ {0} /\ m >= n
    BY <1>1, <1>2, <1>3, <1>4 DEF Pair
  <1>6. m = n /\ d.etape # "chercher"
    <2> SUFFICES ASSUME n < m \/ d.etape = "chercher" PROVE FALSE
      BY <1>3, <1>5
    <2>1. n \in 1 .. m
      BY <1>3, <1>4, <1>5
    <2>2. \E x \in Groupe(r) : Donne(x, r, n) = 0
      BY <1>1, <1>2, <1>4, <2>1 DEF AppelsInv
    <2> QED BY <1>4, <2>2
  <1>7. EtapeInv(q, r)
    BY <1>2
  <1>8. d.etape \in {"conclure", "fini"}
    <2>1. d.etape \notin {"avant", "verifier", "erreur"}
      BY <1>1, <1>4, <1>6, <1>7 DEF EtapeInv
    <2> QED BY <1>3, <1>6, <2>1 DEF Contextes, Etapes
  <1>9. CASE d.etape = "conclure"
    <2>1. d.flag # 0 /\ EstMax(r, n - 1, d.nextcid)
      BY <1>1, <1>2, <1>4, <1>6, <1>7, <1>9 DEF EtapeInv
    <2>2. d.nextcid = c.nextcid
      BY <1>4, <1>5, <2>1, MaxUnique
    <2>3. d.flag = 1
      BY <1>3, <2>1 DEF Contextes
    <2>4. communicators[q][d.nextcid] = r
      BY <1>1, <1>2, <1>4, <1>7, <1>9, <2>2, <2>3 DEF EtapeInv
    <2> QED BY <1>1, <1>9, <2>2, <2>4
  <1>10. CASE d.etape = "fini"
    <2>1. EstMax(r, n - 1, d.nextcid) /\ communicators[q][d.nextcid] = r
      BY <1>1, <1>2, <1>6, <1>7, <1>10 DEF EtapeInv
    <2>2. d.nextcid = c.nextcid
      BY <1>4, <1>5, <2>1, MaxUnique
    <2> QED BY <1>1, <1>10, <2>1, <2>2
  <1> QED BY <1>8, <1>9, <1>10

(* When a process has the id of a new communicator, every process that will *)
(* be in it holds that id for it, and none of them has given up.            *)
THEOREM AccordTheorem == Spec /\ UneParComm => []Accord
  <1>1. Spec /\ UneParComm => []Inv
    BY InvTheorem
  <1>2. Inv => Accord
    BY AccordInv
  <1> QED BY <1>1, <1>2, PTL

-----------------------------------------------------------------------------
(* The id of a new communicator, as soon as a process that is in it has it. *)
Obtenu(p, r) == p \in mode.membres[r] /\ contexte[p][r].etape = "fini"
CidDe(r) ==
    IF \E p \in mode.membres[r] : contexte[p][r].etape = "fini"
    THEN contexte[CHOOSE p \in mode.membres[r] : contexte[p][r].etape = "fini"][r].nextcid
    ELSE Infini

CidDeInv ==
    \A r \in Reqs :
        /\ \A p : Obtenu(p, r) => CidDe(r) = contexte[p][r].nextcid /\ CidDe(r) \in Cids
        /\ (\A p : ~ Obtenu(p, r)) => CidDe(r) = Infini

LEMMA CidDeObtenu ==
    ASSUME Inv
    PROVE  CidDeInv
  <1> SUFFICES ASSUME NEW r \in Reqs
               PROVE  /\ \A p : Obtenu(p, r) => CidDe(r) = contexte[p][r].nextcid /\ CidDe(r) \in Cids
                      /\ (\A p : ~ Obtenu(p, r)) => CidDe(r) = Infini
    BY DEF CidDeInv
  <1>1. ASSUME NEW p, Obtenu(p, r)
        PROVE  CidDe(r) = contexte[p][r].nextcid /\ CidDe(r) \in Cids
    <2>1. PICK q : /\ q \in mode.membres[r] /\ contexte[q][r].etape = "fini"
                   /\ CidDe(r) = contexte[q][r].nextcid
      BY <1>1 DEF Obtenu, CidDe
    <2>2. p \in Procs /\ q \in Procs
      BY <1>1, <2>1, ModeType DEF Inv, Obtenu
    <2>3. contexte[p][r].nextcid = contexte[q][r].nextcid
      BY <1>1, <2>1, <2>2, AccordInv DEF Accord, Obtenu, Participe
    <2>4. contexte[q][r].nextcid \in Cids
      BY <2>2 DEF Inv, TypesInv, Contextes
    <2> QED BY <2>1, <2>3, <2>4
  <1>2. (\A p : ~ Obtenu(p, r)) => CidDe(r) = Infini
    BY DEF Obtenu, CidDe
  <1> QED BY <1>1, <1>2

(* It does not change when those that have it stay where they are and no    *)
(* process is the first to have it.                                         *)
LEMMA CidDeGarde ==
    ASSUME CidDeInv, CidDeInv', NEW r \in Reqs,
           \A p : Obtenu(p, r) => Obtenu(p, r)' /\ contexte'[p][r] = contexte[p][r],
           (\E p : Obtenu(p, r)') => \E p : Obtenu(p, r)
    PROVE  CidDe(r)' = CidDe(r)
  <1>1. CASE \E p : Obtenu(p, r)
    <2>1. PICK p : Obtenu(p, r)
      BY <1>1
    <2>2. CidDe(r) = contexte[p][r].nextcid
      BY <2>1 DEF CidDeInv
    <2>3. \A q : Obtenu(q, r)' => CidDe(r)' = contexte'[q][r].nextcid
      BY DEF CidDeInv
    <2> QED BY <2>1, <2>2, <2>3
  <1>2. CASE \A p : ~ Obtenu(p, r)
    <2>1. \A p : ~ Obtenu(p, r)'
      BY <1>2
    <2>2. (\A p : ~ Obtenu(p, r)') => CidDe(r)' = Infini
      BY DEF CidDeInv
    <2> QED BY <1>2, <2>1, <2>2 DEF CidDeInv
  <1> QED BY <1>1, <1>2

(* The steps that give no process an id.                                    *)
Avance ==
    \/ UNCHANGED contexte
    \/ \E p \in Procs, r \in Reqs : \E d :
         /\ contexte' = [contexte EXCEPT ![p][r] = d]
         /\ contexte[p][r].etape # "fini" /\ d.etape # "fini"

LEMMA GetnextcidAvance ==
    ASSUME Inv, NEW p \in Procs, NEW r \in Reqs, contexte[p][r].etape # "fini",
           NEW table, NEW start, GetnextcidDe(p, r, table, start)
    PROVE  Avance
  <1> DEFINE c == contexte[p][r]
  <1>1. c \in Contextes
    BY DEF Inv, TypesInv
  <1>2. CASE Retenir(p, r, table, start)
    <2> DEFINE d == [c EXCEPT !.etape = "chercher", !.appel = 0, !.start = start]
    <2>1. contexte' = [contexte EXCEPT ![p][r] = d] /\ d.etape = "chercher"
      BY <1>1, <1>2 DEF Retenir, Contextes
    <2> QED BY <2>1 DEF Avance
  <1>3. CASE Reserver(p, r, table, start)
    <2> DEFINE local == IF Participe(p, r) THEN Chercher(table, start) ELSE 0
               d == [c EXCEPT !.etape = "verifier", !.appel = Appel(p, r),
                              !.start = start, !.nextlocal = local]
    <2>1. contexte' = [contexte EXCEPT ![p][r] = d] /\ d.etape = "verifier"
      BY <1>1, <1>3 DEF Reserver, Contextes
    <2> QED BY <2>1 DEF Avance
  <1>4. CASE Renoncer(p, r, table, start)
    <2> DEFINE d == [c EXCEPT !.etape = "erreur", !.start = start]
    <2>1. contexte' = [contexte EXCEPT ![p][r] = d] /\ d.etape = "erreur"
      BY <1>1, <1>4 DEF Renoncer, Contextes
    <2> QED BY <2>1 DEF Avance
  <1> QED BY <1>2, <1>3, <1>4 DEF GetnextcidDe

LEMMA ProcAvance ==
    ASSUME Inv, NEW p \in Procs, Proc(p)
    PROVE  mode' = mode /\ (Attribuer(p) \/ Avance)
  <1> USE DEF Inv
  <1>1. CASE Incomplet(p)
    BY <1>1 DEF Incomplet, Avance
  <1>2. CASE Getnextcid(p)
    <2>1. Visitee(p) \in Reqs /\ contexte[p][Visitee(p)].etape = "chercher"
      BY <1>2, VisiteeType DEF Getnextcid, Visite
    <2> QED BY <1>2, <2>1, GetnextcidAvance DEF Getnextcid
  <1>3. CASE Checkcid(p)
    <2>1. PICK r : r = Visitee(p)
      OBVIOUS
    <2>2. r \in Reqs /\ contexte[p][r].etape = "verifier" /\ contexte[p][r] \in Contextes
      BY <1>3, <2>1, VisiteeType DEF Checkcid, Visite, TypesInv
    <2>3. PICK a, m, f : contexte' = [contexte EXCEPT ![p][r] =
                             [@ EXCEPT !.etape = "conclure", !.appel = a, !.nextcid = m, !.flag = f]]
      BY <1>3, <2>1 DEF Checkcid
    <2> DEFINE d == [contexte[p][r] EXCEPT !.etape = "conclure", !.appel = a, !.nextcid = m, !.flag = f]
    <2>4. contexte' = [contexte EXCEPT ![p][r] = d] /\ d.etape = "conclure"
      BY <2>2, <2>3 DEF Contextes
    <2> HIDE DEF d
    <2>5. mode' = mode
      BY <1>3 DEF Checkcid
    <2> QED BY <2>2, <2>4, <2>5 DEF Avance
  <1>4. CASE Attribuer(p)
    BY <1>4 DEF Attribuer
  <1>5. CASE Recommencer(p)
    <2>1. Visitee(p) \in Reqs /\ contexte[p][Visitee(p)].etape = "conclure"
      BY <1>5, VisiteeType DEF Recommencer, Visite
    <2> QED BY <1>5, <2>1, GetnextcidAvance DEF Recommencer
  <1>6. ASSUME NEW i \in DOMAIN mode.fils[p], Nextcid_nb(p, i)
        PROVE  mode' = mode /\ Avance
    <2> DEFINE fil == mode.fils[p][i]
    <2>1. PICK k \in 1 .. Len(fil) :
            /\ contexte[p][fil[k]].etape = "avant" /\ mode' = mode
            /\ contexte' = [contexte EXCEPT ![p][fil[k]] = [@ EXCEPT !.etape = "chercher",
                                                                    !.start = LowestFree(p)]]
      BY <1>6 DEF Nextcid_nb
    <2>2. PICK r : r = fil[k]
      OBVIOUS
    <2>3. r \in Reqs
      <3>1. mode.fils[p] \in Seq(Seq(Reqs))
        BY ModesAssumption DEF TypesInv
      <3>2. fil \in Seq(Reqs)
        BY <3>1
      <3> QED BY <2>2, <3>2
    <2> DEFINE d == [contexte[p][r] EXCEPT !.etape = "chercher", !.start = LowestFree(p)]
    <2>4. contexte[p][r] \in Contextes
      BY <2>3 DEF TypesInv
    <2>5. contexte' = [contexte EXCEPT ![p][r] = d] /\ d.etape = "chercher"
      BY <2>1, <2>2, <2>4 DEF Contextes
    <2> QED BY <2>1, <2>2, <2>3, <2>5 DEF Avance
  <1> QED BY <1>1, <1>2, <1>3, <1>4, <1>5, <1>6 DEF Proc, Progress

LEMMA AvanceRaffine ==
    ASSUME Inv, CidDeInv, CidDeInv', mode' = mode, Avance
    PROVE  \A s \in Reqs : CidDe(s)' = CidDe(s)
  <1> SUFFICES ASSUME NEW s \in Reqs PROVE CidDe(s)' = CidDe(s)
    OBVIOUS
  <1>1. \A p \in Procs : /\ contexte'[p][s].etape = "fini" <=> contexte[p][s].etape = "fini"
                         /\ contexte[p][s].etape = "fini" => contexte'[p][s] = contexte[p][s]
    <2>1. CASE UNCHANGED contexte
      BY <2>1
    <2>2. ASSUME NEW q \in Procs, NEW r \in Reqs, NEW d,
                 contexte' = [contexte EXCEPT ![q][r] = d],
                 contexte[q][r].etape # "fini", d.etape # "fini",
                 NEW p \in Procs
          PROVE  /\ contexte'[p][s].etape = "fini" <=> contexte[p][s].etape = "fini"
                 /\ contexte[p][s].etape = "fini" => contexte'[p][s] = contexte[p][s]
      <3>1. contexte'[p][s] = IF p = q /\ s = r THEN d ELSE contexte[p][s]
        BY <2>2 DEF Inv, TypesInv
      <3> QED BY <2>2, <3>1
    <2> QED BY <2>1, <2>2 DEF Avance
  <1>2. \A p : /\ Obtenu(p, s) => p \in Procs
               /\ p \in mode.membres[s] => p \in Procs
    BY ModeType DEF Obtenu, Inv
  <1>3. \A p : /\ Obtenu(p, s)' <=> Obtenu(p, s)
               /\ Obtenu(p, s) => contexte'[p][s] = contexte[p][s]
    BY <1>1, <1>2 DEF Obtenu
  <1> QED BY <1>3, CidDeGarde

(* The first process that obtains the id is the step of the abstract        *)
(* specification; the others find what it found.                            *)
LEMMA AttribuerRaffine ==
    ASSUME Inv, PrisInv', Accord', CidDeInv, CidDeInv', NEW p \in Procs, Attribuer(p)
    PROVE  \/ \A s \in Reqs : CidDe(s)' = CidDe(s)
           \/ \E r \in Reqs, x \in Cids :
                /\ CidDe(r) = Infini /\ CidDe(r)' = x
                /\ \A s \in Reqs : s # r => CidDe(s)' = CidDe(s)
                /\ \A q \in mode.membres[r] : x \notin mode.pris[q]
                /\ \A s \in Reqs : mode.membres[s] \cap mode.membres[r] # {} => CidDe(s) # x
  <1> USE DEF Inv
  <1>0. PICK r, d : /\ r = Visitee(p) /\ contexte' = [contexte EXCEPT ![p][r] = d]
                    /\ d.etape = "fini" /\ contexte[p][r].etape = "conclure"
                    /\ r \in Reqs /\ mode' = mode
    <2>1. PICK r, cid : /\ r = Visitee(p) /\ contexte[p][r].etape = "conclure" /\ mode' = mode
                        /\ contexte' = [contexte EXCEPT ![p][r] =
                                           [@ EXCEPT !.etape = "fini", !.nextcid = cid]]
                        /\ actives[p] # <<>>
      BY DEF Attribuer, Visite
    <2>2. r \in Reqs
      BY <2>1, VisiteeType
    <2> DEFINE d == [contexte[p][r] EXCEPT !.etape = "fini", !.nextcid = cid]
    <2>3. d.etape = "fini" /\ contexte' = [contexte EXCEPT ![p][r] = d]
      BY <2>1, <2>2 DEF TypesInv, Contextes
    <2> HIDE DEF d
    <2> QED BY <2>1, <2>2, <2>3
  <1>1. \A s \in Reqs : \A q : q \in mode.membres[s] => q \in Procs
    BY ModeType
  <1>2. /\ contexte'[p][r].etape = "fini" /\ contexte[p][r].etape # "fini"
        /\ \A q \in Procs, s \in Reqs : q # p \/ s # r => contexte'[q][s] = contexte[q][s]
    BY <1>0 DEF TypesInv
  <1>3. \A s \in Reqs : \A q :
          /\ Obtenu(q, s) => Obtenu(q, s)' /\ contexte'[q][s] = contexte[q][s]
          /\ Obtenu(q, s)' /\ ~ Obtenu(q, s) => q = p /\ s = r
    BY <1>0, <1>1, <1>2 DEF Obtenu
  <1>4. \A s \in Reqs : s # r => CidDe(s)' = CidDe(s)
    BY <1>3, CidDeGarde
  <1>5. CASE (\E q : Obtenu(q, r)) \/ ~ Obtenu(p, r)'
    <2>1. (\E q : Obtenu(q, r)') => \E q : Obtenu(q, r)
      BY <1>0, <1>3, <1>5
    <2>2. CidDe(r)' = CidDe(r)
      BY <1>0, <1>3, <2>1, CidDeGarde
    <2> QED BY <1>4, <2>2
  <1>6. CASE (\A q : ~ Obtenu(q, r)) /\ Obtenu(p, r)'
    <2>1. PICK x : x = CidDe(r)'
      OBVIOUS
    <2>2. CidDe(r) = Infini /\ x = contexte'[p][r].nextcid /\ x \in Cids
      BY <1>0, <1>6, <2>1 DEF CidDeInv
    <2>3. \A q \in mode.membres[r] : communicators'[q][x] = r
      BY <1>0, <1>6, <2>2 DEF Accord, Obtenu, Participe
    <2>4. \A q \in mode.membres[r] : x \notin mode.pris[q]
      <3> SUFFICES ASSUME NEW q \in mode.membres[r], x \in mode.pris[q] PROVE FALSE
        OBVIOUS
      <3>1. communicators'[q][x] = Pris
        BY <1>0, <1>1 DEF PrisInv
      <3> QED BY <1>0, <2>3, <3>1, ReqsAssumption
    <2>5. ASSUME NEW s \in Reqs, mode.membres[s] \cap mode.membres[r] # {}, CidDe(s) = x
          PROVE  FALSE
      <3>1. s # r
        BY <1>0, <2>2, <2>5, MaxCidAssumption DEF Cids
      <3>2. PICK q : Obtenu(q, s)
        BY <2>2, <2>5, MaxCidAssumption DEF CidDeInv, Cids
      <3>3. contexte'[q][s].etape = "fini" /\ contexte'[q][s].nextcid = x /\ q \in mode.membres[s]
            /\ q \in Procs
        BY <1>1, <1>2, <2>5, <3>1, <3>2 DEF CidDeInv, Obtenu
      <3>4. PICK y : y \in mode.membres[s] /\ y \in mode.membres[r]
        BY <2>5
      <3>5. communicators'[y][x] = s
        BY <1>0, <3>3, <3>4 DEF Accord, Participe
      <3> QED BY <2>3, <3>1, <3>4, <3>5
    <2> QED BY <1>0, <1>4, <2>1, <2>2, <2>4, <2>5
  <1> QED BY <1>5, <1>6

LEMMA PasRaffine ==
    ASSUME Inv, PrisInv', Accord', CidDeInv, CidDeInv', [Next]_vars
    PROVE  [LesCids!Next]_(LesCids!vars)
  <1> DEFINE f == [r \in Reqs |-> CidDe(r)]
  <1>1. CASE UNCHANGED vars
    BY <1>1 DEF LesCids!vars, vars
  <1>2. ASSUME mode' = mode, \A s \in Reqs : CidDe(s)' = CidDe(s)
        PROVE  UNCHANGED LesCids!vars
    BY <1>2 DEF LesCids!vars, CidDe
  <1>3. CASE Next
    <2>1. PICK p \in Procs : Proc(p)
      BY <1>3 DEF Next
    <2>2. CASE Avance
      BY <1>2, <2>1, <2>2, ProcAvance, AvanceRaffine
    <2>3. CASE Attribuer(p)
      <3>0. mode' = mode
        BY <2>1, ProcAvance
      <3>1. CASE \A s \in Reqs : CidDe(s)' = CidDe(s)
        BY <1>2, <3>0, <3>1
      <3>2. ASSUME NEW r \in Reqs, NEW x \in Cids,
                   CidDe(r) = Infini, CidDe(r)' = x,
                   \A s \in Reqs : s # r => CidDe(s)' = CidDe(s),
                   \A q \in mode.membres[r] : x \notin mode.pris[q],
                   \A s \in Reqs : mode.membres[s] \cap mode.membres[r] # {} => CidDe(s) # x
            PROVE  LesCids!Attribuer(r, x)
        <4>1. f[r] = Infini /\ f' = [f EXCEPT ![r] = x] /\ \A s \in Reqs : f[s] = CidDe(s)
          BY <3>2
        <4>2. LesCids!Attribuer(r, x) <=>
                /\ f[r] = Infini
                /\ \A q \in mode.membres[r] : x \notin mode.pris[q]
                /\ \A s \in Reqs : mode.membres[s] \cap mode.membres[r] # {} => f[s] # x
                /\ f' = [f EXCEPT ![r] = x]
                /\ UNCHANGED <<mode.membres, mode.pris>>
          BY DEF LesCids!Attribuer, LesCids!LibrePour, CidDe
        <4> HIDE DEF f
        <4> QED BY <3>0, <3>2, <4>1, <4>2
      <3> QED BY <2>3, <3>1, <3>2, AttribuerRaffine DEF LesCids!Next
    <2> QED BY <2>1, <2>2, <2>3, ProcAvance
  <1> QED BY <1>1, <1>3

(* The agreement implements the attribution of an id at one instant: an id  *)
(* that is free in all the processes of the new communicator, one for all   *)
(* of them, and for good.                                                   *)
THEOREM AttributionTheorem == Spec /\ UneParComm => AttributionSpec
  <1>1. Init => LesCids!Init
    <2> SUFFICES ASSUME Init PROVE LesCids!Init
      OBVIOUS
    <2>1. mode \in Modes
      BY DEF Init
    <2>2. mode.membres \in [Reqs -> SUBSET Procs] /\ mode.pris \in [Procs -> SUBSET Cids]
      BY <2>1, ModesAssumption, MaxCidAssumption DEF Cids
    <2>3. \A r \in Reqs : \A p \in mode.membres[r] : contexte[p][r].etape # "fini"
      BY <2>2 DEF Init
    <2> QED BY <2>2, <2>3 DEF LesCids!Init
  <1>2. Inv => PrisInv /\ Accord /\ CidDeInv
    BY AccordInv, CidDeObtenu DEF Inv
  <1>3. Inv /\ PrisInv' /\ Accord' /\ CidDeInv /\ CidDeInv' /\ [Next]_vars => [LesCids!Next]_(LesCids!vars)
    BY PasRaffine
  <1>4. Spec /\ UneParComm => []Inv
    BY InvTheorem
  <1> QED BY <1>1, <1>2, <1>3, <1>4, PTL DEF Spec, AttributionSpec, LesCids!Spec

-----------------------------------------------------------------------------
(* What is held, for any order of the creations: of the others, a process   *)
(* only has the common id.  A process that is not in a new communicator and *)
(* finds no free id writes at pml_max_contextid, which is no id: TenusInv   *)
(* leaves that place out from then on.                                      *)
EstTenu(c, dedans, i) ==
    \/ c.etape = "fini" /\ i = c.nextcid
    \/ c.etape = "verifier" /\ dedans /\ i = c.nextlocal
    \/ c.etape = "conclure" /\ dedans /\ c.flag = 1 /\ i = c.nextcid

SansId(c) == c.etape = "fini" /\ c.nextcid = MaxCid
HorsTable(p) == \E r \in Reqs : SansId(contexte[p][r])

TenusInv(p) ==
    \A i \in Cids : i # MaxCid \/ ~ HorsTable(p) =>
        \A r \in Reqs : communicators[p][i] = r <=> EstTenu(contexte[p][r], Participe(p, r), i)

EnCours == {"chercher", "verifier", "conclure"}

ListeInv(p) ==
    /\ \A j, k \in 1 .. Len(actives[p]) : actives[p][j] = actives[p][k] => j = k
    /\ \A r \in Reqs :
         contexte[p][r].etape \in EnCours <=> \E i \in 1 .. Len(actives[p]) : actives[p][i] = r

DonneInv(p, r) ==
    LET c == contexte[p][r] IN
    /\ c.etape = "verifier" => c.appel > 0 /\ c.nextlocal # MaxCid
    /\ c.etape = "conclure" => /\ c.appel \in 1 .. Len(reductions[Comm(r)][p])
                               /\ reductions[Comm(r)][p][c.appel] = c.flag

FuiteInv ==
    /\ TypesInv
    /\ lowest_id \in [Procs -> Cids \cup {Infini}]
    /\ \A p \in Procs : ListeInv(p) /\ TenusInv(p)
    /\ \A r \in Reqs : \A p \in Groupe(r) : DonneInv(p, r)

(* A step of p in r, after which p has the context d and the table t.       *)
PasTenu(p, r, d, t) ==
    /\ mode' = mode
    /\ contexte' = [contexte EXCEPT ![p][r] = d]
    /\ communicators' = [communicators EXCEPT ![p] = t]
    /\ contexte[p][r].etape # "fini"
    /\ d \in Contextes /\ t \in [Cids -> Occupants]
    /\ lowest_id' \in [Procs -> Cids \cup {Infini}]
    /\ \A i \in Cids : i # MaxCid \/ (~ HorsTable(p) /\ ~ SansId(d)) =>
         /\ t[i] = r <=> EstTenu(d, Participe(p, r), i)
         /\ \A s \in Reqs \ {r} : t[i] = s <=> communicators[p][i] = s
    /\ \/ UNCHANGED reductions
       \/ \E v \in Cids : Reduire(p, r, v)

LEMMA TenusGarde ==
    ASSUME FuiteInv, NEW p \in Procs, NEW r \in Reqs, NEW d, NEW t, PasTenu(p, r, d, t)
    PROVE  \A q \in Procs : TenusInv(q)'
  <1> USE DEF FuiteInv
  <1>1. /\ contexte \in [Procs -> [Reqs -> Contextes]]
        /\ communicators \in [Procs -> [Cids -> Occupants]]
        /\ \A q, s : Participe(q, s)' <=> Participe(q, s)
    BY DEF TypesInv, PasTenu, Participe
  <1>2. /\ \A q \in Procs, s \in Reqs : contexte'[q][s] = IF q = p /\ s = r THEN d ELSE contexte[q][s]
        /\ \A q \in Procs : communicators'[q] = IF q = p THEN t ELSE communicators[q]
    BY <1>1 DEF PasTenu
  <1> SUFFICES ASSUME NEW q \in Procs, NEW i \in Cids, i # MaxCid \/ ~ HorsTable(q)', NEW s \in Reqs
               PROVE  communicators'[q][i] = s <=> EstTenu(contexte'[q][s], Participe(q, s)', i)
    BY DEF TenusInv
  <1>3. HorsTable(q) => HorsTable(q)'
    <2> SUFFICES ASSUME NEW x \in Reqs, SansId(contexte[q][x])
                 PROVE  SansId(contexte'[q][x])
      BY DEF HorsTable
    <2> QED BY <1>2 DEF PasTenu, SansId
  <1>4. (communicators[q][i] = s) <=> EstTenu(contexte[q][s], Participe(q, s), i)
    BY <1>3 DEF TenusInv
  <1>5. CASE q # p
    <2>1. contexte'[q][s] = contexte[q][s] /\ communicators'[q] = communicators[q]
      BY <1>2, <1>5
    <2> QED BY <1>1, <1>4, <2>1 DEF EstTenu
  <1>6. CASE q = p
    <2>1. i # MaxCid \/ (~ HorsTable(p) /\ ~ SansId(d))
      <3>1. contexte'[p][r] = d
        BY <1>2
      <3>2. SansId(d) => HorsTable(p)'
        BY <3>1 DEF HorsTable
      <3> QED BY <1>3, <1>6, <3>2
    <2>2. CASE s = r
      <3>1. contexte'[q][s] = d /\ communicators'[q] = t
        BY <1>2, <1>6, <2>2
      <3>2. (t[i] = r) <=> EstTenu(d, Participe(p, r), i)
        BY <2>1 DEF PasTenu
      <3> QED BY <1>1, <1>6, <2>2, <3>1, <3>2 DEF EstTenu
    <2>3. CASE s # r
      <3>1. contexte'[q][s] = contexte[q][s] /\ communicators'[q] = t
        BY <1>2, <1>6, <2>3
      <3>2. (t[i] = s) <=> (communicators[p][i] = s)
        BY <2>1, <2>3 DEF PasTenu
      <3> QED BY <1>1, <1>4, <1>6, <3>1, <3>2 DEF EstTenu
    <2> QED BY <2>2, <2>3
  <1> QED BY <1>5, <1>6

(* What a reduction adds.                                                   *)
LEMMA ReduireEffet ==
    ASSUME TypesInv, NEW r \in Reqs, NEW p \in Groupe(r), NEW v \in Cids, Reduire(p, r, v)
    PROVE  /\ reductions' \in [DOMAIN mode.groupe -> [Procs -> Seq(Cids)]]
           /\ \A c \in DOMAIN mode.groupe, q \in Procs :
                /\ Len(reductions'[c][q]) \in Nat /\ Len(reductions'[c][q]) >= Len(reductions[c][q])
                /\ \A k \in 1 .. Len(reductions[c][q]) : reductions'[c][q][k] = reductions[c][q][k]
           /\ Appel(p, r) \in 1 .. Len(reductions'[Comm(r)][p])
           /\ reductions'[Comm(r)][p][Appel(p, r)] = v
  <1> DEFINE l == reductions[Comm(r)][p]
  <1>1. /\ reductions \in [DOMAIN mode.groupe -> [Procs -> Seq(Cids)]]
        /\ Comm(r) \in DOMAIN mode.groupe /\ p \in Procs
    BY ModeType DEF TypesInv
  <1>2. l \in Seq(Cids) /\ Appel(p, r) = Len(l) + 1
    BY <1>1 DEF Appel
  <1>3. /\ Append(l, v) \in Seq(Cids) /\ Len(Append(l, v)) = Len(l) + 1 /\ Len(l) \in Nat
        /\ Append(l, v)[Len(l) + 1] = v /\ \A k \in 1 .. Len(l) : Append(l, v)[k] = l[k]
    BY <1>2
  <1>4. reductions' = [reductions EXCEPT ![Comm(r)][p] = Append(l, v)]
    BY DEF Reduire
  <1>5. /\ reductions' \in [DOMAIN mode.groupe -> [Procs -> Seq(Cids)]]
        /\ reductions'[Comm(r)][p] = Append(l, v)
        /\ \A c \in DOMAIN mode.groupe, q \in Procs :
             c # Comm(r) \/ q # p => reductions'[c][q] = reductions[c][q]
    <2> HIDE DEF l
    <2> QED BY <1>1, <1>3, <1>4
  <1>6. ASSUME NEW c \in DOMAIN mode.groupe, NEW q \in Procs
        PROVE  /\ Len(reductions'[c][q]) \in Nat /\ Len(reductions'[c][q]) >= Len(reductions[c][q])
               /\ \A k \in 1 .. Len(reductions[c][q]) : reductions'[c][q][k] = reductions[c][q][k]
    <2>1. CASE c = Comm(r) /\ q = p
      <3>1. reductions[c][q] = l /\ reductions'[c][q] = Append(l, v)
        BY <1>5, <2>1
      <3> HIDE DEF l
      <3> QED BY <1>3, <3>1
    <2>2. CASE c # Comm(r) \/ q # p
      <3>1. reductions'[c][q] = reductions[c][q] /\ reductions[c][q] \in Seq(Cids)
        BY <1>1, <1>5, <2>2
      <3> QED BY <3>1
    <2> QED BY <2>1, <2>2
  <1>7. Appel(p, r) \in 1 .. Len(reductions'[Comm(r)][p]) /\ reductions'[Comm(r)][p][Appel(p, r)] = v
    <2> HIDE DEF l
    <2> QED BY <1>2, <1>3, <1>5
  <1> QED BY <1>5, <1>6, <1>7

LEMMA DonneGarde ==
    ASSUME FuiteInv, NEW r \in Reqs, NEW p \in Groupe(r), NEW d, NEW t, PasTenu(p, r, d, t)
    PROVE  /\ reductions' \in [DOMAIN mode.groupe -> [Procs -> Seq(Cids)]]
           /\ \A s \in Reqs : \A q \in Groupe(s) : q # p \/ s # r => DonneInv(q, s)'
  <1> USE DEF FuiteInv
  <1>1. /\ reductions' \in [DOMAIN mode.groupe -> [Procs -> Seq(Cids)]]
        /\ \A c \in DOMAIN mode.groupe, q \in Procs :
             /\ Len(reductions'[c][q]) \in Nat /\ Len(reductions'[c][q]) >= Len(reductions[c][q])
             /\ \A k \in 1 .. Len(reductions[c][q]) : reductions'[c][q][k] = reductions[c][q][k]
    <2>1. CASE UNCHANGED reductions
      <3>1. reductions \in [DOMAIN mode.groupe -> [Procs -> Seq(Cids)]]
        BY DEF TypesInv
      <3>2. \A c \in DOMAIN mode.groupe, q \in Procs : Len(reductions[c][q]) \in Nat
        BY <3>1
      <3> QED BY <2>1, <3>1, <3>2
    <2>2. ASSUME NEW v \in Cids, Reduire(p, r, v)
          PROVE  /\ reductions' \in [DOMAIN mode.groupe -> [Procs -> Seq(Cids)]]
                 /\ \A c \in DOMAIN mode.groupe, q \in Procs :
                      /\ Len(reductions'[c][q]) \in Nat
                      /\ Len(reductions'[c][q]) >= Len(reductions[c][q])
                      /\ \A k \in 1 .. Len(reductions[c][q]) : reductions'[c][q][k] = reductions[c][q][k]
      BY <2>2, ReduireEffet
    <2> QED BY <2>1, <2>2 DEF PasTenu
  <1>2. ASSUME NEW s \in Reqs, NEW q \in Groupe(s), q # p \/ s # r
        PROVE  DonneInv(q, s)'
    <2>1. q \in Procs /\ Comm(s) \in DOMAIN mode.groupe /\ Comm(s)' = Comm(s) /\ p \in Procs
      BY ModeType DEF PasTenu, Comm
    <2>2. contexte'[q][s] = contexte[q][s]
      BY <1>2, <2>1 DEF TypesInv, PasTenu
    <2>3. PICK c, l, m : c = contexte[q][s] /\ l = reductions[Comm(s)][q] /\ m = reductions'[Comm(s)][q]
      OBVIOUS
    <2>4. /\ Len(l) \in Nat /\ Len(m) \in Nat /\ Len(m) >= Len(l)
          /\ \A k \in 1 .. Len(l) : m[k] = l[k]
      <3>1. l \in Seq(Cids)
        BY <2>1, <2>3 DEF TypesInv
      <3> QED BY <1>1, <2>1, <2>3, <3>1
    <2>5. /\ c.etape = "verifier" => c.appel > 0 /\ c.nextlocal # MaxCid
          /\ c.etape = "conclure" => c.appel \in 1 .. Len(l) /\ l[c.appel] = c.flag
      BY <2>3 DEF DonneInv
    <2>6. c.etape = "conclure" => c.appel \in 1 .. Len(m) /\ m[c.appel] = c.flag
      BY <2>4, <2>5
    <2> QED BY <2>1, <2>2, <2>3, <2>5, <2>6 DEF DonneInv
  <1> QED BY <1>1, <1>2

(* A step of p in r preserves the whole, if the list of p is right.         *)
LEMMA PasFuite ==
    ASSUME FuiteInv, NEW r \in Reqs, NEW p \in Groupe(r), NEW d, NEW t, PasTenu(p, r, d, t),
           ListesInv(actives', curseur'), \A q \in Procs : ListeInv(q)', DonneInv(p, r)'
    PROVE  FuiteInv'
  <1> USE DEF FuiteInv
  <1>1. p \in Procs /\ mode' = mode /\ mode \in Modes /\ \A s \in Reqs : Groupe(s)' = Groupe(s)
    BY ModeType DEF PasTenu, TypesInv, Groupe, Comm
  <1>2. TypesInv'
    <2>1. reductions' \in [DOMAIN mode.groupe -> [Procs -> Seq(Cids)]]
      BY DonneGarde
    <2>2. contexte' \in [Procs -> [Reqs -> Contextes]] /\ communicators' \in [Procs -> [Cids -> Occupants]]
      BY <1>1 DEF TypesInv, PasTenu
    <2>3. /\ actives' \in [Procs -> Seq(Reqs)] /\ curseur' \in [Procs -> Nat]
          /\ \A q \in Procs :
               /\ curseur'[q] = 1 \/ curseur'[q] \in 1 .. Len(actives'[q])
               /\ \A i \in 1 .. Len(actives'[q]) : q \in Groupe(actives'[q][i])
      BY DEF ListesInv
    <2>4. ASSUME NEW q \in Procs, NEW i \in 1 .. Len(actives'[q])
          PROVE  q \in Groupe(actives[q][i])'
      <3>1. q \in mode.groupe[mode.comm[actives'[q][i]]]
        BY <2>3 DEF Groupe, Comm
      <3> QED BY <1>1, <3>1 DEF Groupe, Comm
    <2> QED BY <1>1, <2>1, <2>2, <2>3, <2>4 DEF TypesInv
  <1>3. \A q \in Procs : TenusInv(q)'
    BY <1>1, TenusGarde
  <1>4. \A s \in Reqs : \A q \in Groupe(s)' : DonneInv(q, s)'
    BY <1>1, DonneGarde
  <1> QED BY <1>2, <1>3, <1>4 DEF PasTenu

(* The list of the active requests, when p passes on and when it takes the  *)
(* one it is at out of it.                                                  *)
LEMMA ListePasser ==
    ASSUME FuiteInv, NEW p \in Procs, NEW r \in Reqs, NEW d, UNCHANGED actives,
           contexte' = [contexte EXCEPT ![p][r] = d],
           contexte[p][r].etape \in EnCours, d.etape \in EnCours
    PROVE  \A q \in Procs : ListeInv(q)'
  <1> SUFFICES ASSUME NEW q \in Procs PROVE ListeInv(q)'
    OBVIOUS
  <1>1. \A s \in Reqs : contexte'[q][s] = IF q = p /\ s = r THEN d ELSE contexte[q][s]
    BY DEF FuiteInv, TypesInv
  <1>2. \A s \in Reqs : contexte'[q][s].etape \in EnCours <=> contexte[q][s].etape \in EnCours
    BY <1>1
  <1>3. ListeInv(q)
    BY DEF FuiteInv
  <1> QED BY <1>2, <1>3 DEF ListeInv

LEMMA ListeQuitter ==
    ASSUME FuiteInv, NEW p \in Procs, NEW r \in Reqs, NEW d, actives[p] # <<>>, r = Visitee(p),
           Quitter(p), contexte' = [contexte EXCEPT ![p][r] = d], d.etape \notin EnCours
    PROVE  \A q \in Procs : ListeInv(q)'
  <1> DEFINE a == actives[p]
             i == curseur[p]
             u == SubSeq(a, 1, i - 1)
             w == SubSeq(a, i + 1, Len(a))
             b == u \o w
  <1>1. a \in Seq(Reqs) /\ i \in 1 .. Len(a) /\ Len(a) \in Nat /\ a[i] = r
    BY DEF FuiteInv, TypesInv, Visitee
  <1>2. actives \in [Procs -> Seq(Reqs)] /\ actives' = [actives EXCEPT ![p] = b]
    BY DEF Quitter, FuiteInv, TypesInv
  <1>3. /\ \A j, k \in 1 .. Len(a) : a[j] = a[k] => j = k
        /\ \A s \in Reqs : contexte[p][s].etape \in EnCours <=> \E j \in 1 .. Len(a) : a[j] = s
    BY DEF FuiteInv, ListeInv
  <1>4. /\ \A q \in Procs, s \in Reqs : q # p \/ s # r => contexte'[q][s] = contexte[q][s]
        /\ contexte'[p][r] = d
    BY DEF FuiteInv, TypesInv
  <1> HIDE DEF a, i
  <1>5. /\ Len(b) = Len(a) - 1
        /\ \A k \in 1 .. i - 1 : b[k] = a[k]
        /\ \A k \in i .. Len(a) - 1 : b[k] = a[k + 1]
    <2>1. /\ u \in Seq(Reqs) /\ Len(u) = i - 1 /\ \A k \in 1 .. i - 1 : u[k] = a[k]
          /\ w \in Seq(Reqs) /\ Len(w) = Len(a) - i /\ \A k \in 1 .. Len(a) - i : w[k] = a[i + k]
      BY <1>1
    <2> HIDE DEF u, w
    <2>2. /\ Len(b) = Len(u) + Len(w)
          /\ \A k \in 1 .. Len(u) + Len(w) : b[k] = IF k <= Len(u) THEN u[k] ELSE w[k - Len(u)]
      BY <2>1, ConcatProperties
    <2> HIDE DEF b
    <2>3. i \in Nat \ {0} /\ Len(a) - i \in Nat /\ Len(u) + Len(w) = Len(a) - 1
      BY <1>1, <2>1
    <2>4. ASSUME NEW k \in 1 .. i - 1 PROVE b[k] = a[k]
      BY <2>1, <2>2, <2>3
    <2>5. ASSUME NEW k \in i .. Len(a) - 1 PROVE b[k] = a[k + 1]
      <3>1. b[k] = w[k - (i - 1)]
        BY <2>1, <2>2, <2>3
      <3>2. k - (i - 1) \in 1 .. Len(a) - i /\ i + (k - (i - 1)) = k + 1
        BY <2>3
      <3> QED BY <2>1, <3>1, <3>2
    <2> QED BY <2>2, <2>3, <2>4, <2>5
  <1> HIDE DEF b
  <1>6. \A k \in 1 .. Len(b) : \E j \in 1 .. Len(a) : j # i /\ b[k] = a[j] /\ j = IF k < i THEN k ELSE k + 1
    <2> SUFFICES ASSUME NEW k \in 1 .. Len(b)
                 PROVE  \E j \in 1 .. Len(a) : j # i /\ b[k] = a[j] /\ j = IF k < i THEN k ELSE k + 1
      OBVIOUS
    <2>1. CASE k < i
      BY <1>1, <1>5, <2>1
    <2>2. CASE ~ (k < i)
      <3>1. k \in i .. Len(a) - 1 /\ k + 1 \in 1 .. Len(a) /\ k + 1 # i
        BY <1>1, <1>5, <2>2
      <3> QED BY <1>5, <2>2, <3>1
    <2> QED BY <2>1, <2>2
  <1>7. \A j \in 1 .. Len(a) : j # i => \E k \in 1 .. Len(b) : b[k] = a[j]
    <2> SUFFICES ASSUME NEW j \in 1 .. Len(a), j # i PROVE \E k \in 1 .. Len(b) : b[k] = a[j]
      OBVIOUS
    <2>1. CASE j < i
      <3>1. j \in 1 .. i - 1 /\ j \in 1 .. Len(b)
        BY <1>1, <1>5, <2>1
      <3> QED BY <1>5, <3>1
    <2>2. CASE j > i
      <3>1. j - 1 \in i .. Len(a) - 1 /\ j - 1 \in 1 .. Len(b) /\ (j - 1) + 1 = j
        BY <1>1, <1>5, <2>2
      <3> QED BY <1>5, <3>1
    <2> QED BY <1>1, <2>1, <2>2
  <1>8. \A j, k \in 1 .. Len(b) : b[j] = b[k] => j = k
    <2> SUFFICES ASSUME NEW j \in 1 .. Len(b), NEW k \in 1 .. Len(b), b[j] = b[k] PROVE j = k
      OBVIOUS
    <2>1. PICK x \in 1 .. Len(a) : b[j] = a[x] /\ x = IF j < i THEN j ELSE j + 1
      BY <1>6
    <2>2. PICK y \in 1 .. Len(a) : b[k] = a[y] /\ y = IF k < i THEN k ELSE k + 1
      BY <1>6
    <2>3. x = y
      <3>1. a[x] = a[y]
        BY <2>1, <2>2
      <3> QED BY <1>3, <3>1
    <2> QED BY <1>1, <2>1, <2>2, <2>3
  <1>9. ASSUME NEW s \in Reqs
        PROVE  contexte'[p][s].etape \in EnCours <=> \E k \in 1 .. Len(b) : b[k] = s
    <2>1. CASE s = r
      <3>1. \A k \in 1 .. Len(b) : b[k] # r
        BY <1>1, <1>3, <1>6
      <3> QED BY <1>4, <2>1, <3>1
    <2>2. CASE s # r
      <3>1. (\E k \in 1 .. Len(b) : b[k] = s) <=> \E j \in 1 .. Len(a) : a[j] = s
        BY <1>1, <1>6, <1>7, <2>2
      <3>2. contexte'[p][s] = contexte[p][s]
        BY <1>4, <2>2
      <3> QED BY <1>3, <3>1, <3>2
    <2> QED BY <2>1, <2>2
  <1>10. ASSUME NEW q \in Procs
         PROVE  ListeInv(q)'
    <2>1. CASE q = p
      <3>1. actives'[q] = b
        BY <1>2, <2>1
      <3> QED BY <1>8, <1>9, <2>1, <3>1 DEF ListeInv
    <2>2. CASE q # p
      <3>1. actives'[q] = actives[q] /\ \A s \in Reqs : contexte'[q][s] = contexte[q][s]
        BY <1>2, <1>4, <2>2
      <3>2. ListeInv(q)
        BY DEF FuiteInv
      <3> QED BY <3>1, <3>2 DEF ListeInv
    <2> QED BY <2>1, <2>2
  <1> QED BY <1>10

(* What a reduction finds is what a process of the communicator has given.  *)
LEMMA DonnesType ==
    ASSUME TypesInv, NEW r \in Reqs, NEW p \in Groupe(r), Complet(p, r), contexte[p][r].appel \in Nat \ {0}
    PROVE  /\ MaxDe(p, r) \in Cids
           /\ MinDe(p, r) = 1 => reductions[Comm(r)][p][contexte[p][r].appel] # 0
  <1> DEFINE k == contexte[p][r].appel
             D == Donnes(p, r)
  <1>1. \A q \in Groupe(r) : reductions[Comm(r)][q][k] \in Cids
    <2> SUFFICES ASSUME NEW q \in Groupe(r) PROVE reductions[Comm(r)][q][k] \in Cids
      OBVIOUS
    <2>1. reductions[Comm(r)][q] \in Seq(Cids)
      BY ModeType DEF TypesInv
    <2>2. Len(reductions[Comm(r)][q]) >= k
      BY DEF Complet
    <2> QED BY <2>1, <2>2
  <1>2. D \subseteq Cids /\ reductions[Comm(r)][p][k] \in D
    BY <1>1 DEF Donnes
  <1> HIDE DEF D, k
  <1>3. D \subseteq 0 .. MaxCid /\ D \subseteq Nat /\ D # {} /\ MaxCid \in Nat
    BY <1>2, MaxCidAssumption DEF Cids
  <1>4. MaxDe(p, r) \in D
    <2>1. \E m \in D : \A x \in D : x <= m
      BY <1>3, PlusGrand
    <2> QED BY <2>1 DEF MaxDe, D
  <1>5. \A x \in D : MinDe(p, r) <= x
    <2>1. \E m \in D : \A x \in D : m <= x
      BY <1>3, PlusPetit
    <2> QED BY <2>1 DEF MinDe, D
  <1>6. MinDe(p, r) = 1 => reductions[Comm(r)][p][k] # 0
    BY <1>2, <1>5
  <1> QED BY <1>2, <1>4, <1>6 DEF k

LEMMA CommType ==
    ASSUME TypesInv, NEW r \in Reqs
    PROVE  Comm(r) \in Cids
  <1>1. mode \in Modes
    BY DEF TypesInv
  <1> QED BY <1>1, ModesAssumption DEF Comm, Cids

LEMMA GetnextcidTenu ==
    ASSUME FuiteInv, NEW p \in Procs, actives[p] # <<>>, mode' = mode,
           NEW r \in Reqs, r = Visitee(p), contexte[p][r].etape \in {"chercher", "conclure"},
           NEW table \in [Cids -> Occupants], NEW start \in 0 .. MaxCid + 1,
           \A i \in Cids : i # MaxCid \/ ~ HorsTable(p) =>
             /\ table[i] # r
             /\ \A s \in Reqs \ {r} : table[i] = s <=> communicators[p][i] = s,
           GetnextcidDe(p, r, table, start)
    PROVE  FuiteInv'
  <1> USE DEF FuiteInv
  <1>0. /\ p \in Groupe(r) /\ contexte[p][r] \in Contextes /\ MaxCid \in Nat \ {0} /\ Infini \in Nat
        /\ start \in Nat /\ contexte[p][r].etape # "fini" /\ contexte[p][r].etape \in EnCours
        /\ lowest_id \in [Procs -> Cids \cup {Infini}]
        /\ Comm(r)' = Comm(r)
    BY VisiteeType, MaxCidAssumption DEF TypesInv, EnCours, Comm
  <1>1. CASE Retenir(p, r, table, start)
    <2> DEFINE d == [contexte[p][r] EXCEPT !.etape = "chercher", !.appel = 0, !.start = start]
    <2>1. /\ d \in Contextes /\ d.etape = "chercher"
          /\ contexte' = [contexte EXCEPT ![p][r] = d]
          /\ communicators' = [communicators EXCEPT ![p] = table]
          /\ Passer(p) /\ UNCHANGED <<lowest_id, reductions>>
      BY <1>0, <1>1 DEF Retenir, Contextes, Etapes
    <2> HIDE DEF d
    <2>2. PasTenu(p, r, d, table)
      BY <1>0, <2>1 DEF PasTenu, EstTenu
    <2>3. DonneInv(p, r)'
      <3>1. contexte'[p][r] = d
        BY <2>1 DEF TypesInv
      <3> QED BY <2>1, <3>1 DEF DonneInv
    <2>4. \A q \in Procs : ListeInv(q)'
      <3>1. UNCHANGED actives /\ d.etape \in EnCours
        BY <2>1 DEF Passer, EnCours
      <3> QED BY <1>0, <2>1, <3>1, ListePasser
    <2> QED BY <1>0, <2>1, <2>2, <2>3, <2>4, PasFuite, PasserListes
  <1>2. CASE Reserver(p, r, table, start)
    <2>0. PICK a, local : /\ a = Appel(p, r)
                          /\ local = IF Participe(p, r) THEN Chercher(table, start) ELSE 0
      OBVIOUS
    <2> DEFINE d == [contexte[p][r] EXCEPT !.etape = "verifier", !.appel = a,
                                           !.start = start, !.nextlocal = local]
               t == IF Participe(p, r) THEN [table EXCEPT ![local] = r] ELSE table
    <2>1. /\ local \in Cids /\ local # MaxCid
          /\ Participe(p, r) => table[local] = Libre
      BY <1>0, <1>2, <2>0, ChercherProprietes DEF Reserver, Cids
    <2>2. a \in Nat \ {0}
      <3>1. reductions[Comm(r)][p] \in Seq(Cids)
        BY <1>0, AppelsType
      <3> QED BY <2>0, <3>1 DEF Appel
    <2>3. /\ contexte' = [contexte EXCEPT ![p][r] = d]
          /\ communicators' = [communicators EXCEPT ![p] = t]
          /\ lowest_id' = [lowest_id EXCEPT ![p] = Comm(r)]
          /\ Passer(p) /\ Reduire(p, r, local)
      BY <1>2, <2>0 DEF Reserver
    <2>4. d \in Contextes /\ d.etape = "verifier" /\ d.appel = a /\ d.nextlocal = local
      <3>1. d \in Contextes
        BY <1>0, <2>1, <2>2 DEF Contextes, Etapes
      <3>2. d.etape = "verifier" /\ d.appel = a /\ d.nextlocal = local
        BY <1>0 DEF Contextes
      <3> QED BY <3>1, <3>2
    <2>5. /\ t \in [Cids -> Occupants]
          /\ \A i \in Cids : i # MaxCid \/ ~ HorsTable(p) =>
               /\ t[i] = r <=> (Participe(p, r) /\ i = local)
               /\ \A s \in Reqs \ {r} : t[i] = s <=> communicators[p][i] = s
      <3>1. t \in [Cids -> Occupants]
        BY <2>1 DEF Occupants
      <3>2. \A i \in Cids : t[i] = IF Participe(p, r) /\ i = local THEN r ELSE table[i]
        BY <2>1
      <3> HIDE DEF t
      <3>3. ASSUME NEW i \in Cids, i # MaxCid \/ ~ HorsTable(p)
            PROVE  /\ t[i] = r <=> (Participe(p, r) /\ i = local)
                   /\ \A s \in Reqs \ {r} : t[i] = s <=> communicators[p][i] = s
        <4>1. table[i] # r /\ \A s \in Reqs \ {r} : table[i] = s <=> communicators[p][i] = s
          BY <3>3
        <4> QED BY <2>1, <3>2, <4>1, ReqsAssumption
      <3> QED BY <3>1, <3>3
    <2> HIDE DEF d, t
    <2>6. PasTenu(p, r, d, t)
      <3>1. lowest_id' \in [Procs -> Cids \cup {Infini}]
        BY <1>0, <2>3, CommType
      <3>2. \A i : EstTenu(d, Participe(p, r), i) <=> Participe(p, r) /\ i = local
        BY <2>4 DEF EstTenu
      <3> QED BY <1>0, <2>1, <2>3, <2>4, <2>5, <3>1, <3>2 DEF PasTenu
    <2>7. DonneInv(p, r)'
      <3>1. contexte'[p][r] = d
        BY <2>3 DEF TypesInv
      <3> QED BY <2>1, <2>2, <2>4, <3>1 DEF DonneInv
    <2>8. \A q \in Procs : ListeInv(q)'
      <3>1. UNCHANGED actives /\ d.etape \in EnCours
        BY <2>3, <2>4 DEF Passer, EnCours
      <3> QED BY <1>0, <2>3, <3>1, ListePasser
    <2> QED BY <1>0, <2>3, <2>6, <2>7, <2>8, PasFuite, PasserListes
  <1>3. CASE Renoncer(p, r, table, start)
    <2> DEFINE d == [contexte[p][r] EXCEPT !.etape = "erreur", !.start = start]
    <2>1. /\ d \in Contextes /\ d.etape = "erreur"
          /\ contexte' = [contexte EXCEPT ![p][r] = d]
          /\ communicators' = [communicators EXCEPT ![p] = table]
          /\ lowest_id' = [lowest_id EXCEPT ![p] = Infini]
          /\ Quitter(p) /\ Reduire(p, r, MaxCid)
      BY <1>0, <1>3 DEF Renoncer, Contextes, Etapes
    <2> HIDE DEF d
    <2>2. PasTenu(p, r, d, table)
      <3>1. lowest_id' \in [Procs -> Cids \cup {Infini}] /\ MaxCid \in Cids
        BY <1>0, <2>1 DEF Cids
      <3> QED BY <1>0, <2>1, <3>1 DEF PasTenu, EstTenu
    <2>3. DonneInv(p, r)'
      <3>1. contexte'[p][r] = d
        BY <2>1 DEF TypesInv
      <3> QED BY <2>1, <3>1 DEF DonneInv
    <2>4. \A q \in Procs : ListeInv(q)'
      <3>1. d.etape \notin EnCours
        BY <2>1 DEF EnCours
      <3> QED BY <1>0, <2>1, <3>1, ListeQuitter
    <2> QED BY <1>0, <2>1, <2>2, <2>3, <2>4, PasFuite, QuitterListes
  <1> QED BY <1>1, <1>2, <1>3 DEF GetnextcidDe

LEMMA InitFuite == Init => FuiteInv
  <1> SUFFICES ASSUME Init PROVE FuiteInv
    OBVIOUS
  <1>1. TypesInv /\ PrisInv
    BY InitInv DEF Inv
  <1>2. lowest_id \in [Procs -> Cids \cup {Infini}]
    BY DEF Init
  <1>3. \A p \in Procs, r \in Reqs : contexte[p][r].etape = "avant"
    BY DEF Init
  <1>4. ASSUME NEW p \in Procs
        PROVE  ListeInv(p) /\ TenusInv(p)
    <2>1. Len(actives[p]) = 0
      BY DEF Init
    <2>2. ListeInv(p)
      BY <1>3, <2>1 DEF ListeInv, EnCours
    <2>3. \A i \in Cids : communicators[p][i] \in {Libre, Pris}
      BY DEF Init, Cids
    <2>4. TenusInv(p)
      BY <1>3, <2>3, ReqsAssumption DEF TenusInv, EstTenu
    <2> QED BY <2>2, <2>4
  <1>5. \A r \in Reqs : \A p \in Groupe(r) : DonneInv(p, r)
    BY <1>1, <1>3, ModeType DEF DonneInv
  <1> QED BY <1>1, <1>2, <1>4, <1>5 DEF FuiteInv

LEMMA InchangeFuite ==
    ASSUME FuiteInv, ListesInv(actives', curseur'),
           UNCHANGED <<mode, communicators, contexte, reductions, actives, lowest_id>>
    PROVE  FuiteInv'
  <1>1. TypesInv'
    <2>1. /\ curseur' \in [Procs -> Nat]
          /\ \A q \in Procs : curseur'[q] = 1 \/ curseur'[q] \in 1 .. Len(actives'[q])
      BY DEF ListesInv
    <2> QED BY <2>1 DEF FuiteInv, TypesInv, Groupe, Comm
  <1>2. \A p \in Procs : ListeInv(p)' /\ TenusInv(p)'
    BY DEF FuiteInv, ListeInv, TenusInv, HorsTable, Participe
  <1>3. \A r \in Reqs : \A p \in Groupe(r)' : DonneInv(p, r)'
    BY DEF FuiteInv, DonneInv, Groupe, Comm
  <1> QED BY <1>1, <1>2, <1>3 DEF FuiteInv

LEMMA IncompletFuite ==
    ASSUME FuiteInv, NEW p \in Procs, Incomplet(p)
    PROVE  FuiteInv'
  <1>1. TypesInv /\ actives[p] # <<>> /\ Passer(p)
        /\ UNCHANGED <<mode, communicators, contexte, reductions, lowest_id>>
    BY DEF FuiteInv, Incomplet
  <1>2. UNCHANGED actives
    BY <1>1 DEF Passer
  <1> QED BY <1>1, <1>2, PasserListes, InchangeFuite

(* No process has an id of the table for a creation it looks for one for.   *)
LEMMA GetnextcidFuite ==
    ASSUME FuiteInv, NEW p \in Procs, Getnextcid(p)
    PROVE  FuiteInv'
  <1> USE DEF FuiteInv
  <1>0. PICK r : r = Visitee(p)
    OBVIOUS
  <1>1. /\ actives[p] # <<>> /\ contexte[p][r].etape = "chercher" /\ mode' = mode
        /\ GetnextcidDe(p, r, communicators[p], contexte[p][r].start)
    BY <1>0 DEF Getnextcid, Visite
  <1>2. r \in Reqs /\ contexte[p][r] \in Contextes /\ communicators[p] \in [Cids -> Occupants]
    BY <1>0, <1>1, VisiteeType DEF TypesInv
  <1>3. contexte[p][r].start \in 0 .. MaxCid + 1
    BY <1>2 DEF Contextes
  <1>4. \A i \in Cids : i # MaxCid \/ ~ HorsTable(p) => communicators[p][i] # r
    BY <1>1, <1>2 DEF TenusInv, EstTenu
  <1> QED BY <1>0, <1>1, <1>2, <1>3, <1>4, GetnextcidTenu

LEMMA CheckcidFuite ==
    ASSUME FuiteInv, NEW p \in Procs, Checkcid(p)
    PROVE  FuiteInv'
  <1> USE DEF FuiteInv
  <1>0. PICK r, a, local, commun :
          /\ r = Visitee(p) /\ a = Appel(p, r)
          /\ local = contexte[p][r].nextlocal /\ commun = MaxDe(p, r)
    OBVIOUS
  <1> DEFINE u == [communicators[p] EXCEPT ![local] = Libre]
             table == IF ~ Participe(p, r) \/ commun = local THEN communicators[p]
                      ELSE TestAndSet(u, commun, r)
             flag == IF ~ Participe(p, r) \/ table[commun] = r THEN 1 ELSE 0
             d == [contexte[p][r] EXCEPT !.etape = "conclure", !.appel = a,
                                         !.nextcid = commun, !.flag = flag]
  <1>1. /\ actives[p] # <<>> /\ contexte[p][r].etape = "verifier" /\ mode' = mode
        /\ Complet(p, r) /\ Passer(p) /\ Reduire(p, r, flag)
        /\ communicators' = [communicators EXCEPT ![p] = table]
        /\ contexte' = [contexte EXCEPT ![p][r] = d] /\ UNCHANGED lowest_id
    BY <1>0 DEF Checkcid, Visite
  <1>2. /\ r \in Reqs /\ p \in Groupe(r) /\ contexte[p][r] \in Contextes
        /\ communicators[p] \in [Cids -> Occupants] /\ MaxCid \in Nat \ {0}
        /\ Comm(r)' = Comm(r)
    BY <1>0, <1>1, VisiteeType, MaxCidAssumption DEF TypesInv, Comm
  <1>3. /\ contexte[p][r].appel \in Nat \ {0} /\ local \in Cids /\ local # MaxCid
        /\ \A i \in Cids : i # MaxCid \/ ~ HorsTable(p) =>
             (communicators[p][i] = r <=> Participe(p, r) /\ i = local)
    <2>1. contexte[p][r].appel > 0 /\ local # MaxCid
      BY <1>0, <1>1, <1>2 DEF DonneInv
    <2>2. \A i \in Cids : i # MaxCid \/ ~ HorsTable(p) =>
            (communicators[p][i] = r <=> Participe(p, r) /\ i = local)
      BY <1>0, <1>1, <1>2 DEF TenusInv, EstTenu
    <2> QED BY <1>0, <1>2, <2>1, <2>2 DEF Contextes
  <1>4. commun \in Cids
    BY <1>0, <1>1, <1>2, <1>3, DonnesType
  <1>5. a \in Nat
    <2>1. reductions[Comm(r)][p] \in Seq(Cids)
      BY <1>2, AppelsType
    <2> QED BY <1>0, <2>1 DEF Appel
  <1>6. /\ table \in [Cids -> Occupants]
        /\ \A i \in Cids : i # MaxCid \/ ~ HorsTable(p) =>
             /\ table[i] = r <=> (Participe(p, r) /\ table[commun] = r /\ i = commun)
             /\ \A s \in Reqs \ {r} : table[i] = s <=> communicators[p][i] = s
    <2>1. CASE ~ Participe(p, r)
      <3>1. table = communicators[p]
        BY <2>1
      <3> HIDE DEF table
      <3> QED BY <1>2, <1>3, <2>1, <3>1
    <2>2. CASE Participe(p, r) /\ commun = local
      <3>1. table = communicators[p]
        BY <2>2
      <3>2. communicators[p][local] = r
        BY <1>3, <2>2
      <3> HIDE DEF table
      <3> QED BY <1>2, <1>3, <2>2, <3>1, <3>2
    <2>3. CASE Participe(p, r) /\ commun # local
      <3>1. u \in [Cids -> Occupants] /\ u[local] = Libre
            /\ \A i \in Cids : i # local => u[i] = communicators[p][i]
        BY <1>2, <1>3 DEF Occupants
      <3>2. table = IF u[commun] = Libre THEN [u EXCEPT ![commun] = r] ELSE u
        BY <2>3 DEF TestAndSet
      <3> HIDE DEF table, u
      <3>3. ASSUME NEW i \in Cids, i # MaxCid \/ ~ HorsTable(p)
            PROVE  /\ u[i] # r
                   /\ \A s \in Reqs \ {r} : u[i] = s <=> communicators[p][i] = s
        <4>1. communicators[p][i] = r <=> i = local
          BY <1>3, <2>3, <3>3
        <4>2. CASE i = local
          <5>1. u[i] = Libre /\ communicators[p][i] = r
            BY <3>1, <4>1, <4>2
          <5>2. Libre # r /\ \A s \in Reqs : s # Libre
            BY <1>2, ReqsAssumption
          <5> QED BY <5>1, <5>2
        <4>3. CASE i # local
          BY <3>1, <4>1, <4>3
        <4> QED BY <4>2, <4>3
      <3>4. CASE u[commun] = Libre
        <4>1. table = [u EXCEPT ![commun] = r]
          BY <3>2, <3>4
        <4>2. /\ table \in [Cids -> Occupants] /\ table[commun] = r
              /\ \A i \in Cids : i # commun => table[i] = u[i]
          BY <1>2, <1>4, <3>1, <4>1 DEF Occupants
        <4>3. ASSUME NEW i \in Cids, i # MaxCid \/ ~ HorsTable(p)
              PROVE  /\ table[i] = r <=> i = commun
                     /\ \A s \in Reqs \ {r} : table[i] = s <=> communicators[p][i] = s
          BY <3>3, <3>4, <4>2, <4>3, ReqsAssumption
        <4> QED BY <2>3, <4>2, <4>3
      <3>5. CASE u[commun] # Libre
        <4>1. table = u
          BY <3>2, <3>5
        <4> QED BY <3>1, <3>3, <4>1
      <3> QED BY <3>4, <3>5
    <2> QED BY <2>1, <2>2, <2>3
  <1>7. flag \in Cids /\ flag \in {0, 1} /\ (Participe(p, r) => (flag = 1 <=> table[commun] = r))
    <2>1. 0 \in Cids /\ 1 \in Cids
      BY <1>2 DEF Cids
    <2> HIDE DEF table
    <2> QED BY <2>1
  <1> HIDE DEF u, table, flag
  <1>8. d \in Contextes /\ d.etape = "conclure" /\ d.appel = a /\ d.nextcid = commun /\ d.flag = flag
    <2>1. d \in Contextes
      BY <1>2, <1>4, <1>5, <1>7 DEF Contextes, Etapes
    <2>2. d.etape = "conclure" /\ d.appel = a /\ d.nextcid = commun /\ d.flag = flag
      BY <1>2 DEF Contextes
    <2> QED BY <2>1, <2>2
  <1> HIDE DEF d
  <1>9. PasTenu(p, r, d, table)
    <2>1. \A i : EstTenu(d, Participe(p, r), i) <=> Participe(p, r) /\ table[commun] = r /\ i = commun
      BY <1>7, <1>8 DEF EstTenu
    <2>2. lowest_id' \in [Procs -> Cids \cup {Infini}]
      BY <1>1
    <2> QED BY <1>1, <1>6, <1>7, <1>8, <2>1, <2>2 DEF PasTenu
  <1>10. DonneInv(p, r)'
    <2>1. a \in 1 .. Len(reductions'[Comm(r)][p]) /\ reductions'[Comm(r)][p][a] = flag
      BY <1>0, <1>1, <1>2, <1>7, ReduireEffet
    <2>2. contexte'[p][r] = d
      BY <1>1, <1>2 DEF TypesInv
    <2> QED BY <1>2, <1>8, <2>1, <2>2 DEF DonneInv
  <1>11. \A q \in Procs : ListeInv(q)'
    <2>1. UNCHANGED actives /\ d.etape \in EnCours /\ contexte[p][r].etape \in EnCours
      BY <1>1, <1>8 DEF Passer, EnCours
    <2> QED BY <1>1, <1>2, <2>1, ListePasser
  <1> QED BY <1>1, <1>2, <1>9, <1>10, <1>11, PasFuite, PasserListes

LEMMA AttribuerFuite ==
    ASSUME FuiteInv, NEW p \in Procs, Attribuer(p)
    PROVE  FuiteInv'
  <1> USE DEF FuiteInv
  <1>0. PICK r, c, cid :
          /\ r = Visitee(p) /\ c = contexte[p][r]
          /\ cid = IF Participe(p, r) THEN contexte[p][r].nextcid
                   ELSE Chercher(communicators[p], contexte[p][r].start)
    OBVIOUS
  <1> DEFINE d == [c EXCEPT !.etape = "fini", !.nextcid = cid]
             t == [communicators[p] EXCEPT ![cid] = r]
  <1>1. /\ actives[p] # <<>> /\ c.etape = "conclure" /\ Complet(p, r) /\ MinDe(p, r) = 1 /\ Quitter(p)
        /\ communicators' = [communicators EXCEPT ![p] = t]
        /\ contexte' = [contexte EXCEPT ![p][r] = d]
        /\ lowest_id' = [lowest_id EXCEPT ![p] = Infini]
        /\ UNCHANGED <<mode, reductions>>
    BY <1>0 DEF Attribuer, Visite
  <1>2. /\ r \in Reqs /\ p \in Groupe(r) /\ c \in Contextes
        /\ communicators[p] \in [Cids -> Occupants] /\ MaxCid \in Nat \ {0}
    BY <1>0, <1>1, VisiteeType, MaxCidAssumption DEF TypesInv
  <1>3. c.flag = 1
    <2>1. c.appel \in 1 .. Len(reductions[Comm(r)][p]) /\ reductions[Comm(r)][p][c.appel] = c.flag
      BY <1>0, <1>1, <1>2 DEF DonneInv
    <2>2. c.appel \in Nat \ {0} /\ c.flag \in {0, 1}
      BY <1>2, <2>1 DEF Contextes
    <2> QED BY <1>0, <1>1, <1>2, <2>1, <2>2, DonnesType
  <1>4. \A i \in Cids : i # MaxCid \/ ~ HorsTable(p) =>
          (communicators[p][i] = r <=> Participe(p, r) /\ i = c.nextcid)
    BY <1>0, <1>1, <1>2, <1>3 DEF TenusInv, EstTenu
  <1>5. cid \in Cids /\ (~ Participe(p, r) /\ cid # MaxCid => communicators[p][cid] = Libre)
    <2>1. c.nextcid \in Cids /\ c.start \in Nat
      BY <1>2 DEF Contextes
    <2> QED BY <1>0, <2>1, ChercherProprietes
  <1>6. d \in Contextes /\ d.etape = "fini" /\ d.nextcid = cid
    BY <1>2, <1>5 DEF Contextes, Etapes
  <1>7. /\ t \in [Cids -> Occupants]
        /\ \A i \in Cids : t[i] = IF i = cid THEN r ELSE communicators[p][i]
    BY <1>2, <1>5 DEF Occupants
  <1> HIDE DEF d, t
  <1>8. ASSUME NEW i \in Cids, i # MaxCid \/ (~ HorsTable(p) /\ ~ SansId(d))
        PROVE  /\ t[i] = r <=> EstTenu(d, Participe(p, r), i)
               /\ \A s \in Reqs \ {r} : t[i] = s <=> communicators[p][i] = s
    <2>1. EstTenu(d, Participe(p, r), i) <=> i = cid
      BY <1>6 DEF EstTenu
    <2>2. CASE i = cid
      <3>1. cid # MaxCid \/ ~ SansId(d)
        BY <1>8, <2>2
      <3>2. cid # MaxCid
        BY <1>6, <3>1 DEF SansId
      <3>3. communicators[p][cid] \in {Libre, r}
        BY <1>0, <1>4, <1>5, <3>2
      <3> QED BY <1>7, <2>1, <2>2, <3>3, ReqsAssumption
    <2>3. CASE i # cid
      <3>1. communicators[p][i] # r
        BY <1>0, <1>4, <1>8, <2>3
      <3> QED BY <1>7, <2>1, <2>3, <3>1
    <2> QED BY <2>2, <2>3
  <1>9. PasTenu(p, r, d, t)
    <2>1. lowest_id' \in [Procs -> Cids \cup {Infini}]
      BY <1>1
    <2> QED BY <1>0, <1>1, <1>6, <1>7, <1>8, <2>1 DEF PasTenu
  <1>10. DonneInv(p, r)'
    <2>1. contexte'[p][r] = d
      BY <1>1, <1>2 DEF TypesInv
    <2> QED BY <1>6, <2>1 DEF DonneInv
  <1>11. \A q \in Procs : ListeInv(q)'
    <2>1. d.etape \notin EnCours
      BY <1>6 DEF EnCours
    <2> QED BY <1>0, <1>1, <1>2, <2>1, ListeQuitter
  <1> QED BY <1>0, <1>1, <1>2, <1>9, <1>10, <1>11, PasFuite, QuitterListes

(* The common id is given back before the ids are looked at again.          *)
LEMMA RecommencerFuite ==
    ASSUME FuiteInv, NEW p \in Procs, Recommencer(p)
    PROVE  FuiteInv'
  <1> USE DEF FuiteInv
  <1>0. PICK r, c, table, start :
          /\ r = Visitee(p) /\ c = contexte[p][r]
          /\ table = Rendue(p, r).table /\ start = Rendue(p, r).start
    OBVIOUS
  <1>1. /\ actives[p] # <<>> /\ c.etape = "conclure" /\ mode' = mode
        /\ GetnextcidDe(p, r, table, start)
    BY <1>0 DEF Recommencer, Visite
  <1>2. /\ r \in Reqs /\ c \in Contextes /\ communicators[p] \in [Cids -> Occupants]
        /\ MaxCid \in Nat \ {0} /\ c.start \in 0 .. MaxCid + 1 /\ c.nextcid \in Cids
    BY <1>0, <1>1, VisiteeType, MaxCidAssumption DEF TypesInv, Contextes
  <1>3. \A i \in Cids : i # MaxCid \/ ~ HorsTable(p) =>
          (communicators[p][i] = r <=> Participe(p, r) /\ c.flag = 1 /\ i = c.nextcid)
    BY <1>0, <1>1, <1>2 DEF TenusInv, EstTenu
  <1>4. /\ table \in [Cids -> Occupants] /\ start \in 0 .. MaxCid + 1
        /\ \A i \in Cids : i # MaxCid \/ ~ HorsTable(p) =>
             /\ table[i] # r
             /\ \A s \in Reqs \ {r} : table[i] = s <=> communicators[p][i] = s
    <2>1. CASE Participe(p, r) /\ c.flag = 1
      <3>1. table = [communicators[p] EXCEPT ![c.nextcid] = Libre] /\ start = c.nextcid + 1
        BY <1>0, <2>1 DEF Rendue
      <3>2. table \in [Cids -> Occupants] /\ start \in 0 .. MaxCid + 1
        BY <1>2, <3>1 DEF Occupants, Cids
      <3>3. \A i \in Cids : table[i] = IF i = c.nextcid THEN Libre ELSE communicators[p][i]
        BY <1>2, <3>1
      <3>4. ASSUME NEW i \in Cids, i # MaxCid \/ ~ HorsTable(p)
            PROVE  /\ table[i] # r
                   /\ \A s \in Reqs \ {r} : table[i] = s <=> communicators[p][i] = s
        <4>1. communicators[p][i] = r <=> i = c.nextcid
          BY <1>3, <2>1, <3>4
        <4>2. CASE i = c.nextcid
          BY <1>2, <3>3, <4>1, <4>2, ReqsAssumption
        <4>3. CASE i # c.nextcid
          BY <3>3, <4>1, <4>3
        <4> QED BY <4>2, <4>3
      <3> QED BY <3>2, <3>4
    <2>2. CASE ~ (Participe(p, r) /\ c.flag = 1)
      <3>1. table = communicators[p] /\ start = c.start
        BY <1>0, <2>2 DEF Rendue
      <3> QED BY <1>2, <1>3, <2>2, <3>1
    <2> QED BY <2>1, <2>2
  <1> QED BY <1>0, <1>1, <1>2, <1>4, GetnextcidTenu

(* A creation that is asked for holds nothing yet and is last in the list.  *)
LEMMA NextcidFuite ==
    ASSUME FuiteInv, NEW p \in Procs, NEW i \in DOMAIN mode.fils[p], Nextcid_nb(p, i)
    PROVE  FuiteInv'
  <1> USE DEF FuiteInv
  <1> DEFINE fil == mode.fils[p][i]
  <1>1. PICK k \in 1 .. Len(fil) :
          /\ contexte[p][fil[k]].etape = "avant"
          /\ contexte' = [contexte EXCEPT ![p][fil[k]] = [@ EXCEPT !.etape = "chercher",
                                                                  !.start = LowestFree(p)]]
          /\ actives' = [actives EXCEPT ![p] = Append(@, fil[k])]
          /\ UNCHANGED <<mode, communicators, lowest_id, curseur, reductions>>
    BY DEF Nextcid_nb
  <1>2. PICK r : r = fil[k]
    OBVIOUS
  <1>3. r \in Reqs /\ p \in Groupe(r)
    <2>1. mode \in Modes
      BY DEF TypesInv
    <2>2. mode.fils[p] \in Seq(Seq(Reqs))
      BY <2>1, ModesAssumption
    <2>3. fil \in Seq(Reqs)
      BY <2>2
    <2>4. k \in DOMAIN fil
      BY <2>3
    <2> QED BY <1>2, <2>1, <2>3, <2>4, ModesAssumption DEF Groupe, Comm
  <1> DEFINE d == [contexte[p][r] EXCEPT !.etape = "chercher", !.start = LowestFree(p)]
             t == communicators[p]
             a == actives[p]
             b == Append(a, r)
  <1>4. /\ contexte' = [contexte EXCEPT ![p][r] = d] /\ contexte[p][r].etape = "avant"
        /\ actives' = [actives EXCEPT ![p] = b]
    BY <1>1, <1>2
  <1>5. d \in Contextes /\ d.etape = "chercher"
    <2>1. contexte[p][r] \in Contextes
      BY <1>3 DEF TypesInv
    <2>2. LowestFree(p) \in 0 .. MaxCid + 1
      BY ChercherProprietes, MaxCidAssumption DEF LowestFree, Cids
    <2> QED BY <2>1, <2>2 DEF Contextes, Etapes
  <1> HIDE DEF d
  <1>6. PasTenu(p, r, d, t)
    <2>1. t \in [Cids -> Occupants] /\ communicators' = [communicators EXCEPT ![p] = t]
      BY <1>1 DEF TypesInv
    <2>2. \A j \in Cids : j # MaxCid \/ ~ HorsTable(p) => t[j] # r
      BY <1>3, <1>4 DEF TenusInv, EstTenu
    <2>3. \A j : ~ EstTenu(d, Participe(p, r), j)
      BY <1>5 DEF EstTenu
    <2> QED BY <1>1, <1>4, <1>5, <2>1, <2>2, <2>3 DEF PasTenu
  <1>7. /\ a \in Seq(Reqs) /\ Len(a) \in Nat /\ b \in Seq(Reqs) /\ Len(b) = Len(a) + 1
        /\ b[Len(a) + 1] = r /\ \A j \in 1 .. Len(a) : b[j] = a[j]
    BY <1>3 DEF TypesInv
  <1>8. actives' \in [Procs -> Seq(Reqs)] /\ actives'[p] = b
        /\ \A q \in Procs \ {p} : actives'[q] = actives[q]
    <2> HIDE DEF a, b
    <2> QED BY <1>4, <1>7 DEF TypesInv
  <1> HIDE DEF b
  <1>9. ListesInv(actives', curseur')
    <2>1. /\ curseur[p] = 1 \/ curseur[p] \in 1 .. Len(b)
          /\ \A j \in 1 .. Len(b) : p \in Groupe(b[j])
      <3>1. (curseur[p] = 1 \/ curseur[p] \in 1 .. Len(a)) /\ \A j \in 1 .. Len(a) : p \in Groupe(a[j])
        BY DEF TypesInv
      <3> HIDE DEF a
      <3> QED BY <1>3, <1>7, <3>1
    <2> QED BY <1>1, <1>8, <2>1 DEF TypesInv, ListesInv
  <1>10. ASSUME NEW q \in Procs
         PROVE  ListeInv(q)'
    <2>0. ListeInv(q)
      OBVIOUS
    <2>1. CASE q = p
      <3>1. /\ \A j, m \in 1 .. Len(a) : a[j] = a[m] => j = m
            /\ \A j \in 1 .. Len(a) : a[j] # r
            /\ \A s \in Reqs : contexte[p][s].etape \in EnCours <=> \E j \in 1 .. Len(a) : a[j] = s
        BY <1>3, <1>4, <2>0, <2>1 DEF ListeInv, EnCours
      <3> HIDE DEF a
      <3>2. ASSUME NEW j \in 1 .. Len(b), NEW m \in 1 .. Len(b), b[j] = b[m]
            PROVE  j = m
        <4>1. \A x \in 1 .. Len(b) : x = Len(a) + 1 \/ x \in 1 .. Len(a)
          BY <1>7
        <4>2. CASE j \in 1 .. Len(a) /\ m \in 1 .. Len(a)
          <5>1. a[j] = a[m]
            BY <1>7, <3>2, <4>2
          <5> QED BY <3>1, <4>2, <5>1
        <4>3. CASE j = Len(a) + 1 /\ m \in 1 .. Len(a)
          BY <1>7, <3>1, <3>2, <4>3
        <4>4. CASE j \in 1 .. Len(a) /\ m = Len(a) + 1
          BY <1>7, <3>1, <3>2, <4>4
        <4> QED BY <4>1, <4>2, <4>3, <4>4
      <3>3. \A s \in Reqs : (\E j \in 1 .. Len(b) : b[j] = s) <=> s = r \/ \E j \in 1 .. Len(a) : a[j] = s
        BY <1>7
      <3>4. \A s \in Reqs : contexte'[p][s].etape \in EnCours <=>
                              s = r \/ contexte[p][s].etape \in EnCours
        BY <1>3, <1>4, <1>5 DEF TypesInv, EnCours
      <3> QED BY <1>8, <2>1, <3>1, <3>2, <3>3, <3>4 DEF ListeInv
    <2>2. CASE q # p
      <3>1. actives'[q] = actives[q] /\ contexte'[q] = contexte[q]
        BY <1>4, <1>8, <2>2 DEF TypesInv
      <3> QED BY <2>0, <3>1 DEF ListeInv
    <2> QED BY <2>1, <2>2
  <1>11. DonneInv(p, r)'
    <2>1. contexte'[p][r] = d
      BY <1>3, <1>4 DEF TypesInv
    <2> QED BY <1>5, <2>1 DEF DonneInv
  <1> QED BY <1>3, <1>6, <1>9, <1>10, <1>11, PasFuite

LEMMA StepFuite ==
    ASSUME FuiteInv, [Next]_vars
    PROVE  FuiteInv'
  <1>1. CASE UNCHANGED vars
    <2>1. ListesInv(actives', curseur')
      BY <1>1 DEF FuiteInv, TypesInv, ListesInv, vars
    <2> QED BY <1>1, <2>1, InchangeFuite DEF vars
  <1>2. CASE Next
    <2>1. PICK p \in Procs : Proc(p)
      BY <1>2 DEF Next
    <2>2. ASSUME Progress(p) PROVE FuiteInv'
      BY <2>2, IncompletFuite, GetnextcidFuite, CheckcidFuite, AttribuerFuite, RecommencerFuite
         DEF Progress
    <2>3. ASSUME NEW i \in DOMAIN mode.fils[p], Nextcid_nb(p, i) PROVE FuiteInv'
      BY <2>3, NextcidFuite
    <2> QED BY <2>1, <2>2, <2>3 DEF Proc
  <1> QED BY <1>1, <1>2

(* No process that is not in a new communicator has been without an id for  *)
(* it: ompi_comm_nextcid_check_flag does not test whether its loop has      *)
(* found one.                                                               *)
IdsSuffisent == \A p \in Procs, r \in Reqs : ~ SansId(contexte[p][r])

(* An id is held for a creation only by the process that is about to use it *)
(* or has it, and once each, however the creations follow each other:       *)
(* rounds that fail leave nothing behind (ompi_comm_checkcid and            *)
(* ompi_comm_nextcid_check_flag).                                           *)
THEOREM PasDeFuiteTheorem == Spec => [](IdsSuffisent => PasDeFuite)
  <1>1. Init => FuiteInv
    BY InitFuite
  <1>2. FuiteInv /\ [Next]_vars => FuiteInv'
    BY StepFuite
  <1>3. FuiteInv => (IdsSuffisent => PasDeFuite)
    <2> SUFFICES ASSUME FuiteInv, IdsSuffisent PROVE PasDeFuite
      OBVIOUS
    <2> USE DEF FuiteInv
    <2>1. ASSUME NEW p \in Procs
          PROVE  /\ lowest_id[p] \in Cids \cup {Infini}
                 /\ actives[p] # <<>> => curseur[p] \in DOMAIN actives[p]
                 /\ \A i \in Cids : communicators[p][i] \in {Libre, Pris} \cup Reqs
      <3>1. actives[p] # <<>> => curseur[p] \in DOMAIN actives[p]
        <4>1. actives[p] \in Seq(Reqs) /\ (curseur[p] = 1 \/ curseur[p] \in 1 .. Len(actives[p]))
          BY DEF TypesInv
        <4> QED BY <4>1
      <3> QED BY <3>1 DEF TypesInv, Occupants
    <2>2. ASSUME NEW p \in Procs, NEW r \in Reqs
          PROVE  /\ contexte[p][r].etape \in Etapes
                 /\ contexte[p][r].start \in 0 .. MaxCid + 1
                 /\ (Enjeu(p, r) \/ contexte[p][r].etape = "chercher") <=>
                      \E i \in DOMAIN actives[p] : actives[p][i] = r
      <3>1. contexte[p][r] \in Contextes
        BY DEF TypesInv
      <3>2. DOMAIN actives[p] = 1 .. Len(actives[p])
        BY DEF TypesInv
      <3>3. ListeInv(p)
        OBVIOUS
      <3> QED BY <3>1, <3>2, <3>3 DEF Contextes, ListeInv, EnCours, Enjeu
    <2>3. TypeOK
      BY <2>1, <2>2 DEF TypeOK
    <2>4. ASSUME NEW p \in Procs, NEW r \in Reqs
          PROVE  Tenus(p, r) =
                   CASE contexte[p][r].etape = "fini" -> {contexte[p][r].nextcid}
                     [] contexte[p][r].etape = "verifier" /\ Participe(p, r) -> {contexte[p][r].nextlocal}
                     [] contexte[p][r].etape = "conclure" /\ Participe(p, r) /\ contexte[p][r].flag = 1 ->
                          {contexte[p][r].nextcid}
                     [] OTHER -> {}
      <3>1. PICK c : c = contexte[p][r]
        OBVIOUS
      <3>2. c \in Contextes /\ c.nextcid \in Cids /\ c.nextlocal \in Cids
        BY <3>1 DEF TypesInv, Contextes
      <3>3. \A i \in Cids : communicators[p][i] = r <=> EstTenu(c, Participe(p, r), i)
        BY <3>1 DEF TenusInv, IdsSuffisent, HorsTable
      <3>4. Tenus(p, r) = {i \in Cids : EstTenu(c, Participe(p, r), i)}
        BY <3>3 DEF Tenus
      <3>5. CASE c.etape = "fini"
        BY <3>1, <3>2, <3>4, <3>5 DEF EstTenu
      <3>6. CASE c.etape = "verifier" /\ Participe(p, r)
        BY <3>1, <3>2, <3>4, <3>6 DEF EstTenu
      <3>7. CASE c.etape = "conclure" /\ Participe(p, r) /\ c.flag = 1
        BY <3>1, <3>2, <3>4, <3>7 DEF EstTenu
      <3>8. CASE /\ c.etape # "fini" /\ ~ (c.etape = "verifier" /\ Participe(p, r))
                 /\ ~ (c.etape = "conclure" /\ Participe(p, r) /\ c.flag = 1)
        BY <3>1, <3>4, <3>8 DEF EstTenu
      <3> QED BY <3>5, <3>6, <3>7, <3>8
    <2> QED BY <2>3, <2>4 DEF PasDeFuite
  <1> QED BY <1>1, <1>2, <1>3, PTL DEF Spec

=============================================================================
