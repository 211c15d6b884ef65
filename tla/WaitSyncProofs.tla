--------------------------- MODULE WaitSyncProofs ---------------------------
(***************************************************************************)
(* ompi_sync_wait_mt for any number of waiting threads and of external     *)
(* ones.  The inductive invariant says which threads the list holds, who   *)
(* holds each sync's lock and why, and where the single completion of each *)
(* request has come against its sync's count and flag.                     *)
(***************************************************************************)
EXTENDS WaitSync, SequenceTheorems, TLAPS

Present(t) == \E k \in 1 .. Len(wait_sync_list) : wait_sync_list[k] = t

(* The list holds each thread once, from its insertion to its removal; the  *)
(* one that progresses is at its head; who holds the list's lock has just   *)
(* left the head to another.                                                *)
ListeInv ==
    /\ \A j, k \in 1 .. Len(wait_sync_list) : wait_sync_list[j] = wait_sync_list[k] => j = k
    /\ \A t \in Threads :
         /\ Present(t) <=>
              pc[t] \in {"check_status", "dormir", "reveil", "progres", "retirer"}
         /\ pc[t] = "progres" => Tete = t
         /\ pc[t] = "passer" <=> wait_sync_lock = t
         /\ pc[t] = "passer" => wait_sync_list # <<>>

(* A sync's lock is held by its owner, between its second test and its      *)
(* sleep, or by the thread that signals it.                                 *)
TientLeSien == {"retest", "inserer", "check_status", "reveil"}

VerrouInv ==
    \A t \in Threads :
        /\ pc[t] \in TientLeSien => verrou[t] = t
        /\ \A p \in Tous :
             /\ etape[p] = "signal" /\ travail[p] = t => verrou[t] = p
             /\ verrou[t] = p =>
                  \/ p = t /\ pc[t] \in TientLeSien
                  \/ etape[p] = "signal" /\ travail[p] = t

(* Of each request: one thread at most completes it, in opal_progress, and  *)
(* the sync exists meanwhile; count and signaling say how far it has come.  *)
(* An owner that is about to sleep has seen the count at 1 under its lock.  *)
Completent(t, etapes) == \E p \in Tous : travail[p] = t /\ etape[p] \in etapes

TravailInv ==
    \A p \in Tous :
        /\ etape[p] = "rien" <=> travail[p] = Personne
        /\ etape[p] # "rien" => EnProgres(p)
        /\ \A q \in Tous : travail[p] = travail[q] /\ travail[p] # Personne => p = q

RequeteInv ==
    \A t \in Threads :
        /\ req_complete[t] = "PENDING" => pc[t] = "debut"
        /\ pc[t] = "debut" => req_complete[t] # "SYNC" /\ count[t] = 1 /\ signaling[t]
        /\ \A p \in Tous : travail[p] = t =>
             /\ req_complete[t] = "COMPLETED" /\ pc[t] # "debut" /\ signaling[t]
             /\ count[t] = IF etape[p] = "update" THEN 1 ELSE 0
        /\ count[t] = 0 =>
             /\ req_complete[t] = "COMPLETED"
             /\ signaling[t] => Completent(t, {"lock", "signal", "effacer"})
        /\ ~ signaling[t] => req_complete[t] = "COMPLETED"
        /\ pc[t] \in {"inserer", "check_status"} /\ count[t] = 0 => Completent(t, {"lock"})
        /\ pc[t] \in {"retirer", "passer"} => count[t] = 0
        /\ pc[t] = "fini" => ~ signaling[t]

Inv == TypeOK /\ ListeInv /\ VerrouInv /\ TravailInv /\ RequeteInv /\ PasDeReveilPerdu

-----------------------------------------------------------------------------
(* What RemoveAt leaves of a sequence.                                      *)
LEMMA RemoveAtProperties ==
    ASSUME NEW S, NEW s \in Seq(S), NEW k \in 1 .. Len(s)
    PROVE  /\ RemoveAt(s, k) \in Seq(S)
           /\ Len(RemoveAt(s, k)) = Len(s) - 1
           /\ \A j \in 1 .. Len(s) - 1 : RemoveAt(s, k)[j] = IF j < k THEN s[j] ELSE s[j + 1]
  <1> DEFINE a == SubSeq(s, 1, k - 1)
             b == SubSeq(s, k + 1, Len(s))
  <1>1. /\ a \in Seq(S) /\ Len(a) = k - 1
        /\ \A j \in 1 .. k - 1 : a[j] = s[j]
    BY SMT
  <1>2. /\ b \in Seq(S) /\ Len(b) = Len(s) - k
        /\ \A j \in 1 .. Len(s) - k : b[j] = s[k + j]
    BY SMT
  <1>3. RemoveAt(s, k) = a \o b
    BY DEF RemoveAt
  <1> HIDE DEF a, b
  <1>4. /\ a \o b \in Seq(S) /\ Len(a \o b) = Len(a) + Len(b)
        /\ \A j \in 1 .. Len(a) + Len(b) :
             (a \o b)[j] = IF j <= Len(a) THEN a[j] ELSE b[j - Len(a)]
    BY <1>1, <1>2, ConcatProperties
  <1> QED BY <1>1, <1>2, <1>3, <1>4

(* The two operations on the list.                                          *)
LEMMA ListeAppend ==
    ASSUME NEW t \in Threads, wait_sync_list \in Seq(Threads), ~ Present(t),
           \A j, k \in 1 .. Len(wait_sync_list) : wait_sync_list[j] = wait_sync_list[k] => j = k,
           wait_sync_list' = Append(wait_sync_list, t)
    PROVE  /\ wait_sync_list' \in Seq(Threads)
           /\ \A j, k \in 1 .. Len(wait_sync_list') : wait_sync_list'[j] = wait_sync_list'[k] => j = k
           /\ \A u : Present(u)' <=> Present(u) \/ u = t
           /\ Tete' = IF wait_sync_list = <<>> THEN t ELSE Tete
           /\ wait_sync_list' # <<>>
  <1> DEFINE s == wait_sync_list
             n == Len(s)
  <1>1. /\ n \in Nat /\ Len(s') = n + 1 /\ s' \in Seq(Threads)
        /\ s'[n + 1] = t
        /\ \A k \in 1 .. n : s'[k] = s[k]
    OBVIOUS
  <1>2. \A j, k \in 1 .. Len(s') : s'[j] = s'[k] => j = k
    BY <1>1 DEF Present
  <1>3. \A u : Present(u)' <=> Present(u) \/ u = t
    BY <1>1 DEF Present
  <1>4. s' # <<>> /\ Head(s') = s'[1]
    BY <1>1
  <1>5. s # <<>> => n >= 1 /\ Head(s) = s[1]
    OBVIOUS
  <1>6. Tete' = IF s = <<>> THEN t ELSE Tete
    BY <1>1, <1>4, <1>5 DEF Tete
  <1> QED BY <1>1, <1>2, <1>3, <1>4, <1>6

LEMMA ListeDelier ==
    ASSUME NEW t \in Threads, wait_sync_list \in Seq(Threads),
           \A j, k \in 1 .. Len(wait_sync_list) : wait_sync_list[j] = wait_sync_list[k] => j = k,
           Delier(t)
    PROVE  /\ wait_sync_list' \in Seq(Threads)
           /\ \A j, k \in 1 .. Len(wait_sync_list') : wait_sync_list'[j] = wait_sync_list'[k] => j = k
           /\ \A u : Present(u)' <=> Present(u) /\ u # t
           /\ Present(t)
           /\ Tete # t => Tete' = Tete /\ wait_sync_list' # <<>>
  <1> DEFINE s == wait_sync_list
             n == Len(s)
  <1>0. PICK k \in 1 .. n : s[k] = t /\ s' = RemoveAt(s, k)
    BY DEF Delier
  <1>1. /\ n \in Nat /\ Len(s') = n - 1 /\ s' \in Seq(Threads)
        /\ \A j \in 1 .. n - 1 : s'[j] = IF j < k THEN s[j] ELSE s[j + 1]
    <2> DEFINE r == RemoveAt(s, k)
    <2>1. /\ r \in Seq(Threads) /\ Len(r) = n - 1
          /\ \A j \in 1 .. n - 1 : r[j] = IF j < k THEN s[j] ELSE s[j + 1]
      BY RemoveAtProperties
    <2>2. s' = r /\ n \in Nat
      BY <1>0
    <2> QED BY <2>1, <2>2
  <1>2. \A i, j \in 1 .. Len(s') : s'[i] = s'[j] => i = j
    BY <1>0, <1>1
  <1>3. \A u : Present(u)' => Present(u) /\ u # t
    BY <1>0, <1>1 DEF Present
  <1>4. ASSUME NEW u, Present(u), u # t
        PROVE  Present(u)'
    <2>1. PICK j \in 1 .. n : s[j] = u
      BY <1>4 DEF Present
    <2>2. j # k
      BY <1>0, <1>4, <2>1
    <2>3. CASE j < k
      BY <1>0, <1>1, <2>1, <2>3 DEF Present
    <2>4. CASE j > k
      <3>1. j - 1 \in 1 .. n - 1 /\ s'[j - 1] = s[j]
        BY <1>0, <1>1, <2>1, <2>4
      <3> QED BY <1>1, <2>1, <3>1 DEF Present
    <2> QED BY <2>2, <2>3, <2>4
  <1>5. Tete = s[1]
    BY <1>0 DEF Tete
  <1>6. ASSUME Tete # t
        PROVE  Tete' = Tete /\ s' # <<>>
    <2>1. k > 1
      BY <1>0, <1>5, <1>6
    <2>2. Len(s') >= 1 /\ s'[1] = s[1]
      BY <1>0, <1>1, <2>1
    <2> QED BY <1>1, <1>5, <2>2 DEF Tete
  <1>7. Present(t)
    BY <1>0 DEF Present
  <1> QED BY <1>1, <1>2, <1>3, <1>4, <1>6, <1>7

-----------------------------------------------------------------------------
LEMMA InitInv == Init => Inv
  <1> SUFFICES ASSUME Init PROVE Inv
    OBVIOUS
  <1>1. TypeOK
    BY DEF Init, TypeOK, Dormeurs
  <1>2. ListeInv
    BY PersonneAssumption DEF Init, ListeInv, Present
  <1>3. VerrouInv /\ TravailInv
    BY PersonneAssumption DEF Init, VerrouInv, TravailInv, TientLeSien, Tous
  <1>4. RequeteInv /\ PasDeReveilPerdu
    BY PersonneAssumption DEF Init, RequeteInv, PasDeReveilPerdu, Dormeurs, Tous
  <1> QED BY <1>1, <1>2, <1>3, <1>4 DEF Inv

-----------------------------------------------------------------------------
(* The steps of a waiting thread.                                           *)
LEMMA ArmerInv ==
    ASSUME Inv, NEW t \in Threads, Armer(t)
    PROVE  Inv'
  <1> USE DEF Inv, Armer, varsProgres, Aller
  <1>0. /\ UNCHANGED wait_sync_list /\ Tete' = Tete
        /\ \A u \in Threads : Present(u)' <=> Present(u)
    BY DEF Tete, Present
  <1>1. TypeOK'
    BY PersonneAssumption DEF TypeOK, Dormeurs, Tous
  <1>2. ListeInv'
    BY <1>0 DEF ListeInv, TypeOK
  <1>3. VerrouInv'
    BY PersonneAssumption DEF VerrouInv, TravailInv, TypeOK, TientLeSien, EnProgres, Tous
  <1>4. TravailInv'
    BY PersonneAssumption DEF TravailInv, RequeteInv, EnProgres, TypeOK, Tous
  <1>5. RequeteInv'
    BY PersonneAssumption
       DEF RequeteInv, VerrouInv, TravailInv, TientLeSien, Completent, TypeOK, Tous
  <1>6. PasDeReveilPerdu'
    BY <1>0, PersonneAssumption
       DEF PasDeReveilPerdu, RequeteInv, TravailInv, Completent, Dormeurs, TypeOK, Tous
  <1> QED BY <1>1, <1>2, <1>3, <1>4, <1>5, <1>6

LEMMA DejaCompleteInv ==
    ASSUME Inv, NEW t \in Threads, DejaComplete(t)
    PROVE  Inv'
  <1> USE DEF Inv, DejaComplete, varsProgres, Aller
  <1>0. /\ UNCHANGED wait_sync_list /\ Tete' = Tete
        /\ \A u \in Threads : Present(u)' <=> Present(u)
    BY DEF Tete, Present
  <1>1. TypeOK'
    BY PersonneAssumption DEF TypeOK, Dormeurs, Tous
  <1>2. ListeInv'
    BY <1>0 DEF ListeInv, TypeOK
  <1>3. VerrouInv'
    BY PersonneAssumption DEF VerrouInv, TravailInv, TypeOK, TientLeSien, EnProgres, Tous
  <1>4. TravailInv'
    BY PersonneAssumption DEF TravailInv, RequeteInv, EnProgres, TypeOK, Tous
  <1>5. RequeteInv'
    BY PersonneAssumption
       DEF RequeteInv, VerrouInv, TravailInv, TientLeSien, Completent, TypeOK, Tous
  <1>6. PasDeReveilPerdu'
    BY <1>0, PersonneAssumption
       DEF PasDeReveilPerdu, RequeteInv, TravailInv, Completent, Dormeurs, TypeOK, Tous
  <1> QED BY <1>1, <1>2, <1>3, <1>4, <1>5, <1>6

LEMMA TesterInv ==
    ASSUME Inv, NEW t \in Threads, Tester(t)
    PROVE  Inv'
  <1> USE DEF Inv, Tester, varsProgres, Aller
  <1>0. /\ UNCHANGED wait_sync_list /\ Tete' = Tete
        /\ \A u \in Threads : Present(u)' <=> Present(u)
    BY DEF Tete, Present
  <1>1. TypeOK'
    BY PersonneAssumption DEF TypeOK, Dormeurs, Tous
  <1>2. ListeInv'
    BY <1>0 DEF ListeInv, TypeOK
  <1>3. VerrouInv'
    BY PersonneAssumption DEF VerrouInv, TravailInv, TypeOK, TientLeSien, EnProgres, Tous
  <1>4. TravailInv'
    BY PersonneAssumption DEF TravailInv, RequeteInv, EnProgres, TypeOK, Tous
  <1>5. RequeteInv'
    BY PersonneAssumption
       DEF RequeteInv, VerrouInv, TravailInv, TientLeSien, Completent, TypeOK, Tous
  <1>6. PasDeReveilPerdu'
    BY <1>0, PersonneAssumption
       DEF PasDeReveilPerdu, RequeteInv, TravailInv, Completent, Dormeurs, TypeOK, Tous
  <1> QED BY <1>1, <1>2, <1>3, <1>4, <1>5, <1>6

LEMMA VerrouillerInv ==
    ASSUME Inv, NEW t \in Threads, Verrouiller(t)
    PROVE  Inv'
  <1> USE DEF Inv, Verrouiller, varsProgres, Aller
  <1>0. /\ UNCHANGED wait_sync_list /\ Tete' = Tete
        /\ \A u \in Threads : Present(u)' <=> Present(u)
    BY DEF Tete, Present
  <1>1. TypeOK'
    BY PersonneAssumption DEF TypeOK, Dormeurs, Tous
  <1>2. ListeInv'
    BY <1>0 DEF ListeInv, TypeOK
  <1>3. VerrouInv'
    BY PersonneAssumption DEF VerrouInv, TravailInv, TypeOK, TientLeSien, EnProgres, Tous
  <1>4. TravailInv'
    BY PersonneAssumption DEF TravailInv, RequeteInv, EnProgres, TypeOK, Tous
  <1>5. RequeteInv'
    BY PersonneAssumption
       DEF RequeteInv, VerrouInv, TravailInv, TientLeSien, Completent, TypeOK, Tous
  <1>6. PasDeReveilPerdu'
    BY <1>0, PersonneAssumption
       DEF PasDeReveilPerdu, RequeteInv, TravailInv, Completent, Dormeurs, TypeOK, Tous
  <1> QED BY <1>1, <1>2, <1>3, <1>4, <1>5, <1>6

LEMMA RetesterInv ==
    ASSUME Inv, NEW t \in Threads, Retester(t)
    PROVE  Inv'
  <1> USE DEF Inv, Retester, varsProgres, Aller
  <1>0. /\ UNCHANGED wait_sync_list /\ Tete' = Tete
        /\ \A u \in Threads : Present(u)' <=> Present(u)
    BY DEF Tete, Present
  <1>1. TypeOK'
    BY PersonneAssumption DEF TypeOK, Dormeurs, Tous
  <1>2. ListeInv'
    BY <1>0 DEF ListeInv, TypeOK
  <1>3. VerrouInv'
    BY PersonneAssumption DEF VerrouInv, TravailInv, TypeOK, TientLeSien, EnProgres, Tous
  <1>4. TravailInv'
    BY PersonneAssumption DEF TravailInv, RequeteInv, EnProgres, TypeOK, Tous
  <1>5. RequeteInv'
    BY PersonneAssumption
       DEF RequeteInv, VerrouInv, TravailInv, TientLeSien, Completent, TypeOK, Tous
  <1>6. PasDeReveilPerdu'
    BY <1>0, PersonneAssumption
       DEF PasDeReveilPerdu, RequeteInv, TravailInv, Completent, Dormeurs, TypeOK, Tous
  <1> QED BY <1>1, <1>2, <1>3, <1>4, <1>5, <1>6

LEMMA CheckStatusInv ==
    ASSUME Inv, NEW t \in Threads, CheckStatus(t)
    PROVE  Inv'
  <1> USE DEF Inv, CheckStatus, varsProgres, Aller
  <1>0. /\ UNCHANGED wait_sync_list /\ Tete' = Tete
        /\ \A u \in Threads : Present(u)' <=> Present(u)
    BY DEF Tete, Present
  <1>1. TypeOK'
    BY PersonneAssumption DEF TypeOK, Dormeurs, Tous
  <1>2. ListeInv'
    BY <1>0 DEF ListeInv, TypeOK
  <1>3. VerrouInv'
    BY PersonneAssumption DEF VerrouInv, TravailInv, TypeOK, TientLeSien, EnProgres, Tous
  <1>4. TravailInv'
    BY PersonneAssumption DEF TravailInv, RequeteInv, EnProgres, TypeOK, Tous
  <1>5. RequeteInv'
    BY PersonneAssumption
       DEF RequeteInv, VerrouInv, TravailInv, TientLeSien, Completent, TypeOK, Tous
  <1>6. PasDeReveilPerdu'
    BY <1>0, PersonneAssumption
       DEF PasDeReveilPerdu, RequeteInv, TravailInv, Completent, Dormeurs, TypeOK, Tous
  <1> QED BY <1>1, <1>2, <1>3, <1>4, <1>5, <1>6

LEMMA ReprendreInv ==
    ASSUME Inv, NEW t \in Threads, Reprendre(t)
    PROVE  Inv'
  <1> USE DEF Inv, Reprendre, varsProgres, Aller
  <1>0. /\ UNCHANGED wait_sync_list /\ Tete' = Tete
        /\ \A u \in Threads : Present(u)' <=> Present(u)
    BY DEF Tete, Present
  <1>1. TypeOK'
    BY PersonneAssumption DEF TypeOK, Dormeurs, Tous
  <1>2. ListeInv'
    BY <1>0 DEF ListeInv, TypeOK
  <1>3. VerrouInv'
    BY PersonneAssumption DEF VerrouInv, TravailInv, TypeOK, TientLeSien, EnProgres, Tous
  <1>4. TravailInv'
    BY PersonneAssumption DEF TravailInv, RequeteInv, EnProgres, TypeOK, Tous
  <1>5. RequeteInv'
    BY PersonneAssumption
       DEF RequeteInv, VerrouInv, TravailInv, TientLeSien, Completent, TypeOK, Tous
  <1>6. PasDeReveilPerdu'
    BY <1>0, PersonneAssumption
       DEF PasDeReveilPerdu, RequeteInv, TravailInv, Completent, Dormeurs, TypeOK, Tous
  <1> QED BY <1>1, <1>2, <1>3, <1>4, <1>5, <1>6

LEMMA ReveilInv ==
    ASSUME Inv, NEW t \in Threads, Reveil(t)
    PROVE  Inv'
  <1> USE DEF Inv, Reveil, varsProgres, Aller
  <1>0. /\ UNCHANGED wait_sync_list /\ Tete' = Tete
        /\ \A u \in Threads : Present(u)' <=> Present(u)
    BY DEF Tete, Present
  <1>1. TypeOK'
    BY PersonneAssumption DEF TypeOK, Dormeurs, Tous
  <1>2. ListeInv'
    BY <1>0 DEF ListeInv, TypeOK
  <1>3. VerrouInv'
    BY PersonneAssumption DEF VerrouInv, TravailInv, TypeOK, TientLeSien, EnProgres, Tous
  <1>4. TravailInv'
    BY PersonneAssumption DEF TravailInv, RequeteInv, EnProgres, TypeOK, Tous
  <1>5. RequeteInv'
    BY PersonneAssumption
       DEF RequeteInv, VerrouInv, TravailInv, TientLeSien, Completent, TypeOK, Tous
  <1>6. PasDeReveilPerdu'
    BY <1>0, PersonneAssumption
       DEF PasDeReveilPerdu, RequeteInv, TravailInv, Completent, Dormeurs, TypeOK, Tous
  <1> QED BY <1>1, <1>2, <1>3, <1>4, <1>5, <1>6

LEMMA InsererInv ==
    ASSUME Inv, NEW t \in Threads, Inserer(t)
    PROVE  Inv'
  <1> USE DEF Inv, Inserer, Aller, varsProgres
  <1>0. /\ wait_sync_list' \in Seq(Threads) /\ wait_sync_list' # <<>>
        /\ \A j, k \in 1 .. Len(wait_sync_list') : wait_sync_list'[j] = wait_sync_list'[k] => j = k
        /\ \A u : Present(u)' <=> Present(u) \/ u = t
        /\ Tete' = IF wait_sync_list = <<>> THEN t ELSE Tete
        /\ wait_sync_list = <<>> => Tete = Personne
    <2>1. ~ Present(t)
      BY DEF ListeInv
    <2> QED BY <2>1, ListeAppend DEF ListeInv, TypeOK, Tete
  <1>1. TypeOK'
    BY <1>0 DEF TypeOK, Dormeurs
  <1>2. ListeInv'
    BY <1>0, PersonneAssumption DEF ListeInv, TypeOK
  <1>3. VerrouInv'
    BY DEF VerrouInv, TypeOK, TientLeSien
  <1>4. TravailInv'
    BY DEF TravailInv, EnProgres, TypeOK
  <1>5. RequeteInv'
    BY DEF RequeteInv, Completent, TypeOK
  <1>6. PasDeReveilPerdu'
    BY <1>0, PersonneAssumption DEF PasDeReveilPerdu, Dormeurs, TypeOK
  <1> QED BY <1>1, <1>2, <1>3, <1>4, <1>5, <1>6

LEMMA FinProgresInv ==
    ASSUME Inv, NEW t \in Threads, FinProgres(t)
    PROVE  Inv'
  <1> USE DEF Inv, FinProgres, varsProgres, Aller
  <1>0. /\ UNCHANGED wait_sync_list /\ Tete' = Tete
        /\ \A u \in Threads : Present(u)' <=> Present(u)
    BY DEF Tete, Present
  <1>1. TypeOK'
    BY PersonneAssumption DEF TypeOK, Dormeurs, Tous
  <1>2. ListeInv'
    BY <1>0 DEF ListeInv, TypeOK
  <1>3. VerrouInv'
    BY PersonneAssumption DEF VerrouInv, TravailInv, TypeOK, TientLeSien, EnProgres, Tous
  <1>4. TravailInv'
    BY PersonneAssumption DEF TravailInv, RequeteInv, EnProgres, TypeOK, Tous
  <1>5. RequeteInv'
    BY PersonneAssumption
       DEF RequeteInv, VerrouInv, TravailInv, TientLeSien, Completent, TypeOK, Tous
  <1>6. PasDeReveilPerdu'
    BY <1>0, PersonneAssumption
       DEF PasDeReveilPerdu, RequeteInv, TravailInv, Completent, Dormeurs, TypeOK, Tous
  <1> QED BY <1>1, <1>2, <1>3, <1>4, <1>5, <1>6

(* A head that leaves others behind holds the list's lock until it has      *)
(* signalled the new head, which may sleep till then.                       *)
LEMMA RetirerInv ==
    ASSUME Inv, NEW t \in Threads, Retirer(t)
    PROVE  Inv'
  <1> USE DEF Inv, Retirer, Aller, varsProgres
  <1>0. /\ wait_sync_list' \in Seq(Threads)
        /\ \A j, k \in 1 .. Len(wait_sync_list') : wait_sync_list'[j] = wait_sync_list'[k] => j = k
        /\ \A u : Present(u)' <=> Present(u) /\ u # t
        /\ Tete # t => Tete' = Tete /\ wait_sync_list' # <<>>
        /\ wait_sync_list' = <<>> => Tete' = Personne
    BY ListeDelier DEF ListeInv, TypeOK, Tete
  <1>1. TypeOK'
    BY <1>0 DEF TypeOK, Dormeurs
  <1>2. ListeInv'
    BY <1>0, PersonneAssumption DEF ListeInv, TypeOK
  <1>3. VerrouInv'
    BY DEF VerrouInv, TypeOK, TientLeSien
  <1>4. TravailInv'
    BY DEF TravailInv, EnProgres, TypeOK
  <1>5. RequeteInv'
    BY DEF RequeteInv, Completent, TypeOK
  <1>6. PasDeReveilPerdu'
    BY <1>0, PersonneAssumption DEF PasDeReveilPerdu, Dormeurs, ListeInv, TypeOK
  <1> QED BY <1>1, <1>2, <1>3, <1>4, <1>5, <1>6

LEMMA PasserInv ==
    ASSUME Inv, NEW t \in Threads, Passer(t)
    PROVE  Inv'
  <1> USE DEF Inv, Passer, Aller, varsProgres
  <1>0. /\ UNCHANGED wait_sync_list /\ Tete' = Tete
        /\ \A u \in Threads : Present(u)' <=> Present(u)
    BY DEF Tete, Present
  <1>1. TypeOK'
    BY DEF TypeOK, Dormeurs
  <1>2. ListeInv'
    BY <1>0, PersonneAssumption DEF ListeInv, TypeOK
  <1>3. VerrouInv'
    BY DEF VerrouInv, TypeOK, TientLeSien
  <1>4. TravailInv'
    BY DEF TravailInv, EnProgres, TypeOK
  <1>5. RequeteInv'
    BY DEF RequeteInv, Completent, TypeOK
  <1>6. PasDeReveilPerdu'
    BY <1>0, PersonneAssumption DEF PasDeReveilPerdu, Dormeurs, ListeInv, TypeOK
  <1> QED BY <1>1, <1>2, <1>3, <1>4, <1>5, <1>6

LEMMA LibererInv ==
    ASSUME Inv, NEW t \in Threads, Liberer(t)
    PROVE  Inv'
  <1> USE DEF Inv, Liberer, varsProgres, Aller
  <1>0. /\ UNCHANGED wait_sync_list /\ Tete' = Tete
        /\ \A u \in Threads : Present(u)' <=> Present(u)
    BY DEF Tete, Present
  <1>1. TypeOK'
    BY PersonneAssumption DEF TypeOK, Dormeurs, Tous
  <1>2. ListeInv'
    BY <1>0 DEF ListeInv, TypeOK
  <1>3. VerrouInv'
    BY PersonneAssumption DEF VerrouInv, TravailInv, TypeOK, TientLeSien, EnProgres, Tous
  <1>4. TravailInv'
    BY PersonneAssumption DEF TravailInv, RequeteInv, EnProgres, TypeOK, Tous
  <1>5. RequeteInv'
    BY PersonneAssumption
       DEF RequeteInv, VerrouInv, TravailInv, TientLeSien, Completent, TypeOK, Tous
  <1>6. PasDeReveilPerdu'
    BY <1>0, PersonneAssumption
       DEF PasDeReveilPerdu, RequeteInv, TravailInv, Completent, Dormeurs, TypeOK, Tous
  <1> QED BY <1>1, <1>2, <1>3, <1>4, <1>5, <1>6

-----------------------------------------------------------------------------
(* The steps of a thread in opal_progress.                                  *)
LEMMA UpdateInv ==
    ASSUME Inv, NEW p \in Tous, Update(p)
    PROVE  Inv'
  <1> USE DEF Inv, Update, varsProgres
  <1>0. /\ UNCHANGED wait_sync_list /\ Tete' = Tete
        /\ \A u \in Threads : Present(u)' <=> Present(u)
    BY DEF Tete, Present
  <1>1. TypeOK'
    <2>1. travail[p] \in Threads /\ count[travail[p]] = 1
      BY DEF TypeOK, TravailInv, RequeteInv
    <2> QED BY <2>1 DEF TypeOK, Dormeurs, Tous
  <1>2. ListeInv'
    BY <1>0 DEF ListeInv, TypeOK
  <1>3. VerrouInv'
    BY PersonneAssumption DEF VerrouInv, TravailInv, TypeOK, TientLeSien, EnProgres, Tous
  <1>4. TravailInv'
    BY PersonneAssumption DEF TravailInv, RequeteInv, EnProgres, TypeOK, Tous
  <1>5. RequeteInv'
    BY PersonneAssumption
       DEF RequeteInv, VerrouInv, TravailInv, TientLeSien, Completent, TypeOK, Tous
  <1>6. PasDeReveilPerdu'
    BY <1>0, PersonneAssumption
       DEF PasDeReveilPerdu, RequeteInv, TravailInv, Completent, Dormeurs, TypeOK, Tous
  <1> QED BY <1>1, <1>2, <1>3, <1>4, <1>5, <1>6

LEMMA SignalLockInv ==
    ASSUME Inv, NEW p \in Tous, SignalLock(p)
    PROVE  Inv'
  <1> USE DEF Inv, SignalLock, varsProgres
  <1>0. /\ UNCHANGED wait_sync_list /\ Tete' = Tete
        /\ \A u \in Threads : Present(u)' <=> Present(u)
    BY DEF Tete, Present
  <1>1. TypeOK'
    BY PersonneAssumption DEF TypeOK, Dormeurs, Tous
  <1>2. ListeInv'
    BY <1>0 DEF ListeInv, TypeOK
  <1>3. VerrouInv'
    BY PersonneAssumption DEF VerrouInv, TravailInv, TypeOK, TientLeSien, EnProgres, Tous
  <1>4. TravailInv'
    BY PersonneAssumption DEF TravailInv, RequeteInv, EnProgres, TypeOK, Tous
  <1>5. RequeteInv'
    <2>1. /\ travail[p] \in Threads /\ pc[travail[p]] \notin {"inserer", "check_status"}
      BY PersonneAssumption DEF VerrouInv, TravailInv, TientLeSien, TypeOK, Tous
    <2>2. Completent(travail[p], {"lock", "signal", "effacer"})'
      BY DEF Completent, TypeOK
    <2>3. \A t \in Threads \ {travail[p]} :
            /\ Completent(t, {"lock"}) => Completent(t, {"lock"})'
            /\ Completent(t, {"lock", "signal", "effacer"}) =>
                 Completent(t, {"lock", "signal", "effacer"})'
      BY DEF Completent, TypeOK
    <2>4. \A t \in Threads, q \in Tous : travail'[q] = t =>
            (etape'[q] = "update" <=> etape[q] = "update")
      BY DEF TypeOK
    <2> QED BY <2>1, <2>2, <2>3, <2>4 DEF RequeteInv
  <1>6. PasDeReveilPerdu'
    BY <1>0, PersonneAssumption
       DEF PasDeReveilPerdu, RequeteInv, TravailInv, Completent, Dormeurs, TypeOK, Tous
  <1> QED BY <1>1, <1>2, <1>3, <1>4, <1>5, <1>6

LEMMA SignalInv ==
    ASSUME Inv, NEW p \in Tous, Signal(p)
    PROVE  Inv'
  <1> USE DEF Inv, Signal, varsProgres
  <1>0. /\ UNCHANGED wait_sync_list /\ Tete' = Tete
        /\ \A u \in Threads : Present(u)' <=> Present(u)
    BY DEF Tete, Present
  <1>1. TypeOK'
    BY PersonneAssumption DEF TypeOK, Dormeurs, Tous
  <1>2. ListeInv'
    BY <1>0 DEF ListeInv, TypeOK
  <1>3. VerrouInv'
    BY PersonneAssumption DEF VerrouInv, TravailInv, TypeOK, TientLeSien, EnProgres, Tous
  <1>4. TravailInv'
    BY PersonneAssumption DEF TravailInv, RequeteInv, EnProgres, TypeOK, Tous
  <1>5. RequeteInv'
    BY PersonneAssumption
       DEF RequeteInv, VerrouInv, TravailInv, TientLeSien, Completent, TypeOK, Tous
  <1>6. PasDeReveilPerdu'
    BY <1>0, PersonneAssumption
       DEF PasDeReveilPerdu, RequeteInv, TravailInv, Completent, Dormeurs, TypeOK, Tous
  <1> QED BY <1>1, <1>2, <1>3, <1>4, <1>5, <1>6

LEMMA EffacerInv ==
    ASSUME Inv, NEW p \in Tous, Effacer(p)
    PROVE  Inv'
  <1> USE DEF Inv, Effacer, varsProgres
  <1>0. /\ UNCHANGED wait_sync_list /\ Tete' = Tete
        /\ \A u \in Threads : Present(u)' <=> Present(u)
    BY DEF Tete, Present
  <1>1. TypeOK'
    BY PersonneAssumption DEF TypeOK, Dormeurs, Tous
  <1>2. ListeInv'
    BY <1>0 DEF ListeInv, TypeOK
  <1>3. VerrouInv'
    BY PersonneAssumption DEF VerrouInv, TravailInv, TypeOK, TientLeSien, EnProgres, Tous
  <1>4. TravailInv'
    BY PersonneAssumption DEF TravailInv, RequeteInv, EnProgres, TypeOK, Tous
  <1>5. RequeteInv'
    BY SMTT(30), PersonneAssumption
       DEF RequeteInv, VerrouInv, TravailInv, TientLeSien, Completent, TypeOK, Tous
  <1>6. PasDeReveilPerdu'
    BY SMTT(30), <1>0, PersonneAssumption
       DEF PasDeReveilPerdu, RequeteInv, TravailInv, Completent, Dormeurs, TypeOK, Tous
  <1> QED BY <1>1, <1>2, <1>3, <1>4, <1>5, <1>6

LEMMA CompleterInv ==
    ASSUME Inv, NEW p \in Tous, NEW r \in Threads, Completer(p, r)
    PROVE  Inv'
  <1> USE DEF Inv, Completer, varsProgres
  <1>0. /\ UNCHANGED wait_sync_list /\ Tete' = Tete
        /\ \A u \in Threads : Present(u)' <=> Present(u)
    BY DEF Tete, Present
  <1>1. TypeOK'
    BY PersonneAssumption DEF TypeOK, Dormeurs, Tous
  <1>2. ListeInv'
    BY <1>0 DEF ListeInv, TypeOK
  <1>3. VerrouInv'
    BY PersonneAssumption DEF VerrouInv, TravailInv, TypeOK, TientLeSien, EnProgres, Tous
  <1>4. TravailInv'
    BY SMTT(30), PersonneAssumption DEF TravailInv, RequeteInv, EnProgres, TypeOK, Tous
  <1>5. RequeteInv'
    BY SMTT(30), PersonneAssumption
       DEF RequeteInv, VerrouInv, TravailInv, TientLeSien, Completent, TypeOK, Tous
  <1>6. PasDeReveilPerdu'
    <2>1. \A q \in Tous : etape[q] # "rien" => etape'[q] = etape[q] /\ travail'[q] = travail[q]
      BY DEF TypeOK
    <2> QED BY <1>0, <2>1 DEF PasDeReveilPerdu, Dormeurs, TypeOK
  <1> QED BY <1>1, <1>2, <1>3, <1>4, <1>5, <1>6

-----------------------------------------------------------------------------
LEMMA StepInv == Inv /\ [Next]_vars => Inv'
  <1> SUFFICES ASSUME Inv, [Next]_vars PROVE Inv'
    OBVIOUS
  <1>1. ASSUME NEW t \in Threads, AttenteSauf(t) \/ Reprendre(t)
        PROVE  Inv'
    BY <1>1, ArmerInv, DejaCompleteInv, TesterInv, VerrouillerInv, RetesterInv, InsererInv,
       CheckStatusInv, ReprendreInv, ReveilInv, FinProgresInv, RetirerInv, PasserInv, LibererInv
       DEF AttenteSauf
  <1>2. ASSUME NEW p \in Tous, Progresser(p)
        PROVE  Inv'
    BY <1>2, CompleterInv, UpdateInv, SignalLockInv, SignalInv, EffacerInv
       DEF Progresser, FinirCompletion
  <1>3. CASE UNCHANGED vars
    <2>1. /\ UNCHANGED <<req_complete, count, signaling, verrou, reveille, wait_sync_list,
                         wait_sync_lock, pc, travail, etape>>
      BY <1>3 DEF vars, varsProgres
    <2>2. TypeOK' /\ TravailInv' /\ VerrouInv'
      BY <2>1 DEF Inv, TypeOK, Dormeurs, TravailInv, EnProgres, VerrouInv
    <2>3. ListeInv' /\ RequeteInv' /\ PasDeReveilPerdu'
      BY <2>1
         DEF Inv, ListeInv, Present, Tete, RequeteInv, Completent, PasDeReveilPerdu, Dormeurs
    <2> QED BY <2>2, <2>3 DEF Inv
  <1> QED BY <1>1, <1>2, <1>3 DEF Next, Termine

-----------------------------------------------------------------------------
(* No wakeup of ompi_sync_wait_mt is lost, for any number of threads and    *)
(* with spurious wakeups: who sleeps with a complete request is about to be *)
(* signalled by who completed it, and who sleeps at the head of the list by *)
(* the former head.                                                         *)
THEOREM PasDeReveilPerduTheorem == Spec => []PasDeReveilPerdu
  <1>1. Inv => PasDeReveilPerdu
    BY DEF Inv
  <1> QED BY <1>1, InitInv, StepInv, PTL DEF Spec

(* The assertion of wait_sync.c:87 holds: who calls opal_progress in a wait *)
(* is the head of the list, hence the only one.                             *)
THEOREM ProgresEnTeteTheorem == Spec => []ProgresEnTete
  <1>1. Inv => ProgresEnTete
    BY DEF Inv, ProgresEnTete, ListeInv
  <1> QED BY <1>1, InitInv, StepInv, PTL DEF Spec

(* When a wait of ompi_sync_wait_mt has returned, nothing refers any more   *)
(* to the sync that was on its stack.                                       *)
THEOREM SyncVivantTheorem == Spec => []SyncVivant
  <1>1. Inv => SyncVivant
    <2> SUFFICES ASSUME Inv, NEW t \in Threads, pc[t] = "fini"
                 PROVE  /\ req_complete[t] = "COMPLETED"
                        /\ \A k \in 1 .. Len(wait_sync_list) : wait_sync_list[k] # t
                        /\ \A p \in Tous : travail[p] # t
                        /\ verrou[t] = Personne
      BY DEF SyncVivant
    <2>1. ~ signaling[t]
      BY DEF Inv, RequeteInv
    <2>2. req_complete[t] = "COMPLETED" /\ \A p \in Tous : travail[p] # t
      BY <2>1 DEF Inv, RequeteInv
    <2>3. ~ Present(t)
      BY DEF Inv, ListeInv
    <2>4. verrou[t] = Personne
      BY <2>2 DEF Inv, VerrouInv, TientLeSien, TypeOK
    <2> QED BY <2>2, <2>3, <2>4 DEF Present
  <1> QED BY <1>1, InitInv, StepInv, PTL DEF Spec
=============================================================================
