------------------------- MODULE RequestSyncProofs -------------------------
(***************************************************************************)
(* MPI_Waitany, Waitall and Waitsome for any number of requests.  The      *)
(* inductive invariant says where the address of the sync can be, given    *)
(* how far the caller's loops have come, and counts, against sync.count,   *)
(* the armed requests whose completion has still to decrement it.          *)
(***************************************************************************)
EXTENDS RequestSync, FiniteSetTheorems, TLAPS

(* The armed requests that have not updated the count.                      *)
Restants == {r \in armes : comp[r] \in {"libre", "swap", "update"}}

(* The threads that have brought the count to 0 and use the sync to signal. *)
Signaleurs == {r \in Requetes : comp[r] \in {"signal", "effacer"}}

(* The requests that the cleaning loop has still to look at.                *)
ANettoyer ==
    CASE pc \in {"armer", "attendre"} -> Requetes
      [] pc = "nettoyer" -> {r \in Requetes : IF appel = "any" THEN r <= i ELSE r >= i}
      [] OTHER -> {}

(* A request and its completing thread: only an armed one has more to do    *)
(* than to mark it, and a null one nothing at all.                          *)
RequeteInv ==
    \A r \in Requetes :
        /\ comp[r] \in {"libre", "swap"} <=> req_complete[r] # "COMPLETED"
        /\ comp[r] \notin {"libre", "fini"} \/ req_complete[r] = "SYNC" => r \in armes
        /\ comp[r] \in {"annuler"} => status /\ r \in erreur
        /\ r \in inactive => comp[r] = "fini"

(* Where the sync's address is.                                             *)
AdresseInv ==
    /\ \A r \in Requetes \ ANettoyer : req_complete[r] # "SYNC"
    /\ \A r \in Actives :
         (IF pc = "armer" THEN r < i ELSE r \in ANettoyer) => req_complete[r] # "PENDING"
    /\ pc = "armer" => \A r \in armes : r < i
    /\ ~ vivant => pc = "fini"

(* What the loops have found.                                               *)
BoucleInv ==
    /\ pc = "armer" => i >= 0
    /\ pc = "attendre" => i = DebutNettoyage
    /\ pc \in {"armer", "attendre"} => rendus = {}
    /\ failed => appel = "all"
    /\ pc = "nettoyer" => IF appel = "any" THEN i < N ELSE i >= 0
    /\ \A r \in rendus : req_complete[r] = "COMPLETED"
    /\ appel = "any" /\ pc \in {"armer", "attendre"} => completed = N
    /\ appel = "any" /\ pc = "armer" => \A r \in Actives : r < i => r \in armes
    /\ appel = "some" /\ pc \in {"armer", "attendre", "nettoyer"} /\ completed > 0 =>
         \E r \in Actives : req_complete[r] = "COMPLETED" /\ r \in ANettoyer \cup rendus
    /\ appel = "some" /\ pc = "armer" => completed <= i
    /\ appel = "all" => completed + Cardinality(armes) = IF pc = "armer" THEN i ELSE N
    /\ appel = "all" /\ pc = "attendre" => ~ failed
    /\ appel = "all" /\ pc = "fini" => ~ signaling

(* What the calls return.                                                   *)
RenduInv ==
    /\ appel # "all" /\ pc \in {"nettoyer", "liberer", "fini"} /\ Actives # {} =>
         rendus # {} \/ \E r \in ANettoyer \cap Actives : req_complete[r] = "COMPLETED"
    /\ appel = "all" /\ pc \in {"nettoyer", "liberer", "fini"} /\ ~ failed =>
         /\ \A r \in Actives : req_complete[r] = "COMPLETED"
         /\ rendus = Actives \ ANettoyer

(* The count: exact for wait_all as long as no error is seen, bounded below *)
(* by what has been subtracted in any case; and while it has not moved in   *)
(* wait_any and wait_some, no completion of an armed request is known of.   *)
CompteInv ==
    /\ count <= N
    /\ Cardinality(Restants) - Cardinality(armes)
         - (IF appel = "all" /\ pc # "armer" THEN completed ELSE 0) <= count
    /\ appel # "all" => count = 1 \/ \E r \in armes : req_complete[r] = "COMPLETED"
    /\ appel = "all" /\ ~ status /\ ~ failed =>
         count = IF pc = "armer" THEN N - Cardinality(armes) + Cardinality(Restants)
                 ELSE Cardinality(Restants)

(* Without errors wait_all's count reaches 0 once, so that one thread uses  *)
(* the sync to signal, or none when the caller brought it there.            *)
SignalInv ==
    appel = "all" /\ erreur = {} =>
        /\ ~ status /\ ~ failed
        /\ Signaleurs # {} => signaling /\ count = 0
        /\ \A r, s \in Signaleurs : r = s
        /\ ~ signaling => count = 0

Inv == TypeOK /\ RequeteInv /\ AdresseInv /\ BoucleInv /\ RenduInv /\ CompteInv /\ SignalInv

-----------------------------------------------------------------------------
LEMMA RequetesFinies ==
    IsFiniteSet(Requetes) /\ Cardinality(Requetes) = N
  BY FS_Interval, NAssumption DEF Requetes

(* What sets of requests count.                                             *)
LEMMA Comptes ==
    ASSUME TypeOK
    PROVE  /\ IsFiniteSet(armes) /\ Cardinality(armes) \in 0 .. N
           /\ IsFiniteSet(Restants) /\ Cardinality(Restants) \in 0 .. Cardinality(armes)
           /\ Cardinality(Restants) = 0 => Restants = {}
           /\ Cardinality(armes) = N => armes = Requetes
  <1>1. armes \subseteq Requetes /\ Restants \subseteq armes
    BY DEF TypeOK, Actives, Restants
  <1>2. /\ IsFiniteSet(armes) /\ Cardinality(armes) <= N
        /\ Cardinality(armes) = N => armes = Requetes
    BY <1>1, RequetesFinies, FS_Subset
  <1>3. IsFiniteSet(Restants) /\ Cardinality(Restants) <= Cardinality(armes)
    BY <1>1, <1>2, FS_Subset
  <1>4. Cardinality(armes) \in Nat /\ Cardinality(Restants) \in Nat
    BY <1>2, <1>3, FS_CardinalityType
  <1>5. Cardinality(Restants) = 0 => Restants = {}
    BY <1>3, FS_EmptySet
  <1> QED BY <1>2, <1>3, <1>4, <1>5, NAssumption

(* One request less to count, if it was counted.                            *)
LEMMA UnDeMoins ==
    ASSUME TypeOK, NEW r, Restants' = Restants \ {r}
    PROVE  Cardinality(Restants') =
             IF r \in Restants THEN Cardinality(Restants) - 1 ELSE Cardinality(Restants)
  BY Comptes, FS_RemoveElement

(* One request more is armed, and has its completion before it.             *)
LEMMA UnDePlus ==
    ASSUME TypeOK, NEW r, r \notin armes,
           armes' = armes \cup {r}, Restants' = Restants \cup {r}
    PROVE  /\ Cardinality(armes') = Cardinality(armes) + 1
           /\ Cardinality(Restants') = Cardinality(Restants) + 1
  <1>1. r \notin Restants
    BY DEF Restants
  <1> QED BY <1>1, Comptes, FS_AddElement

LEMMA InitInv == Init => Inv
  <1> SUFFICES ASSUME Init PROVE Inv
    OBVIOUS
  <1>1. TypeOK
    <2>1. inactive \subseteq Requetes /\ erreur \subseteq Actives
      BY DEF Init, Actives
    <2>2. /\ req_complete \in [Requetes -> {"PENDING", "COMPLETED", "SYNC"}]
          /\ comp \in [Requetes -> {"libre", "swap", "update", "annuler", "signal", "effacer", "fini"}]
          /\ \A r \in Requetes : comp[r] \notin {"libre", "swap"} => req_complete[r] = "COMPLETED"
      BY DEF Init
    <2>3. count \in - N .. N /\ i \in -1 .. N /\ completed \in 0 .. N
      BY NAssumption DEF Init
    <2> QED BY <2>1, <2>2, <2>3 DEF Init, TypeOK
  <1>2. armes = {} /\ Restants = {} /\ Signaleurs = {} /\ ANettoyer = Requetes
    BY DEF Init, Restants, Signaleurs, ANettoyer
  <1>3. Cardinality(armes) = 0 /\ Cardinality(Restants) = 0
    BY <1>2, FS_EmptySet
  <1>4. RequeteInv
    BY DEF Init, RequeteInv, Requetes
  <1>5. AdresseInv
    BY <1>2 DEF Init, AdresseInv, Actives, Requetes
  <1>6. BoucleInv
    BY <1>3, NAssumption DEF Init, BoucleInv, Actives, Requetes
  <1>7. RenduInv
    BY DEF Init, RenduInv
  <1>8. CompteInv
    BY <1>3, NAssumption DEF Init, CompteInv
  <1>9. SignalInv
    BY <1>2, ErreursAssumption DEF Init, SignalInv
  <1> QED BY <1>1, <1>4, <1>5, <1>6, <1>7, <1>8, <1>9 DEF Inv

-----------------------------------------------------------------------------
(* The threads that complete the requests.                                  *)
PasAppelant == UNCHANGED <<varsDonnees, varsAppel>>

(* They leave alone what the caller's loops know, and a request that is     *)
(* complete stays so.                                                       *)
LEMMA AppelantStable ==
    ASSUME Inv, PasAppelant, RequeteInv', TypeOK',
           NEW r \in Requetes,
           \A s \in Requetes \ {r} : req_complete'[s] = req_complete[s],
           req_complete'[r] \in {req_complete[r], "COMPLETED"},
           vivant' = vivant, signaling' \in {signaling, FALSE}
    PROVE  AdresseInv' /\ BoucleInv' /\ RenduInv'
  <1> USE DEF Inv, PasAppelant, varsDonnees, varsAppel
  <1>1. /\ ANettoyer' = ANettoyer /\ Actives' = Actives
        /\ \A s \in Requetes : /\ req_complete'[s] \in {req_complete[s], "COMPLETED"}
                               /\ req_complete[s] = "COMPLETED" => req_complete'[s] = "COMPLETED"
    BY DEF ANettoyer, Actives
  <1>2. rendus \subseteq Requetes /\ Actives \subseteq Requetes /\ ANettoyer \subseteq Requetes
    BY DEF TypeOK, Actives, ANettoyer
  <1>3. AdresseInv'
    BY <1>1, <1>2 DEF AdresseInv
  <1>4. BoucleInv'
    BY <1>1, <1>2 DEF BoucleInv, DebutNettoyage, TypeOK
  <1>5. RenduInv'
    BY <1>1, <1>2 DEF RenduInv
  <1> QED BY <1>3, <1>4, <1>5

(* A completion that finds REQUEST_PENDING has nothing more to do; one that *)
(* finds the sync goes on to update it.                                     *)
LEMMA MarquerInv ==
    ASSUME Inv, NEW r \in Requetes,
           comp[r] \in {"libre", "swap"},
           UNCHANGED <<varsDonnees, varsSync, varsAppel>>,
           req_complete' = [req_complete EXCEPT ![r] = "COMPLETED"],
           comp' = [comp EXCEPT ![r] = IF req_complete[r] = "PENDING" THEN "fini" ELSE "update"]
    PROVE  Inv'
  <1> USE DEF Inv, varsDonnees, varsSync, varsAppel
  <1>0. req_complete[r] \in {"PENDING", "SYNC"} /\ Actives' = Actives
    BY DEF TypeOK, RequeteInv, Actives
  <1>1. TypeOK'
    BY <1>0 DEF TypeOK
  <1>2. RequeteInv'
    BY <1>0 DEF TypeOK, RequeteInv
  <1>3. AdresseInv' /\ BoucleInv' /\ RenduInv'
    BY <1>1, <1>2, AppelantStable DEF PasAppelant, TypeOK
  <1>4. Signaleurs' = Signaleurs
    BY <1>0 DEF Signaleurs, TypeOK
  <1>5. SignalInv'
    BY <1>4 DEF SignalInv
  <1>6. CASE req_complete[r] = "SYNC"
    <2>1. Restants' = Restants
      BY <1>6 DEF Restants, TypeOK, Actives, RequeteInv
    <2>2. \A s \in armes : req_complete[s] = "COMPLETED" => req_complete'[s] = "COMPLETED"
      BY DEF TypeOK, Actives
    <2>3. CompteInv'
      BY <2>1, <2>2 DEF CompteInv
    <2> QED BY <1>1, <1>2, <1>3, <1>5, <2>3
  <1>7. CASE req_complete[r] = "PENDING"
    <2>1. Restants' = Restants \ {r}
      BY <1>7 DEF Restants, TypeOK, Actives
    <2>2. /\ Cardinality(Restants) \in Nat /\ Cardinality(armes) \in Nat
          /\ Cardinality(Restants') = IF r \in Restants THEN Cardinality(Restants) - 1
                                      ELSE Cardinality(Restants)
      BY <2>1, Comptes, UnDeMoins
    <2>3. \A s \in armes : req_complete[s] = "COMPLETED" => req_complete'[s] = "COMPLETED"
      BY DEF TypeOK, Actives
    <2>4. r \in Restants => ~ (appel = "all" /\ ~ failed)
      <3> SUFFICES ASSUME r \in armes, appel = "all", ~ failed PROVE FALSE
        BY DEF Restants
      <3>1. r \in Actives
        BY DEF TypeOK
      <3> QED BY <1>7, <3>1 DEF AdresseInv, RenduInv, ANettoyer, TypeOK
    <2>5. CompteInv'
      BY <2>2, <2>3, <2>4 DEF CompteInv, TypeOK
    <2> QED BY <1>1, <1>2, <1>3, <1>5, <2>5
  <1> QED BY <1>0, <1>6, <1>7

LEMMA CompleterInv ==
    ASSUME Inv, NEW r \in Requetes, Completer(r)
    PROVE  Inv'
  <1> USE DEF Inv
  <1>1. CASE req_complete[r] = "PENDING"
    BY <1>1, MarquerInv DEF Completer
  <1>2. CASE req_complete[r] # "PENDING"
    <2>0. req_complete[r] = "SYNC" /\ comp[r] = "libre" /\ r \in armes
      BY <1>2 DEF Completer, RequeteInv, TypeOK
    <2>1. /\ comp' = [comp EXCEPT ![r] = "swap"]
          /\ UNCHANGED <<varsDonnees, req_complete, varsSync, varsAppel>> /\ Actives' = Actives
      BY <1>2 DEF Completer, Actives, varsDonnees
    <2> USE DEF varsDonnees, varsSync, varsAppel
    <2>2. TypeOK'
      BY <2>0, <2>1 DEF TypeOK
    <2>3. RequeteInv'
      BY <2>0, <2>1 DEF TypeOK, RequeteInv
    <2>4. AdresseInv' /\ BoucleInv' /\ RenduInv'
      BY <2>1, <2>2, <2>3, AppelantStable DEF PasAppelant, TypeOK
    <2>5. Signaleurs' = Signaleurs /\ Restants' = Restants
      BY <2>0, <2>1 DEF Signaleurs, Restants, TypeOK, Actives
    <2>6. SignalInv' /\ CompteInv'
      BY <2>1, <2>5 DEF SignalInv, CompteInv
    <2> QED BY <2>2, <2>3, <2>4, <2>6
  <1> QED BY <1>1, <1>2

LEMMA EchangerInv ==
    ASSUME Inv, NEW r \in Requetes, Echanger(r)
    PROVE  Inv'
  BY MarquerInv DEF Echanger

LEMMA DecrementerInv ==
    ASSUME Inv, NEW r \in Requetes, Decrementer(r)
    PROVE  Inv'
  <1> USE DEF Inv, varsDonnees, varsAppel
  <1>0. /\ comp[r] = "update" /\ r \notin erreur /\ r \in armes
        /\ req_complete[r] = "COMPLETED"
    BY DEF Decrementer, RequeteInv, TypeOK
  <1>1. /\ count' = count - 1
        /\ comp' = [comp EXCEPT ![r] = IF count' = 0 THEN "signal" ELSE "fini"]
        /\ UNCHANGED <<varsDonnees, req_complete, status, signaling, vivant, varsAppel>>
        /\ Actives' = Actives
    BY DEF Decrementer, Actives
  <1>2. Restants' = Restants \ {r} /\ r \in Restants
    BY <1>0, <1>1 DEF Restants, TypeOK, Actives
  <1>3. /\ Cardinality(Restants') = Cardinality(Restants) - 1
        /\ Cardinality(Restants) \in 1 .. Cardinality(armes) /\ Cardinality(armes) \in 0 .. N
    BY <1>2, Comptes, UnDeMoins
  <1>4. CompteInv'
    BY <1>0, <1>1, <1>3, NAssumption DEF CompteInv, TypeOK
  <1>5. count' \in - N .. N
    BY <1>1, <1>3, <1>4, NAssumption DEF CompteInv, BoucleInv, TypeOK
  <1>6. TypeOK'
    BY <1>0, <1>1, <1>5 DEF TypeOK
  <1>7. RequeteInv'
    BY <1>0, <1>1 DEF TypeOK, RequeteInv
  <1>8. AdresseInv' /\ BoucleInv' /\ RenduInv'
    BY <1>1, <1>6, <1>7, AppelantStable DEF PasAppelant, TypeOK
  <1>9. SignalInv'
    <2> SUFFICES ASSUME appel = "all", erreur = {}
                 PROVE  /\ ~ status /\ ~ failed
                        /\ Signaleurs' # {} => signaling /\ count' = 0
                        /\ \A q, s \in Signaleurs' : q = s
                        /\ ~ signaling => count' = 0
      BY <1>1 DEF SignalInv
    <2>1. ~ status /\ ~ failed
      BY DEF SignalInv
    <2>2. count > 0
      BY <2>1, <1>3, NAssumption DEF CompteInv, TypeOK
    <2>3. Signaleurs = {} /\ signaling
      BY <2>2 DEF SignalInv, TypeOK
    <2>4. Signaleurs' = IF count' = 0 THEN {r} ELSE {}
      BY <2>3, <1>1 DEF Signaleurs, TypeOK
    <2> QED BY <2>1, <2>3, <2>4
  <1> QED BY <1>4, <1>6, <1>7, <1>8, <1>9

LEMMA MarquerErreurInv ==
    ASSUME Inv, NEW r \in Requetes, MarquerErreur(r)
    PROVE  Inv'
  <1> USE DEF Inv, varsDonnees, varsAppel
  <1>0. /\ comp[r] = "update" /\ r \in erreur /\ r \in armes
        /\ req_complete[r] = "COMPLETED"
    BY DEF MarquerErreur, RequeteInv, TypeOK
  <1>1. /\ status' = TRUE
        /\ comp' = [comp EXCEPT ![r] = "annuler"]
        /\ UNCHANGED <<varsDonnees, req_complete, count, signaling, vivant, varsAppel>>
        /\ Actives' = Actives
    BY DEF MarquerErreur, Actives
  <1>2. Restants' = Restants \ {r} /\ r \in Restants
    BY <1>0, <1>1 DEF Restants, TypeOK, Actives
  <1>3. /\ Cardinality(Restants') = Cardinality(Restants) - 1
        /\ Cardinality(Restants) \in 1 .. Cardinality(armes) /\ Cardinality(armes) \in 0 .. N
    BY <1>2, Comptes, UnDeMoins
  <1>4. CompteInv'
    BY <1>0, <1>1, <1>3, NAssumption DEF CompteInv, TypeOK
  <1>6. TypeOK'
    BY <1>0, <1>1 DEF TypeOK
  <1>7. RequeteInv'
    BY <1>0, <1>1 DEF TypeOK, RequeteInv
  <1>8. AdresseInv' /\ BoucleInv' /\ RenduInv'
    BY <1>1, <1>6, <1>7, AppelantStable DEF PasAppelant, TypeOK
  <1>9. SignalInv'
    BY <1>0, <1>1 DEF SignalInv
  <1> QED BY <1>4, <1>6, <1>7, <1>8, <1>9

LEMMA AnnulerCompteInv ==
    ASSUME Inv, NEW r \in Requetes, AnnulerCompte(r)
    PROVE  Inv'
  <1> USE DEF Inv, varsDonnees, varsAppel
  <1>0. /\ comp[r] = "annuler" /\ r \in erreur /\ r \in armes /\ status
        /\ req_complete[r] = "COMPLETED"
    BY DEF AnnulerCompte, RequeteInv, TypeOK
  <1>1. /\ count' = 0
        /\ comp' = [comp EXCEPT ![r] = "signal"]
        /\ UNCHANGED <<varsDonnees, req_complete, status, signaling, vivant, varsAppel>>
        /\ Actives' = Actives
    BY DEF AnnulerCompte, Actives
  <1>2. Restants' = Restants
    BY <1>0, <1>1 DEF Restants, TypeOK, Actives
  <1>3. Cardinality(Restants) \in 0 .. Cardinality(armes) /\ Cardinality(armes) \in 0 .. N
    BY Comptes
  <1>4. CompteInv'
    BY <1>0, <1>1, <1>2, <1>3, NAssumption DEF CompteInv, TypeOK
  <1>6. TypeOK'
    BY <1>0, <1>1, NAssumption DEF TypeOK
  <1>7. RequeteInv'
    BY <1>0, <1>1 DEF TypeOK, RequeteInv
  <1>8. AdresseInv' /\ BoucleInv' /\ RenduInv'
    BY <1>1, <1>6, <1>7, AppelantStable DEF PasAppelant, TypeOK
  <1>9. SignalInv'
    BY <1>0, <1>1 DEF SignalInv
  <1> QED BY <1>4, <1>6, <1>7, <1>8, <1>9

LEMMA SignalerInv ==
    ASSUME Inv, NEW r \in Requetes, Signaler(r)
    PROVE  Inv'
  <1> USE DEF Inv, varsDonnees, varsSync, varsAppel
  <1>0. comp[r] = "signal" /\ r \in armes /\ req_complete[r] = "COMPLETED"
    BY DEF Signaler, RequeteInv, TypeOK
  <1>1. /\ comp' = [comp EXCEPT ![r] = "effacer"]
        /\ UNCHANGED <<varsDonnees, req_complete, varsSync, varsAppel>> /\ Actives' = Actives
    BY DEF Signaler, Actives
  <1>2. Restants' = Restants /\ Signaleurs' = Signaleurs
    BY <1>0, <1>1 DEF Restants, Signaleurs, TypeOK, Actives
  <1>4. CompteInv' /\ SignalInv'
    BY <1>1, <1>2 DEF CompteInv, SignalInv
  <1>6. TypeOK'
    BY <1>0, <1>1 DEF TypeOK
  <1>7. RequeteInv'
    BY <1>0, <1>1 DEF TypeOK, RequeteInv
  <1>8. AdresseInv' /\ BoucleInv' /\ RenduInv'
    BY <1>1, <1>6, <1>7, AppelantStable DEF PasAppelant, TypeOK
  <1> QED BY <1>4, <1>6, <1>7, <1>8

LEMMA EffacerInv ==
    ASSUME Inv, NEW r \in Requetes, Effacer(r)
    PROVE  Inv'
  <1> USE DEF Inv, varsDonnees, varsAppel
  <1>0. comp[r] = "effacer" /\ r \in armes /\ req_complete[r] = "COMPLETED"
    BY DEF Effacer, RequeteInv, TypeOK
  <1>1. /\ signaling' = FALSE
        /\ comp' = [comp EXCEPT ![r] = "fini"]
        /\ UNCHANGED <<varsDonnees, req_complete, count, status, vivant, varsAppel>>
        /\ Actives' = Actives
    BY DEF Effacer, Actives
  <1>2. Restants' = Restants /\ Signaleurs' = Signaleurs \ {r} /\ r \in Signaleurs
    BY <1>0, <1>1 DEF Restants, Signaleurs, TypeOK, Actives
  <1>4. CompteInv' /\ SignalInv'
    BY <1>1, <1>2 DEF CompteInv, SignalInv
  <1>6. TypeOK'
    BY <1>0, <1>1 DEF TypeOK
  <1>7. RequeteInv'
    BY <1>0, <1>1 DEF TypeOK, RequeteInv
  <1>8. AdresseInv' /\ BoucleInv' /\ RenduInv'
    BY <1>1, <1>6, <1>7, AppelantStable DEF PasAppelant, TypeOK
  <1> QED BY <1>4, <1>6, <1>7, <1>8

-----------------------------------------------------------------------------
(* The caller's first loop.                                                 *)
LEMMA SauterInv ==
    ASSUME Inv, Sauter
    PROVE  Inv'
  <1> USE DEF Inv, varsDonnees, varsSync
  <1>0. pc = "armer" /\ i \in 0 .. N - 1 /\ i \in inactive
    BY NAssumption DEF Sauter, BoucleInv, TypeOK
  <1>1. /\ i' = i + 1
        /\ completed' = IF appel = "all" THEN completed + 1 ELSE completed
        /\ UNCHANGED <<varsDonnees, req_complete, varsSync, comp, pc, failed, armes, rendus>>
        /\ Actives' = Actives
    BY DEF Sauter, Actives
  <1>2. /\ Cardinality(Restants) \in 0 .. Cardinality(armes) /\ Cardinality(armes) \in 0 .. N
        /\ Restants' = Restants /\ Signaleurs' = Signaleurs /\ ANettoyer' = ANettoyer
    BY <1>0, <1>1, Comptes DEF Restants, Signaleurs, ANettoyer
  <1>3. TypeOK'
    BY <1>0, <1>1, <1>2, NAssumption DEF TypeOK, BoucleInv
  <1>4. RequeteInv'
    BY <1>1 DEF RequeteInv
  <1>5. AdresseInv'
    BY <1>0, <1>1, <1>2, NAssumption DEF AdresseInv, Requetes, Actives, TypeOK
  <1>6. BoucleInv'
    BY <1>0, <1>1, <1>2, NAssumption DEF BoucleInv, Requetes, Actives, TypeOK
  <1>7. RenduInv' /\ CompteInv' /\ SignalInv'
    BY <1>0, <1>1, <1>2 DEF RenduInv, CompteInv, SignalInv
  <1> QED BY <1>3, <1>4, <1>5, <1>6, <1>7

LEMMA ArmerInv ==
    ASSUME Inv, Armer
    PROVE  Inv'
  <1> USE DEF Inv, varsDonnees, varsSync
  <1>0. /\ pc = "armer" /\ i \in 0 .. N - 1 /\ i \in Requetes /\ i \in Actives
        /\ req_complete[i] = "PENDING" /\ i \notin armes /\ comp[i] \in {"libre", "swap"}
    BY NAssumption DEF Armer, BoucleInv, AdresseInv, RequeteInv, TypeOK, Requetes, Actives
  <1>1. /\ req_complete' = [req_complete EXCEPT ![i] = "SYNC"]
        /\ armes' = armes \cup {i}
        /\ i' = i + 1
        /\ UNCHANGED <<varsDonnees, varsSync, comp, pc, completed, failed, rendus>>
        /\ Actives' = Actives
    BY DEF Armer, Actives
  <1>2. /\ Restants' = Restants \cup {i} /\ Signaleurs' = Signaleurs /\ ANettoyer' = ANettoyer
        /\ ANettoyer = Requetes
    BY <1>0, <1>1 DEF Restants, Signaleurs, ANettoyer
  <1>3. /\ Cardinality(armes') = Cardinality(armes) + 1
        /\ Cardinality(Restants') = Cardinality(Restants) + 1
        /\ Cardinality(Restants) \in 0 .. Cardinality(armes) /\ Cardinality(armes) \in 0 .. N
    BY <1>0, <1>1, <1>2, UnDePlus, Comptes
  <1>4. TypeOK'
    BY <1>0, <1>1, NAssumption DEF TypeOK
  <1>5. RequeteInv'
    BY <1>0, <1>1 DEF RequeteInv, TypeOK
  <1>6. AdresseInv'
    BY <1>0, <1>1, <1>2, NAssumption DEF AdresseInv, Requetes, Actives, TypeOK
  <1>7. BoucleInv'
    <2>1. \A r \in Requetes : req_complete[r] = "COMPLETED" => req_complete'[r] = "COMPLETED"
      BY <1>0, <1>1 DEF TypeOK
    <2>2. /\ i' \in 1 .. N /\ rendus' = {} /\ pc' = "armer"
          /\ UNCHANGED <<appel, completed, failed, rendus, ANettoyer, Actives>>
      BY <1>0, <1>1, <1>2, NAssumption DEF BoucleInv
    <2>3. CASE appel = "any"
      <3>1. \A r \in Actives : r < i' => r \in armes'
        BY <1>0, <1>1, <2>3 DEF BoucleInv, Requetes, Actives
      <3> QED BY <1>0, <2>2, <2>3, <3>1, NAssumption DEF BoucleInv
    <2>4. CASE appel = "all"
      <3>1. completed + Cardinality(armes') = i + 1
        BY <1>0, <1>3, <2>4 DEF BoucleInv, TypeOK
      <3> QED BY <1>1, <2>2, <2>4, <3>1
              DEF BoucleInv
    <2>5. CASE appel = "some"
      <3>1. completed' <= i'
        BY <1>0, <1>1, <2>2, <2>5 DEF BoucleInv, TypeOK
      <3>2. completed' > 0 =>
              \E r \in Actives' : req_complete'[r] = "COMPLETED" /\ r \in ANettoyer' \cup rendus'
        BY <1>0, <2>1, <2>2, <2>5 DEF BoucleInv, Actives
      <3> QED BY <2>2, <2>5, <3>1, <3>2, NAssumption DEF BoucleInv
    <2> QED BY <2>3, <2>4, <2>5 DEF TypeOK
  <1>8. RenduInv'
    BY <1>0, <1>1 DEF RenduInv
  <1>9. CompteInv'
    <2>1. \A r \in armes : req_complete[r] = "COMPLETED" => req_complete'[r] = "COMPLETED"
      BY <1>0, <1>1 DEF TypeOK, Actives
    <2>2. UNCHANGED <<appel, count, status, failed, pc, completed>>
      BY <1>1
    <2>3. appel # "all" => count' = 1 \/ \E r \in armes' : req_complete'[r] = "COMPLETED"
      BY <1>1, <2>1, <2>2 DEF CompteInv
    <2>4. Cardinality(Restants') - Cardinality(armes') = Cardinality(Restants) - Cardinality(armes)
      BY <1>3
    <2>5. N - Cardinality(armes') + Cardinality(Restants')
            = N - Cardinality(armes) + Cardinality(Restants)
      BY <1>3, NAssumption
    <2> QED BY <1>0, <2>2, <2>3, <2>4, <2>5 DEF CompteInv
  <1>10. SignalInv'
    BY <1>1, <1>2 DEF SignalInv
  <1> QED BY <1>4, <1>5, <1>6, <1>7, <1>8, <1>9, <1>10

LEMMA TrouverCompleteInv ==
    ASSUME Inv, TrouverComplete
    PROVE  Inv'
  <1> USE DEF Inv, varsDonnees, varsSync
  <1>0. /\ pc = "armer" /\ i \in 0 .. N - 1 /\ i \in Requetes /\ i \in Actives
        /\ req_complete[i] = "COMPLETED" /\ i \notin armes
        /\ rendus = {} /\ ANettoyer = Requetes
    BY NAssumption DEF TrouverComplete, BoucleInv, AdresseInv, RequeteInv, TypeOK, Requetes,
                       Actives, ANettoyer
  <1>1. /\ UNCHANGED <<varsDonnees, req_complete, varsSync, comp, armes>> /\ Actives' = Actives
    BY DEF TrouverComplete, Actives
  <1>2. /\ Restants' = Restants /\ Signaleurs' = Signaleurs
        /\ Cardinality(Restants) \in 0 .. Cardinality(armes) /\ Cardinality(armes) \in 0 .. N
    BY <1>1, Comptes DEF Restants, Signaleurs
  <1>3. RequeteInv'
    BY <1>1 DEF RequeteInv
  <1>4. CASE appel = "any"
    <2>1. /\ completed' = i /\ rendus' = {i} /\ pc' = "nettoyer" /\ i' = i - 1 /\ failed' = failed
      BY <1>4 DEF TrouverComplete
    <2>2. ANettoyer' = {r \in Requetes : r < i}
      BY <1>0, <1>1, <1>4, <2>1 DEF ANettoyer, Requetes
    <2>3. TypeOK'
      BY <1>0, <1>1, <2>1, NAssumption DEF TypeOK
    <2>4. AdresseInv'
      BY <1>0, <1>1, <2>1, <2>2 DEF AdresseInv, RequeteInv, TypeOK, Requetes, Actives
    <2>5. BoucleInv'
      <3>1. i < N /\ N \in Int /\ i \in Int /\ i' < N
        BY <1>0, <2>1, NAssumption
      <3>2. \A r \in rendus' : req_complete'[r] = "COMPLETED"
        BY <1>0, <1>1, <2>1
      <3>3. appel' = "any" /\ pc' = "nettoyer"
        BY <1>1, <1>4, <2>1
      <3>4. ~ failed'
        BY <1>4, <2>1 DEF BoucleInv
      <3> QED BY <3>1, <3>2, <3>3, <3>4 DEF BoucleInv
    <2>6. RenduInv' /\ CompteInv' /\ SignalInv'
      BY <1>1, <1>2, <1>4, <2>1 DEF RenduInv, CompteInv, SignalInv
    <2> QED BY <1>3, <2>3, <2>4, <2>5, <2>6
  <1>5. CASE appel = "all"
    <2>1. /\ completed' = completed + 1 /\ failed' = (failed \/ i \in erreur) /\ i' = i + 1
          /\ UNCHANGED <<pc, rendus>>
      BY <1>5 DEF TrouverComplete
    <2>2. ANettoyer' = ANettoyer
      BY <1>0, <1>1, <2>1 DEF ANettoyer
    <2>3. TypeOK'
      BY <1>0, <1>1, <1>2, <1>5, <2>1, NAssumption DEF TypeOK, BoucleInv
    <2>4. AdresseInv'
      BY <1>0, <1>1, <2>1, <2>2 DEF AdresseInv, TypeOK, Requetes, Actives
    <2>5. BoucleInv'
      BY <1>0, <1>1, <1>2, <1>5, <2>1, NAssumption DEF BoucleInv, TypeOK
    <2>6. RenduInv' /\ CompteInv' /\ SignalInv'
      BY <1>0, <1>1, <1>2, <1>5, <2>1 DEF RenduInv, CompteInv, SignalInv
    <2> QED BY <1>3, <2>3, <2>4, <2>5, <2>6
  <1>6. CASE appel = "some"
    <2>1. completed' = completed + 1 /\ i' = i + 1 /\ UNCHANGED <<pc, failed, rendus>>
      BY <1>6 DEF TrouverComplete
    <2>2. ANettoyer' = ANettoyer
      BY <1>0, <1>1, <2>1 DEF ANettoyer
    <2>3. TypeOK'
      BY <1>0, <1>1, <1>2, <1>6, <2>1, NAssumption DEF TypeOK, BoucleInv
    <2>4. AdresseInv'
      BY <1>0, <1>1, <2>1, <2>2 DEF AdresseInv, TypeOK, Requetes, Actives
    <2>5. BoucleInv'
      BY <1>0, <1>1, <1>2, <1>6, <2>1, <2>2, NAssumption DEF BoucleInv, TypeOK
    <2>6. RenduInv' /\ CompteInv' /\ SignalInv'
      BY <1>0, <1>1, <1>2, <1>6, <2>1 DEF RenduInv, CompteInv, SignalInv
    <2> QED BY <1>3, <2>3, <2>4, <2>5, <2>6
  <1> QED BY <1>4, <1>5, <1>6 DEF TypeOK

LEMMA FinArmerInv ==
    ASSUME Inv, FinArmer
    PROVE  Inv'
  <1> USE DEF Inv, varsDonnees
  <1>0. /\ pc = "armer" /\ i = N /\ rendus = {} /\ ANettoyer = Requetes
        /\ \A r \in Actives : req_complete[r] # "PENDING"
        /\ appel = "any" => completed = N
        /\ DebutNettoyage = IF appel = "any" THEN N - 1 ELSE 0
    BY NAssumption DEF FinArmer, BoucleInv, AdresseInv, Requetes, Actives, ANettoyer,
                       DebutNettoyage, TypeOK
  <1>1. /\ UNCHANGED <<varsDonnees, req_complete, status, comp, completed, failed, armes, rendus>>
        /\ Actives' = Actives /\ i' = DebutNettoyage /\ DebutNettoyage' = DebutNettoyage
    BY DEF FinArmer, Actives, DebutNettoyage
  <1>2. /\ Restants' = Restants /\ Signaleurs' = Signaleurs /\ i' \in -1 .. N
        /\ Cardinality(Restants) \in 0 .. Cardinality(armes) /\ Cardinality(armes) \in 0 .. N
    BY <1>0, <1>1, Comptes, NAssumption DEF Restants, Signaleurs
  <1>3. RequeteInv'
    BY <1>1 DEF RequeteInv
  <1>4. CASE appel # "all" /\ inactive = Requetes
    <2>1. /\ pc' = "fini" /\ vivant' = FALSE /\ UNCHANGED <<count, signaling>>
      BY <1>4 DEF FinArmer
    <2>2. ANettoyer' = {} /\ Actives = {} /\ armes = {}
      BY <1>4, <2>1 DEF ANettoyer, Actives, TypeOK
    <2>3. TypeOK'
      BY <1>1, <1>2, <2>1 DEF TypeOK
    <2>4. AdresseInv'
      BY <1>1, <2>1, <2>2, <1>3 DEF AdresseInv, RequeteInv
    <2>5. BoucleInv'
      BY <1>0, <1>1, <1>4, <2>1 DEF BoucleInv
    <2>6. RenduInv' /\ CompteInv' /\ SignalInv'
      BY <1>1, <1>2, <1>4, <2>1, <2>2 DEF RenduInv, CompteInv, SignalInv
    <2> QED BY <1>3, <2>3, <2>4, <2>5, <2>6
  <1>5. CASE ~ (appel # "all" /\ inactive = Requetes)
    <2>1. /\ vivant' = vivant
          /\ pc' = IF failed \/ (appel = "some" /\ completed > 0) THEN "nettoyer" ELSE "attendre"
          /\ IF appel = "all" /\ ~ failed
             THEN /\ count' = count - completed
                  /\ signaling' = (signaling /\ (completed = 0 \/ count' # 0))
             ELSE UNCHANGED <<count, signaling>>
      BY <1>5 DEF FinArmer
    <2>2. ANettoyer' = Requetes
      <3>1. CASE pc' = "attendre"
        BY <3>1 DEF ANettoyer
      <3>2. CASE pc' = "nettoyer"
        <4>1. appel' # "any" /\ i' = 0
          BY <1>0, <1>1, <2>1, <3>2 DEF BoucleInv
        <4> QED BY <3>2, <4>1, NAssumption DEF ANettoyer, Requetes
      <3> QED BY <2>1, <3>1, <3>2
    <2>3. AdresseInv'
      BY <1>0, <1>1, <2>1, <2>2 DEF AdresseInv
    <2>4. BoucleInv'
      <3>1. appel = "some" /\ completed > 0 =>
              \E r \in Actives' : req_complete'[r] = "COMPLETED" /\ r \in ANettoyer' \cup rendus'
        BY <1>0, <1>1, <2>2 DEF BoucleInv
      <3>2. appel = "all" => completed + Cardinality(armes) = N
        BY <1>0 DEF BoucleInv
      <3>3. pc' \in {"nettoyer", "attendre"} /\ rendus' = {} /\ (failed' => appel' = "all")
        BY <1>0, <1>1, <2>1 DEF BoucleInv
      <3>4. pc' = "nettoyer" => appel # "any" /\ i' = 0
        BY <1>0, <1>1, <2>1 DEF BoucleInv
      <3>5. appel = "all" /\ pc' = "attendre" => ~ failed
        BY <2>1
      <3> QED BY <1>0, <1>1, <3>1, <3>2, <3>3, <3>4, <3>5 DEF BoucleInv
    <2>5. RenduInv'
      <3>1. appel # "all" /\ pc' = "nettoyer" =>
              \E r \in ANettoyer' \cap Actives' : req_complete'[r] = "COMPLETED"
        BY <1>0, <1>1, <2>1, <2>2 DEF BoucleInv, Actives
      <3>2. appel = "all" /\ pc' = "nettoyer" => failed
        BY <2>1
      <3> QED BY <1>1, <2>1, <3>1, <3>2 DEF RenduInv
    <2>6. CASE appel = "all" /\ ~ failed
      <3>1. /\ completed \in 0 .. N /\ completed + Cardinality(armes) = N
            /\ Cardinality(Restants) - Cardinality(armes) <= count /\ count \in - N .. N
            /\ ~ status => count = completed + Cardinality(Restants)
        BY <1>0, <1>2, <2>6, NAssumption DEF TypeOK, BoucleInv, CompteInv
      <3>2. /\ count' = count - completed
            /\ Cardinality(Restants) - Cardinality(armes) - completed <= count'
            /\ ~ status => count' = Cardinality(Restants)
            /\ count' \in - N .. N
        BY <1>2, <2>1, <2>6, <3>1, NAssumption
      <3>3. TypeOK'
        BY <1>0, <1>1, <2>1, <2>6, <3>2, NAssumption DEF TypeOK
      <3>4. CompteInv'
        BY <1>1, <1>2, <2>1, <2>6, <3>2, NAssumption DEF CompteInv
      <3>5. SignalInv'
        <4> SUFFICES ASSUME erreur = {}
                     PROVE  /\ ~ status /\ ~ failed
                            /\ Signaleurs # {} => signaling' /\ count' = 0
                            /\ \A r, s \in Signaleurs : r = s
                            /\ ~ signaling' => count' = 0
          BY <1>1, <1>2, <2>6 DEF SignalInv
        <4>1. count = 0 => completed = 0 /\ count' = 0
          BY <1>2, <2>6, <3>1, <3>2 DEF SignalInv
        <4> QED BY <2>1, <2>6, <4>1 DEF SignalInv
      <3> QED BY <1>3, <2>3, <2>4, <2>5, <3>3, <3>4, <3>5
    <2>7. CASE ~ (appel = "all" /\ ~ failed)
      <3>1. UNCHANGED <<count, signaling>>
        BY <2>1, <2>7
      <3>2. TypeOK'
        BY <1>0, <1>1, <2>1, <3>1, NAssumption DEF TypeOK
      <3>3. CompteInv'
        BY <1>0, <1>1, <1>2, <2>7, <3>1 DEF CompteInv, TypeOK
      <3>4. SignalInv'
        BY <1>1, <1>2, <3>1 DEF SignalInv
      <3> QED BY <1>3, <2>3, <2>4, <2>5, <3>2, <3>3, <3>4
    <2> QED BY <2>6, <2>7
  <1> QED BY <1>4, <1>5

(* The wait ends when the count has reached 0: every armed request is then  *)
(* complete, or one of them, unless an error has cut it short.              *)
LEMMA AttendreInv ==
    ASSUME Inv, Attendre
    PROVE  Inv'
  <1> USE DEF Inv, varsDonnees, varsSync
  <1>0. /\ pc = "attendre" /\ count <= 0 /\ rendus = {} /\ ANettoyer = Requetes
        /\ i = DebutNettoyage /\ ~ failed
        /\ DebutNettoyage = IF appel = "any" THEN N - 1 ELSE 0
    BY DEF Attendre, BoucleInv, ANettoyer, DebutNettoyage
  <1>1. /\ pc' = "nettoyer" /\ failed' = (appel = "all" /\ status)
        /\ UNCHANGED <<varsDonnees, req_complete, varsSync, comp, i, completed, armes, rendus>>
        /\ Actives' = Actives
    BY <1>0 DEF Attendre, Actives
  <1>2. /\ Restants' = Restants /\ Signaleurs' = Signaleurs /\ ANettoyer' = Requetes
    BY <1>0, <1>1, NAssumption DEF Restants, Signaleurs, ANettoyer, Requetes
  <1>3. /\ Cardinality(Restants) \in 0 .. Cardinality(armes) /\ Cardinality(armes) \in 0 .. N
        /\ Cardinality(Restants) = 0 => Restants = {}
    BY Comptes
  <1>4. TypeOK'
    BY <1>1 DEF TypeOK
  <1>5. RequeteInv'
    BY <1>1 DEF RequeteInv
  <1>6. AdresseInv'
    BY <1>0, <1>1, <1>2 DEF AdresseInv
  <1>7. BoucleInv'
    <2>1. appel = "any" => i < N
      BY <1>0, NAssumption
    <2>2. appel # "any" => i >= 0
      BY <1>0
    <2> QED BY <1>0, <1>1, <1>2, <2>1, <2>2 DEF BoucleInv
  <1>8. RenduInv'
    <2>1. CASE appel # "all"
      <3>1. \E r \in armes : req_complete[r] = "COMPLETED"
        BY <1>0, <2>1 DEF CompteInv
      <3>2. \E r \in ANettoyer' \cap Actives : req_complete[r] = "COMPLETED"
        BY <1>2, <3>1 DEF TypeOK, Actives
      <3> QED BY <1>1, <2>1, <3>2 DEF RenduInv
    <2>2. CASE appel = "all" /\ ~ status
      <3>1. Restants = {}
        BY <1>0, <1>3, <2>2 DEF CompteInv
      <3>2. \A r \in Actives : req_complete[r] = "COMPLETED"
        BY <1>0, <3>1 DEF AdresseInv, RequeteInv, Restants, TypeOK, Actives
      <3> QED BY <1>0, <1>1, <1>2, <2>2, <3>2 DEF RenduInv, Actives
    <2>3. CASE appel = "all" /\ status
      BY <1>1, <2>3 DEF RenduInv
    <2> QED BY <2>1, <2>2, <2>3 DEF TypeOK
  <1>9. CompteInv'
    BY <1>0, <1>1, <1>2 DEF CompteInv
  <1>10. SignalInv'
    BY <1>0, <1>1, <1>2 DEF SignalInv
  <1> QED BY <1>4, <1>5, <1>6, <1>7, <1>8, <1>9, <1>10

-----------------------------------------------------------------------------
(* The second loop: what cannot be put back to REQUEST_PENDING is complete. *)
LEMMA NettoyerInv ==
    ASSUME Inv, Nettoyer
    PROVE  Inv'
  <1> USE DEF Inv, varsDonnees, varsSync
  <1>0. /\ pc = "nettoyer" /\ i \in 0 .. N - 1 /\ i \in Requetes /\ i \in ANettoyer
        /\ appel = "any" => i' = i - 1
        /\ appel # "any" => i' = i + 1
    BY NAssumption DEF Nettoyer, Reste, Suivant, BoucleInv, TypeOK, Requetes, ANettoyer
  <1>1. /\ UNCHANGED <<varsDonnees, varsSync, comp, pc, completed, failed, armes>>
        /\ Actives' = Actives /\ i' \in -1 .. N
    BY <1>0, NAssumption DEF Nettoyer, Actives
  <1>2. /\ Restants' = Restants /\ Signaleurs' = Signaleurs /\ ANettoyer' = ANettoyer \ {i}
    BY <1>0, <1>1 DEF Restants, Signaleurs, ANettoyer, Requetes
  <1>3. IF appel = "any" THEN i' < N ELSE i' >= 0
    BY <1>0, NAssumption
  <1>4. CASE i \in Actives /\ Detachable
    <2>1. /\ req_complete[i] = "SYNC" /\ req_complete' = [req_complete EXCEPT ![i] = "PENDING"]
          /\ rendus' = rendus /\ (appel = "all" => failed) /\ comp[i] \in {"libre", "swap"}
      BY <1>0, <1>4 DEF Nettoyer, Detachable, Actives, RequeteInv, TypeOK
    <2>2. \A r \in Requetes : /\ req_complete[r] = "COMPLETED" <=> req_complete'[r] = "COMPLETED"
                              /\ r # i => req_complete'[r] = req_complete[r]
      BY <2>1 DEF TypeOK
    <2>3. rendus \subseteq Requetes /\ Actives \subseteq Requetes /\ armes \subseteq Requetes
      BY DEF TypeOK, Actives
    <2>4. TypeOK'
      BY <1>1, <2>1 DEF TypeOK
    <2>5. RequeteInv'
      BY <1>1, <2>1 DEF RequeteInv, TypeOK
    <2>6. AdresseInv'
      BY <1>0, <1>1, <1>2, <2>1, <2>2, <2>3 DEF AdresseInv, TypeOK
    <2>7. BoucleInv'
      BY <1>0, <1>1, <1>2, <1>3, <2>1, <2>2, <2>3 DEF BoucleInv
    <2>8. RenduInv'
      BY <1>0, <1>1, <1>2, <2>1, <2>2, <2>3 DEF RenduInv
    <2>9. CompteInv' /\ SignalInv'
      BY <1>0, <1>1, <1>2, <2>2, <2>3 DEF CompteInv, SignalInv
    <2> QED BY <2>4, <2>5, <2>6, <2>7, <2>8, <2>9
  <1>5. CASE ~ (i \in Actives /\ Detachable)
    <2>1. /\ req_complete' = req_complete
          /\ i \in Actives => rendus' = IF appel = "any" THEN {i} ELSE rendus \cup {i}
          /\ i \notin Actives => rendus' = rendus
      BY <1>0, <1>5 DEF Nettoyer, Actives
    <2>2. req_complete[i] = "COMPLETED"
      <3>1. CASE i \in inactive
        BY <1>0, <3>1 DEF RequeteInv
      <3>2. CASE i \in Actives
        <4>1. req_complete[i] # "PENDING"
          BY <1>0, <3>2 DEF AdresseInv
        <4>2. req_complete[i] # "SYNC"
          BY <1>0, <1>5, <3>2 DEF Detachable, RequeteInv, RenduInv, TypeOK
        <4> QED BY <1>0, <4>1, <4>2 DEF TypeOK
      <3> QED BY <1>0, <3>1, <3>2 DEF Actives
    <2>3. \A r \in rendus' : req_complete[r] = "COMPLETED" /\ r \in Actives
      BY <2>1, <2>2 DEF BoucleInv, TypeOK
    <2>4. TypeOK'
      BY <1>1, <2>1, <2>3 DEF TypeOK
    <2>5. RequeteInv'
      BY <1>1, <2>1 DEF RequeteInv
    <2>6. AdresseInv'
      BY <1>0, <1>1, <1>2, <2>1, <2>2 DEF AdresseInv
    <2>7. BoucleInv'
      <3>1. ASSUME appel = "some", completed > 0
            PROVE  \E r \in Actives : req_complete[r] = "COMPLETED" /\ r \in ANettoyer' \cup rendus'
        BY <1>0, <1>2, <2>1, <3>1 DEF BoucleInv
      <3> QED BY <1>0, <1>1, <1>3, <2>1, <2>3, <3>1 DEF BoucleInv
    <2>8. RenduInv'
      <3>1. appel # "all" /\ Actives # {} =>
              rendus' # {} \/ \E r \in ANettoyer' \cap Actives : req_complete[r] = "COMPLETED"
        BY <1>0, <1>2, <2>1 DEF RenduInv
      <3>2. appel = "all" /\ ~ failed => rendus' = Actives \ ANettoyer'
        BY <1>0, <1>2, <2>1 DEF RenduInv
      <3> QED BY <1>0, <1>1, <2>1, <3>1, <3>2 DEF RenduInv
    <2>9. CompteInv' /\ SignalInv'
      BY <1>0, <1>1, <1>2, <2>1 DEF CompteInv, SignalInv
    <2> QED BY <2>4, <2>5, <2>6, <2>7, <2>8, <2>9
  <1> QED BY <1>4, <1>5

LEMMA FinNettoyerInv ==
    ASSUME Inv, FinNettoyer
    PROVE  Inv'
  <1> USE DEF Inv, varsDonnees
  <1>1. /\ pc = "nettoyer" /\ pc' = "liberer" /\ (appel = "all" => signaling' = signaling)
        /\ UNCHANGED <<varsDonnees, req_complete, count, status, vivant, comp, i, completed,
                       failed, armes, rendus>>
        /\ Actives' = Actives /\ signaling' \in BOOLEAN
    BY DEF FinNettoyer, RienEnVol, Actives, TypeOK
  <1>2. ANettoyer = {} /\ ANettoyer' = {} /\ Restants' = Restants /\ Signaleurs' = Signaleurs
    BY <1>1, NAssumption
       DEF FinNettoyer, Reste, ANettoyer, Requetes, TypeOK, Restants, Signaleurs
  <1>3. TypeOK'
    BY <1>1 DEF TypeOK
  <1>4. RequeteInv' /\ AdresseInv'
    BY <1>1, <1>2 DEF RequeteInv, AdresseInv
  <1>5. BoucleInv' /\ RenduInv'
    BY <1>1, <1>2 DEF BoucleInv, RenduInv
  <1>6. CompteInv' /\ SignalInv'
    BY <1>1, <1>2 DEF CompteInv, SignalInv
  <1> QED BY <1>3, <1>4, <1>5, <1>6

LEMMA LibererInv ==
    ASSUME Inv, Liberer
    PROVE  Inv'
  <1> USE DEF Inv, varsDonnees
  <1>1. /\ pc = "liberer" /\ pc' = "fini" /\ vivant' = FALSE /\ ~ signaling
        /\ UNCHANGED <<varsDonnees, req_complete, count, status, signaling, comp, i, completed,
                       failed, armes, rendus>>
        /\ Actives' = Actives
    BY DEF Liberer, Actives
  <1>2. ANettoyer = {} /\ ANettoyer' = {} /\ Restants' = Restants /\ Signaleurs' = Signaleurs
    BY <1>1 DEF ANettoyer, Restants, Signaleurs
  <1>3. TypeOK'
    BY <1>1 DEF TypeOK
  <1>4. RequeteInv' /\ AdresseInv'
    BY <1>1, <1>2 DEF RequeteInv, AdresseInv
  <1>5. BoucleInv' /\ RenduInv'
    BY <1>1, <1>2 DEF BoucleInv, RenduInv
  <1>6. CompteInv' /\ SignalInv'
    BY <1>1, <1>2 DEF CompteInv, SignalInv
  <1> QED BY <1>3, <1>4, <1>5, <1>6

LEMMA StepInv == Inv /\ [Next]_vars => Inv'
  <1> SUFFICES ASSUME Inv, [Next]_vars PROVE Inv'
    OBVIOUS
  <1>1. CASE Sauter
    BY <1>1, SauterInv
  <1>2. CASE Armer
    BY <1>2, ArmerInv
  <1>3. CASE TrouverComplete
    BY <1>3, TrouverCompleteInv
  <1>4. CASE FinArmer
    BY <1>4, FinArmerInv
  <1>5. CASE Attendre
    BY <1>5, AttendreInv
  <1>6. CASE Nettoyer
    BY <1>6, NettoyerInv
  <1>7. CASE FinNettoyer
    BY <1>7, FinNettoyerInv
  <1>8. CASE Liberer
    BY <1>8, LibererInv
  <1>9. ASSUME NEW r \in Requetes, Completer(r) \/ FinirCompletion(r)
        PROVE  Inv'
    BY <1>9, CompleterInv, EchangerInv, DecrementerInv, MarquerErreurInv, AnnulerCompteInv,
       SignalerInv, EffacerInv DEF FinirCompletion
  <1>10. CASE UNCHANGED vars
    <2>1. UNCHANGED <<varsDonnees, req_complete, varsSync, comp, varsAppel>>
      BY <1>10 DEF vars
    <2> USE DEF varsDonnees, varsSync, varsAppel
    <2>2. TypeOK' /\ RequeteInv'
      BY <2>1 DEF Inv, TypeOK, RequeteInv, Actives
    <2>3. ANettoyer' = ANettoyer /\ Restants' = Restants /\ Signaleurs' = Signaleurs
          /\ Actives' = Actives /\ DebutNettoyage' = DebutNettoyage
      BY <2>1 DEF ANettoyer, Restants, Signaleurs, Actives, DebutNettoyage
    <2>4. AdresseInv' /\ BoucleInv' /\ RenduInv' /\ CompteInv' /\ SignalInv'
      BY <2>1, <2>3 DEF Inv, AdresseInv, BoucleInv, RenduInv, CompteInv, SignalInv
    <2> QED BY <2>2, <2>4 DEF Inv
  <1> QED BY <1>1, <1>2, <1>3, <1>4, <1>5, <1>6, <1>7, <1>8, <1>9, <1>10
          DEF Next, Appelant, Termine

-----------------------------------------------------------------------------
(* The types, the bounds of sync.count and of the loops' indices, where the *)
(* address of the sync is, and what the loops have counted and found.       *)
THEOREM InvTheorem == Spec => []Inv
  BY InitInv, StepInv, PTL DEF Spec

(* req_wait.c takes the sync's address out of every request before it       *)
(* destroys the sync: for any number of requests, of which any may be null  *)
(* or fail, no request keeps it.                                            *)
THEOREM PasDePointeurMortTheorem == Spec => []PasDePointeurMort
  <1>1. Inv => PasDePointeurMort
    BY DEF Inv, PasDePointeurMort, AdresseInv, ANettoyer
  <1> QED BY <1>1, InvTheorem, PTL

(* Every index that MPI_Waitany, Waitall or Waitsome returns is of a        *)
(* complete request; a call with an active request returns one, and an      *)
(* MPI_Waitall that saw no error returns them all.                          *)
THEOREM RenduCompletTheorem == Spec => []RenduComplet
  <1>1. Inv => RenduComplet
    <2> SUFFICES ASSUME Inv, pc \in {"liberer", "fini"}
                 PROVE  /\ \A r \in rendus : req_complete[r] = "COMPLETED"
                        /\ Actives # {} /\ appel # "all" => rendus # {}
                        /\ appel = "all" /\ ~ failed => rendus = Actives
      BY DEF RenduComplet
    <2>1. ANettoyer = {}
      BY DEF ANettoyer
    <2> QED BY <2>1 DEF Inv, BoucleInv, RenduInv
  <1> QED BY <1>1, InvTheorem, PTL

(* wait_sync.h:43-46 for an MPI_Waitall without errors: no completing       *)
(* thread holds the sync once WAIT_SYNC_RELEASE has destroyed it.           *)
THEOREM SyncVivantAllTheorem == Spec => []SyncVivantAll
  <1>1. Inv => SyncVivantAll
    <2> SUFFICES ASSUME Inv, appel = "all", erreur = {}, ~ vivant, NEW r \in EnVol
                 PROVE  FALSE
      BY DEF SyncVivantAll, SyncVivant
    <2>1. r \in Requetes /\ r \in armes /\ comp[r] \in {"update", "annuler", "signal", "effacer"}
      BY DEF EnVol, Inv, RequeteInv
    <2>2. pc = "fini" /\ ~ signaling /\ count = 0 /\ ~ status /\ ~ failed
      BY DEF Inv, AdresseInv, BoucleInv, SignalInv
    <2>3. Restants = {}
      BY <2>2, Comptes DEF Inv, CompteInv
    <2>4. comp[r] \in {"signal", "effacer"}
      BY <2>1, <2>3 DEF Inv, RequeteInv, Restants
    <2> QED BY <2>1, <2>2, <2>4 DEF Inv, SignalInv, Signaleurs
  <1> QED BY <1>1, InvTheorem, PTL

=============================================================================
