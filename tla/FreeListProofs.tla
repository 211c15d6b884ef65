--------------------------- MODULE FreeListProofs ---------------------------
(***************************************************************************)
(* The free list for any number of threads, any fl_max_to_alloc, any       *)
(* fl_num_per_alloc and any payload size.  The inductive invariant adds to the bound what a     *)
(* growth has pushed but not counted yet, who holds an item, and that      *)
(* c_signaled, which a return increments without the lock, is not 0 when a *)
(* waiter decrements it.                                                   *)
(***************************************************************************)
EXTENDS FreeList, FiniteSetTheorems, TLAPS

Items == libres + Cardinality(tient)

(* The threads that c_waiting and fl_num_waiting count.                     *)
Inscrites == EnAttente \cup {"c_waiting", "c_sortie", "fin_attente"}
NbAttendent == Cardinality({t \in Threads : pc[t] \in EnAttente})
NbInscrits == Cardinality({t \in Threads : pc[t] \in Inscrites})

Lieux ==
    SousVerrou \cup
      {"repos", "get_pop", "get_repop", "get_lock", "wait_pop", "wait_trylock", "wait_lock",
       "c_sortie", "c_progres", "return_waiting", "return_cond", "return_lire", "return_ecrire"}

Types ==
    /\ libres \in Nat
    /\ tient \subseteq Threads
    /\ fl_num_allocated \in Nat
    /\ c_signaled \in Nat
    /\ lot \in Nat
    /\ reste \in Nat
    /\ tmp \in [Threads -> Nat]
    /\ pc \in [Threads -> Lieux]

CompteursInv == c_waiting = NbAttendent /\ fl_num_waiting = NbInscrits

VerrouInv ==
    /\ fl_lock \in Threads \cup {Personne}
    /\ \A t \in Threads : pc[t] \in SousVerrou <=> fl_lock = t

(* A thread that holds an item is in no function of the list.               *)
TientInv == \A t \in tient : pc[t] = "repos"

(* Only the lock's holder decrements c_signaled; what a return writes       *)
(* without it, even out of date, is not 0.                                  *)
SignalInv ==
    \A t \in Threads :
        /\ pc[t] = "c_moins" => c_signaled > 0
        /\ pc[t] = "c_moins_ecrire" => tmp[t] > 0

(* What has been pushed by the growth in progress, if there is one.         *)
Pousse == {"get_push", "wait_push"}

Borne == MaxToAlloc + Exces

CroissanceInv ==
    /\ fl_num_allocated <= Borne
    /\ IF \E t \in Threads : pc[t] \in Pousse
       THEN /\ reste <= lot
            /\ fl_num_allocated + lot <= Borne
            /\ Items = fl_num_allocated + lot - reste
       ELSE Items = fl_num_allocated

Inv == Types /\ CompteursInv /\ VerrouInv /\ TientInv /\ SignalInv /\ CroissanceInv

-----------------------------------------------------------------------------
(* The size of a growth.  Divisions first: quotient and remainder are the   *)
(* only ones, and the pages that v items take have room for the excess.     *)
LEMMA ResteUnique ==
    ASSUME NEW a \in Int, NEW m \in Nat \ {0}, NEW q \in Int, NEW r \in 0 .. m - 1, a = m * q + r
    PROVE  a % m = r
  OBVIOUS

LEMMA Quotient ==
    ASSUME NEW a \in Nat, NEW e \in Nat \ {0}, NEW v \in Nat, NEW d \in Nat, a <= v * e + d
    PROVE  a \div e \in Nat /\ a \div e <= v + (d \div e)
  OBVIOUS

LEMMA ExcesType == Borne \in Nat /\ Exces \in Nat /\ Exces * TailleElem <= TaillePage - 1
  <1>1. CASE TailleElem = 0
    BY <1>1, MaxToAllocAssumption, TaillePageAssumption DEF Exces, Borne
  <1>2. CASE TailleElem # 0
    <2>1. TailleElem \in Nat \ {0} /\ TaillePage - 1 \in Nat
      BY <1>2, TailleElemAssumption, TaillePageAssumption
    <2>2. ASSUME NEW a \in Nat, NEW e \in Nat \ {0}
          PROVE  a \div e \in Nat /\ (a \div e) * e <= a
      OBVIOUS
    <2> QED BY <1>2, <2>1, <2>2, MaxToAllocAssumption DEF Exces, Borne
  <1> QED BY <1>1, <1>2

(* As long as the list has not more than its maximum, a growth takes it     *)
(* past it by the excess at most.                                           *)
LEMMA LotOrdinaire ==
    ASSUME NEW alloues \in Nat, NEW demande \in Nat, alloues <= MaxToAlloc
    PROVE  LotPour(demande, alloues) \in Nat /\ alloues + LotPour(demande, alloues) <= Borne
  <1> DEFINE v == Voulus(demande, alloues)
  <1>1. MaxToAlloc \in Nat /\ SizeMod \in Nat /\ TaillePage \in Nat \ {0} /\ TailleElem \in Nat
    BY MaxToAllocAssumption, SizeModAssumption, TaillePageAssumption, TailleElemAssumption
  <1>2. MaxToAlloc < SizeMod
    BY <1>1, SizeModAssumption, NumPerAllocAssumption
  <1>3. v \in Nat /\ alloues + v <= MaxToAlloc
    <2>1. (MaxToAlloc - alloues) % SizeMod = MaxToAlloc - alloues
      BY <1>1, <1>2, ResteUnique
    <2> QED BY <1>1, <2>1 DEF Voulus
  <1> HIDE DEF v
  <1>4. CASE TailleElem = 0 \/ v = 0
    BY <1>1, <1>3, <1>4, ExcesType DEF LotPour, Borne, v
  <1>5. CASE TailleElem # 0 /\ v # 0
    <2> DEFINE p == v * TailleElem
               y == p + TaillePage - 1
    <2>1. p \in Nat /\ p <= MaxToAlloc * TailleElem /\ MaxToAlloc * TailleElem \in Nat
      <3>1. ASSUME NEW a \in Nat, NEW b \in Nat, NEW c \in Nat, a <= b
            PROVE  a * c \in Nat /\ a * c <= b * c /\ b * c \in Nat
        BY <3>1
      <3>2. v <= MaxToAlloc
        BY <1>1, <1>3
      <3> QED BY <1>1, <1>3, <3>1, <3>2
    <2> HIDE DEF p
    <2>2. p < SizeMod /\ y \in Nat /\ y < SizeMod
      BY <1>1, <2>1, SizeModAssumption
    <2>3. p % SizeMod = p /\ y % SizeMod = y
      BY <1>1, <2>1, <2>2, ResteUnique
    <2> HIDE DEF y
    <2>4. y % TaillePage \in Nat /\ y % TaillePage <= y
      BY <1>1, <2>2
    <2>5. Aligne(p) \in Nat /\ Aligne(p) <= y
      <3>1. Aligne(p) = y - (y % TaillePage)
        BY <2>3 DEF Aligne, y
      <3> QED BY <2>2, <2>4, <3>1
    <2>6. LotPour(demande, alloues) = Aligne(p) \div TailleElem
      BY <1>5, <2>3 DEF LotPour, v, p
    <2>7. Aligne(p) <= v * TailleElem + (TaillePage - 1)
      BY <1>1, <2>1, <2>5 DEF y, p
    <2>8. /\ Aligne(p) \div TailleElem \in Nat
          /\ Aligne(p) \div TailleElem <= v + ((TaillePage - 1) \div TailleElem)
      <3>1. TailleElem \in Nat \ {0} /\ TaillePage - 1 \in Nat
        BY <1>1, <1>5
      <3> HIDE DEF v
      <3> DEFINE a == Aligne(p)
      <3>2. a \in Nat /\ a <= v * TailleElem + (TaillePage - 1)
        BY <2>5, <2>7
      <3> HIDE DEF a
      <3>3. a \div TailleElem \in Nat /\ a \div TailleElem <= v + ((TaillePage - 1) \div TailleElem)
        BY <1>3, <3>1, <3>2, Quotient
      <3> QED BY <3>3 DEF a
    <2> QED BY <1>1, <1>3, <1>5, <2>6, <2>8, ExcesType DEF Exces, Borne
  <1> QED BY <1>4, <1>5

(* Past it, what is asked wraps around and the rounding brings it to 0.     *)
LEMMA LotDeborde ==
    ASSUME NEW alloues \in Nat, NEW demande \in Nat, alloues > MaxToAlloc, alloues <= Borne
    PROVE  LotPour(demande, alloues) = 0
  <1> DEFINE x == alloues - MaxToAlloc
             e == x * TailleElem
  <1>1. MaxToAlloc \in Nat /\ SizeMod \in Nat /\ TaillePage \in Nat \ {0} /\ TailleElem \in Nat
    BY MaxToAllocAssumption, SizeModAssumption, TaillePageAssumption, TailleElemAssumption
  <1>2. x \in Nat /\ x > 0 /\ x <= Exces
    BY <1>1, ExcesType DEF Borne
  <1>3. TailleElem # 0
    BY <1>2 DEF Exces
  <1>4. x <= e /\ e \in Nat /\ e <= TaillePage - 1
    <2>1. ASSUME NEW a \in Nat, NEW b \in Nat, NEW c \in Nat \ {0}, a <= b
          PROVE  a * c \in Nat /\ a * c <= b * c /\ a <= a * c
      BY <2>1
    <2>2. x * TailleElem \in Nat /\ x * TailleElem <= Exces * TailleElem /\ x <= x * TailleElem
      BY <1>1, <1>2, <1>3, <2>1, ExcesType
    <2> QED BY <1>1, <1>2, <2>2, ExcesType
  <1>5. TaillePage < SizeMod
    <2>1. MaxToAlloc * TailleElem \in Nat
      BY <1>1
    <2> QED BY <1>1, <2>1, SizeModAssumption
  <1>6. Voulus(demande, alloues) = SizeMod - x
    <2>1. MaxToAlloc - alloues = SizeMod * (-1) + (SizeMod - x) /\ SizeMod - x \in 0 .. SizeMod - 1
      BY <1>1, <1>2, <1>4, <1>5
    <2>2. (MaxToAlloc - alloues) % SizeMod = SizeMod - x
      BY <1>1, <1>5, <2>1, ResteUnique
    <2> QED BY <1>1, <2>2 DEF Voulus
  <1>7. ((SizeMod - x) * TailleElem) % SizeMod = SizeMod - e
    <2>1. (SizeMod - x) * TailleElem = SizeMod * (TailleElem - 1) + (SizeMod - e)
      <3>1. ASSUME NEW a \in Int, NEW b \in Int, NEW c \in Int
            PROVE  (a - b) * c = a * (c - 1) + (a - b * c)
        OBVIOUS
      <3> QED BY <1>1, <1>2, <3>1
    <2>2. (SizeMod - x) * TailleElem \in Int /\ SizeMod - e \in 0 .. SizeMod - 1
      BY <1>1, <1>2, <1>4, <1>5
    <2> QED BY <1>1, <1>5, <2>1, <2>2, ResteUnique
  <1>8. Aligne(SizeMod - e) = 0
    <2> HIDE DEF e, x
    <2> DEFINE r == TaillePage - 1 - e
    <2>1. r \in Nat /\ r \in 0 .. TaillePage - 1
      BY <1>1, <1>4
    <2>2. (SizeMod - e) + TaillePage - 1 = SizeMod * 1 + r /\ r \in 0 .. SizeMod - 1
      BY <1>1, <1>4, <1>5
    <2>3. ((SizeMod - e) + TaillePage - 1) % SizeMod = r
      BY <1>1, <1>4, <1>5, <2>2, ResteUnique
    <2>4. r % TaillePage = r
      BY <1>1, <2>1, ResteUnique
    <2> QED BY <2>1, <2>3, <2>4 DEF Aligne
  <1>9. SizeMod - x # 0
    BY <1>1, <1>2, <1>4, <1>5
  <1>10. LotPour(demande, alloues) = 0 \div TailleElem
    BY <1>3, <1>6, <1>7, <1>8, <1>9 DEF LotPour
  <1>11. ASSUME NEW c \in Nat \ {0}
         PROVE  0 \div c = 0
    OBVIOUS
  <1> QED BY <1>1, <1>3, <1>10, <1>11

LEMMA LotBorne ==
    ASSUME NEW alloues \in Nat, alloues <= Borne, NEW demande \in Nat
    PROVE  LotPour(demande, alloues) \in Nat /\ alloues + LotPour(demande, alloues) <= Borne
  BY LotOrdinaire, LotDeborde, MaxToAllocAssumption

-----------------------------------------------------------------------------
Un(l, E) == IF l \in E THEN 1 ELSE 0

(* A thread that goes from one place to another is counted there instead.   *)
LEMMA CompteAller ==
    ASSUME pc \in [Threads -> Lieux], NEW t \in Threads, NEW l, Aller(t, l), NEW E
    PROVE  /\ Cardinality({u \in Threads : pc[u] \in E}) \in Nat
           /\ Cardinality({u \in Threads : pc'[u] \in E})
                = Cardinality({u \in Threads : pc[u] \in E}) + Un(l, E) - Un(pc[t], E)
  <1> DEFINE S == {u \in Threads : pc[u] \in E}
             T == {u \in Threads : pc'[u] \in E}
  <1>1. IsFiniteSet(S) /\ Cardinality(S) \in Nat
    BY FS_Subset, FS_CardinalityType, ThreadsAssumption
  <1>2. CASE l \in E /\ pc[t] \notin E
    <2>1. T = S \cup {t} /\ t \notin S
      BY <1>2 DEF Aller
    <2>2. Cardinality(T) = Cardinality(S) + 1
      BY <1>1, <2>1, FS_AddElement
    <2>3. Un(l, E) = 1 /\ Un(pc[t], E) = 0
      BY <1>2 DEF Un
    <2> QED BY <1>1, <2>2, <2>3
  <1>3. CASE l \notin E /\ pc[t] \in E
    <2>1. T = S \ {t} /\ t \in S
      BY <1>3 DEF Aller
    <2> HIDE DEF S, T
    <2>2. Cardinality(T) = Cardinality(S) - 1
      BY <1>1, <2>1, FS_RemoveElement
    <2>3. Un(l, E) = 0 /\ Un(pc[t], E) = 1
      BY <1>3 DEF Un
    <2> QED BY <1>1, <2>2, <2>3 DEF S, T
  <1>4. CASE l \in E <=> pc[t] \in E
    <2>1. T = S
      BY <1>4 DEF Aller
    <2> QED BY <1>1, <1>4, <2>1 DEF Un
  <1> QED BY <1>2, <1>3, <1>4

Effet(t, l) ==
    /\ pc' \in [Threads -> Lieux] /\ pc' = [pc EXCEPT ![t] = l]
    /\ NbAttendent \in Nat /\ NbInscrits \in Nat
    /\ NbAttendent' = NbAttendent + Un(l, EnAttente) - Un(pc[t], EnAttente)
    /\ NbInscrits' = NbInscrits + Un(l, Inscrites) - Un(pc[t], Inscrites)

LEMMA AllerEffet ==
    ASSUME Types, NEW t \in Threads, NEW l \in Lieux, Aller(t, l)
    PROVE  Effet(t, l)
  BY CompteAller DEF Types, Effet, Aller, NbAttendent, NbInscrits

(* The items that threads hold.                                             *)
LEMMA CompteTient ==
    ASSUME Types, NEW t \in Threads
    PROVE  /\ Cardinality(tient) \in Nat
           /\ t \notin tient => Cardinality(tient \cup {t}) = Cardinality(tient) + 1
           /\ t \in tient => Cardinality(tient \ {t}) = Cardinality(tient) - 1
  <1>1. IsFiniteSet(tient) /\ Cardinality(tient) \in Nat
    BY FS_Subset, FS_CardinalityType, ThreadsAssumption DEF Types
  <1> QED BY <1>1, FS_AddElement, FS_RemoveElement

LEMMA InitInv == Init => Inv
  <1> SUFFICES ASSUME Init PROVE Inv
    OBVIOUS
  <1>1. Types
    <2>1. libres \in Nat /\ tmp \in [Threads -> Nat]
      <3>1. PICK demande \in 0 .. MaxToAlloc :
              libres \in (IF Echecs THEN 0 .. LotPour(demande, 0) ELSE {LotPour(demande, 0)})
        BY DEF Init
      <3>2. demande \in Nat /\ 0 <= Borne
        BY ExcesType, MaxToAllocAssumption
      <3> QED BY <3>1, <3>2, LotBorne DEF Init
    <2>2. pc \in [Threads -> Lieux]
      BY DEF Init, Lieux
    <2> QED BY <2>1, <2>2 DEF Init, Types
  <1>2. CompteursInv
    <2>1. /\ {t \in Threads : pc[t] \in EnAttente} = {}
          /\ {t \in Threads : pc[t] \in Inscrites} = {}
      BY DEF Init, EnAttente, Inscrites
    <2> QED BY <2>1, FS_EmptySet DEF Init, CompteursInv, NbAttendent, NbInscrits
  <1>3. VerrouInv /\ TientInv /\ SignalInv
    BY PersonneAssumption DEF Init, VerrouInv, TientInv, SignalInv, SousVerrou
  <1>4. CroissanceInv
    <2>1. PICK demande \in 0 .. MaxToAlloc :
            libres \in (IF Echecs THEN 0 .. LotPour(demande, 0) ELSE {LotPour(demande, 0)})
      BY DEF Init
    <2>2. demande \in Nat /\ 0 <= Borne
      BY ExcesType, MaxToAllocAssumption
    <2>3. libres \in Nat /\ libres <= Borne
      BY <2>1, <2>2, LotBorne, ExcesType
    <2> QED BY <2>3, FS_EmptySet DEF Init, CroissanceInv, Items, Pousse
  <1> QED BY <1>1, <1>2, <1>3, <1>4 DEF Inv

-----------------------------------------------------------------------------
(* The steps of a thread, each from its place to the next one.              *)
LEMMA AppelerInv ==
    ASSUME Inv, NEW t \in Threads, Appeler(t)
    PROVE  Inv'
  <1>0. PICK l \in {"get_pop", "wait_pop"} : Aller(t, l)
    BY DEF Appeler
  <1> USE DEF Inv, Effet, Appeler, varsListe, varsCondition, varsGrow, Prendre, Lacher
  <1>1. Effet(t, l)
    BY <1>0, AllerEffet DEF Lieux
  <1>2. Types'
    BY <1>1 DEF Types, SignalInv, CompteursInv
  <1>3. CompteursInv'
    BY <1>1 DEF CompteursInv, Un, EnAttente, Inscrites
  <1>4. VerrouInv'
    BY <1>1, PersonneAssumption DEF VerrouInv, Types, SousVerrou
  <1>5. TientInv'
    BY <1>1 DEF TientInv, Types
  <1>6. SignalInv'
    BY <1>1 DEF SignalInv, Types, VerrouInv, SousVerrou
  <1>7. CroissanceInv'
    BY <1>1 DEF CroissanceInv, Types, Pousse, Items, VerrouInv, SousVerrou
  <1> QED BY <1>2, <1>3, <1>4, <1>5, <1>6, <1>7

LEMMA PopInv ==
    ASSUME Inv, NEW t \in Threads, Pop(t)
    PROVE  Inv'
  <1> DEFINE l == IF libres > 0 THEN "repos" ELSE SiVide[pc[t]]
  <1>0. Aller(t, l) /\ l \in Lieux
    BY DEF Pop, Lieux, SousVerrou, SiVide
  <1> USE DEF Inv, Effet, Pop, varsListe, varsCondition, varsGrow, Prendre, Lacher, SiVide
  <1>1. Effet(t, l)
    BY <1>0, AllerEffet
  <1>2. Types'
    BY <1>1 DEF Types, SignalInv, CompteursInv
  <1>3. CompteursInv'
    BY <1>1 DEF CompteursInv, Un, EnAttente, Inscrites
  <1>4. VerrouInv'
    BY <1>1, PersonneAssumption DEF VerrouInv, Types, SousVerrou
  <1>5. TientInv'
    BY <1>1 DEF TientInv, Types
  <1>6. SignalInv'
    BY <1>1 DEF SignalInv, Types, VerrouInv, SousVerrou
  <1>7. CroissanceInv'
    <2>1. /\ Cardinality(tient) \in Nat
          /\ Cardinality(tient \cup {t}) = Cardinality(tient) + 1
      BY CompteTient DEF TientInv
    <2>2. pc[t] \notin Pousse /\ l \notin Pousse
      BY DEF Pousse
    <2>3. (\E u \in Threads : pc'[u] \in Pousse) <=> \E u \in Threads : pc[u] \in Pousse
      BY <1>1, <2>2 DEF Types
    <2>4. Items' = Items
      <3>1. CASE libres > 0
        <4>1. libres' = libres - 1 /\ tient' = tient \cup {t} /\ libres \in Nat
          BY <3>1 DEF Types
        <4> QED BY <2>1, <4>1 DEF Items
      <3>2. CASE ~ (libres > 0)
        <4>1. libres' = libres /\ tient' = tient
          BY <3>2
        <4> QED BY <4>1 DEF Items
      <3> QED BY <3>1, <3>2
    <2> QED BY <2>3, <2>4 DEF CroissanceInv
  <1> QED BY <1>2, <1>3, <1>4, <1>5, <1>6, <1>7

LEMMA GetLockInv ==
    ASSUME Inv, NEW t \in Threads, GetLock(t)
    PROVE  Inv'
  <1> DEFINE l == "get_grow"
  <1>0. Aller(t, l) /\ l \in Lieux
    BY DEF GetLock, Lieux, SousVerrou
  <1> USE DEF Inv, Effet, GetLock, varsListe, varsCondition, varsGrow, Prendre, Lacher
  <1>1. Effet(t, l)
    BY <1>0, AllerEffet
  <1>2. Types'
    BY <1>1 DEF Types, SignalInv, CompteursInv
  <1>3. CompteursInv'
    BY <1>1 DEF CompteursInv, Un, EnAttente, Inscrites
  <1>4. VerrouInv'
    BY <1>1, PersonneAssumption DEF VerrouInv, Types, SousVerrou
  <1>5. TientInv'
    BY <1>1 DEF TientInv, Types
  <1>6. SignalInv'
    BY <1>1 DEF SignalInv, Types, VerrouInv, SousVerrou
  <1>7. CroissanceInv'
    BY <1>1 DEF CroissanceInv, Types, Pousse, Items, VerrouInv, SousVerrou
  <1> QED BY <1>2, <1>3, <1>4, <1>5, <1>6, <1>7

LEMMA WaitTrylockInv ==
    ASSUME Inv, NEW t \in Threads, WaitTrylock(t)
    PROVE  Inv'
  <1> DEFINE l == IF fl_lock = Personne THEN "wait_grow" ELSE "wait_lock"
  <1>0. Aller(t, l) /\ l \in Lieux
    BY DEF WaitTrylock, Lieux, SousVerrou
  <1> USE DEF Inv, Effet, WaitTrylock, varsListe, varsCondition, varsGrow, Prendre, Lacher
  <1>1. Effet(t, l)
    BY <1>0, AllerEffet
  <1>2. Types'
    BY <1>1 DEF Types, SignalInv, CompteursInv
  <1>3. CompteursInv'
    BY <1>1 DEF CompteursInv, Un, EnAttente, Inscrites
  <1>4. VerrouInv'
    BY <1>1, PersonneAssumption DEF VerrouInv, Types, SousVerrou
  <1>5. TientInv'
    BY <1>1 DEF TientInv, Types
  <1>6. SignalInv'
    BY <1>1 DEF SignalInv, Types, VerrouInv, SousVerrou
  <1>7. CroissanceInv'
    BY <1>1 DEF CroissanceInv, Types, Pousse, Items, VerrouInv, SousVerrou
  <1> QED BY <1>2, <1>3, <1>4, <1>5, <1>6, <1>7

LEMMA WaitLockInv ==
    ASSUME Inv, NEW t \in Threads, WaitLock(t)
    PROVE  Inv'
  <1> DEFINE l == "wait_pop"
  <1>0. Aller(t, l) /\ l \in Lieux
    BY DEF WaitLock, Lieux, SousVerrou
  <1> USE DEF Inv, Effet, WaitLock, varsListe, varsCondition, varsGrow, Prendre, Lacher
  <1>1. Effet(t, l)
    BY <1>0, AllerEffet
  <1>2. Types'
    BY <1>1 DEF Types, SignalInv, CompteursInv
  <1>3. CompteursInv'
    BY <1>1 DEF CompteursInv, Un, EnAttente, Inscrites
  <1>4. VerrouInv'
    BY <1>1, PersonneAssumption DEF VerrouInv, Types, SousVerrou
  <1>5. TientInv'
    BY <1>1 DEF TientInv, Types
  <1>6. SignalInv'
    BY <1>1 DEF SignalInv, Types, VerrouInv, SousVerrou
  <1>7. CroissanceInv'
    BY <1>1 DEF CroissanceInv, Types, Pousse, Items, VerrouInv, SousVerrou
  <1> QED BY <1>2, <1>3, <1>4, <1>5, <1>6, <1>7

LEMMA GrandirInv ==
    ASSUME Inv, NEW t \in Threads, Grandir(t)
    PROVE  Inv'
  <1> DEFINE l == IF pc[t] = "get_grow" THEN "get_push" ELSE "wait_push"
  <1>0. Aller(t, l) /\ l \in Lieux
    BY DEF Grandir, Lieux, SousVerrou
  <1> USE DEF Inv, Effet, Grandir, varsListe, varsCondition, varsGrow, Prendre, Lacher
  <1>8. lot' \in Nat /\ fl_num_allocated + lot' <= Borne
    BY NumPerAllocAssumption, LotBorne DEF Types, CroissanceInv
  <1>1. Effet(t, l)
    BY <1>0, AllerEffet
  <1>2. Types'
    BY <1>1, <1>8 DEF Types
  <1>3. CompteursInv'
    BY <1>1 DEF CompteursInv, Un, EnAttente, Inscrites
  <1>4. VerrouInv'
    BY <1>1, PersonneAssumption DEF VerrouInv, Types, SousVerrou
  <1>5. TientInv'
    BY <1>1 DEF TientInv, Types
  <1>6. SignalInv'
    BY <1>1 DEF SignalInv, Types, VerrouInv, SousVerrou
  <1>7. CroissanceInv'
    <2>1. ~ \E u \in Threads : pc[u] \in Pousse
      BY DEF VerrouInv, SousVerrou, Pousse
    <2>2. pc'[t] \in Pousse /\ Items' = Items
      BY <1>1 DEF Pousse, Types, Items
    <2> QED BY <1>8, <2>1, <2>2, ExcesType DEF CroissanceInv, Types, Items
  <1> QED BY <1>2, <1>3, <1>4, <1>5, <1>6, <1>7

LEMMA PasGrandirInv ==
    ASSUME Inv, NEW t \in Threads, PasGrandir(t)
    PROVE  Inv'
  <1> DEFINE l == IF pc[t] = "get_grow" THEN "get_repop" ELSE "num_waiting"
  <1>0. Aller(t, l) /\ l \in Lieux
    BY DEF PasGrandir, Lieux, SousVerrou, SansGrandir
  <1> USE DEF Inv, Effet, PasGrandir, varsListe, varsCondition, varsGrow, Prendre, Lacher,
             SansGrandir
  <1>1. Effet(t, l)
    BY <1>0, AllerEffet
  <1>2. Types'
    BY <1>1 DEF Types, SignalInv, CompteursInv
  <1>3. CompteursInv'
    BY <1>1 DEF CompteursInv, Un, EnAttente, Inscrites
  <1>4. VerrouInv'
    BY <1>1, PersonneAssumption DEF VerrouInv, Types, SousVerrou
  <1>5. TientInv'
    BY <1>1 DEF TientInv, Types
  <1>6. SignalInv'
    BY <1>1 DEF SignalInv, Types, VerrouInv, SousVerrou
  <1>7. CroissanceInv'
    BY <1>1 DEF CroissanceInv, Types, Pousse, Items, VerrouInv, SousVerrou
  <1> QED BY <1>2, <1>3, <1>4, <1>5, <1>6, <1>7

LEMMA GrandirRienInv ==
    ASSUME Inv, NEW t \in Threads, GrandirRien(t)
    PROVE  Inv'
  <1> DEFINE l == IF pc[t] = "get_push" THEN "get_repop" ELSE "num_waiting"
  <1>0. Aller(t, l) /\ l \in Lieux
    BY DEF GrandirRien, Lieux, SousVerrou, SansGrandir
  <1> USE DEF Inv, Effet, GrandirRien, varsListe, varsCondition, varsGrow, Prendre, Lacher,
             SansGrandir
  <1>1. Effet(t, l)
    BY <1>0, AllerEffet
  <1>2. Types'
    BY <1>1 DEF Types, SignalInv, CompteursInv
  <1>3. CompteursInv'
    BY <1>1 DEF CompteursInv, Un, EnAttente, Inscrites
  <1>4. VerrouInv'
    BY <1>1, PersonneAssumption DEF VerrouInv, Types, SousVerrou
  <1>5. TientInv'
    BY <1>1 DEF TientInv, Types
  <1>6. SignalInv'
    BY <1>1 DEF SignalInv, Types, VerrouInv, SousVerrou
  <1>7. CroissanceInv'
    BY <1>1 DEF CroissanceInv, Types, Pousse, Items, VerrouInv, SousVerrou
  <1> QED BY <1>2, <1>3, <1>4, <1>5, <1>6, <1>7

LEMMA GrandirFinInv ==
    ASSUME Inv, NEW t \in Threads, GrandirFin(t)
    PROVE  Inv'
  <1> DEFINE l == IF pc[t] = "get_push" THEN "get_repop" ELSE "reveiller"
  <1>0. Aller(t, l) /\ l \in Lieux
    BY DEF GrandirFin, Lieux, SousVerrou
  <1> USE DEF Inv, Effet, GrandirFin, varsListe, varsCondition, varsGrow, Prendre, Lacher
  <1>1. Effet(t, l)
    BY <1>0, AllerEffet
  <1>2. Types'
    BY <1>1 DEF Types, SignalInv, CompteursInv
  <1>3. CompteursInv'
    BY <1>1 DEF CompteursInv, Un, EnAttente, Inscrites
  <1>4. VerrouInv'
    BY <1>1, PersonneAssumption DEF VerrouInv, Types, SousVerrou
  <1>5. TientInv'
    BY <1>1 DEF TientInv, Types
  <1>6. SignalInv'
    BY <1>1 DEF SignalInv, Types, VerrouInv, SousVerrou
  <1>7. CroissanceInv'
    BY <1>1 DEF CroissanceInv, Types, Pousse, Items, VerrouInv, SousVerrou
  <1> QED BY <1>2, <1>3, <1>4, <1>5, <1>6, <1>7

LEMMA ReveillerInv ==
    ASSUME Inv, NEW t \in Threads, Reveiller(t)
    PROVE  Inv'
  <1> DEFINE l == IF fl_num_waiting = 1 /\ c_waiting # 0 THEN "reveiller_un" ELSE "wait_pop"
  <1>0. Aller(t, l) /\ l \in Lieux
    BY DEF Reveiller, Lieux, SousVerrou
  <1> USE DEF Inv, Effet, Reveiller, varsListe, varsCondition, varsGrow, Prendre, Lacher
  <1>1. Effet(t, l)
    BY <1>0, AllerEffet
  <1>2. Types'
    BY <1>1 DEF Types, CompteursInv
  <1>3. CompteursInv'
    BY <1>1 DEF CompteursInv, Un, EnAttente, Inscrites
  <1>4. VerrouInv'
    BY <1>1, PersonneAssumption DEF VerrouInv, Types, SousVerrou
  <1>5. TientInv'
    BY <1>1 DEF TientInv, Types
  <1>6. SignalInv'
    BY <1>1 DEF SignalInv, Types, VerrouInv, SousVerrou
  <1>7. CroissanceInv'
    BY <1>1 DEF CroissanceInv, Types, Pousse, Items, VerrouInv, SousVerrou
  <1> QED BY <1>2, <1>3, <1>4, <1>5, <1>6, <1>7

LEMMA ReveillerUnInv ==
    ASSUME Inv, NEW t \in Threads, ReveillerUn(t)
    PROVE  Inv'
  <1> DEFINE l == "wait_pop"
  <1>0. Aller(t, l) /\ l \in Lieux
    BY DEF ReveillerUn, Lieux, SousVerrou
  <1> USE DEF Inv, Effet, ReveillerUn, varsListe, varsCondition, varsGrow, Prendre, Lacher
  <1>1. Effet(t, l)
    BY <1>0, AllerEffet
  <1>2. Types'
    BY <1>1 DEF Types, SignalInv, CompteursInv
  <1>3. CompteursInv'
    BY <1>1 DEF CompteursInv, Un, EnAttente, Inscrites
  <1>4. VerrouInv'
    BY <1>1, PersonneAssumption DEF VerrouInv, Types, SousVerrou
  <1>5. TientInv'
    BY <1>1 DEF TientInv, Types
  <1>6. SignalInv'
    BY <1>1 DEF SignalInv, Types, VerrouInv, SousVerrou
  <1>7. CroissanceInv'
    BY <1>1 DEF CroissanceInv, Types, Pousse, Items, VerrouInv, SousVerrou
  <1> QED BY <1>2, <1>3, <1>4, <1>5, <1>6, <1>7

LEMMA NumWaitingInv ==
    ASSUME Inv, NEW t \in Threads, NumWaiting(t)
    PROVE  Inv'
  <1> DEFINE l == "c_waiting"
  <1>0. Aller(t, l) /\ l \in Lieux
    BY DEF NumWaiting, Lieux, SousVerrou
  <1> USE DEF Inv, Effet, NumWaiting, varsListe, varsCondition, varsGrow, Prendre, Lacher
  <1>1. Effet(t, l)
    BY <1>0, AllerEffet
  <1>2. Types'
    BY <1>1 DEF Types, SignalInv, CompteursInv
  <1>3. CompteursInv'
    BY <1>1 DEF CompteursInv, Un, EnAttente, Inscrites
  <1>4. VerrouInv'
    BY <1>1, PersonneAssumption DEF VerrouInv, Types, SousVerrou
  <1>5. TientInv'
    BY <1>1 DEF TientInv, Types
  <1>6. SignalInv'
    BY <1>1 DEF SignalInv, Types, VerrouInv, SousVerrou
  <1>7. CroissanceInv'
    BY <1>1 DEF CroissanceInv, Types, Pousse, Items, VerrouInv, SousVerrou
  <1> QED BY <1>2, <1>3, <1>4, <1>5, <1>6, <1>7

LEMMA CWaitingInv ==
    ASSUME Inv, NEW t \in Threads, CWaiting(t)
    PROVE  Inv'
  <1> DEFINE l == "c_test"
  <1>0. Aller(t, l) /\ l \in Lieux
    BY DEF CWaiting, Lieux, SousVerrou
  <1> USE DEF Inv, Effet, CWaiting, varsListe, varsCondition, varsGrow, Prendre, Lacher
  <1>1. Effet(t, l)
    BY <1>0, AllerEffet
  <1>2. Types'
    BY <1>1 DEF Types, SignalInv, CompteursInv
  <1>3. CompteursInv'
    BY <1>1 DEF CompteursInv, Un, EnAttente, Inscrites
  <1>4. VerrouInv'
    BY <1>1, PersonneAssumption DEF VerrouInv, Types, SousVerrou
  <1>5. TientInv'
    BY <1>1 DEF TientInv, Types
  <1>6. SignalInv'
    BY <1>1 DEF SignalInv, Types, VerrouInv, SousVerrou
  <1>7. CroissanceInv'
    BY <1>1 DEF CroissanceInv, Types, Pousse, Items, VerrouInv, SousVerrou
  <1> QED BY <1>2, <1>3, <1>4, <1>5, <1>6, <1>7

LEMMA CTestInv ==
    ASSUME Inv, NEW t \in Threads, CTest(t)
    PROVE  Inv'
  <1> DEFINE l == IF c_signaled # 0 THEN "c_sortie" ELSE "c_progres"
  <1>0. Aller(t, l) /\ l \in Lieux
    BY DEF CTest, Lieux, SousVerrou
  <1> USE DEF Inv, Effet, CTest, varsListe, varsCondition, varsGrow, Prendre, Lacher
  <1>1. Effet(t, l)
    BY <1>0, AllerEffet
  <1>2. Types'
    BY <1>1 DEF Types, SignalInv, CompteursInv
  <1>3. CompteursInv'
    BY <1>1 DEF CompteursInv, Un, EnAttente, Inscrites
  <1>4. VerrouInv'
    BY <1>1, PersonneAssumption DEF VerrouInv, Types, SousVerrou
  <1>5. TientInv'
    BY <1>1 DEF TientInv, Types
  <1>6. SignalInv'
    BY <1>1 DEF SignalInv, Types, VerrouInv, SousVerrou
  <1>7. CroissanceInv'
    BY <1>1 DEF CroissanceInv, Types, Pousse, Items, VerrouInv, SousVerrou
  <1> QED BY <1>2, <1>3, <1>4, <1>5, <1>6, <1>7

LEMMA CSortieInv ==
    ASSUME Inv, NEW t \in Threads, CSortie(t)
    PROVE  Inv'
  <1> DEFINE l == "fin_attente"
  <1>0. Aller(t, l) /\ l \in Lieux
    BY DEF CSortie, Lieux, SousVerrou
  <1> USE DEF Inv, Effet, CSortie, varsListe, varsCondition, varsGrow, Prendre, Lacher
  <1>1. Effet(t, l)
    BY <1>0, AllerEffet
  <1>2. Types'
    BY <1>1 DEF Types, SignalInv, CompteursInv
  <1>3. CompteursInv'
    BY <1>1 DEF CompteursInv, Un, EnAttente, Inscrites
  <1>4. VerrouInv'
    BY <1>1, PersonneAssumption DEF VerrouInv, Types, SousVerrou
  <1>5. TientInv'
    BY <1>1 DEF TientInv, Types
  <1>6. SignalInv'
    BY <1>1 DEF SignalInv, Types, VerrouInv, SousVerrou
  <1>7. CroissanceInv'
    BY <1>1 DEF CroissanceInv, Types, Pousse, Items, VerrouInv, SousVerrou
  <1> QED BY <1>2, <1>3, <1>4, <1>5, <1>6, <1>7

LEMMA CProgresInv ==
    ASSUME Inv, NEW t \in Threads, CProgres(t)
    PROVE  Inv'
  <1> DEFINE l == "c_boucle"
  <1>0. Aller(t, l) /\ l \in Lieux
    BY DEF CProgres, Lieux, SousVerrou
  <1> USE DEF Inv, Effet, CProgres, varsListe, varsCondition, varsGrow, Prendre, Lacher
  <1>1. Effet(t, l)
    BY <1>0, AllerEffet
  <1>2. Types'
    BY <1>1 DEF Types, SignalInv, CompteursInv
  <1>3. CompteursInv'
    BY <1>1 DEF CompteursInv, Un, EnAttente, Inscrites
  <1>4. VerrouInv'
    BY <1>1, PersonneAssumption DEF VerrouInv, Types, SousVerrou
  <1>5. TientInv'
    BY <1>1 DEF TientInv, Types
  <1>6. SignalInv'
    BY <1>1 DEF SignalInv, Types, VerrouInv, SousVerrou
  <1>7. CroissanceInv'
    BY <1>1 DEF CroissanceInv, Types, Pousse, Items, VerrouInv, SousVerrou
  <1> QED BY <1>2, <1>3, <1>4, <1>5, <1>6, <1>7

LEMMA CBoucleInv ==
    ASSUME Inv, NEW t \in Threads, CBoucle(t)
    PROVE  Inv'
  <1> DEFINE l == IF c_signaled = 0 THEN "c_progres" ELSE "c_moins"
  <1>0. Aller(t, l) /\ l \in Lieux
    BY DEF CBoucle, Lieux, SousVerrou
  <1> USE DEF Inv, Effet, CBoucle, varsListe, varsCondition, varsGrow, Prendre, Lacher
  <1>1. Effet(t, l)
    BY <1>0, AllerEffet
  <1>2. Types'
    BY <1>1 DEF Types, SignalInv, CompteursInv
  <1>3. CompteursInv'
    BY <1>1 DEF CompteursInv, Un, EnAttente, Inscrites
  <1>4. VerrouInv'
    BY <1>1, PersonneAssumption DEF VerrouInv, Types, SousVerrou
  <1>5. TientInv'
    BY <1>1 DEF TientInv, Types
  <1>6. SignalInv'
    BY <1>1 DEF SignalInv, Types, VerrouInv, SousVerrou
  <1>7. CroissanceInv'
    BY <1>1 DEF CroissanceInv, Types, Pousse, Items, VerrouInv, SousVerrou
  <1> QED BY <1>2, <1>3, <1>4, <1>5, <1>6, <1>7

LEMMA CMoinsLireInv ==
    ASSUME Inv, NEW t \in Threads, CMoinsLire(t)
    PROVE  Inv'
  <1> DEFINE l == "c_moins_ecrire"
  <1>0. Aller(t, l) /\ l \in Lieux
    BY DEF CMoinsLire, Lieux, SousVerrou
  <1> USE DEF Inv, Effet, CMoinsLire, varsListe, varsCondition, varsGrow, Prendre, Lacher
  <1>1. Effet(t, l)
    BY <1>0, AllerEffet
  <1>2. Types'
    BY <1>1 DEF Types, SignalInv, CompteursInv
  <1>3. CompteursInv'
    BY <1>1 DEF CompteursInv, Un, EnAttente, Inscrites
  <1>4. VerrouInv'
    BY <1>1, PersonneAssumption DEF VerrouInv, Types, SousVerrou
  <1>5. TientInv'
    BY <1>1 DEF TientInv, Types
  <1>6. SignalInv'
    BY <1>1 DEF SignalInv, Types, VerrouInv, SousVerrou
  <1>7. CroissanceInv'
    BY <1>1 DEF CroissanceInv, Types, Pousse, Items, VerrouInv, SousVerrou
  <1> QED BY <1>2, <1>3, <1>4, <1>5, <1>6, <1>7

LEMMA CMoinsEcrireInv ==
    ASSUME Inv, NEW t \in Threads, CMoinsEcrire(t)
    PROVE  Inv'
  <1> DEFINE l == "c_waiting_moins"
  <1>0. Aller(t, l) /\ l \in Lieux
    BY DEF CMoinsEcrire, Lieux, SousVerrou
  <1> USE DEF Inv, Effet, CMoinsEcrire, varsListe, varsCondition, varsGrow, Prendre, Lacher
  <1>1. Effet(t, l)
    BY <1>0, AllerEffet
  <1>2. Types'
    BY <1>1 DEF Types, SignalInv, CompteursInv
  <1>3. CompteursInv'
    BY <1>1 DEF CompteursInv, Un, EnAttente, Inscrites
  <1>4. VerrouInv'
    BY <1>1, PersonneAssumption DEF VerrouInv, Types, SousVerrou
  <1>5. TientInv'
    BY <1>1 DEF TientInv, Types
  <1>6. SignalInv'
    BY <1>1 DEF SignalInv, Types, VerrouInv, SousVerrou
  <1>7. CroissanceInv'
    BY <1>1 DEF CroissanceInv, Types, Pousse, Items, VerrouInv, SousVerrou
  <1> QED BY <1>2, <1>3, <1>4, <1>5, <1>6, <1>7

LEMMA CWaitingMoinsInv ==
    ASSUME Inv, NEW t \in Threads, CWaitingMoins(t)
    PROVE  Inv'
  <1> DEFINE l == "fin_attente"
  <1>0. Aller(t, l) /\ l \in Lieux
    BY DEF CWaitingMoins, Lieux, SousVerrou
  <1> USE DEF Inv, Effet, CWaitingMoins, varsListe, varsCondition, varsGrow, Prendre, Lacher
  <1>1. Effet(t, l)
    BY <1>0, AllerEffet
  <1>2. Types'
    BY <1>1 DEF Types, SignalInv, CompteursInv
  <1>3. CompteursInv'
    BY <1>1 DEF CompteursInv, Un, EnAttente, Inscrites
  <1>4. VerrouInv'
    BY <1>1, PersonneAssumption DEF VerrouInv, Types, SousVerrou
  <1>5. TientInv'
    BY <1>1 DEF TientInv, Types
  <1>6. SignalInv'
    BY <1>1 DEF SignalInv, Types, VerrouInv, SousVerrou
  <1>7. CroissanceInv'
    BY <1>1 DEF CroissanceInv, Types, Pousse, Items, VerrouInv, SousVerrou
  <1> QED BY <1>2, <1>3, <1>4, <1>5, <1>6, <1>7

LEMMA FinAttenteInv ==
    ASSUME Inv, NEW t \in Threads, FinAttente(t)
    PROVE  Inv'
  <1> DEFINE l == "wait_pop"
  <1>0. Aller(t, l) /\ l \in Lieux
    BY DEF FinAttente, Lieux, SousVerrou
  <1> USE DEF Inv, Effet, FinAttente, varsListe, varsCondition, varsGrow, Prendre, Lacher
  <1>1. Effet(t, l)
    BY <1>0, AllerEffet
  <1>2. Types'
    BY <1>1 DEF Types, SignalInv, CompteursInv
  <1>3. CompteursInv'
    BY <1>1 DEF CompteursInv, Un, EnAttente, Inscrites
  <1>4. VerrouInv'
    BY <1>1, PersonneAssumption DEF VerrouInv, Types, SousVerrou
  <1>5. TientInv'
    BY <1>1 DEF TientInv, Types
  <1>6. SignalInv'
    BY <1>1 DEF SignalInv, Types, VerrouInv, SousVerrou
  <1>7. CroissanceInv'
    BY <1>1 DEF CroissanceInv, Types, Pousse, Items, VerrouInv, SousVerrou
  <1> QED BY <1>2, <1>3, <1>4, <1>5, <1>6, <1>7

LEMMA RendreInv ==
    ASSUME Inv, NEW t \in Threads, Rendre(t)
    PROVE  Inv'
  <1> DEFINE l == IF libres = 0 THEN "return_waiting" ELSE "repos"
  <1>0. Aller(t, l) /\ l \in Lieux
    BY DEF Rendre, Lieux, SousVerrou
  <1> USE DEF Inv, Effet, Rendre, varsListe, varsCondition, varsGrow, Prendre, Lacher
  <1>1. Effet(t, l)
    BY <1>0, AllerEffet
  <1>2. Types'
    BY <1>1 DEF Types, SignalInv, CompteursInv
  <1>3. CompteursInv'
    BY <1>1 DEF CompteursInv, Un, EnAttente, Inscrites
  <1>4. VerrouInv'
    BY <1>1, PersonneAssumption DEF VerrouInv, Types, SousVerrou
  <1>5. TientInv'
    BY <1>1 DEF TientInv, Types
  <1>6. SignalInv'
    BY <1>1 DEF SignalInv, Types, VerrouInv, SousVerrou
  <1>7. CroissanceInv'
    <2>1. /\ Cardinality(tient) \in Nat
          /\ Cardinality(tient \ {t}) = Cardinality(tient) - 1
      BY CompteTient DEF TientInv
    <2>2. pc[t] \notin Pousse /\ l \notin Pousse
      BY DEF Pousse
    <2>3. (\E u \in Threads : pc'[u] \in Pousse) <=> \E u \in Threads : pc[u] \in Pousse
      BY <1>1, <2>2 DEF Types
    <2>4. Items' = Items
      BY <2>1 DEF Items, Types
    <2> QED BY <2>3, <2>4 DEF CroissanceInv
  <1> QED BY <1>2, <1>3, <1>4, <1>5, <1>6, <1>7

LEMMA ReturnWaitingInv ==
    ASSUME Inv, NEW t \in Threads, ReturnWaiting(t)
    PROVE  Inv'
  <1> DEFINE l == IF fl_num_waiting > 0 THEN "return_cond" ELSE "repos"
  <1>0. Aller(t, l) /\ l \in Lieux
    BY DEF ReturnWaiting, Lieux, SousVerrou
  <1> USE DEF Inv, Effet, ReturnWaiting, varsListe, varsCondition, varsGrow, Prendre, Lacher
  <1>1. Effet(t, l)
    BY <1>0, AllerEffet
  <1>2. Types'
    BY <1>1 DEF Types, SignalInv, CompteursInv
  <1>3. CompteursInv'
    BY <1>1 DEF CompteursInv, Un, EnAttente, Inscrites
  <1>4. VerrouInv'
    BY <1>1, PersonneAssumption DEF VerrouInv, Types, SousVerrou
  <1>5. TientInv'
    BY <1>1 DEF TientInv, Types
  <1>6. SignalInv'
    BY <1>1 DEF SignalInv, Types, VerrouInv, SousVerrou
  <1>7. CroissanceInv'
    BY <1>1 DEF CroissanceInv, Types, Pousse, Items, VerrouInv, SousVerrou
  <1> QED BY <1>2, <1>3, <1>4, <1>5, <1>6, <1>7

LEMMA ReturnCondInv ==
    ASSUME Inv, NEW t \in Threads, ReturnCond(t)
    PROVE  Inv'
  <1> DEFINE l == IF c_waiting # 0 THEN "return_lire" ELSE "repos"
  <1>0. Aller(t, l) /\ l \in Lieux
    BY DEF ReturnCond, Lieux, SousVerrou
  <1> USE DEF Inv, Effet, ReturnCond, varsListe, varsCondition, varsGrow, Prendre, Lacher
  <1>1. Effet(t, l)
    BY <1>0, AllerEffet
  <1>2. Types'
    BY <1>1 DEF Types, SignalInv, CompteursInv
  <1>3. CompteursInv'
    BY <1>1 DEF CompteursInv, Un, EnAttente, Inscrites
  <1>4. VerrouInv'
    BY <1>1, PersonneAssumption DEF VerrouInv, Types, SousVerrou
  <1>5. TientInv'
    BY <1>1 DEF TientInv, Types
  <1>6. SignalInv'
    BY <1>1 DEF SignalInv, Types, VerrouInv, SousVerrou
  <1>7. CroissanceInv'
    BY <1>1 DEF CroissanceInv, Types, Pousse, Items, VerrouInv, SousVerrou
  <1> QED BY <1>2, <1>3, <1>4, <1>5, <1>6, <1>7

LEMMA ReturnLireInv ==
    ASSUME Inv, NEW t \in Threads, ReturnLire(t)
    PROVE  Inv'
  <1> DEFINE l == "return_ecrire"
  <1>0. Aller(t, l) /\ l \in Lieux
    BY DEF ReturnLire, Lieux, SousVerrou
  <1> USE DEF Inv, Effet, ReturnLire, varsListe, varsCondition, varsGrow, Prendre, Lacher
  <1>1. Effet(t, l)
    BY <1>0, AllerEffet
  <1>2. Types'
    BY <1>1 DEF Types, SignalInv, CompteursInv
  <1>3. CompteursInv'
    BY <1>1 DEF CompteursInv, Un, EnAttente, Inscrites
  <1>4. VerrouInv'
    BY <1>1, PersonneAssumption DEF VerrouInv, Types, SousVerrou
  <1>5. TientInv'
    BY <1>1 DEF TientInv, Types
  <1>6. SignalInv'
    BY <1>1 DEF SignalInv, Types, VerrouInv, SousVerrou
  <1>7. CroissanceInv'
    BY <1>1 DEF CroissanceInv, Types, Pousse, Items, VerrouInv, SousVerrou
  <1> QED BY <1>2, <1>3, <1>4, <1>5, <1>6, <1>7

LEMMA ReturnEcrireInv ==
    ASSUME Inv, NEW t \in Threads, ReturnEcrire(t)
    PROVE  Inv'
  <1> DEFINE l == "repos"
  <1>0. Aller(t, l) /\ l \in Lieux
    BY DEF ReturnEcrire, Lieux, SousVerrou
  <1> USE DEF Inv, Effet, ReturnEcrire, varsListe, varsCondition, varsGrow, Prendre, Lacher
  <1>1. Effet(t, l)
    BY <1>0, AllerEffet
  <1>2. Types'
    BY <1>1 DEF Types, SignalInv, CompteursInv
  <1>3. CompteursInv'
    BY <1>1 DEF CompteursInv, Un, EnAttente, Inscrites
  <1>4. VerrouInv'
    BY <1>1, PersonneAssumption DEF VerrouInv, Types, SousVerrou
  <1>5. TientInv'
    BY <1>1 DEF TientInv, Types
  <1>6. SignalInv'
    BY <1>1 DEF SignalInv, Types, VerrouInv, SousVerrou
  <1>7. CroissanceInv'
    BY <1>1 DEF CroissanceInv, Types, Pousse, Items, VerrouInv, SousVerrou
  <1> QED BY <1>2, <1>3, <1>4, <1>5, <1>6, <1>7

(* The two steps of the growth that stay where they are.                    *)
LEMMA GrandirPushInv ==
    ASSUME Inv, NEW t \in Threads, GrandirPush(t) \/ InitEchoue(t)
    PROVE  Inv'
  <1> USE DEF Inv, GrandirPush, InitEchoue, varsListe, varsCondition, varsGrow
  <1>1. pc' = pc /\ c_waiting' = c_waiting /\ fl_num_waiting' = fl_num_waiting
    OBVIOUS
  <1>2. reste <= lot /\ pc[t] \in Pousse
    BY DEF CroissanceInv, Pousse
  <1>3. Types'
    BY <1>1, <1>2 DEF Types
  <1>4. CompteursInv'
    BY <1>1 DEF CompteursInv, NbAttendent, NbInscrits
  <1>5. VerrouInv' /\ TientInv' /\ SignalInv'
    BY DEF VerrouInv, TientInv, SignalInv
  <1>6. CroissanceInv'
    <2>1. Cardinality(tient) \in Nat /\ tient' = tient /\ fl_num_allocated' = fl_num_allocated
      BY CompteTient
    <2>2. /\ Items = fl_num_allocated + lot - reste /\ fl_num_allocated + lot <= Borne
          /\ fl_num_allocated <= Borne
      BY <1>2 DEF CroissanceInv
    <2>3. CASE GrandirPush(t)
      <3>1. lot' = lot /\ reste' = reste - 1 /\ Items' = Items + 1
        BY <2>1, <2>3 DEF Items, Types
      <3>2. reste' <= lot' /\ Items' = fl_num_allocated' + lot' - reste'
        BY <1>2, <2>1, <2>2, <3>1 DEF Types
      <3> QED BY <1>1, <1>2, <2>1, <2>2, <3>1, <3>2 DEF CroissanceInv
    <2>4. CASE InitEchoue(t)
      <3>1. lot' = lot - reste /\ reste' = 0 /\ Items' = Items
        BY <2>1, <2>4 DEF Items
      <3>2. /\ reste' <= lot' /\ Items' = fl_num_allocated' + lot' - reste'
            /\ fl_num_allocated' + lot' <= Borne
        BY <1>2, <2>1, <2>2, <3>1, ExcesType DEF Types
      <3> QED BY <1>1, <1>2, <2>1, <2>2, <3>2 DEF CroissanceInv
    <2> QED BY <2>3, <2>4
  <1> QED BY <1>3, <1>4, <1>5, <1>6

LEMMA StepInv == Inv /\ [Next]_vars => Inv'
  <1> SUFFICES ASSUME Inv, [Next]_vars PROVE Inv'
    OBVIOUS
  <1>1. ASSUME NEW t \in Threads, Appeler(t) \/ AvecVerrou(t)
        PROVE  Inv'
    BY <1>1, AppelerInv, GetLockInv, WaitLockInv, CSortieInv, CProgresInv DEF AvecVerrou
  <1>2. ASSUME NEW t \in Threads, EnCours(t)
        PROVE  Inv'
    BY <1>2, PopInv, WaitTrylockInv, GrandirInv, PasGrandirInv, GrandirPushInv, GrandirRienInv,
       GrandirFinInv, ReveillerInv, ReveillerUnInv, NumWaitingInv, CWaitingInv, CTestInv,
       CBoucleInv, CMoinsLireInv, CMoinsEcrireInv, CWaitingMoinsInv, FinAttenteInv, RendreInv,
       ReturnWaitingInv, ReturnCondInv, ReturnLireInv, ReturnEcrireInv
       DEF EnCours
  <1>3. CASE UNCHANGED vars
    <2>1. UNCHANGED <<libres, tient, fl_num_allocated, fl_num_waiting, fl_lock, c_waiting,
                      c_signaled, lot, reste, tmp, pc>>
      BY <1>3 DEF vars, varsListe, varsCondition, varsGrow
    <2>2. Types' /\ CompteursInv' /\ VerrouInv'
      BY <2>1 DEF Inv, Types, CompteursInv, NbAttendent, NbInscrits, VerrouInv
    <2>3. TientInv' /\ SignalInv' /\ CroissanceInv'
      BY <2>1 DEF Inv, TientInv, SignalInv, CroissanceInv, Items
    <2> QED BY <2>2, <2>3 DEF Inv
  <1> QED BY <1>1, <1>2, <1>3 DEF Next

-----------------------------------------------------------------------------
(* For any number of threads and any sizes, whichever allocations fail, the *)
(* list never has more items than fl_max_to_alloc and the last page allow,  *)
(* its count of them is exact but for the growth in progress, the counters  *)
(* of waiters that a return reads without the lock count the waiters,       *)
(* fl_lock is held by one thread at a time, and c_signaled never becomes    *)
(* negative.                                                                *)
THEOREM BorneAllocationTheorem == Spec => []BorneAllocation
  <1>1. Inv => BorneAllocation
    <2> SUFFICES ASSUME Inv PROVE BorneAllocation
      OBVIOUS
    <2>1. TypeOK
      BY DEF Inv, TypeOK, Types, CompteursInv, VerrouInv, NbAttendent, NbInscrits, Inscrites
    <2>2. Cardinality(tient) \in Nat
      BY FS_Subset, FS_CardinalityType, ThreadsAssumption DEF Inv, Types
    <2>3. Items <= Borne /\ fl_num_allocated <= Items
      BY <2>2, ExcesType DEF Inv, Types, CroissanceInv, Items
    <2>4. (\A t \in Threads : pc[t] \notin {"get_push", "wait_push"}) => fl_num_allocated = Items
      BY DEF Inv, CroissanceInv, Pousse
    <2> QED BY <2>1, <2>3, <2>4 DEF BorneAllocation, Items, Borne
  <1> QED BY <1>1, InitInv, StepInv, PTL DEF Spec
=============================================================================
