--------------------------- MODULE Ob1MatchProofs ---------------------------
(***************************************************************************)
(* The matching of ob1 for any number of sources, messages, requests and   *)
(* threads.  The lists of fragments out of turn and the loops of           *)
(* mca_pml_ob1_add_comm are recursive functions of the messages that have  *)
(* come: what they return is shown by an induction, stated as the absence  *)
(* of a least counterexample (WFMin of WellFoundedInduction).              *)
(* In this order: types, requests and the absence of a missed pair         *)
(* (InvTheorem); what the list of fragments out of turn keeps; where each  *)
(* message is (EndroitsTheorem); the order of the messages of a source     *)
(* (SansCroisementTheorem); the order of the list of fragments, and that   *)
(* none of them is forgotten (AucunOubliTheorem); that matching implements *)
(* Appariement (AppariementTheorem).                                       *)
(***************************************************************************)
EXTENDS Ob1Match, FiniteSetTheorems, SequenceTheorems, WellFoundedInduction, TLAPS

Messages == [src : Sources, rang : Nat, tag : Tags, type : Types, seq : 0 .. Modulo - 1]
Plages == Seq(Messages) \ {<<>>}
Listes == Seq(Plages)

-----------------------------------------------------------------------------
(* A set of naturals that is not empty has a least element.                 *)
LEMMA PlusPetit ==
    ASSUME NEW S, S \subseteq Nat, S # {}
    PROVE  \E m \in S : \A x \in S : m <= x
  <1> DEFINE R == OpToRel(<, Nat)
  <1>1. IsWellFoundedOn(R, Nat)
    BY NatLessThanWellFounded
  <1>2. \A x, y \in S : y < x => <<y, x>> \in R
    BY DEF OpToRel
  <1> HIDE DEF R
  <1>3. PICK m \in S : \A y \in S : ~ (<<y, m>> \in R)
    BY <1>1, WFMin
  <1>4. \A y \in S : ~ (y < m)
    BY <1>2, <1>3
  <1> QED BY <1>4

LEMMA MinProprietes ==
    ASSUME NEW S, S \subseteq Nat, S # {}
    PROVE  Min(S) \in S /\ \A x \in S : Min(S) <= x
  <1>1. \E m \in S : \A x \in S : m <= x
    BY PlusPetit
  <1> QED BY <1>1 DEF Min

(* One that is bounded has a greatest.                                      *)
LEMMA MaxProprietes ==
    ASSUME NEW n \in Nat, NEW S, S \subseteq 0 .. n, S # {}
    PROVE  Max(S) \in S /\ \A x \in S : x <= Max(S)
  <1> DEFINE D == {n - x : x \in S}
  <1>1. PICK d \in D : \A e \in D : d <= e
    <2>1. \A x \in S : n - x \in Nat
      OBVIOUS
    <2>2. D \subseteq Nat /\ D # {}
      BY <2>1
    <2> HIDE DEF D
    <2> QED BY <2>2, PlusPetit
  <1>2. PICK m \in S : d = n - m
    OBVIOUS
  <1>3. \A x \in S : m >= x
    <2> SUFFICES ASSUME NEW x \in S PROVE m >= x
      OBVIOUS
    <2>1. d <= n - x
      BY <1>1
    <2> QED BY <1>2, <2>1
  <1>4. \E x \in S : \A y \in S : x >= y
    BY <1>3
  <1>5. Max(S) \in S /\ \A y \in S : Max(S) >= y
    BY <1>4 DEF Max
  <1> QED BY <1>5

(* The values of a function computed step by step from x0: all are in S if  *)
(* each step stays in S,                                                    *)
LEMMA RecurrenceType ==
    ASSUME NEW S, NEW n \in Nat, NEW v, v[0] \in S,
           \A i \in 1 .. n : v[i - 1] \in S => v[i] \in S
    PROVE  \A i \in 0 .. n : v[i] \in S
  <1> DEFINE Mauvais == {i \in 0 .. n : v[i] \notin S}
  <1> SUFFICES ASSUME Mauvais # {} PROVE FALSE
    OBVIOUS
  <1>1. PICK m \in Mauvais : \A x \in Mauvais : m <= x
    <2>1. Mauvais \subseteq Nat
      OBVIOUS
    <2> HIDE DEF Mauvais
    <2> QED BY <2>1, PlusPetit
  <1>2. m \in 1 .. n /\ m - 1 \in 0 .. n /\ m - 1 \notin Mauvais
    BY <1>1
  <1> QED BY <1>1, <1>2

(* and there is such a function.                                            *)
EstSuite(g, x0, n, F) == g = [i \in 0 .. n |-> IF i = 0 THEN x0 ELSE F[i][g[i - 1]]]

LEMMA RecurrenceExiste ==
    ASSUME NEW S, NEW x0 \in S, NEW n \in Nat, NEW F \in [1 .. n -> [S -> S]]
    PROVE  \E g \in [0 .. n -> S] : EstSuite(g, x0, n, F)
  <1> DEFINE Debuts(k) == {g \in [0 .. k -> S] :
                             g[0] = x0 /\ \A i \in 1 .. k : g[i] = F[i][g[i - 1]]}
             Mauvais == {k \in 0 .. n : Debuts(k) = {}}
  <1>1. [i \in 0 .. 0 |-> x0] \in Debuts(0)
    OBVIOUS
  <1>2. ASSUME NEW m \in 1 .. n, NEW g \in Debuts(m - 1)
        PROVE  Debuts(m) # {}
    <2> DEFINE h == [i \in 0 .. m |-> IF i = m THEN F[m][g[m - 1]] ELSE g[i]]
    <2>1. /\ m \in Nat \ {0} /\ m - 1 \in 0 .. m - 1 /\ 0 \in 0 .. m - 1 /\ g \in [0 .. m - 1 -> S]
          /\ g[0] = x0 /\ \A i \in 1 .. m - 1 : g[i] = F[i][g[i - 1]]
      BY <1>2
    <2>2. F[m][g[m - 1]] \in S
      BY <2>1
    <2>3. /\ \A i \in 0 .. m - 1 : h[i] = g[i]
          /\ h[m] = F[m][g[m - 1]] /\ h \in [0 .. m -> S]
      BY <2>1, <2>2
    <2> HIDE DEF h
    <2>4. ASSUME NEW i \in 1 .. m PROVE h[i] = F[i][h[i - 1]]
      <3>1. i - 1 \in 0 .. m - 1 /\ h[i - 1] = g[i - 1]
        BY <2>1, <2>3
      <3>2. CASE i = m
        BY <2>3, <3>1, <3>2
      <3>3. CASE i # m
        <4>1. i \in 1 .. m - 1 /\ i \in 0 .. m - 1
          BY <2>1, <3>3
        <4> QED BY <2>1, <2>3, <3>1, <4>1
      <3> QED BY <3>2, <3>3
    <2>5. h \in Debuts(m)
      BY <2>1, <2>3, <2>4
    <2> QED BY <2>5
  <1> HIDE DEF Debuts
  <1>3. Mauvais = {}
    <2> SUFFICES ASSUME Mauvais # {} PROVE FALSE
      OBVIOUS
    <2>1. PICK m \in Mauvais : \A x \in Mauvais : m <= x
      <3>1. Mauvais \subseteq Nat
        OBVIOUS
      <3> HIDE DEF Mauvais
      <3> QED BY <3>1, PlusPetit
    <2>2. m \in 0 .. n /\ Debuts(m) = {}
      OBVIOUS
    <2>3. m # 0
      BY <1>1, <2>2
    <2>4. m \in 1 .. n /\ m - 1 \in 0 .. n /\ ~ (m <= m - 1)
      BY <2>2, <2>3
    <2>5. Debuts(m - 1) # {}
      BY <2>1, <2>4
    <2> QED BY <1>2, <2>2, <2>4, <2>5
  <1>4. PICK g : g \in Debuts(n)
    BY <1>3
  <1>5. /\ g \in [0 .. n -> S] /\ g[0] = x0
        /\ \A i \in 1 .. n : g[i] = F[i][g[i - 1]]
    BY <1>4 DEF Debuts
  <1>6. \A i \in 0 .. n : i # 0 => i \in 1 .. n
    OBVIOUS
  <1>7. EstSuite(g, x0, n, F)
    BY <1>5, <1>6 DEF EstSuite
  <1> QED BY <1>5, <1>7

-----------------------------------------------------------------------------
(* The list of the fragments out of turn.  Its search ends at a range of    *)
(* the list: the loop over the next ones stops at the greatest at last.     *)
LEMMA PriorDansListe ==
    ASSUME NEW liste \in Listes, liste # <<>>, NEW seq \in 0 .. Modulo - 1
    PROVE  Prior(liste, seq) \in 1 .. Len(liste)
  <1> DEFINE n == Len(liste)
             d(i) == (Debut(liste, i) - seq) % Modulo
             Recule(i) == /\ seq < Debut(liste, i)
                          /\ d(PlageSuivante(liste, i)) > d(i)
                          /\ i # 1
             Avance(i) == /\ seq > Debut(liste, i)
                          /\ seq > Debut(liste, PlageSuivante(liste, i))
                          /\ Debut(liste, i) < Debut(liste, PlageSuivante(liste, i))
             Reculs == {i \in 1 .. n : ~ Recule(i)}
             Avances == {i \in 1 .. n : ~ Avance(i)}
  <1>1. n \in Nat \ {0} /\ \A i \in 1 .. n : Debut(liste, i) \in Nat /\ Debut(liste, i) < Modulo
    <2>1. n \in Nat \ {0}
      BY DEF Listes
    <2>2. ASSUME NEW i \in 1 .. n
          PROVE  Debut(liste, i) \in 0 .. Modulo - 1
      <3>1. liste[i] \in Plages
        BY DEF Listes
      <3>2. liste[i][1] \in Messages
        BY <3>1 DEF Plages
      <3> QED BY <3>2 DEF Messages, Debut
    <2> QED BY <2>1, <2>2, ModuloAssumption
  <1>2. Prior(liste, seq) = IF seq < Debut(liste, 1) THEN Max(Reculs) ELSE Min(Avances)
    BY Zenon DEF Prior
  <1>3. Max(Reculs) \in 1 .. n
    <2>1. Reculs \subseteq 0 .. n /\ 1 \in Reculs /\ Reculs \subseteq 1 .. n
      BY <1>1
    <2> HIDE DEF Reculs
    <2> QED BY <1>1, <2>1, MaxProprietes
  <1>4. Min(Avances) \in 1 .. n
    <2> DEFINE Restes == {Modulo - Debut(liste, i) : i \in 1 .. n}
    <2>1. Restes \subseteq Nat /\ Restes # {}
      <3>1. \A i \in 1 .. n : Modulo - Debut(liste, i) \in Nat
        BY <1>1, ModuloAssumption
      <3>2. 1 \in 1 .. n
        BY <1>1
      <3> QED BY <3>1, <3>2
    <2>2. PICK i \in 1 .. n :
            \A j \in 1 .. n : Modulo - Debut(liste, i) <= Modulo - Debut(liste, j)
      <3>1. PICK x \in Restes : \A y \in Restes : x <= y
        <4> HIDE DEF Restes
        <4> QED BY <2>1, PlusPetit
      <3>2. PICK i \in 1 .. n : x = Modulo - Debut(liste, i)
        OBVIOUS
      <3>3. \A j \in 1 .. n : Modulo - Debut(liste, j) \in Restes
        OBVIOUS
      <3> QED BY <3>1, <3>2, <3>3
    <2>3. PlageSuivante(liste, i) \in 1 .. n
      BY <1>1 DEF PlageSuivante
    <2>4. i \in Avances
      BY <1>1, <2>2, <2>3, ModuloAssumption
    <2>5. Avances \subseteq Nat /\ Avances \subseteq 1 .. n
      OBVIOUS
    <2> HIDE DEF Avances
    <2> QED BY <2>4, <2>5, MinProprietes
  <1> QED BY <1>2, <1>3, <1>4

LEMMA SubSeqType ==
    ASSUME NEW S, NEW s \in Seq(S), NEW i \in Nat \ {0}, NEW j \in 0 .. Len(s)
    PROVE  SubSeq(s, i, j) \in Seq(S)
  OBVIOUS

LEMMA ConcatType ==
    ASSUME NEW S, NEW a \in Seq(S), NEW b \in Seq(S)
    PROVE  a \o b \in Seq(S) /\ Len(a \o b) = Len(a) + Len(b)
  OBVIOUS

LEMMA TournerType ==
    ASSUME NEW S, NEW s \in Seq(S), NEW i \in 1 .. Len(s)
    PROVE  Tourner(s, i) \in Seq(S)
  <1>1. SubSeq(s, i, Len(s)) \in Seq(S) /\ SubSeq(s, 1, i - 1) \in Seq(S)
    BY SubSeqType
  <1> QED BY <1>1 DEF Tourner

LEMMA FusionnerType ==
    ASSUME NEW liste \in Listes
    PROVE  Fusionner(liste) \in Listes
  <1>1. CASE Len(liste) > 1
    <2>1. liste[1] \in Plages /\ liste[2] \in Plages
      BY <1>1 DEF Listes
    <2>2. liste[1] \o liste[2] \in Plages
      BY <2>1 DEF Plages
    <2>3. SubSeq(liste, 3, Len(liste)) \in Listes
      BY <1>1, SubSeqType DEF Listes
    <2>4. <<liste[1] \o liste[2]>> \o SubSeq(liste, 3, Len(liste)) \in Listes
      <3> DEFINE a == liste[1] \o liste[2]
                 b == SubSeq(liste, 3, Len(liste))
      <3> HIDE DEF a, b
      <3>1. <<a>> \in Seq(Plages)
        BY <2>2 DEF a
      <3>2. <<a>> \o b \in Seq(Plages)
        BY <2>3, <3>1 DEF b, Listes
      <3> QED BY <3>2 DEF Listes, a, b
    <2> QED BY <2>4 DEF Fusionner
  <1>2. CASE ~ (Len(liste) > 1)
    BY <1>2 DEF Fusionner
  <1> QED BY <1>1, <1>2

LEMMA Append_ordonneType ==
    ASSUME NEW liste \in Listes, NEW m \in Messages, NEW seq
    PROVE  Append_ordonne(liste, m, seq) \in Listes
  <1>1. CASE liste = <<>>
    <2>1. <<m>> \in Plages
      BY DEF Plages
    <2> QED BY <1>1, <2>1 DEF Append_ordonne, Listes
  <1>2. CASE liste # <<>>
    <2> DEFINE p == Prior(liste, m.seq)
               suite == Fin(liste[p]) + 1 = m.seq
               avant == SubSeq(liste, 1, p - 1)
               reste == SubSeq(liste, p + 1, Len(liste))
               grandie == avant \o <<Append(liste[p], m)>> \o reste
               allongee == avant \o <<liste[p], <<m>>>> \o reste
               plages == IF suite THEN Tourner(grandie, p) ELSE Tourner(allongee, p + 1)
               nouvelleTete == /\ ~ suite
                               /\ m.seq >= seq
                               /\ Ecart(m.seq, seq) < Ecart(Debut(liste, 1), seq)
               tete == IF nouvelleTete THEN m ELSE liste[1][1]
               fusion == Fusionner(plages)
               places == {i \in 1 .. Len(fusion) : fusion[i][1] = tete}
    <2>1. p \in 1 .. Len(liste)
      BY <1>2, PriorDansListe DEF Messages
    <2> HIDE DEF p
    <2>2. avant \in Seq(Plages) /\ Len(avant) = p - 1 /\ reste \in Seq(Plages)
          /\ Len(reste) = Len(liste) - p /\ Len(liste) \in Nat
      BY <2>1 DEF Listes
    <2>3. Append(liste[p], m) \in Plages /\ <<m>> \in Plages /\ liste[p] \in Plages
      <3>1. liste[p] \in Plages
        BY <2>1 DEF Listes
      <3> QED BY <3>1 DEF Plages
    <2>4. grandie \in Seq(Plages) /\ Len(grandie) = Len(liste)
      <3> HIDE DEF avant, reste
      <3>1. <<Append(liste[p], m)>> \in Seq(Plages) /\ Len(<<Append(liste[p], m)>>) = 1
        BY <2>3
      <3>2. /\ avant \o <<Append(liste[p], m)>> \in Seq(Plages)
            /\ Len(avant \o <<Append(liste[p], m)>>) = p
        BY <2>1, <2>2, <3>1
      <3> QED BY <2>1, <2>2, <3>2
    <2>5. allongee \in Seq(Plages) /\ Len(allongee) = Len(liste) + 1
      <3> DEFINE deux == <<liste[p], <<m>>>>
      <3>1. deux \in Seq(Plages) /\ Len(deux) = 2
        BY <2>3
      <3> HIDE DEF avant, reste, deux
      <3>2. avant \o deux \in Seq(Plages) /\ Len(avant \o deux) = p + 1
        <4>1. avant \in Seq(Plages) /\ deux \in Seq(Plages)
          BY <2>2, <3>1
        <4>2. avant \o deux \in Seq(Plages) /\ Len(avant \o deux) = Len(avant) + Len(deux)
          BY Zenon, <4>1, ConcatType
        <4> QED BY <2>1, <2>2, <3>1, <4>2
      <3>3. (avant \o deux) \o reste \in Seq(Plages)
            /\ Len((avant \o deux) \o reste) = Len(liste) + 1
        <4> DEFINE a == avant \o deux
        <4> HIDE DEF a
        <4>1. a \o reste \in Seq(Plages) /\ Len(a \o reste) = Len(a) + Len(reste)
          BY <2>2, <3>2, ConcatType DEF a
        <4>2. p \in Int /\ Len(liste) \in Int /\ Len(a) = p + 1 /\ Len(reste) = Len(liste) - p
          BY <2>1, <2>2, <3>2 DEF a
        <4>3. Len(a \o reste) = Len(liste) + 1
          BY <4>1, <4>2
        <4> QED BY <4>1, <4>3 DEF a
      <3> QED BY <3>3 DEF deux
    <2>6. plages \in Listes
      <3> HIDE DEF grandie, allongee, suite
      <3>1. Tourner(grandie, p) \in Seq(Plages)
        BY <2>1, <2>4, TournerType
      <3>2. p + 1 \in 1 .. Len(allongee)
        BY <2>1, <2>2, <2>5
      <3>3. Tourner(allongee, p + 1) \in Seq(Plages)
        BY <2>5, <3>2, TournerType
      <3> QED BY <3>1, <3>3 DEF Listes
    <2>7. fusion \in Listes
      <3> HIDE DEF plages
      <3> QED BY <2>6, FusionnerType
    <2>8. Append_ordonne(liste, m, seq) = IF places = {} THEN fusion ELSE Tourner(fusion, Min(places))
      BY <1>2, Zenon DEF Append_ordonne, p
    <2> HIDE DEF fusion, tete
    <2>9. ASSUME places # {}
          PROVE  Tourner(fusion, Min(places)) \in Listes
      <3>1. places \subseteq Nat /\ places \subseteq 1 .. Len(fusion)
        OBVIOUS
      <3>2. Min(places) \in 1 .. Len(fusion)
        <4> HIDE DEF places
        <4> QED BY <2>9, <3>1, MinProprietes
      <3> QED BY <2>7, <3>2, TournerType DEF Listes
    <2> QED BY <2>7, <2>8, <2>9
  <1> QED BY <1>1, <1>2

LEMMA Sans_teteType ==
    ASSUME NEW liste \in Listes, liste # <<>>
    PROVE  Sans_tete(liste) \in Listes /\ liste[1][1] \in Messages
  <1>1. Len(liste) \in Nat \ {0} /\ 1 \in 1 .. Len(liste) /\ liste[1] \in Plages
    BY DEF Listes
  <1>2. liste[1][1] \in Messages /\ Len(liste[1]) \in Nat \ {0}
    BY <1>1 DEF Plages
  <1>3. CASE Len(liste[1]) = 1
    <2>1. Tail(liste) \in Listes
      BY DEF Listes
    <2> QED BY <1>2, <1>3, <2>1 DEF Sans_tete
  <1>4. CASE Len(liste[1]) # 1
    <2>1. Tail(liste[1]) \in Plages
      <3>1. liste[1] \in Seq(Messages) /\ liste[1] # <<>>
        BY <1>1 DEF Plages
      <3>2. Tail(liste[1]) \in Seq(Messages) /\ Len(Tail(liste[1])) = Len(liste[1]) - 1
        BY <3>1
      <3>3. Tail(liste[1]) # <<>>
        <4> DEFINE t == Tail(liste[1])
        <4>1. Len(t) # 0
          BY <1>2, <1>4, <3>2
        <4> HIDE DEF t
        <4>2. t # <<>>
          BY <4>1
        <4> QED BY <4>2 DEF t
      <3> QED BY <3>2, <3>3 DEF Plages
    <2>2. [liste EXCEPT ![1] = Tail(liste[1])] \in Listes
      BY <1>1, <2>1 DEF Listes
    <2> QED BY <1>2, <1>4, <2>2 DEF Sans_tete
  <1> QED BY <1>3, <1>4

-----------------------------------------------------------------------------
(* The state that mca_pml_ob1_add_comm works on.                            *)
Etats ==
    [expected : [Sources -> 0 .. Modulo - 1], cant : [Sources -> Listes],
     unexp : [Sources -> Seq(Messages)], traites : [Sources -> Seq(Nat)]]

LEMMA ModuloType == \A x \in Nat : (x + 1) % Modulo \in 0 .. Modulo - 1
  BY ModuloAssumption

LEMMA InattenduType ==
    ASSUME NEW e \in Etats, NEW m \in Messages
    PROVE  Inattendu(e, m) \in Etats
  <1>1. m.src \in Sources /\ m.rang \in Nat
    BY DEF Messages
  <1>2. /\ e.expected \in [Sources -> 0 .. Modulo - 1] /\ e.cant \in [Sources -> Listes]
        /\ e.unexp \in [Sources -> Seq(Messages)] /\ e.traites \in [Sources -> Seq(Nat)]
    BY DEF Etats
  <1>3. (e.expected[m.src] + 1) % Modulo \in 0 .. Modulo - 1
    BY <1>1, <1>2, ModuloType
  <1>4. /\ [e.expected EXCEPT ![m.src] = (@ + 1) % Modulo] \in [Sources -> 0 .. Modulo - 1]
        /\ [e.unexp EXCEPT ![m.src] = Append(@, m)] \in [Sources -> Seq(Messages)]
        /\ [e.traites EXCEPT ![m.src] = Append(@, m.rang)] \in [Sources -> Seq(Nat)]
    BY <1>1, <1>2, <1>3
  <1> QED BY <1>2, <1>4 DEF Inattendu, Etats

LEMMA DepilerType ==
    ASSUME NEW e \in Etats, NEW s \in Sources
    PROVE  Depiler(e, s) \in Etats
  <1>1. CASE A_son_tour(e.cant[s], e.expected[s])
    <2> DEFINE d == [e EXCEPT !.cant[s] = Sans_tete(@)]
               m == e.cant[s][1][1]
    <2>1. Sans_tete(e.cant[s]) \in Listes /\ m \in Messages
      <3>1. e.cant[s] \in Listes /\ e.cant[s] # <<>>
        BY <1>1 DEF Etats, A_son_tour
      <3> QED BY <3>1, Sans_teteType
    <2>2. d \in Etats
      BY <2>1 DEF Etats
    <2>3. Inattendu(d, m) \in Etats
      <3> HIDE DEF d, m
      <3> QED BY <2>1, <2>2, InattenduType
    <2> QED BY <1>1, <2>3 DEF Depiler
  <1>2. CASE ~ A_son_tour(e.cant[s], e.expected[s])
    BY <1>2 DEF Depiler
  <1> QED BY <1>1, <1>2

(* Its two loops keep to these states.                                      *)
LEMMA ViderType ==
    ASSUME pending \in Seq(Messages), NEW e \in Etats, NEW s \in Sources
    PROVE  Vider(e, s) \in Etats
  <1> DEFINE n == Len(pending)
             v[i \in 0 .. n] == IF i = 0 THEN e ELSE Depiler(v[i - 1], s)
             F == [i \in 1 .. n |-> [x \in Etats |-> Depiler(x, s)]]
  <1>1. n \in Nat /\ Vider(e, s) = v[n]
    BY Zenon, LenProperties DEF Vider
  <1>2. v = [i \in 0 .. n |-> IF i = 0 THEN e ELSE Depiler(v[i - 1], s)]
    <2>1. F \in [1 .. n -> [Etats -> Etats]]
      BY DepilerType
    <2>2. \E g \in [0 .. n -> Etats] : EstSuite(g, e, n, F)
      <3>1. n \in Nat
        BY <1>1
      <3> HIDE DEF F, n, v
      <3> QED BY <2>1, <3>1, RecurrenceExiste
    <2>3. PICK g \in [0 .. n -> Etats] : EstSuite(g, e, n, F)
      BY <2>2
    <2>4. g = [i \in 0 .. n |-> IF i = 0 THEN e ELSE Depiler(g[i - 1], s)]
      <3>1. \A i \in 0 .. n : i # 0 => i \in 1 .. n /\ i - 1 \in 0 .. n
        BY <1>1
      <3>2. \A i \in 1 .. n : F[i][g[i - 1]] = Depiler(g[i - 1], s)
        BY <3>1, <1>1
      <3> HIDE DEF F, n
      <3> QED BY <2>3, <3>1, <3>2 DEF EstSuite
    <2> QED BY <2>4, Zenon
  <1> HIDE DEF v
  <1>3. v[0] \in Etats /\ \A i \in 1 .. n : v[i - 1] \in Etats => v[i] \in Etats
    <2>1. v[0] = e /\ \A i \in 1 .. n : v[i] = Depiler(v[i - 1], s)
      BY <1>1, <1>2
    <2> QED BY <2>1, DepilerType
  <1>4. \A i \in 0 .. n : v[i] \in Etats
    BY <1>1, <1>3, RecurrenceType
  <1> QED BY <1>1, <1>4

LEMMA RangerType ==
    ASSUME pending \in Seq(Messages), NEW e \in Etats, NEW m \in Messages
    PROVE  Ranger(e, m) \in Etats
  <1>1. CASE mode.overtake
    BY <1>1, InattenduType DEF Ranger
  <1>2. CASE ~ mode.overtake /\ m.seq = e.expected[m.src]
    <2>1. m.src \in Sources /\ Inattendu(e, m) \in Etats
      BY InattenduType DEF Messages
    <2>2. Vider(Inattendu(e, m), m.src) \in Etats
      BY <2>1, ViderType
    <2> QED BY <1>2, <2>2 DEF Ranger
  <1>3. CASE ~ mode.overtake /\ m.seq # e.expected[m.src]
    <2>1. m.src \in Sources /\ e.cant \in [Sources -> Listes]
      BY DEF Messages, Etats
    <2>2. Append_ordonne(e.cant[m.src], m, e.expected[m.src]) \in Listes
      BY <2>1, Append_ordonneType
    <2>3. [e EXCEPT !.cant[m.src] = Append_ordonne(@, m, e.expected[m.src])] \in Etats
      BY <2>1, <2>2 DEF Etats
    <2> QED BY <1>3, <2>3 DEF Ranger
  <1> QED BY <1>1, <1>2, <1>3

LEMMA RangesType ==
    ASSUME pending \in Seq(Messages), expected \in [Sources -> 0 .. Modulo - 1],
           cant_match \in [Sources -> Listes], unexpected \in [Sources -> Seq(Messages)],
           traites \in [Sources -> Seq(Nat)]
    PROVE  Ranges \in Etats
  <1> DEFINE n == Len(pending)
             depart == [expected |-> expected, cant |-> cant_match, unexp |-> unexpected,
                        traites |-> traites]
             v[i \in 0 .. n] == IF i = 0 THEN depart ELSE Ranger(v[i - 1], pending[i])
             F == [i \in 1 .. n |-> [x \in Etats |-> Ranger(x, pending[i])]]
  <1>1. Ranges = v[n]
    BY Zenon DEF Ranges
  <1>2. n \in Nat /\ \A i \in 1 .. n : pending[i] \in Messages
    OBVIOUS
  <1>3. depart \in Etats
    BY DEF Etats
  <1> HIDE DEF depart
  <1>4. v = [i \in 0 .. n |-> IF i = 0 THEN depart ELSE Ranger(v[i - 1], pending[i])]
    <2>1. F \in [1 .. n -> [Etats -> Etats]]
      BY <1>2, RangerType
    <2>2. PICK g \in [0 .. n -> Etats] : EstSuite(g, depart, n, F)
      <3> HIDE DEF F, n, v
      <3> QED BY <1>2, <1>3, <2>1, RecurrenceExiste
    <2>3. g = [i \in 0 .. n |-> IF i = 0 THEN depart ELSE Ranger(g[i - 1], pending[i])]
      <3>1. \A i \in 0 .. n : i # 0 => i \in 1 .. n /\ i - 1 \in 0 .. n
        BY <1>2
      <3>2. ASSUME NEW i \in 1 .. n
            PROVE  F[i][g[i - 1]] = Ranger(g[i - 1], pending[i])
        <4>1. g[i - 1] \in Etats
          <5> HIDE DEF n
          <5> QED BY <1>2, <3>1
        <4> QED BY <4>1, Zenon
      <3> HIDE DEF F, n
      <3> QED BY <2>2, <3>1, <3>2 DEF EstSuite
    <2> QED BY <2>3, Zenon
  <1> HIDE DEF v
  <1>5. v[0] \in Etats /\ \A i \in 1 .. n : v[i - 1] \in Etats => v[i] \in Etats
    <2>1. v[0] = depart
      BY <1>2, <1>4
    <2>2. \A i \in 1 .. n : v[i] = Ranger(v[i - 1], pending[i])
      BY <1>2, <1>4
    <2> QED BY <1>2, <1>3, <2>1, <2>2, RangerType
  <1>6. \A i \in 0 .. n : v[i] \in Etats
    BY <1>2, <1>5, RecurrenceType
  <1> QED BY <1>1, <1>2, <1>6

-----------------------------------------------------------------------------
(* A matched probe given the empty message has its source, which is         *)
(* AnySource, and whatever it has for a tag.                                *)
Etiquettes == Tags \cup TagsDemandes \cup {Aucun.tag}
Requetes ==
    [peer : Sources \cup {AnySource}, tag : Etiquettes, genre : Genres,
     etat : {"poste", "pris", "fini", "rien", "annule"}, msg : Messages \cup {Aucun}]
Suites == [pc : {"garder", "apres", "verifie", "finir"}, m : Messages, r : Nat]

TypesInv ==
    /\ mode \in Modes
    /\ reseau \subseteq Messages
    /\ comm_existe \in BOOLEAN
    /\ pending \in Seq(Messages)
    /\ expected \in [Sources -> 0 .. Modulo - 1]
    /\ cant_match \in [Sources -> Listes]
    /\ unexpected \in [Sources -> Seq(Messages)]
    /\ traites \in [Sources -> Seq(Nat)]
    /\ last_probed \in Sources
    /\ req \in Seq(Requetes)
    /\ suites \subseteq Suites /\ IsFiniteSet(suites)

(* There is no request before the communicator; one that is posted is not   *)
(* an immediate probe; one that has been given a message and is not over is *)
(* in the hands of a thread.                                                *)
RequetesInv ==
    /\ ~ comm_existe => req = <<>>
    /\ \A r \in DOMAIN req :
         /\ req[r].etat = "poste" => req[r].genre \notin {"iprobe", "improbe"} /\ req[r].msg = Aucun
         /\ req[r].etat = "pris" => \E c \in suites : c.r = r /\ c.pc \in {"apres", "finir"}

Inv == TypesInv /\ RequetesInv /\ SansCouple

LEMMA InitInv == Init => Inv
  <1> SUFFICES ASSUME Init PROVE Inv
    OBVIOUS
  <1>1. mode \in Modes /\ mode.depart \in 0 .. Modulo - 1 /\ mode.tard \in BOOLEAN
        /\ mode.types \in [1 .. NbSources -> Types]
    BY ModesAssumption DEF Init
  <1>2. reseau \subseteq Messages
    <2>1. PICK tags \in [Sources -> UNION {[1 .. n -> Tags] : n \in ToSet(mode.nb)}] :
            /\ \A s \in Sources : DOMAIN tags[s] = 1 .. mode.nb[s + 1]
            /\ envois = [s \in Sources |-> [n \in DOMAIN tags[s] |-> Message(s, n, tags[s][n])]]
      BY DEF Init
    <2>2. ASSUME NEW s \in Sources, NEW n \in DOMAIN tags[s]
          PROVE  Message(s, n, tags[s][n]) \in Messages
      <3>1. s + 1 \in 1 .. NbSources /\ mode.nb \in [1 .. NbSources -> Nat]
        BY NbSourcesAssumption, ModesAssumption, <1>1 DEF Sources
      <3>2. n \in Nat \ {0} /\ mode.types[s + 1] \in Types
        <4>1. mode.nb[s + 1] \in Nat /\ mode.types[s + 1] \in Types
          BY <1>1, <3>1
        <4>2. n \in 1 .. mode.nb[s + 1]
          BY <2>1
        <4> QED BY <4>1, <4>2
      <3>3. tags[s][n] \in Tags
        <4>1. PICK k : tags[s] \in [1 .. k -> Tags]
          BY <2>1
        <4> QED BY <4>1
      <3>4. 0 \in 0 .. Modulo - 1 /\ (mode.depart + n - 1) % Modulo \in 0 .. Modulo - 1
        <4>1. mode.depart + n - 1 \in Nat
          BY <1>1, <3>2
        <4> QED BY <4>1, ModuloAssumption
      <3> QED BY <3>2, <3>3, <3>4 DEF Message, Messages
    <2>3. ASSUME NEW s \in Sources, NEW m \in ToSet(envois[s])
          PROVE  m \in Messages
      <3>1. PICK n \in DOMAIN envois[s] : m = envois[s][n]
        BY <2>3 DEF ToSet
      <3> QED BY <2>1, <2>2, <3>1
    <2> QED BY <2>3 DEF Init
  <1>3. 0 \in Sources
    BY NbSourcesAssumption DEF Sources
  <1>4. \A s \in Sources : ToSet(unexpected[s]) = {}
    BY DEF Init, Vides, ToSet
  <1>5. TypesInv
    <2>1. <<>> \in Listes /\ <<>> \in Seq(Messages) /\ <<>> \in Seq(Nat)
      BY DEF Listes
    <2>2. IsFiniteSet(suites)
      BY FS_EmptySet DEF Init
    <2> QED BY <1>1, <1>2, <1>3, <2>1, <2>2 DEF TypesInv, Init, Vides
  <1>6. RequetesInv /\ SansCouple
    BY <1>4 DEF Init, RequetesInv, SansCouple, Postes
  <1> QED BY <1>5, <1>6 DEF Inv

-----------------------------------------------------------------------------
LEMMA ReqDomaine ==
    ASSUME req \in Seq(Requetes)
    PROVE  /\ Len(req) \in Nat /\ DOMAIN req = 1 .. Len(req)
           /\ req \in [1 .. Len(req) -> Requetes]
           /\ Postes \subseteq 1 .. Len(req)
  BY DEF Postes

(* Requests that keep their number keep their type.                         *)
LEMMA ReqType ==
    ASSUME req \in Seq(Requetes), NEW q, q \in [1 .. Len(req) -> Requetes]
    PROVE  q \in Seq(Requetes) /\ Len(q) = Len(req) /\ DOMAIN q = DOMAIN req
  <1>1. Len(req) \in Nat /\ DOMAIN req = 1 .. Len(req)
    BY ReqDomaine
  <1>2. q \in Seq(Requetes)
    BY <1>1
  <1>3. DOMAIN q = 1 .. Len(q) /\ Len(q) \in Nat /\ DOMAIN q = 1 .. Len(req)
    BY <1>2
  <1> QED BY <1>1, <1>2, <1>3

LEMMA AppendEnsemble ==
    ASSUME NEW S, NEW s \in Seq(S), NEW x \in S
    PROVE  ToSet(Append(s, x)) = ToSet(s) \cup {x}
  <1>1. /\ Append(s, x) \in Seq(S) /\ Len(s) \in Nat /\ Len(Append(s, x)) = Len(s) + 1
        /\ Append(s, x)[Len(s) + 1] = x /\ \A k \in 1 .. Len(s) : Append(s, x)[k] = s[k]
    OBVIOUS
  <1>2. ToSet(s) = {s[k] : k \in 1 .. Len(s)}
    BY DEF ToSet
  <1>3. ToSet(Append(s, x)) = {Append(s, x)[k] : k \in 1 .. Len(s) + 1}
    BY <1>1 DEF ToSet
  <1>4. 1 .. Len(s) + 1 = (1 .. Len(s)) \cup {Len(s) + 1}
    BY <1>1
  <1> QED BY <1>1, <1>2, <1>3, <1>4

(* What match_incomming and match_one do to the requests: the preneur and   *)
(* the probes before it are no longer posted, nothing else changes, and the *)
(* message is put with the unexpected ones only if no request accepts it.   *)
LEMMA Match_oneEffet ==
    ASSUME Inv, NEW m \in Messages, Match_one(m)
    PROVE  /\ req' \in Seq(Requetes) /\ Len(req') = Len(req) /\ DOMAIN req' = DOMAIN req
           /\ unexpected' \in [Sources -> Seq(Messages)] /\ traites' \in [Sources -> Seq(Nat)]
           /\ Preneur(m) \in Nat
           /\ \A r \in DOMAIN req :
                /\ req[r].etat # "poste" => req'[r] = req[r]
                /\ req'[r].etat = "poste" => req'[r] = req[r]
                /\ req'[r].etat = "annule" => req'[r] = req[r]
                /\ req'[r].etat = "pris" =>
                     req'[r] = req[r] \/ (r = Preneur(m) /\ r # 0 /\ req[r].genre = "recv")
           /\ SansCouple'
  <1> DEFINE p == Preneur(m)
             fini == Sondes(m) \cup {r \in {p} \ {0} : req[r].genre = "mprobe"}
             n == Len(req)
  <1>1. /\ n \in Nat /\ DOMAIN req = 1 .. n /\ req \in [1 .. n -> Requetes] /\ Postes \subseteq 1 .. n
        /\ m.src \in Sources /\ m.rang \in Nat /\ req \in Seq(Requetes)
        /\ unexpected \in [Sources -> Seq(Messages)] /\ traites \in [Sources -> Seq(Nat)]
    BY ReqDomaine DEF Inv, TypesInv, Messages
  <1>2. /\ req' = [r \in DOMAIN req |->
                    IF r \in fini THEN [req[r] EXCEPT !.etat = "fini", !.msg = m]
                    ELSE IF r = p THEN [req[r] EXCEPT !.etat = "pris", !.msg = m]
                    ELSE req[r]]
        /\ unexpected' = IF p = 0 THEN [unexpected EXCEPT ![m.src] = Append(@, m)]
                         ELSE unexpected
        /\ traites' = [traites EXCEPT ![m.src] = Append(@, m.rang)]
    BY DEF Match_one
  <1>3. \/ p = 0 /\ Preneurs(m) = {}
        \/ p # 0 /\ p \in Preneurs(m) /\ p \in Postes
    <2>1. Preneurs(m) \subseteq Postes /\ Preneurs(m) \subseteq Nat /\ 0 \notin Preneurs(m)
      <3>1. Preneurs(m) \subseteq Postes
        BY DEF Preneurs, Candidats
      <3>2. \A r \in 1 .. n : r \in Nat /\ r # 0
        OBVIOUS
      <3> QED BY <1>1, <3>1, <3>2
    <2>2. CASE Preneurs(m) = {}
      BY <2>2 DEF Preneur
    <2>3. CASE Preneurs(m) # {}
      <3>1. Min(Preneurs(m)) \in Preneurs(m)
        BY <2>1, <2>3, MinProprietes
      <3> QED BY <2>1, <2>3, <3>1 DEF Preneur
    <2> QED BY <2>2, <2>3
  <1>4. fini \subseteq Postes /\ \A r \in fini : r \in 1 .. n
    BY <1>1, <1>3 DEF Sondes, Candidats
  <1>5. /\ unexpected' \in [Sources -> Seq(Messages)] /\ traites' \in [Sources -> Seq(Nat)]
        /\ p \in Nat
    <2> HIDE DEF fini, p
    <2>1. Append(unexpected[m.src], m) \in Seq(Messages) /\ Append(traites[m.src], m.rang) \in Seq(Nat)
      BY <1>1
    <2>2. unexpected' \in [Sources -> Seq(Messages)]
      BY <1>1, <1>2, <2>1
    <2>3. traites' \in [Sources -> Seq(Nat)]
      BY <1>1, <1>2, <2>1
    <2>4. p \in Nat
      <3>1. \A x \in 1 .. n : x \in Nat
        OBVIOUS
      <3>2. p # 0 => p \in 1 .. n
        BY Zenon, <1>1, <1>3
      <3> QED BY <3>1, <3>2
    <2> QED BY <2>2, <2>3, <2>4
  <1>6. ASSUME NEW r \in 1 .. n
        PROVE  /\ req'[r] \in Requetes
               /\ req[r].etat # "poste" => req'[r] = req[r]
               /\ r \in fini => req'[r].etat = "fini"
               /\ r \notin fini /\ r = p => req'[r].etat = "pris"
               /\ r \notin fini /\ r # p => req'[r] = req[r]
    <2> HIDE DEF fini, p
    <2>1. req[r] \in Requetes
      BY <1>1
    <2>2. CASE r \in fini
      <3>1. req'[r] = [req[r] EXCEPT !.etat = "fini", !.msg = m]
        BY <1>1, <1>2, <2>2
      <3>2. req'[r] \in Requetes /\ req'[r].etat = "fini"
        BY <2>1, <3>1 DEF Requetes
      <3>3. req[r].etat = "poste"
        BY <1>4, <2>2 DEF Postes
      <3> QED BY <2>2, <3>2, <3>3
    <2>3. CASE r \notin fini /\ r = p
      <3>1. req'[r] = [req[r] EXCEPT !.etat = "pris", !.msg = m]
        BY <1>1, <1>2, <2>3
      <3>2. req'[r] \in Requetes /\ req'[r].etat = "pris"
        BY <2>1, <3>1 DEF Requetes
      <3>3. req[r].etat = "poste"
        BY <1>3, <2>3 DEF Postes
      <3> QED BY <2>3, <3>2, <3>3
    <2>4. CASE r \notin fini /\ r # p
      BY <1>1, <1>2, <2>1, <2>4
    <2> QED BY <2>2, <2>3, <2>4
  <1>7. req' \in Seq(Requetes) /\ Len(req') = n /\ DOMAIN req' = DOMAIN req
    <2>1. req' \in [1 .. n -> Requetes]
      BY <1>1, <1>2, <1>6
    <2> QED BY <1>1, <2>1, ReqType
  <1>8. ASSUME NEW r \in 1 .. n
        PROVE  /\ req'[r].etat = "poste" => req'[r] = req[r]
               /\ req'[r].etat = "annule" => req'[r] = req[r]
               /\ req'[r].etat = "pris" =>
                     req'[r] = req[r] \/ (r = p /\ r # 0 /\ req[r].genre = "recv")
    <2>1. CASE r \in fini \/ r # p
      BY <1>6, <2>1
    <2>2. CASE r \notin fini /\ r = p
      <3>1. req'[r].etat = "pris" /\ r # 0
        BY <1>6, <2>2
      <3>2. r \in Preneurs(m) /\ r \in Postes
        BY <1>3, <2>2, <3>1
      <3>3. req[r].genre \in Genres /\ req[r].genre \notin {"probe", "iprobe", "improbe"}
        BY <1>1, <3>2 DEF Preneurs, Postes, Inv, RequetesInv, Requetes
      <3>4. req[r].genre # "mprobe"
        BY <2>2, <3>1
      <3> QED BY <2>2, <3>1, <3>3, <3>4 DEF Genres
    <2> QED BY <2>1, <2>2
  <1>9. SansCouple'
    <2> SUFFICES ASSUME NEW r \in DOMAIN req', req'[r].etat = "poste", NEW s \in Sources,
                        NEW x \in ToSet(unexpected'[s])
                 PROVE  ~ Accepte(req'[r], x)
      BY DEF SansCouple, Postes
    <2>1. r \in Postes /\ req'[r] = req[r] /\ r \in 1 .. n /\ r \notin fini /\ r # p
      <3>1. r \in 1 .. n
        BY <1>1, <1>7
      <3>2. r \notin fini /\ ~ (r \notin fini /\ r = p)
        BY <1>6, <3>1
      <3>3. req'[r] = req[r] /\ req[r].etat = "poste"
        BY <1>6, <3>1, <3>2
      <3> QED BY <1>1, <3>1, <3>2, <3>3 DEF Postes
    <2>2. CASE x \in ToSet(unexpected[s])
      BY <2>1, <2>2 DEF Inv, SansCouple
    <2>3. CASE x \notin ToSet(unexpected[s])
      <3>1. p = 0 /\ x = m
        <4> HIDE DEF p, fini
        <4>1. unexpected'[s] # unexpected[s]
          BY <2>3
        <4>2. p = 0 /\ s = m.src /\ unexpected'[s] = Append(unexpected[s], m)
          BY <1>1, <1>2, <4>1
        <4>3. unexpected[s] \in Seq(Messages)
          BY <1>1
        <4> QED BY <2>3, <4>2, <4>3, AppendEnsemble
      <3>2. r \notin Preneurs(m) /\ r \notin Sondes(m)
        BY <1>3, <2>1, <3>1
      <3>3. r \notin Candidats(m)
        BY <3>1, <3>2 DEF Sondes
      <3> QED BY <2>1, <3>1, <3>3 DEF Candidats
    <2> QED BY <2>2, <2>3
  <1> QED BY <1>1, <1>5, <1>6, <1>7, <1>8, <1>9

(* The same with what the thread has to do next, when it has the message    *)
(* from the network or from those out of turn.                              *)
LEMMA Prendre_en_chargeEffet ==
    ASSUME Inv, UNCHANGED comm_existe, NEW m \in Messages, NEW autres,
           Prendre_en_charge(m, autres), autres \subseteq suites,
           \A c \in suites \ autres : c.pc = "verifie"
    PROVE  /\ req' \in Seq(Requetes)
           /\ unexpected' \in [Sources -> Seq(Messages)] /\ traites' \in [Sources -> Seq(Nat)]
           /\ suites' \subseteq Suites /\ IsFiniteSet(suites')
           /\ RequetesInv' /\ SansCouple'
           /\ \A r \in DOMAIN req' : req'[r].etat = "annule" => r \in DOMAIN req /\ req'[r] = req[r]
  <1> DEFINE p == Preneur(m)
             recoit == {r \in {p} \ {0} : req[r].genre = "recv"}
             c == [pc |-> "apres", m |-> m, r |-> IF recoit = {} THEN 0 ELSE p]
  <1>1. Match_one(m) /\ suites' = autres \cup {c}
    BY DEF Prendre_en_charge
  <1>2. /\ req' \in Seq(Requetes) /\ Len(req') = Len(req) /\ DOMAIN req' = DOMAIN req
        /\ unexpected' \in [Sources -> Seq(Messages)] /\ traites' \in [Sources -> Seq(Nat)]
        /\ p \in Nat
        /\ \A r \in DOMAIN req :
             /\ req'[r].etat = "poste" => req'[r] = req[r]
             /\ req'[r].etat = "annule" => req'[r] = req[r]
             /\ req'[r].etat = "pris" =>
                  req'[r] = req[r] \/ (r = p /\ r # 0 /\ req[r].genre = "recv")
        /\ SansCouple'
    BY <1>1, Match_oneEffet
  <1>3. suites' \subseteq Suites /\ IsFiniteSet(suites')
    <2>1. c \in Suites
      BY <1>2 DEF Suites
    <2>2. suites \subseteq Suites /\ IsFiniteSet(suites)
      BY DEF Inv, TypesInv
    <2>3. IsFiniteSet(autres)
      BY <2>2, FS_Subset
    <2>4. IsFiniteSet(suites')
      <3> HIDE DEF c
      <3> QED BY <1>1, <2>3, FS_AddElement
    <2> QED BY <1>1, <2>1, <2>2, <2>4
  <1>4. RequetesInv'
    <2>1. ASSUME NEW r \in DOMAIN req, req'[r].etat = "pris"
          PROVE  \E d \in suites' : d.r = r /\ d.pc \in {"apres", "finir"}
      <3>1. CASE req'[r] = req[r]
        <4>1. PICK d \in suites : d.r = r /\ d.pc \in {"apres", "finir"}
          BY <2>1, <3>1 DEF Inv, RequetesInv
        <4> QED BY <1>1, <4>1
      <3>2. CASE r = p /\ r # 0 /\ req[r].genre = "recv"
        <4>1. c.r = r /\ c.pc = "apres"
          BY <3>2
        <4> HIDE DEF c
        <4> QED BY <1>1, <4>1
      <3> QED BY <1>2, <2>1, <3>1, <3>2
    <2> HIDE DEF c, p
    <2>2. ASSUME NEW r \in DOMAIN req, req'[r].etat = "poste"
          PROVE  req'[r].genre \notin {"iprobe", "improbe"} /\ req'[r].msg = Aucun
      BY <1>2, <2>2 DEF Inv, RequetesInv
    <2>3. req = <<>> => req' = <<>>
      BY <1>2
    <2> QED BY <1>2, <2>1, <2>2, <2>3 DEF Inv, RequetesInv
  <1> QED BY <1>2, <1>3, <1>4

(* But for a cancellation, a request is cancelled after a step only if it   *)
(* was before, and it is the same.                                          *)
AnnulesAvant ==
    \A r \in DOMAIN req' : req'[r].etat = "annule" => r \in DOMAIN req /\ req'[r] = req[r]

(* A message that arrives.                                                  *)
LEMMA RecoitInv ==
    ASSUME Inv, NEW m \in reseau, Recoit(m)
    PROVE  Inv' /\ AnnulesAvant
  <1> USE DEF Inv
  <1>1. /\ m \in Messages /\ m.src \in Sources /\ mode' = mode /\ comm_existe' = comm_existe
        /\ last_probed' = last_probed /\ reseau' \subseteq Messages
    BY DEF Recoit, varsComm, TypesInv, Messages
  <1>2. pending' = pending
    BY DEF Recoit, varsComm
  <1>3. CASE /\ suites' = suites \cup {[pc |-> "garder", m |-> m, r |-> 0]}
             /\ UNCHANGED <<varsRecus, req>>
    <2>1. suites' \subseteq Suites /\ IsFiniteSet(suites')
      <3>1. PICK c \in Suites : c = [pc |-> "garder", m |-> m, r |-> 0]
        BY <1>1 DEF Suites
      <3>2. IsFiniteSet(suites \cup {c})
        BY FS_AddElement DEF TypesInv
      <3> QED BY <1>3, <3>1, <3>2 DEF TypesInv
    <2>2. RequetesInv'
      BY <1>1, <1>3 DEF RequetesInv
    <2> QED BY <1>1, <1>2, <1>3, <2>1, <2>2
            DEF varsRecus, TypesInv, SansCouple, Postes, AnnulesAvant
  <1>4. CASE /\ cant_match' = [cant_match EXCEPT ![m.src] = Append_ordonne(@, m, expected[m.src])]
             /\ UNCHANGED <<expected, unexpected, traites, req, suites>>
    <2>1. Append_ordonne(cant_match[m.src], m, expected[m.src]) \in Listes
      BY <1>1, Append_ordonneType DEF TypesInv
    <2>2. cant_match' \in [Sources -> Listes]
      BY <1>1, <1>4, <2>1 DEF TypesInv
    <2> QED BY <1>1, <1>2, <1>4, <2>2
               DEF TypesInv, RequetesInv, SansCouple, Postes, AnnulesAvant
  <1>5. CASE /\ comm_existe
             /\ IF SansNumero(m) THEN UNCHANGED expected ELSE Avancer(m.src)
             /\ Prendre_en_charge(m, suites)
             /\ UNCHANGED cant_match
    <2>1. expected' \in [Sources -> 0 .. Modulo - 1]
      <3>1. (expected[m.src] + 1) % Modulo \in 0 .. Modulo - 1
        BY <1>1, ModuloType DEF TypesInv
      <3> QED BY <1>1, <1>5, <3>1 DEF Avancer, TypesInv
    <2>2. /\ req' \in Seq(Requetes)
          /\ unexpected' \in [Sources -> Seq(Messages)] /\ traites' \in [Sources -> Seq(Nat)]
          /\ suites' \subseteq Suites /\ IsFiniteSet(suites')
          /\ RequetesInv' /\ SansCouple' /\ AnnulesAvant
      BY <1>1, <1>5, Prendre_en_chargeEffet DEF AnnulesAvant
    <2> QED BY <1>1, <1>2, <1>5, <2>1, <2>2 DEF TypesInv
  <1> QED BY <1>3, <1>4, <1>5 DEF Recoit

(* The message is kept for the communicator.                                *)
LEMMA GarderInv ==
    ASSUME Inv, NEW c \in suites, Garder(c)
    PROVE  Inv' /\ AnnulesAvant
  <1> USE DEF Inv
  <1>1. /\ c.pc = "garder" /\ pending' = Append(pending, c.m) /\ suites' = suites \ {c}
        /\ UNCHANGED <<mode, reseau, comm_existe, expected, cant_match, unexpected, traites,
                       last_probed, req>>
    BY DEF Garder, varsRecus
  <1>2. TypesInv'
    <2>1. IsFiniteSet(suites')
      BY <1>1, FS_Difference DEF TypesInv
    <2>2. c.m \in Messages /\ suites' \subseteq Suites
      BY <1>1 DEF TypesInv, Suites
    <2> QED BY <1>1, <2>1, <2>2 DEF TypesInv
  <1>3. RequetesInv'
    BY <1>1 DEF RequetesInv
  <1> QED BY <1>1, <1>2, <1>3 DEF SansCouple, Postes, AnnulesAvant

(* The lock released: the receive is complete.                              *)
LEMMA ApresInv ==
    ASSUME Inv, NEW c \in suites, Apres(c)
    PROVE  Inv' /\ AnnulesAvant
  <1> USE DEF Inv
  <1> DEFINE n == Len(req)
             d == [c EXCEPT !.pc = "verifie", !.r = 0]
             D == {x \in {d} : cant_match[c.m.src] # <<>>}
  <1>1. /\ c.pc = "apres"
        /\ req' = [r \in DOMAIN req |-> IF r = c.r /\ req[r].etat = "pris"
                                        THEN [req[r] EXCEPT !.etat = "fini"] ELSE req[r]]
        /\ suites' = (suites \ {c}) \cup D
        /\ UNCHANGED <<mode, reseau, comm_existe, pending, expected, cant_match, unexpected, traites,
                       last_probed>>
    BY DEF Apres, varsComm, varsRecus
  <1>2. /\ n \in Nat /\ DOMAIN req = 1 .. n /\ req \in [1 .. n -> Requetes]
        /\ req \in Seq(Requetes)
    BY ReqDomaine DEF TypesInv
  <1>3. ASSUME NEW r \in 1 .. n
        PROVE  /\ req'[r] \in Requetes
               /\ req'[r] = req[r] \/ (req'[r].etat = "fini" /\ r = c.r)
               /\ r = c.r => req'[r].etat # "pris"
    <2>1. req[r] \in Requetes
      BY <1>2
    <2>2. CASE r = c.r /\ req[r].etat = "pris"
      <3>1. req'[r] = [req[r] EXCEPT !.etat = "fini"]
        BY <1>1, <1>2, <2>2
      <3> QED BY <2>1, <2>2, <3>1 DEF Requetes
    <2>3. CASE ~ (r = c.r /\ req[r].etat = "pris")
      BY <1>1, <1>2, <2>1, <2>3
    <2> QED BY <2>2, <2>3
  <1>4. req' \in Seq(Requetes) /\ DOMAIN req' = 1 .. n
    <2>1. req' \in [1 .. n -> Requetes]
      BY <1>1, <1>2, <1>3
    <2> QED BY <1>2, <2>1, ReqType
  <1>5. suites' \subseteq Suites /\ IsFiniteSet(suites')
    <2>1. d \in Suites
      BY DEF TypesInv, Suites
    <2> HIDE DEF d
    <2>2. D \subseteq {d} /\ IsFiniteSet({d})
      BY FS_Singleton
    <2>3. IsFiniteSet(D)
      BY <2>2, FS_Subset
    <2>4. IsFiniteSet(suites \ {c})
      BY FS_Difference DEF TypesInv
    <2>5. IsFiniteSet(suites')
      <3> HIDE DEF D
      <3> QED BY <1>1, <2>3, <2>4, FS_Union
    <2> QED BY <1>1, <2>1, <2>5 DEF TypesInv
  <1>6. TypesInv'
    BY <1>1, <1>4, <1>5 DEF TypesInv
  <1>7. RequetesInv'
    <2>1. ASSUME NEW r \in 1 .. n, req'[r].etat = "pris"
          PROVE  \E x \in suites' : x.r = r /\ x.pc \in {"apres", "finir"}
      <3>1. req'[r] = req[r] /\ r # c.r
        BY <1>3, <2>1
      <3>2. PICK x \in suites : x.r = r /\ x.pc \in {"apres", "finir"}
        BY <1>2, <2>1, <3>1 DEF RequetesInv
      <3> QED BY <1>1, <3>1, <3>2
    <2>2. ASSUME NEW r \in 1 .. n, req'[r].etat = "poste"
          PROVE  req'[r].genre \notin {"iprobe", "improbe"} /\ req'[r].msg = Aucun
      BY <1>2, <1>3, <2>2 DEF RequetesInv
    <2>3. req = <<>> => req' = <<>>
      BY <1>2, <1>4
    <2> QED BY <1>1, <1>4, <2>1, <2>2, <2>3 DEF RequetesInv
  <1>8. SansCouple'
    BY <1>1, <1>2, <1>3, <1>4 DEF SansCouple, Postes
  <1>9. AnnulesAvant
    BY <1>2, <1>3, <1>4 DEF AnnulesAvant
  <1> QED BY <1>6, <1>7, <1>8, <1>9

(* The first fragment out of turn, when its turn has come.                  *)
LEMMA VerifieInv ==
    ASSUME Inv, NEW c \in suites, Verifie(c)
    PROVE  Inv' /\ AnnulesAvant
  <1> USE DEF Inv
  <1> DEFINE s == c.m.src
  <1>1. /\ c.pc = "verifie" /\ mode' = mode /\ comm_existe' = comm_existe /\ pending' = pending
        /\ last_probed' = last_probed /\ reseau' = reseau
    BY DEF Verifie, varsComm
  <1>2. s \in Sources /\ suites \subseteq Suites /\ IsFiniteSet(suites \ {c})
    <2>1. c \in Suites /\ IsFiniteSet(suites)
      BY DEF TypesInv
    <2>2. IsFiniteSet(suites \ {c})
      BY <2>1, FS_Difference
    <2> QED BY <2>1, <2>2 DEF TypesInv, Suites, Messages
  <1>3. CASE /\ A_son_tour(cant_match[s], expected[s])
             /\ cant_match' = [cant_match EXCEPT ![s] = Sans_tete(@)]
             /\ Avancer(s)
             /\ Prendre_en_charge(cant_match[s][1][1], suites \ {c})
    <2> DEFINE m == cant_match[s][1][1]
    <2>1. cant_match[s] \in Listes /\ cant_match[s] # <<>>
      BY <1>2, <1>3 DEF TypesInv, A_son_tour
    <2>2. Sans_tete(cant_match[s]) \in Listes /\ m \in Messages
      BY <2>1, Sans_teteType
    <2>3. cant_match' \in [Sources -> Listes]
      BY <1>2, <1>3, <2>2 DEF TypesInv
    <2>4. expected' \in [Sources -> 0 .. Modulo - 1]
      <3>1. (expected[s] + 1) % Modulo \in 0 .. Modulo - 1
        BY <1>2, ModuloType DEF TypesInv
      <3> QED BY <1>2, <1>3, <3>1 DEF Avancer, TypesInv
    <2>5. /\ req' \in Seq(Requetes)
          /\ unexpected' \in [Sources -> Seq(Messages)] /\ traites' \in [Sources -> Seq(Nat)]
          /\ suites' \subseteq Suites /\ IsFiniteSet(suites')
          /\ RequetesInv' /\ SansCouple' /\ AnnulesAvant
      <3>1. Prendre_en_charge(m, suites \ {c}) /\ suites \ {c} \subseteq suites
            /\ \A d \in suites \ (suites \ {c}) : d.pc = "verifie"
        BY <1>1, <1>3
      <3> HIDE DEF m
      <3> QED BY <1>1, <2>2, <3>1, Prendre_en_chargeEffet DEF AnnulesAvant
    <2> QED BY <1>1, <2>3, <2>4, <2>5 DEF TypesInv
  <1>4. CASE suites' = suites \ {c} /\ UNCHANGED <<varsRecus, req>>
    <2>1. TypesInv'
      BY <1>1, <1>2, <1>4 DEF TypesInv, varsRecus
    <2>2. RequetesInv'
      BY <1>1, <1>4 DEF RequetesInv
    <2>3. SansCouple' /\ AnnulesAvant
      BY <1>4 DEF SansCouple, Postes, varsRecus, AnnulesAvant
    <2> QED BY <2>1, <2>2, <2>3
  <1> QED BY <1>3, <1>4 DEF Verifie

-----------------------------------------------------------------------------
(* A request that finds nothing.                                            *)
LEMMA PosteInv ==
    ASSUME Inv, NEW q \in Demandes, Poste(q)
    PROVE  Inv' /\ AnnulesAvant
  <1> USE DEF Inv
  <1> DEFINE n == Len(req)
             etat == IF q.genre \in {"iprobe", "improbe"} THEN "rien" ELSE "poste"
             d == [q EXCEPT !.etat = etat]
  <1>1. /\ comm_existe /\ \A s \in Sources : Convient(q, s) = {}
        /\ req' = Append(req, d)
        /\ UNCHANGED <<mode, reseau, comm_existe, pending, expected, cant_match, unexpected, traites,
                       last_probed, suites>>
    BY DEF Poste, Demander, varsComm, varsRecus
  <1>2. /\ d \in Requetes /\ d.genre = q.genre /\ d.etat = etat /\ d.msg = Aucun
        /\ d.peer = q.peer /\ d.tag = q.tag
    BY DEF Demandes, Requetes, Etiquettes
  <1>3. /\ n \in Nat /\ DOMAIN req = 1 .. n /\ req \in Seq(Requetes)
    BY ReqDomaine DEF TypesInv
  <1> HIDE DEF d
  <1>4. /\ req' \in Seq(Requetes) /\ DOMAIN req' = 1 .. n + 1
        /\ req'[n + 1] = d /\ \A r \in 1 .. n : req'[r] = req[r]
    BY <1>1, <1>2, <1>3
  <1>5. \A r \in 1 .. n + 1 : r \in 1 .. n \/ r = n + 1
    BY <1>3
  <1>6. TypesInv'
    BY <1>1, <1>4 DEF TypesInv
  <1>7. RequetesInv'
    <2>1. ASSUME NEW r \in 1 .. n + 1
          PROVE  /\ req'[r].etat = "poste" =>
                      req'[r].genre \notin {"iprobe", "improbe"} /\ req'[r].msg = Aucun
                 /\ req'[r].etat = "pris" =>
                      \E c \in suites' : c.r = r /\ c.pc \in {"apres", "finir"}
      <3>1. CASE r \in 1 .. n
        BY <1>1, <1>3, <1>4, <3>1 DEF RequetesInv
      <3>2. CASE r = n + 1
        BY <1>2, <1>4, <3>2
      <3> QED BY <1>5, <3>1, <3>2
    <2> QED BY <1>1, <1>4, <2>1 DEF RequetesInv
  <1>8. SansCouple'
    <2> SUFFICES ASSUME NEW r \in 1 .. n + 1, req'[r].etat = "poste", NEW s \in Sources,
                        NEW x \in ToSet(unexpected[s])
                 PROVE  ~ Accepte(req'[r], x)
      BY <1>1, <1>4 DEF SansCouple, Postes
    <2>1. CASE r \in 1 .. n
      BY <1>3, <1>4, <2>1 DEF SansCouple, Postes
    <2>2. CASE r = n + 1
      <3>1. PICK k \in 1 .. Len(unexpected[s]) : x = unexpected[s][k]
        <4>1. unexpected[s] \in Seq(Messages)
          BY DEF TypesInv
        <4> QED BY <4>1 DEF ToSet
      <3>2. ~ Accepte(q, x)
        BY <1>1, <3>1 DEF Convient
      <3> QED BY <1>2, <1>4, <2>2, <3>2 DEF Accepte
    <2> QED BY <1>5, <2>1, <2>2
  <1>9. AnnulesAvant
    BY <1>2, <1>3, <1>4, <1>5 DEF AnnulesAvant
  <1> QED BY <1>6, <1>7, <1>8, <1>9

(* The search for a message ends at a source that has one,                  *)
LEMMA PremiereSource ==
    ASSUME TypesInv, NEW q, \E s \in Sources : Convient(q, s) # {}
    PROVE  Premiere(q) \in Sources /\ Convient(q, Premiere(q)) # {}
  <1> DEFINE ou == {s \in Sources : Convient(q, s) # {}}
             T == {Tour(s) : s \in ou}
  <1>1. \A s \in Sources : Tour(s) \in Nat
    <2> SUFFICES ASSUME NEW s \in Sources PROVE Tour(s) \in Nat
      OBVIOUS
    <2>1. s - last_probed - 1 \in Int
      BY DEF TypesInv, Sources
    <2> QED BY <2>1, NbSourcesAssumption DEF Tour
  <1>2. PICK x \in T : \A y \in T : x <= y
    <2>1. T \subseteq Nat /\ T # {}
      BY <1>1
    <2> HIDE DEF T
    <2> QED BY <2>1, PlusPetit
  <1>3. PICK s \in ou : x = Tour(s)
    OBVIOUS
  <1>4. \A t \in ou : Tour(s) <= Tour(t)
    BY <1>2, <1>3
  <1>5. Premiere(q) \in ou
    <2> HIDE DEF ou
    <2>1. Premiere(q) = CHOOSE z \in ou : \A t \in ou : Tour(z) <= Tour(t)
      BY Zenon DEF Premiere, ou
    <2> QED BY <1>4, <2>1
  <1> QED BY <1>5

(* which the request may take.                                              *)
LEMMA RemoveAtType ==
    ASSUME NEW S, NEW s \in Seq(S), NEW k \in 1 .. Len(s)
    PROVE  RemoveAt(s, k) \in Seq(S) /\ ToSet(RemoveAt(s, k)) \subseteq ToSet(s)
  <1> DEFINE a == SubSeq(s, 1, k - 1)
             b == SubSeq(s, k + 1, Len(s))
  <1>1. /\ a \in Seq(S) /\ Len(a) = k - 1
        /\ \A j \in 1 .. k - 1 : a[j] = s[j]
    BY SMT
  <1>2. /\ b \in Seq(S) /\ Len(b) = Len(s) - k
        /\ \A j \in 1 .. Len(s) - k : b[j] = s[k + j]
    BY SMT
  <1>3. RemoveAt(s, k) = a \o b
    BY DEF RemoveAt
  <1> HIDE DEF a, b
  <1>4. /\ a \o b \in Seq(S) /\ Len(a \o b) = Len(a) + Len(b)
        /\ \A j \in 1 .. Len(a) + Len(b) : (a \o b)[j] = IF j <= Len(a) THEN a[j] ELSE b[j - Len(a)]
    <2>1. a \in Seq(S) /\ b \in Seq(S)
      BY <1>1, <1>2
    <2> QED BY <2>1, ConcatProperties
  <1>5. ASSUME NEW j \in 1 .. Len(a \o b)
        PROVE  \E i \in 1 .. Len(s) : (a \o b)[j] = s[i]
    <2>1. CASE j <= k - 1
      BY <1>1, <1>2, <1>4, <2>1
    <2>2. CASE j > k - 1
      <3>1. (a \o b)[j] = s[k + (j - (k - 1))]
        BY SMTT(30), <1>1, <1>2, <1>4, <2>2
      <3>2. k + (j - (k - 1)) \in 1 .. Len(s)
        BY <1>1, <1>2, <1>4, <2>2
      <3> QED BY <3>1, <3>2
    <2> QED BY <2>1, <2>2
  <1>6. DOMAIN (a \o b) = 1 .. Len(a \o b) /\ DOMAIN s = 1 .. Len(s)
    BY <1>4
  <1>7. ToSet(a \o b) \subseteq ToSet(s)
    <2> DEFINE c == a \o b
    <2> HIDE DEF c
    <2> QED BY <1>5, <1>6 DEF ToSet, c
  <1> QED BY <1>3, <1>4, <1>7

(* A request that finds a message, of which a thread goes on with it.       *)
LEMMA TrouveInv ==
    ASSUME Inv, NEW q \in Demandes, Trouve(q)
    PROVE  Inv' /\ AnnulesAvant
  <1> USE DEF Inv
  <1> DEFINE n == Len(req)
             s == Premiere(q)
             k == Min(Convient(q, s))
             m == unexpected[s][k]
             d == [q EXCEPT !.etat = "pris", !.msg = m]
             c == [pc |-> "finir", m |-> m, r |-> n + 1]
  <1>1. /\ comm_existe
        /\ req' = Append(req, d)
        /\ suites' = suites \cup {c}
        /\ unexpected' = IF q.genre \in {"probe", "iprobe"} THEN unexpected
                         ELSE [unexpected EXCEPT ![s] = RemoveAt(@, k)]
        /\ last_probed' = IF q.peer = AnySource THEN s ELSE last_probed
        /\ UNCHANGED <<mode, reseau, comm_existe, pending, expected, cant_match, traites>>
    BY DEF Trouve, Demander, varsComm
  <1>2. s \in Sources /\ k \in 1 .. Len(unexpected[s]) /\ unexpected[s] \in Seq(Messages)
    <2>1. s \in Sources /\ Convient(q, s) # {}
      BY PremiereSource DEF Trouve
    <2>2. Convient(q, s) \subseteq 1 .. Len(unexpected[s]) /\ Convient(q, s) \subseteq Nat
      BY DEF Convient
    <2>3. k \in Convient(q, s)
      <3> HIDE DEF s
      <3> QED BY <2>1, <2>2, MinProprietes
    <2> HIDE DEF s, k
    <2>4. unexpected[s] \in Seq(Messages)
      BY <2>1 DEF TypesInv
    <2> QED BY <2>1, <2>2, <2>3, <2>4
  <1> HIDE DEF s, k
  <1>3. m \in Messages
    BY <1>2
  <1> HIDE DEF m
  <1>4. d \in Requetes /\ d.etat = "pris"
    BY <1>3 DEF Demandes, Requetes, Etiquettes
  <1>5. /\ n \in Nat /\ DOMAIN req = 1 .. n /\ req \in Seq(Requetes)
    BY ReqDomaine DEF TypesInv
  <1>6. c \in Suites /\ c.pc = "finir" /\ c.r = n + 1
    BY <1>3, <1>5 DEF Suites
  <1> HIDE DEF d, c
  <1>7. /\ req' \in Seq(Requetes) /\ DOMAIN req' = 1 .. n + 1
        /\ req'[n + 1] = d /\ \A r \in 1 .. n : req'[r] = req[r]
    BY <1>1, <1>4, <1>5
  <1>8. \A r \in 1 .. n + 1 : r \in 1 .. n \/ r = n + 1
    BY <1>5
  <1>9. /\ unexpected' \in [Sources -> Seq(Messages)]
        /\ \A t \in Sources : ToSet(unexpected'[t]) \subseteq ToSet(unexpected[t])
    <2>1. /\ RemoveAt(unexpected[s], k) \in Seq(Messages)
          /\ ToSet(RemoveAt(unexpected[s], k)) \subseteq ToSet(unexpected[s])
      BY <1>2, RemoveAtType
    <2>2. unexpected \in [Sources -> Seq(Messages)]
      BY DEF TypesInv
    <2>3. unexpected' = unexpected \/ unexpected' = [unexpected EXCEPT ![s] = RemoveAt(@, k)]
      BY <1>1
    <2> QED BY <1>2, <2>1, <2>2, <2>3
  <1>10. TypesInv'
    <2>1. suites' \subseteq Suites /\ IsFiniteSet(suites')
      BY <1>1, <1>6, FS_AddElement DEF TypesInv
    <2> QED BY <1>1, <1>2, <1>7, <1>9, <2>1 DEF TypesInv
  <1>11. RequetesInv'
    <2>1. ASSUME NEW r \in 1 .. n + 1
          PROVE  /\ req'[r].etat = "poste" =>
                      req'[r].genre \notin {"iprobe", "improbe"} /\ req'[r].msg = Aucun
                 /\ req'[r].etat = "pris" =>
                      \E x \in suites' : x.r = r /\ x.pc \in {"apres", "finir"}
      <3>1. CASE r \in 1 .. n
        BY <1>1, <1>5, <1>7, <3>1 DEF RequetesInv
      <3>2. CASE r = n + 1
        BY <1>1, <1>4, <1>6, <1>7, <3>2
      <3> QED BY <1>8, <3>1, <3>2
    <2> QED BY <1>1, <1>7, <2>1 DEF RequetesInv
  <1>12. SansCouple'
    <2> SUFFICES ASSUME NEW r \in 1 .. n + 1, req'[r].etat = "poste", NEW t \in Sources,
                        NEW x \in ToSet(unexpected'[t])
                 PROVE  ~ Accepte(req'[r], x)
      BY <1>7 DEF SansCouple, Postes
    <2>1. r \in 1 .. n /\ x \in ToSet(unexpected[t])
      BY <1>4, <1>7, <1>8, <1>9
    <2> QED BY <1>5, <1>7, <2>1 DEF SansCouple, Postes
  <1>13. AnnulesAvant
    BY <1>4, <1>5, <1>7, <1>8 DEF AnnulesAvant
  <1> QED BY <1>10, <1>11, <1>12, <1>13

(* A step that changes one request, to one that is not posted, and lets at  *)
(* most the thread that had it in hands go.                                 *)
LEMMA UneRequeteInv ==
    ASSUME Inv, NEW r0 \in DOMAIN req, NEW d \in Requetes, d.etat \notin {"poste", "pris"},
           req' = [req EXCEPT ![r0] = d],
           suites' = suites \/ \E c \in suites : suites' = suites \ {c} /\ c.r = r0,
           UNCHANGED <<mode, reseau, comm_existe, pending, expected, cant_match, unexpected, traites,
                       last_probed>>
    PROVE  Inv' /\ (d.etat # "annule" => AnnulesAvant)
  <1> USE DEF Inv
  <1> DEFINE n == Len(req)
  <1>1. /\ n \in Nat /\ DOMAIN req = 1 .. n /\ req \in Seq(Requetes) /\ req \in [1 .. n -> Requetes]
    BY ReqDomaine DEF TypesInv
  <1>2. req' \in [1 .. n -> Requetes] /\ \A r \in 1 .. n : req'[r] = IF r = r0 THEN d ELSE req[r]
    BY <1>1
  <1>3. req' \in Seq(Requetes) /\ DOMAIN req' = 1 .. n
    BY <1>1, <1>2, ReqType
  <1>4. suites' \subseteq suites /\ \A c \in suites : c.r # r0 => c \in suites'
    OBVIOUS
  <1>5. TypesInv'
    <2>1. suites' \subseteq Suites /\ IsFiniteSet(suites')
      BY <1>4, FS_Subset DEF TypesInv
    <2> QED BY <1>3, <2>1 DEF TypesInv
  <1>6. RequetesInv'
    <2>1. ASSUME NEW r \in 1 .. n
          PROVE  /\ req'[r].etat = "poste" =>
                      req'[r].genre \notin {"iprobe", "improbe"} /\ req'[r].msg = Aucun
                 /\ req'[r].etat = "pris" =>
                      \E x \in suites' : x.r = r /\ x.pc \in {"apres", "finir"}
      <3>1. CASE r = r0
        BY <1>2, <3>1
      <3>2. CASE r # r0
        <4>1. req'[r] = req[r]
          BY <1>2, <3>2
        <4>2. req[r].etat = "pris" => \E x \in suites : x.r = r /\ x.pc \in {"apres", "finir"}
          BY <1>1 DEF RequetesInv
        <4> QED BY <1>1, <1>4, <3>2, <4>1, <4>2 DEF RequetesInv
      <3> QED BY <3>1, <3>2
    <2>2. comm_existe
      BY DEF RequetesInv
    <2> QED BY <1>3, <2>1, <2>2 DEF RequetesInv
  <1>7. SansCouple'
    BY <1>1, <1>2, <1>3 DEF SansCouple, Postes
  <1>8. d.etat # "annule" => AnnulesAvant
    BY <1>1, <1>2, <1>3 DEF AnnulesAvant
  <1> QED BY <1>5, <1>6, <1>7, <1>8

(* The thread that delivers the message found, or describes it to a probe.  *)
LEMMA FinirInv ==
    ASSUME Inv, NEW c \in suites, Finir(c)
    PROVE  Inv' /\ AnnulesAvant
  <1> USE DEF Inv
  <1> DEFINE d == [req[c.r] EXCEPT !.etat = "fini", !.msg = IF Consomme(c.m) THEN Aucun ELSE c.m]
  <1>1. /\ req' = [req EXCEPT ![c.r] = d]
        /\ suites' = suites \ {c}
        /\ UNCHANGED <<mode, reseau, comm_existe, pending, expected, cant_match, unexpected, traites,
                       last_probed>>
    BY DEF Finir, varsComm, varsRecus
  <1>2. CASE c.r \in DOMAIN req
    <2>1. d \in Requetes /\ d.etat = "fini"
      <3>1. req[c.r] \in Requetes
        BY <1>2, ReqDomaine DEF TypesInv
      <3>2. c.m \in Messages
        BY DEF TypesInv, Suites
      <3> QED BY <3>1, <3>2 DEF Requetes
    <2> HIDE DEF d
    <2> QED BY <1>1, <1>2, <2>1, UneRequeteInv
  <1>3. CASE c.r \notin DOMAIN req
    <2>1. req' = req
      <3>1. req \in [1 .. Len(req) -> Requetes] /\ DOMAIN req = 1 .. Len(req)
        BY ReqDomaine DEF TypesInv
      <3> QED BY <1>1, <1>3, <3>1
    <2>2. TypesInv'
      <3>1. IsFiniteSet(suites \ {c})
        BY FS_Difference DEF TypesInv
      <3> QED BY <1>1, <2>1, <3>1 DEF TypesInv
    <2>3. RequetesInv'
      BY <1>1, <1>3, <2>1 DEF RequetesInv
    <2> QED BY <1>1, <2>1, <2>2, <2>3 DEF SansCouple, Postes, AnnulesAvant
  <1> QED BY <1>2, <1>3

LEMMA MRecvInv ==
    ASSUME Inv, NEW r \in DOMAIN req, MRecv(r)
    PROVE  Inv' /\ AnnulesAvant
  <1> USE DEF Inv
  <1> DEFINE d == [req[r] EXCEPT !.genre = "recv", !.peer = req[r].msg.src, !.tag = req[r].msg.tag]
  <1>1. /\ req' = [req EXCEPT ![r] = d] /\ req[r].etat = "fini"
        /\ UNCHANGED <<mode, reseau, comm_existe, pending, expected, cant_match, unexpected, traites,
                       last_probed, suites>>
    BY DEF MRecv, varsComm, varsRecus
  <1>2. d \in Requetes /\ d.etat = "fini"
    <2>1. req[r] \in Requetes
      BY ReqDomaine DEF TypesInv
    <2>2. req[r].msg.src \in Sources \cup {AnySource} /\ req[r].msg.tag \in Etiquettes
      <3>1. req[r].msg \in Messages \/ req[r].msg = Aucun
        BY <2>1 DEF Requetes
      <3> QED BY <3>1 DEF Messages, Aucun, Etiquettes
    <2> QED BY <1>1, <2>1, <2>2 DEF Requetes, Genres
  <1> HIDE DEF d
  <1> QED BY <1>1, <1>2, UneRequeteInv

LEMMA AnnuleInv ==
    ASSUME Inv, NEW r \in DOMAIN req, Annule(r)
    PROVE  Inv'
  <1> USE DEF Inv
  <1> DEFINE d == [req[r] EXCEPT !.etat = "annule"]
  <1>1. /\ req' = [req EXCEPT ![r] = d]
        /\ UNCHANGED <<mode, reseau, comm_existe, pending, expected, cant_match, unexpected, traites,
                       last_probed, suites>>
    BY DEF Annule, varsComm, varsRecus
  <1>2. d \in Requetes /\ d.etat = "annule"
    <2>1. req[r] \in Requetes
      BY ReqDomaine DEF TypesInv
    <2> QED BY <2>1 DEF Requetes
  <1> HIDE DEF d
  <1> QED BY <1>1, <1>2, UneRequeteInv

(* The communicator created: there is no request yet.                       *)
LEMMA AjouteCommInv ==
    ASSUME Inv, AjouteComm
    PROVE  Inv' /\ AnnulesAvant
  <1> USE DEF Inv
  <1>1. Ranges \in Etats
    BY RangesType DEF TypesInv
  <1>2. /\ comm_existe' = TRUE /\ pending' = <<>>
        /\ expected' = Ranges.expected /\ cant_match' = Ranges.cant
        /\ unexpected' = Ranges.unexp /\ traites' = Ranges.traites
        /\ UNCHANGED <<mode, reseau, last_probed, req, suites>> /\ ~ comm_existe
    BY DEF AjouteComm
  <1>3. req = <<>> /\ req' = <<>>
    BY <1>2 DEF RequetesInv
  <1>4. TypesInv'
    BY <1>1, <1>2 DEF TypesInv, Etats
  <1>5. RequetesInv' /\ SansCouple' /\ AnnulesAvant
    BY <1>2, <1>3 DEF RequetesInv, SansCouple, Postes, AnnulesAvant
  <1> QED BY <1>4, <1>5

LEMMA StepInv ==
    ASSUME Inv, [Next]_vars
    PROVE  Inv' /\ (AnnulesAvant \/ \E r \in DOMAIN req : Annule(r))
  <1>1. CASE UNCHANGED vars
    BY <1>1
       DEF vars, varsComm, varsRecus, Inv, TypesInv, RequetesInv, SansCouple, Postes,
                AnnulesAvant
  <1>2. CASE Reception
    BY <1>2, RecoitInv DEF Reception
  <1>3. CASE Suite
    BY <1>3, GarderInv, ApresInv, VerifieInv, FinirInv DEF Suite
  <1>4. CASE AjouteComm
    BY <1>4, AjouteCommInv
  <1>5. CASE \E q \in Demandes : Poste(q) \/ Trouve(q)
    BY <1>5, PosteInv, TrouveInv
  <1>6. CASE \E r \in DOMAIN req : MRecv(r) \/ Annule(r)
    BY <1>6, MRecvInv, AnnuleInv
  <1> QED BY <1>1, <1>2, <1>3, <1>4, <1>5, <1>6 DEF Next

-----------------------------------------------------------------------------
(* Whatever comes in whatever order, by any number of threads, the lists    *)
(* and the requests are well formed, a request that has been given its      *)
(* message is in the hands of a thread until it is complete, and no request *)
(* stays posted beside an unexpected message it accepts.                    *)
THEOREM InvTheorem == Spec => []Inv
  <1>1. Inv /\ [Next]_vars => Inv'
    BY StepInv
  <1> QED BY <1>1, InitInv, PTL DEF Spec

(* A posted request and an unexpected message that it accepts are never     *)
(* there together: match_incomming goes through the posted requests before  *)
(* it keeps a message, and recv_req_start through the unexpected messages   *)
(* of every source before it posts, both under the lock.  (This and what    *)
(* follows is until a receive is cancelled with its message, Rompu.)        *)
THEOREM PasDeCoupleManqueTheorem == Spec => []PasDeCoupleManque
  <1>1. Inv => PasDeCoupleManque
    BY DEF Inv, PasDeCoupleManque
  <1> QED BY <1>1, InvTheorem, PTL

-----------------------------------------------------------------------------
(* What the operations on frags_cant_match do to what the list holds.  The  *)
(* numbers of a range follow one another; a fragment is at one place.       *)
Suivies(liste) ==
    \A i \in 1 .. Len(liste) : \A j \in 1 .. Len(liste[i]) - 1 :
        liste[i][j + 1].seq = liste[i][j].seq + 1
UneFois(liste) ==
    \A i, k \in 1 .. Len(liste) : \A j \in 1 .. Len(liste[i]) : \A n \in 1 .. Len(liste[k]) :
        liste[i][j] = liste[k][n] => i = k /\ j = n

(* The list l2 holds what liste holds and the messages of M.                *)
Gagne(liste, l2, M) ==
    /\ l2 \in Listes
    /\ Fragments(l2) = Fragments(liste) \cup M
    /\ Suivies(liste) => Suivies(l2)
    /\ UneFois(liste) /\ M \cap Fragments(liste) = {} => UneFois(l2)

LEMMA GagneEnsuite ==
    ASSUME NEW l1, NEW l2, NEW l3, NEW M, Gagne(l1, l2, M), Gagne(l2, l3, {})
    PROVE  Gagne(l1, l3, M)
  BY DEF Gagne

LEMMA FragmentsPlaces ==
    ASSUME NEW liste, NEW m
    PROVE  m \in Fragments(liste) <=>
             \E i \in 1 .. Len(liste) : \E j \in 1 .. Len(liste[i]) : liste[i][j] = m
  BY DEF Fragments

LEMMA FragmentsA ==
    ASSUME NEW liste, NEW i \in 1 .. Len(liste), NEW j \in 1 .. Len(liste[i])
    PROVE  liste[i][j] \in Fragments(liste)
  BY DEF Fragments

LEMMA UneFoisPlace ==
    ASSUME NEW liste, UneFois(liste), NEW x \in 1 .. Len(liste), NEW y \in 1 .. Len(liste),
           NEW u \in 1 .. Len(liste[x]), NEW w \in 1 .. Len(liste[y]), liste[x][u] = liste[y][w]
    PROVE  x = y /\ u = w
  BY Zenon DEF UneFois

LEMMA PlageType ==
    ASSUME NEW liste \in Listes, NEW i \in 1 .. Len(liste)
    PROVE  /\ liste[i] \in Plages /\ liste[i] \in Seq(Messages) /\ liste[i] # <<>>
           /\ Len(liste[i]) \in Nat \ {0}
           /\ \A j \in 1 .. Len(liste[i]) : liste[i][j] \in Messages /\ liste[i][j].seq \in Nat
  <1>1. liste[i] \in Plages /\ liste[i] \in Seq(Messages) /\ liste[i] # <<>>
    BY DEF Listes, Plages
  <1> DEFINE p == liste[i]
  <1> HIDE DEF p
  <1>2. p \in Seq(Messages) /\ p # <<>>
    BY <1>1 DEF p
  <1>3. Len(p) \in Nat \ {0} /\ \A j \in 1 .. Len(p) : p[j] \in Messages
    BY <1>2
  <1>4. \A m \in Messages : m.seq \in Nat
    BY ModuloAssumption DEF Messages
  <1> QED BY <1>1, <1>3, <1>4 DEF p

(* A list that has the same ranges in another order.                        *)
Deplacees(liste, l2, f, g) ==
    /\ \A k \in 1 .. Len(liste) : f[k] \in 1 .. Len(liste) /\ l2[k] = liste[f[k]] /\ g[f[k]] = k
    /\ \A k \in 1 .. Len(liste) : g[k] \in 1 .. Len(liste) /\ f[g[k]] = k

LEMMA MemesPlages ==
    ASSUME NEW liste \in Listes, NEW l2 \in Listes, Len(l2) = Len(liste),
           NEW f, NEW g, Deplacees(liste, l2, f, g)
    PROVE  Gagne(liste, l2, {})
  <1>1. PICK n \in Nat : n = Len(liste) /\ n = Len(l2)
    BY DEF Listes
  <1>2. ASSUME NEW k \in 1 .. n
        PROVE  \E x \in 1 .. n : x = f[k] /\ g[x] = k /\ l2[k] = liste[x]
    BY <1>1 DEF Deplacees
  <1>3. ASSUME NEW k \in 1 .. n
        PROVE  \E x \in 1 .. n : l2[x] = liste[k]
    <2>1. g[k] \in 1 .. n /\ f[g[k]] = k
      BY <1>1 DEF Deplacees
    <2>2. l2[g[k]] = liste[f[g[k]]]
      BY <1>1, <2>1 DEF Deplacees
    <2> QED BY <2>1, <2>2
  <1>4. Fragments(l2) = Fragments(liste)
    <2>1. ASSUME NEW m \in Fragments(l2) PROVE m \in Fragments(liste)
      <3>1. PICK i \in 1 .. n : \E j \in 1 .. Len(l2[i]) : l2[i][j] = m
        BY <1>1, <2>1, FragmentsPlaces
      <3>2. PICK k \in 1 .. n : l2[i] = liste[k]
        BY <1>2
      <3>3. PICK j \in 1 .. Len(liste[k]) : liste[k][j] = m
        BY <3>1, <3>2
      <3> QED BY <1>1, <3>3, FragmentsA
    <2>2. ASSUME NEW m \in Fragments(liste) PROVE m \in Fragments(l2)
      <3>1. PICK i \in 1 .. n : \E j \in 1 .. Len(liste[i]) : liste[i][j] = m
        BY <1>1, <2>2, FragmentsPlaces
      <3>2. PICK k \in 1 .. n : l2[k] = liste[i]
        BY <1>3
      <3>3. PICK j \in 1 .. Len(l2[k]) : l2[k][j] = m
        BY <3>1, <3>2
      <3> QED BY <1>1, <3>3, FragmentsA
    <2> QED BY <2>1, <2>2
  <1>5. ASSUME Suivies(liste) PROVE Suivies(l2)
    <2>1. ASSUME NEW i \in 1 .. n
          PROVE  \A j \in 1 .. Len(l2[i]) - 1 : l2[i][j + 1].seq = l2[i][j].seq + 1
      <3>1. PICK x \in 1 .. n : l2[i] = liste[x]
        BY <1>2
      <3>2. \A j \in 1 .. Len(liste[x]) - 1 : liste[x][j + 1].seq = liste[x][j].seq + 1
        BY <1>1, <1>5 DEF Suivies
      <3> QED BY <3>1, <3>2
    <2> QED BY <1>1, <2>1 DEF Suivies
  <1>6. ASSUME UneFois(liste) PROVE UneFois(l2)
    <2> SUFFICES ASSUME NEW i \in 1 .. n, NEW k \in 1 .. n, NEW j \in 1 .. Len(l2[i]),
                        NEW h \in 1 .. Len(l2[k]), l2[i][j] = l2[k][h]
                 PROVE  i = k /\ j = h
      BY <1>1 DEF UneFois
    <2>1. PICK x \in 1 .. n : x = f[i] /\ g[x] = i /\ l2[i] = liste[x]
      BY <1>2
    <2>2. PICK y \in 1 .. n : y = f[k] /\ g[y] = k /\ l2[k] = liste[y]
      BY <1>2
    <2>3. PICK u \in 1 .. Len(liste[x]), w \in 1 .. Len(liste[y]) :
            u = j /\ w = h /\ liste[x][u] = liste[y][w]
      BY <2>1, <2>2
    <2>4. \A p \in 1 .. Len(liste[x]), q \in 1 .. Len(liste[y]) :
            liste[x][p] = liste[y][q] => x = y /\ p = q
      BY <1>1, <1>6 DEF UneFois
    <2>5. x = y /\ u = w
      BY Zenon, <2>3, <2>4
    <2> QED BY <2>1, <2>2, <2>3, <2>5
  <1> QED BY <1>4, <1>5, <1>6 DEF Gagne

LEMMA TournerPlaces ==
    ASSUME NEW S, NEW s \in Seq(S), NEW i \in 1 .. Len(s)
    PROVE  /\ Tourner(s, i) \in Seq(S) /\ Len(Tourner(s, i)) = Len(s)
           /\ \A k \in 1 .. Len(s) :
                Tourner(s, i)[k] = IF k <= Len(s) - i + 1 THEN s[k + i - 1] ELSE s[k - (Len(s) - i + 1)]
  <1> DEFINE n == Len(s)
             a == SubSeq(s, i, n)
             b == SubSeq(s, 1, i - 1)
  <1>1. n \in Nat /\ a \in Seq(S) /\ Len(a) = n - i + 1 /\ \A k \in 1 .. n - i + 1 : a[k] = s[k + i - 1]
    BY SMT
  <1>2. b \in Seq(S) /\ Len(b) = i - 1 /\ \A k \in 1 .. i - 1 : b[k] = s[k]
    BY SMT
  <1>3. Tourner(s, i) = a \o b
    BY DEF Tourner
  <1> HIDE DEF a, b
  <1>4. /\ a \o b \in Seq(S) /\ Len(a \o b) = Len(a) + Len(b)
        /\ \A j \in 1 .. Len(a) + Len(b) : (a \o b)[j] = IF j <= Len(a) THEN a[j] ELSE b[j - Len(a)]
    BY <1>1, <1>2, ConcatProperties
  <1>5. Len(a \o b) = n
    BY <1>1, <1>2, <1>4
  <1>6. ASSUME NEW k \in 1 .. n
        PROVE  (a \o b)[k] = IF k <= n - i + 1 THEN s[k + i - 1] ELSE s[k - (n - i + 1)]
    <2>1. CASE k <= n - i + 1
      BY <1>1, <1>2, <1>4, <2>1
    <2>2. CASE ~ (k <= n - i + 1)
      <3>1. k - (n - i + 1) \in 1 .. i - 1 /\ ~ (k <= Len(a)) /\ k \in 1 .. Len(a) + Len(b)
        BY <1>1, <1>2, <2>2
      <3>2. (a \o b)[k] = b[k - (n - i + 1)]
        BY <1>1, <1>4, <3>1
      <3> QED BY <1>2, <2>2, <3>1, <3>2
    <2> QED BY <2>1, <2>2
  <1> QED BY <1>3, <1>4, <1>5, <1>6

LEMMA TournerGagne ==
    ASSUME NEW liste \in Listes, NEW i \in 1 .. Len(liste)
    PROVE  Gagne(liste, Tourner(liste, i), {})
  <1> DEFINE n == Len(liste)
             c == n - i + 1
             f == [k \in 1 .. n |-> IF k <= c THEN k + i - 1 ELSE k - c]
             g == [k \in 1 .. n |-> IF k >= i THEN k - i + 1 ELSE k + c]
  <1>1. n \in Nat
    BY DEF Listes
  <1>2. /\ Tourner(liste, i) \in Listes /\ Len(Tourner(liste, i)) = n
        /\ \A k \in 1 .. n : Tourner(liste, i)[k] = IF k <= c THEN liste[k + i - 1] ELSE liste[k - c]
    BY TournerPlaces DEF Listes
  <1>3. ASSUME NEW k \in 1 .. n
        PROVE  /\ f[k] \in 1 .. n /\ Tourner(liste, i)[k] = liste[f[k]] /\ g[f[k]] = k
               /\ g[k] \in 1 .. n /\ f[g[k]] = k
    <2>1. f[k] = IF k <= c THEN k + i - 1 ELSE k - c
      OBVIOUS
    <2>2. g[k] = IF k >= i THEN k - i + 1 ELSE k + c
      OBVIOUS
    <2>3. f[k] \in 1 .. n /\ g[k] \in 1 .. n
      BY <1>1, <2>1, <2>2
    <2>4. g[f[k]] = IF f[k] >= i THEN f[k] - i + 1 ELSE f[k] + c
      BY <2>3
    <2>5. f[g[k]] = IF g[k] <= c THEN g[k] + i - 1 ELSE g[k] - c
      BY <2>3
    <2> HIDE DEF f, g
    <2>6. g[f[k]] = k
      <3>1. CASE k <= c
        <4>1. f[k] = k + i - 1 /\ f[k] >= i
          BY <1>1, <2>1, <3>1
        <4> QED BY <1>1, <2>4, <4>1
      <3>2. CASE ~ (k <= c)
        <4>1. f[k] = k - c /\ ~ (f[k] >= i)
          BY <1>1, <2>1, <3>2
        <4> QED BY <1>1, <2>4, <4>1
      <3> QED BY <3>1, <3>2
    <2>7. f[g[k]] = k
      BY <1>1, <2>2, <2>5
    <2>8. Tourner(liste, i)[k] = liste[f[k]]
      BY <1>2, <2>1
    <2> QED BY <2>3, <2>6, <2>7, <2>8
  <1> DEFINE t == Tourner(liste, i)
  <1> HIDE DEF f, g, t
  <1>4. /\ t \in Listes /\ Len(t) = Len(liste)
        /\ \A k \in 1 .. Len(liste) : f[k] \in 1 .. Len(liste) /\ t[k] = liste[f[k]] /\ g[f[k]] = k
        /\ \A k \in 1 .. Len(liste) : g[k] \in 1 .. Len(liste) /\ f[g[k]] = k
    BY <1>2, <1>3 DEF t
  <1>5. Deplacees(liste, t, f, g)
    BY <1>4 DEF Deplacees
  <1>6. Gagne(liste, t, {})
    BY <1>4, <1>5, MemesPlages
  <1> QED BY <1>6 DEF t
-----------------------------------------------------------------------------
(* The merge of the first two ranges, when the second follows the first.    *)
LEMMA ConcatPlaces ==
    ASSUME NEW S, NEW a \in Seq(S), NEW b \in Seq(S)
    PROVE  /\ a \o b \in Seq(S) /\ Len(a \o b) = Len(a) + Len(b)
           /\ Len(a) \in Nat /\ Len(b) \in Nat
           /\ \A j \in 1 .. Len(a) : (a \o b)[j] = a[j]
           /\ \A j \in 1 .. Len(b) : (a \o b)[Len(a) + j] = b[j]
           /\ \A j \in 1 .. Len(a) + Len(b) : j > Len(a) => (a \o b)[j] = b[j - Len(a)]
  <1>1. /\ a \o b \in Seq(S) /\ Len(a \o b) = Len(a) + Len(b) /\ Len(a) \in Nat /\ Len(b) \in Nat
        /\ \A j \in 1 .. Len(a) + Len(b) : (a \o b)[j] = IF j <= Len(a) THEN a[j] ELSE b[j - Len(a)]
    BY ConcatProperties
  <1>2. ASSUME NEW j \in 1 .. Len(b) PROVE (a \o b)[Len(a) + j] = b[j]
    <2>1. Len(a) + j \in 1 .. Len(a) + Len(b) /\ ~ (Len(a) + j <= Len(a)) /\ Len(a) + j - Len(a) = j
      BY <1>1
    <2> QED BY <1>1, <2>1
  <1> QED BY <1>1, <1>2

LEMMA FusionnerPlaces ==
    ASSUME NEW liste \in Listes, Len(liste) > 1, Fin(liste[1]) + 1 = Debut(liste, 2)
    PROVE  /\ Fusionner(liste) \in Listes /\ Len(Fusionner(liste)) = Len(liste) - 1
           /\ Fusionner(liste)[1] = liste[1] \o liste[2]
           /\ \A k \in 2 .. Len(liste) - 1 : Fusionner(liste)[k] = liste[k + 1]
  <1> DEFINE n == Len(liste)
             c == liste[1] \o liste[2]
             r == SubSeq(liste, 3, n)
  <1>1. n \in Nat /\ n > 1 /\ 1 \in 1 .. n /\ 2 \in 1 .. n
    BY DEF Listes
  <1>2. c \in Plages
    <2>1. liste[1] \in Plages /\ liste[2] \in Plages
      BY <1>1, PlageType
    <2> QED BY <2>1 DEF Plages
  <1>3. /\ r \in Seq(Plages) /\ Len(r) = n - 2
        /\ \A k \in 1 .. n - 2 : r[k] = liste[k + 2]
    <2>1. \A k \in 3 .. n : liste[k] \in Plages
      BY <1>1 DEF Listes
    <2>2. /\ r \in Seq(Plages) /\ Len(r) = IF 3 <= n THEN n - 3 + 1 ELSE 0
          /\ \A k \in 1 .. n - 3 + 1 : r[k] = liste[3 + k - 1]
      BY <1>1, <2>1, SubSeqProperties
    <2> HIDE DEF n, r
    <2>3. r \in Seq(Plages) /\ Len(r) = n - 2
      BY <1>1, <2>2
    <2>4. ASSUME NEW k \in 1 .. n - 2 PROVE r[k] = liste[k + 2]
      <3>1. k \in 1 .. n - 3 + 1 /\ 3 + k - 1 = k + 2
        BY <1>1
      <3> QED BY <2>2, <3>1
    <2> QED BY <2>3, <2>4
  <1>4. Fusionner(liste) = <<c>> \o r
    BY DEF Fusionner
  <1> HIDE DEF c, r
  <1>5. <<c>> \in Seq(Plages) /\ Len(<<c>>) = 1 /\ <<c>>[1] = c
    BY <1>2
  <1>6. /\ <<c>> \o r \in Seq(Plages) /\ Len(<<c>> \o r) = n - 1
        /\ (<<c>> \o r)[1] = c
        /\ \A j \in 1 .. n - 1 : j > 1 => (<<c>> \o r)[j] = r[j - 1]
    <2> DEFINE d == <<c>>
    <2> HIDE DEF d
    <2>1. d \in Seq(Plages) /\ Len(d) = 1 /\ d[1] = c
      BY <1>5 DEF d
    <2>2. /\ d \o r \in Seq(Plages) /\ Len(d \o r) = Len(d) + Len(r)
          /\ \A j \in 1 .. Len(d) : (d \o r)[j] = d[j]
          /\ \A j \in 1 .. Len(d) + Len(r) : j > Len(d) => (d \o r)[j] = r[j - Len(d)]
      <3>1. d \in Seq(Plages) /\ r \in Seq(Plages)
        BY <1>3, <2>1
      <3> QED BY <3>1, ConcatPlaces
    <2>3. Len(d) + Len(r) = n - 1
      BY <1>1, <1>3, <2>1
    <2> QED BY <2>1, <2>2, <2>3 DEF d
  <1>7. ASSUME NEW k \in 2 .. n - 1 PROVE (<<c>> \o r)[k] = liste[k + 1]
    <2>1. k \in 1 .. n - 1 /\ k > 1 /\ k - 1 \in 1 .. n - 2 /\ k - 1 + 2 = k + 1
      BY <1>1
    <2> QED BY <1>3, <1>6, <2>1
  <1> QED BY <1>4, <1>6, <1>7 DEF c, Listes

LEMMA FusionnerGagne ==
    ASSUME NEW liste \in Listes
    PROVE  Gagne(liste, Fusionner(liste), {})
  <1>1. CASE ~ (Len(liste) > 1 /\ Fin(liste[1]) + 1 = Debut(liste, 2))
    BY <1>1 DEF Fusionner, Gagne
  <1>2. CASE Len(liste) > 1 /\ Fin(liste[1]) + 1 = Debut(liste, 2)
    <2> DEFINE n == Len(liste)
               f == Fusionner(liste)
               a == Len(liste[1])
               b == Len(liste[2])
               I(i, j) == IF i = 1 THEN (IF j <= a THEN 1 ELSE 2) ELSE i + 1
               J(i, j) == IF i = 1 /\ j > a THEN j - a ELSE j
    <2>1. /\ f \in Listes /\ Len(f) = n - 1 /\ f[1] = liste[1] \o liste[2]
          /\ \A k \in 2 .. n - 1 : f[k] = liste[k + 1]
      BY <1>2, FusionnerPlaces
    <2>2. n \in Nat /\ n > 1 /\ 1 \in 1 .. n /\ 2 \in 1 .. n
      BY <1>2 DEF Listes
    <2>3. /\ liste[1] \in Seq(Messages) /\ liste[2] \in Seq(Messages)
          /\ a \in Nat \ {0} /\ b \in Nat \ {0} /\ Len(liste[1]) = a /\ Len(liste[2]) = b
      BY <2>2, PlageType
    <2> HIDE DEF f, a, b
    <2>4. /\ Len(f[1]) = a + b
          /\ \A j \in 1 .. a : f[1][j] = liste[1][j]
          /\ \A j \in 1 .. b : f[1][a + j] = liste[2][j]
          /\ \A j \in 1 .. a + b : j > a => f[1][j] = liste[2][j - a]
      <3>1. PICK x \in Seq(Messages) : x = liste[1] /\ Len(x) = a
        BY <2>3
      <3>2. PICK y \in Seq(Messages) : y = liste[2] /\ Len(y) = b
        BY <2>3
      <3>3. /\ Len(x \o y) = Len(x) + Len(y)
            /\ \A j \in 1 .. Len(x) : (x \o y)[j] = x[j]
            /\ \A j \in 1 .. Len(y) : (x \o y)[Len(x) + j] = y[j]
            /\ \A j \in 1 .. Len(x) + Len(y) : j > Len(x) => (x \o y)[j] = y[j - Len(x)]
        BY ConcatPlaces
      <3>4. PICK z : z = f[1] /\ z = x \o y
        BY <2>1, <3>1, <3>2
      <3>5. /\ Len(z) = Len(x) + Len(y)
            /\ \A j \in 1 .. Len(x) : z[j] = x[j]
            /\ \A j \in 1 .. Len(y) : z[Len(x) + j] = y[j]
            /\ \A j \in 1 .. Len(x) + Len(y) : j > Len(x) => z[j] = y[j - Len(x)]
        BY Zenon, <3>3, <3>4
      <3>6. Len(z) = a + b /\ \A j \in 1 .. a : z[j] = x[j]
        BY <3>1, <3>2, <3>5
      <3>7. /\ \A j \in 1 .. b : z[a + j] = y[j]
            /\ \A j \in 1 .. a + b : j > a => z[j] = y[j - a]
        BY <3>1, <3>2, <3>5
      <3>8. Len(f[1]) = a + b /\ \A j \in 1 .. a : f[1][j] = liste[1][j]
        BY <3>1, <3>4, <3>6
      <3>9. /\ \A j \in 1 .. b : f[1][a + j] = liste[2][j]
            /\ \A j \in 1 .. a + b : j > a => f[1][j] = liste[2][j - a]
        BY <3>2, <3>4, <3>7
      <3> QED BY <3>8, <3>9
    <2>5. \A i \in 1 .. n - 1 : i = 1 \/ (i \in 2 .. n - 1 /\ i + 1 \in 1 .. n /\ i # 1)
      BY <2>2
    <2>6. ASSUME NEW i \in 1 .. n - 1, NEW j \in 1 .. Len(f[i])
          PROVE  /\ I(i, j) \in 1 .. n /\ J(i, j) \in 1 .. Len(liste[I(i, j)])
                 /\ f[i][j] = liste[I(i, j)][J(i, j)]
      <3>1. CASE i = 1 /\ j <= a
        <4>1. I(i, j) = 1 /\ J(i, j) = j /\ j \in 1 .. a
          BY <2>3, <3>1
        <4> QED BY <2>2, <2>3, <2>4, <3>1, <4>1
      <3>2. CASE i = 1 /\ ~ (j <= a)
        <4>1. j \in 1 .. a + b /\ j > a
          BY <2>3, <2>4, <3>2
        <4>2. I(i, j) = 2 /\ J(i, j) = j - a /\ j - a \in 1 .. b
          BY <2>3, <3>2, <4>1
        <4> QED BY <2>2, <2>3, <2>4, <3>2, <4>1, <4>2
      <3>3. CASE i # 1
        BY <2>1, <2>5, <3>3
      <3> QED BY <3>1, <3>2, <3>3
    <2>7. ASSUME NEW m \in Fragments(f) PROVE m \in Fragments(liste)
      <3>1. PICK i \in 1 .. Len(f) : \E j \in 1 .. Len(f[i]) : f[i][j] = m
        BY <2>7, FragmentsPlaces
      <3>2. PICK j \in 1 .. Len(f[i]) : f[i][j] = m
        BY <3>1
      <3>3. i \in 1 .. n - 1
        BY <2>1
      <3> HIDE DEF I, J
      <3>4. I(i, j) \in 1 .. Len(liste) /\ J(i, j) \in 1 .. Len(liste[I(i, j)])
            /\ liste[I(i, j)][J(i, j)] = m
        BY <2>6, <3>2, <3>3
      <3> QED BY <3>4, FragmentsPlaces
    <2>8. ASSUME NEW m \in Fragments(liste) PROVE m \in Fragments(f)
      <3>1. PICK i \in 1 .. Len(liste) : \E j \in 1 .. Len(liste[i]) : liste[i][j] = m
        BY <2>8, FragmentsPlaces
      <3>2. PICK j \in 1 .. Len(liste[i]) : liste[i][j] = m
        BY <3>1
      <3>3. 1 \in 1 .. Len(f)
        BY <2>1, <2>2
      <3>4. CASE i = 1
        <4>1. j \in 1 .. Len(f[1]) /\ f[1][j] = m
          BY <2>3, <2>4, <3>2, <3>4
        <4> QED BY <3>3, <4>1, FragmentsPlaces
      <3>5. CASE i = 2
        <4>1. a + j \in 1 .. Len(f[1]) /\ f[1][a + j] = m
          BY <2>3, <2>4, <3>2, <3>5
        <4> QED BY <3>3, <4>1, FragmentsPlaces
      <3>6. CASE i # 1 /\ i # 2
        <4>1. i - 1 \in 2 .. n - 1 /\ i - 1 \in 1 .. Len(f) /\ i - 1 + 1 = i
          BY <2>1, <2>2, <3>6
        <4>2. f[i - 1] = liste[i]
          BY <2>1, <4>1
        <4>3. j \in 1 .. Len(f[i - 1]) /\ f[i - 1][j] = m
          BY <3>2, <4>2
        <4> QED BY <4>1, <4>3, FragmentsPlaces
      <3> QED BY <3>4, <3>5, <3>6
    <2>9. ASSUME Suivies(liste) PROVE Suivies(f)
      <3> SUFFICES ASSUME NEW i \in 1 .. n - 1, NEW j \in 1 .. Len(f[i]) - 1
                   PROVE  f[i][j + 1].seq = f[i][j].seq + 1
        BY <2>1 DEF Suivies
      <3>1. CASE i = 1
        <4>1. CASE j < a
          <5>1. j \in 1 .. a - 1 /\ j \in 1 .. a /\ j + 1 \in 1 .. a
            BY <2>3, <4>1
          <5>2. liste[1][j + 1].seq = liste[1][j].seq + 1
            BY <2>2, <2>3, <2>9, <5>1 DEF Suivies
          <5> QED BY <2>4, <3>1, <5>1, <5>2
        <4>2. CASE j = a
          <5>1. f[1][j] = liste[1][a] /\ f[1][j + 1] = liste[2][1]
            BY <2>3, <2>4, <4>2
          <5>2. liste[2][1].seq = liste[1][a].seq + 1
            BY <1>2, <2>3 DEF Fin, Debut
          <5> QED BY <3>1, <5>1, <5>2
        <4>3. CASE j > a
          <5>1. j \in 1 .. a + b /\ j + 1 \in 1 .. a + b /\ j + 1 > a /\ j - a \in 1 .. b - 1
                /\ j + 1 - a = j - a + 1
            BY <2>3, <2>4, <3>1, <4>3
          <5>2. f[1][j] = liste[2][j - a]
            BY <2>4, <4>3, <5>1
          <5>4. f[1][j + 1] = liste[2][j + 1 - a]
            BY <2>3, <2>4, <4>3, <5>1
          <5>3. liste[2][j - a + 1].seq = liste[2][j - a].seq + 1
            BY <2>2, <2>3, <2>9, <5>1 DEF Suivies
          <5> QED BY <3>1, <5>1, <5>2, <5>3, <5>4
        <4> QED BY <2>3, <4>1, <4>2, <4>3
      <3>2. CASE i # 1
        <4>1. i + 1 \in 1 .. n /\ f[i] = liste[i + 1]
          BY <2>1, <2>5, <3>2
        <4> QED BY <2>9, <4>1 DEF Suivies
      <3> QED BY <3>1, <3>2
    <2>10. ASSUME UneFois(liste) PROVE UneFois(f)
      <3> SUFFICES ASSUME NEW i \in 1 .. n - 1, NEW k \in 1 .. n - 1, NEW j \in 1 .. Len(f[i]),
                          NEW h \in 1 .. Len(f[k]), f[i][j] = f[k][h]
                   PROVE  i = k /\ j = h
        BY <2>1 DEF UneFois
      <3>0. \A x, y \in 1 .. n : \A u \in 1 .. Len(liste[x]) : \A w \in 1 .. Len(liste[y]) :
              liste[x][u] = liste[y][w] => x = y /\ u = w
        BY <2>10 DEF UneFois
      <3>1. I(i, j) = I(k, h) /\ J(i, j) = J(k, h)
        <4> HIDE DEF I, J, n
        <4>1. PICK x \in 1 .. n, y \in 1 .. n : x = I(i, j) /\ y = I(k, h)
          BY <2>6
        <4>2. PICK u \in 1 .. Len(liste[x]), w \in 1 .. Len(liste[y]) :
                u = J(i, j) /\ w = J(k, h) /\ f[i][j] = liste[x][u] /\ f[k][h] = liste[y][w]
          BY <2>6, <4>1
        <4>3. liste[x][u] = liste[y][w]
          BY <4>2
        <4>4. x = y /\ u = w
          BY <3>0, <4>3
        <4> QED BY <4>1, <4>2, <4>4
      <3>2. i \in Nat /\ k \in Nat /\ j \in Int /\ h \in Int
        BY <2>2
      <3> QED BY <2>3, <3>1, <3>2
    <2>11. Fragments(f) = Fragments(liste)
      BY <2>7, <2>8
    <2> QED BY <2>1, <2>9, <2>10, <2>11 DEF Gagne, f
  <1> QED BY <1>1, <1>2
-----------------------------------------------------------------------------
(* A fragment that is put at the end of a range,                            *)
LEMMA GrandieGagne ==
    ASSUME NEW liste \in Listes, NEW l2 \in Listes, NEW p \in 1 .. Len(liste), NEW m \in Messages,
           Len(l2) = Len(liste), l2[p] = Append(liste[p], m),
           \A k \in 1 .. Len(liste) : k # p => l2[k] = liste[k],
           Fin(liste[p]) + 1 = m.seq
    PROVE  Gagne(liste, l2, {m})
  <1> DEFINE n == Len(liste)
             a == Len(liste[p])
  <1>1. /\ n \in Nat /\ liste[p] \in Seq(Messages) /\ a \in Nat \ {0}
        /\ Fin(liste[p]) = liste[p][a].seq /\ Len(l2) = n /\ p \in 1 .. n
    BY PlageType DEF Listes, Fin
  <1>2. Len(l2[p]) = a + 1 /\ l2[p][a + 1] = m /\ \A j \in 1 .. a : l2[p][j] = liste[p][j]
    <2>1. PICK x \in Seq(Messages) : x = liste[p] /\ Len(x) = a
      BY <1>1
    <2>2. /\ Len(Append(x, m)) = Len(x) + 1 /\ Append(x, m)[Len(x) + 1] = m
          /\ \A j \in 1 .. Len(x) : Append(x, m)[j] = x[j]
      OBVIOUS
    <2> QED BY <2>1, <2>2
  <1> HIDE DEF n, a
  <1>3. ASSUME NEW i \in 1 .. n, NEW j \in 1 .. Len(l2[i])
        PROVE  \/ i = p /\ j = a + 1 /\ l2[i][j] = m
               \/ j \in 1 .. Len(liste[i]) /\ l2[i][j] = liste[i][j] /\ (i = p => j # a + 1)
    <2>1. CASE i = p
      BY <1>1, <1>2, <2>1 DEF a
    <2>2. CASE i # p
      BY <2>2 DEF n
    <2> QED BY <2>1, <2>2
  <1>4. ASSUME NEW i \in 1 .. n, NEW j \in 1 .. Len(liste[i])
        PROVE  j \in 1 .. Len(l2[i]) /\ l2[i][j] = liste[i][j]
    <2>1. CASE i = p
      <3>1. j \in 1 .. a /\ j \in 1 .. a + 1
        BY <1>1, <2>1 DEF a
      <3>2. l2[p][j] = liste[p][j] /\ Len(l2[p]) = a + 1
        BY <1>2, <3>1
      <3> QED BY <2>1, <3>1, <3>2
    <2>2. CASE i # p
      BY <2>2 DEF n
    <2> QED BY <2>1, <2>2
  <1>5. Fragments(l2) = Fragments(liste) \cup {m}
    <2>1. ASSUME NEW x \in Fragments(l2) PROVE x \in Fragments(liste) \cup {m}
      <3>1. PICK i \in 1 .. n : \E j \in 1 .. Len(l2[i]) : l2[i][j] = x
        BY <1>1, <2>1, FragmentsPlaces
      <3>2. PICK j \in 1 .. Len(l2[i]) : l2[i][j] = x
        BY <3>1
      <3>3. x = m \/ (j \in 1 .. Len(liste[i]) /\ liste[i][j] = x)
        BY <1>3, <3>2
      <3> QED BY <3>3, FragmentsPlaces DEF n
    <2>2. ASSUME NEW x \in Fragments(liste) PROVE x \in Fragments(l2)
      <3>1. PICK i \in 1 .. n : \E j \in 1 .. Len(liste[i]) : liste[i][j] = x
        BY <2>2, FragmentsPlaces DEF n
      <3> QED BY <1>1, <1>4, <3>1, FragmentsPlaces
    <2>3. m \in Fragments(l2)
      <3>1. a + 1 \in 1 .. Len(l2[p])
        BY <1>1, <1>2
      <3> QED BY <1>1, <1>2, <3>1, FragmentsPlaces
    <2> QED BY <2>1, <2>2, <2>3
  <1>6. ASSUME Suivies(liste) PROVE Suivies(l2)
    <2> SUFFICES ASSUME NEW i \in 1 .. n, NEW j \in 1 .. Len(l2[i]) - 1
                 PROVE  l2[i][j + 1].seq = l2[i][j].seq + 1
      BY <1>1 DEF Suivies
    <2>1. CASE i # p
      <3>1. l2[i] = liste[i]
        BY <2>1 DEF n
      <3> QED BY <1>6, <3>1 DEF Suivies, n
    <2>2. CASE i = p /\ j < a
      <3>1. j \in 1 .. a - 1 /\ j \in 1 .. a /\ j + 1 \in 1 .. a
        BY <1>1, <2>2
      <3>2. liste[p][j + 1].seq = liste[p][j].seq + 1
        BY <1>6, <3>1 DEF Suivies, a
      <3> QED BY <1>2, <2>2, <3>1, <3>2
    <2>3. CASE i = p /\ ~ (j < a)
      <3>1. j = a /\ a \in 1 .. a
        BY <1>1, <1>2, <2>3
      <3> QED BY <1>1, <1>2, <2>3, <3>1
    <2> QED BY <2>1, <2>2, <2>3
  <1>7. ASSUME UneFois(liste), NEW x \in 1 .. n, NEW y \in 1 .. n, NEW u \in 1 .. Len(liste[x]),
               NEW w \in 1 .. Len(liste[y]), liste[x][u] = liste[y][w]
        PROVE  x = y /\ u = w
    BY <1>7 DEF UneFois, n
  <1>8. ASSUME UneFois(liste), m \notin Fragments(liste) PROVE UneFois(l2)
    <2> SUFFICES ASSUME NEW i \in 1 .. n, NEW k \in 1 .. n, NEW j \in 1 .. Len(l2[i]),
                        NEW h \in 1 .. Len(l2[k]), l2[i][j] = l2[k][h]
                 PROVE  i = k /\ j = h
      BY <1>1 DEF UneFois
    <2>1. \A x \in 1 .. n : \A y \in 1 .. Len(liste[x]) : liste[x][y] # m
      BY <1>8, FragmentsPlaces DEF n
    <2>2. CASE l2[i][j] = m
      <3>1. i = p /\ j = a + 1
        BY <1>3, <2>1, <2>2
      <3>2. l2[k][h] = m
        BY <2>2
      <3>3. k = p /\ h = a + 1
        BY <1>3, <2>1, <3>2
      <3> QED BY <3>1, <3>3
    <2>3. CASE l2[i][j] # m
      <3>1. j \in 1 .. Len(liste[i]) /\ h \in 1 .. Len(liste[k]) /\ liste[i][j] = liste[k][h]
        BY <1>3, <2>3
      <3> QED BY <1>8, <1>7, <3>1
    <2> QED BY <2>2, <2>3
  <1> QED BY <1>5, <1>6, <1>8 DEF Gagne

(* or makes a range of its own after one.                                   *)
LEMMA AllongeeGagne ==
    ASSUME NEW liste \in Listes, NEW l2 \in Listes, NEW p \in 1 .. Len(liste), NEW m \in Messages,
           Len(l2) = Len(liste) + 1, l2[p + 1] = <<m>>,
           \A k \in 1 .. p : l2[k] = liste[k],
           \A k \in p + 1 .. Len(liste) : l2[k + 1] = liste[k]
    PROVE  Gagne(liste, l2, {m})
  <1> DEFINE n == Len(liste)
  <1>1. n \in Nat /\ p \in 1 .. n /\ Len(l2) = n + 1 /\ p + 1 \in 1 .. n + 1
    BY DEF Listes
  <1>2. Len(l2[p + 1]) = 1 /\ l2[p + 1][1] = m
    OBVIOUS
  <1>3. ASSUME NEW i \in 1 .. n + 1
        PROVE  \/ i = p + 1
               \/ i \in 1 .. n /\ i <= p /\ l2[i] = liste[i]
               \/ i - 1 \in 1 .. n /\ i - 1 > p /\ l2[i] = liste[i - 1]
    <2>1. CASE i <= p
      <3>1. i \in 1 .. p
        BY <1>1, <2>1
      <3> QED BY <1>1, <2>1, <3>1
    <2>2. CASE i > p + 1
      <3>1. i - 1 \in p + 1 .. Len(liste) /\ i - 1 + 1 = i /\ i - 1 > p
        BY <1>1, <2>2
      <3> QED BY <1>1, <3>1
    <2>3. i <= p \/ i > p + 1 \/ i = p + 1
      BY <1>1
    <2> QED BY <2>1, <2>2, <2>3
  <1> HIDE DEF n
  <1>4. Fragments(l2) = Fragments(liste) \cup {m}
    <2>1. ASSUME NEW x \in Fragments(l2) PROVE x \in Fragments(liste) \cup {m}
      <3>0. PICK i \in 1 .. Len(l2) : \E j \in 1 .. Len(l2[i]) : l2[i][j] = x
        BY <2>1, FragmentsPlaces
      <3>1. i \in 1 .. n + 1 /\ \E j \in 1 .. Len(l2[i]) : l2[i][j] = x
        BY <1>1, <3>0
      <3>2. CASE i = p + 1
        <4>1. PICK j \in 1 .. Len(l2[p + 1]) : l2[p + 1][j] = x
          BY <3>1, <3>2
        <4>2. j = 1
          BY <1>2, <4>1
        <4> QED BY <1>2, <4>1, <4>2
      <3>3. CASE i \in 1 .. n /\ l2[i] = liste[i]
        BY <3>1, <3>3, FragmentsPlaces DEF n
      <3>4. CASE i - 1 \in 1 .. n /\ l2[i] = liste[i - 1]
        <4>1. PICK z \in 1 .. n : l2[i] = liste[z]
          BY <3>4
        <4> QED BY <3>1, <4>1, FragmentsPlaces DEF n
      <3> QED BY <1>3, <3>1, <3>2, <3>3, <3>4
    <2>2. ASSUME NEW x \in Fragments(liste) PROVE x \in Fragments(l2)
      <3>1. PICK i \in 1 .. n : \E j \in 1 .. Len(liste[i]) : liste[i][j] = x
        BY <2>2, FragmentsPlaces DEF n
      <3>2. CASE i <= p
        <4>1. i \in 1 .. Len(l2) /\ l2[i] = liste[i]
          BY <1>1, <3>2
        <4> QED BY <3>1, <4>1, FragmentsPlaces
      <3>3. CASE ~ (i <= p)
        <4>1. i + 1 \in 1 .. Len(l2) /\ l2[i + 1] = liste[i]
          BY <1>1, <3>3 DEF n
        <4> QED BY <3>1, <4>1, FragmentsPlaces
      <3> QED BY <3>2, <3>3
    <2>3. m \in Fragments(l2)
      <3>1. 1 \in 1 .. Len(l2[p + 1])
        BY <1>2
      <3> QED BY <1>1, <1>2, <3>1, FragmentsPlaces
    <2> QED BY <2>1, <2>2, <2>3
  <1>5. ASSUME Suivies(liste) PROVE Suivies(l2)
    <2> SUFFICES ASSUME NEW i \in 1 .. n + 1, NEW j \in 1 .. Len(l2[i]) - 1
                 PROVE  l2[i][j + 1].seq = l2[i][j].seq + 1
      BY <1>1 DEF Suivies
    <2>1. CASE i = p + 1
      <3>1. Len(l2[i]) = 1
        BY <1>2, <2>1
      <3> QED BY <3>1
    <2>2. CASE i \in 1 .. n /\ l2[i] = liste[i]
      BY <1>5, <2>2 DEF Suivies, n
    <2>3. CASE i - 1 \in 1 .. n /\ l2[i] = liste[i - 1]
      <3>1. PICK x \in 1 .. n : l2[i] = liste[x]
        BY <2>3
      <3>2. \A y \in 1 .. Len(liste[x]) - 1 : liste[x][y + 1].seq = liste[x][y].seq + 1
        BY <1>5 DEF Suivies, n
      <3>3. j \in 1 .. Len(liste[x]) - 1
        BY <3>1
      <3>4. liste[x][j + 1].seq = liste[x][j].seq + 1
        BY <3>2, <3>3
      <3> QED BY <3>1, <3>4
    <2> QED BY <1>3, <2>1, <2>2, <2>3
  <1>6. ASSUME UneFois(liste), m \notin Fragments(liste) PROVE UneFois(l2)
    <2> SUFFICES ASSUME NEW i \in 1 .. n + 1, NEW k \in 1 .. n + 1, NEW j \in 1 .. Len(l2[i]),
                        NEW h \in 1 .. Len(l2[k]), l2[i][j] = l2[k][h]
                 PROVE  i = k /\ j = h
      BY <1>1 DEF UneFois
    <2>1. \A x \in 1 .. n : \A y \in 1 .. Len(liste[x]) : liste[x][y] # m
      BY <1>6, FragmentsPlaces DEF n
    <2>2. \A x, y \in 1 .. n : \A u \in 1 .. Len(liste[x]) : \A w \in 1 .. Len(liste[y]) :
              liste[x][u] = liste[y][w] => x = y /\ u = w
      BY <1>6 DEF UneFois, n
    <2>3. CASE l2[i][j] = m
      <3>1. ASSUME NEW x \in 1 .. n + 1, NEW y \in 1 .. Len(l2[x]), l2[x][y] = m
            PROVE  x = p + 1
        <4>1. CASE x \in 1 .. n /\ l2[x] = liste[x]
          BY <2>1, <3>1, <4>1
        <4>2. CASE x - 1 \in 1 .. n /\ l2[x] = liste[x - 1]
          <5>1. PICK z \in 1 .. n : l2[x] = liste[z]
            BY <4>2
          <5> QED BY <2>1, <3>1, <5>1
        <4> QED BY <1>3, <4>1, <4>2
      <3>2. i = p + 1 /\ k = p + 1
        BY <2>3, <3>1
      <3> QED BY <1>2, <3>2
    <2>4. CASE l2[i][j] # m
      <3>1. i # p + 1 /\ k # p + 1
        BY <1>2, <2>4
      <3>2. PICK x \in 1 .. n : l2[i] = liste[x] /\ x = IF i <= p THEN i ELSE i - 1
        BY <1>1, <1>3, <3>1
      <3>3. PICK y \in 1 .. n : l2[k] = liste[y] /\ y = IF k <= p THEN k ELSE k - 1
        BY <1>1, <1>3, <3>1
      <3>4. x = y /\ j = h
        <4>1. PICK u \in 1 .. Len(liste[x]), w \in 1 .. Len(liste[y]) :
                u = j /\ w = h /\ liste[x][u] = liste[y][w]
          BY <3>2, <3>3
        <4>2. x = y /\ u = w
          BY <2>2, <4>1
        <4> QED BY <4>1, <4>2
      <3>5. i = k
        BY <1>1, <3>1, <3>2, <3>3, <3>4
      <3> QED BY <3>4, <3>5
    <2> QED BY <2>3, <2>4
  <1> QED BY <1>4, <1>5, <1>6 DEF Gagne
-----------------------------------------------------------------------------
LEMMA InsererPlaces ==
    ASSUME NEW S, NEW u \in Seq(S), NEW v \in Seq(S), NEW w \in Seq(S)
    PROVE  /\ u \o v \o w \in Seq(S) /\ Len(u \o v \o w) = Len(u) + Len(v) + Len(w)
           /\ \A k \in 1 .. Len(u) : (u \o v \o w)[k] = u[k]
           /\ \A k \in 1 .. Len(v) : (u \o v \o w)[Len(u) + k] = v[k]
           /\ \A k \in 1 .. Len(w) : (u \o v \o w)[Len(u) + Len(v) + k] = w[k]
  <1>1. PICK x \in Seq(S) : x = u \o v
    BY ConcatPlaces
  <1>2. /\ Len(u) \in Nat /\ Len(v) \in Nat /\ Len(x) = Len(u) + Len(v)
        /\ \A k \in 1 .. Len(u) : x[k] = u[k]
        /\ \A k \in 1 .. Len(v) : x[Len(u) + k] = v[k]
    BY <1>1, ConcatPlaces
  <1>3. /\ x \o w \in Seq(S) /\ Len(x \o w) = Len(x) + Len(w)
        /\ \A k \in 1 .. Len(x) : (x \o w)[k] = x[k]
        /\ \A k \in 1 .. Len(w) : (x \o w)[Len(x) + k] = w[k]
    BY ConcatPlaces
  <1>4. ASSUME NEW k \in 1 .. Len(u) PROVE (x \o w)[k] = u[k]
    <2>1. k \in 1 .. Len(x)
      BY <1>2
    <2> QED BY <1>2, <1>3, <2>1
  <1>5. ASSUME NEW k \in 1 .. Len(v) PROVE (x \o w)[Len(u) + k] = v[k]
    <2>1. Len(u) + k \in 1 .. Len(x)
      BY <1>2
    <2> QED BY <1>2, <1>3, <2>1
  <1> QED BY <1>1, <1>2, <1>3, <1>4, <1>5

LEMMA ReprendrePlages ==
    ASSUME NEW u \in Seq(Plages), NEW p \in 1 .. Len(u)
    PROVE  /\ SubSeq(u, p + 1, Len(u)) \in Seq(Plages) /\ Len(SubSeq(u, p + 1, Len(u))) = Len(u) - p
           /\ \A k \in 1 .. Len(u) - p : SubSeq(u, p + 1, Len(u))[k] = u[p + k]
  BY SMT

LEMMA InsererPlages ==
    ASSUME NEW u \in Seq(Plages), NEW v \in Seq(Plages), NEW w \in Seq(Plages)
    PROVE  /\ u \o v \o w \in Seq(Plages) /\ Len(u \o v \o w) = Len(u) + Len(v) + Len(w)
           /\ \A k \in 1 .. Len(u) : (u \o v \o w)[k] = u[k]
           /\ \A k \in 1 .. Len(v) : (u \o v \o w)[Len(u) + k] = v[k]
           /\ \A k \in 1 .. Len(w) : (u \o v \o w)[Len(u) + Len(v) + k] = w[k]
  BY InsererPlaces

(* What comes before range p in a list, and what comes after.               *)
LEMMA AvantReste ==
    ASSUME NEW liste \in Listes, NEW p \in 1 .. Len(liste)
    PROVE  /\ SubSeq(liste, 1, p - 1) \in Seq(Plages) /\ Len(SubSeq(liste, 1, p - 1)) = p - 1
           /\ \A k \in 1 .. p - 1 : SubSeq(liste, 1, p - 1)[k] = liste[k]
           /\ SubSeq(liste, p + 1, Len(liste)) \in Seq(Plages)
           /\ Len(SubSeq(liste, p + 1, Len(liste))) = Len(liste) - p
           /\ \A k \in 1 .. Len(liste) - p : SubSeq(liste, p + 1, Len(liste))[k] = liste[p + k]
  <1> DEFINE avant == SubSeq(liste, 1, p - 1)
  <1>1. PICK n \in Nat : n = Len(liste)
    BY DEF Listes
  <1>2. liste \in Seq(Plages) /\ \A k \in 1 .. p - 1 : liste[k] \in Plages
    BY DEF Listes
  <1>3. /\ avant \in Seq(Plages) /\ Len(avant) = IF 1 <= p - 1 THEN p - 1 - 1 + 1 ELSE 0
        /\ \A k \in 1 .. p - 1 - 1 + 1 : avant[k] = liste[1 + k - 1]
    BY <1>1, <1>2, SubSeqProperties
  <1>4. /\ SubSeq(liste, p + 1, Len(liste)) \in Seq(Plages)
        /\ Len(SubSeq(liste, p + 1, Len(liste))) = Len(liste) - p
        /\ \A k \in 1 .. Len(liste) - p : SubSeq(liste, p + 1, Len(liste))[k] = liste[p + k]
    BY <1>2, ReprendrePlages
  <1> HIDE DEF avant
  <1>5. Len(avant) = p - 1
    BY <1>3
  <1>6. ASSUME NEW k \in 1 .. p - 1 PROVE avant[k] = liste[k]
    <2>1. k \in 1 .. p - 1 - 1 + 1 /\ 1 + k - 1 = k
      OBVIOUS
    <2> QED BY <1>3, <2>1
  <1>7. avant \in Seq(Plages) /\ Len(avant) = p - 1 /\ \A k \in 1 .. p - 1 : avant[k] = liste[k]
    BY <1>3, <1>5, <1>6
  <1> QED BY <1>4, <1>7, Zenon DEF avant

(* The list in which range p has grown,                                     *)
LEMMA GrandiePlaces ==
    ASSUME NEW liste \in Listes, NEW p \in 1 .. Len(liste), NEW m \in Messages
    PROVE  \E z \in Listes :
             /\ z = SubSeq(liste, 1, p - 1) \o <<Append(liste[p], m)>> \o SubSeq(liste, p + 1, Len(liste))
             /\ Len(z) = Len(liste) /\ z[p] = Append(liste[p], m)
             /\ \A k \in 1 .. Len(liste) : k # p => z[k] = liste[k]
  <1>1. PICK n \in Nat : n = Len(liste)
    BY DEF Listes
  <1> DEFINE u == SubSeq(liste, 1, p - 1)
             w == SubSeq(liste, p + 1, Len(liste))
             x == <<Append(liste[p], m)>>
             z == u \o x \o w
  <1>2. /\ u \in Seq(Plages) /\ Len(u) = p - 1 /\ \A k \in 1 .. p - 1 : u[k] = liste[k]
        /\ w \in Seq(Plages) /\ Len(w) = n - p /\ \A k \in 1 .. n - p : w[k] = liste[p + k]
    BY <1>1, AvantReste, Zenon
  <1> HIDE DEF u, w
  <1>3. x \in Seq(Plages) /\ Len(x) = 1 /\ x[1] = Append(liste[p], m)
    <2>1. Append(liste[p], m) \in Plages
      <3>1. PICK y \in Seq(Messages) : y = liste[p]
        BY PlageType
      <3>2. Append(y, m) \in Seq(Messages) /\ Append(y, m) # <<>>
        BY <3>1
      <3> QED BY <3>1, <3>2 DEF Plages
    <2> QED BY <2>1
  <1> HIDE DEF x
  <1>4. /\ z \in Seq(Plages) /\ Len(z) = Len(u) + Len(x) + Len(w)
        /\ \A k \in 1 .. Len(u) : z[k] = u[k]
        /\ \A k \in 1 .. Len(x) : z[Len(u) + k] = x[k]
        /\ \A k \in 1 .. Len(w) : z[Len(u) + Len(x) + k] = w[k]
    BY <1>2, <1>3, InsererPlages
  <1> HIDE DEF z
  <1>5. Len(z) = n /\ z[p] = Append(liste[p], m)
    <2>1. 1 \in 1 .. Len(x) /\ Len(u) + 1 = p
      BY <1>2, <1>3
    <2> QED BY <1>1, <1>2, <1>3, <1>4, <2>1
  <1>6. ASSUME NEW k \in 1 .. n, k # p PROVE z[k] = liste[k]
    <2>1. CASE k < p
      <3>1. k \in 1 .. p - 1
        BY <1>1, <2>1
      <3> QED BY <1>2, <1>4, <3>1
    <2>2. CASE k > p
      <3>1. k - p \in 1 .. n - p /\ p + (k - p) = k /\ Len(u) + Len(x) + (k - p) = k
        BY <1>1, <1>2, <1>3, <2>2
      <3>2. z[k] = w[k - p] /\ w[k - p] = liste[k]
        BY <1>2, <1>4, <3>1
      <3> QED BY <3>2
    <2> QED BY <1>1, <1>6, <2>1, <2>2
  <1>7. z = SubSeq(liste, 1, p - 1) \o <<Append(liste[p], m)>> \o SubSeq(liste, p + 1, Len(liste))
    BY DEF z, x, u, w
  <1>8. z \in Listes
    BY <1>4 DEF Listes
  <1> QED BY <1>1, <1>5, <1>6, <1>7, <1>8

(* and the one that has a new range after p.                                *)
LEMMA AllongeePlaces ==
    ASSUME NEW liste \in Listes, NEW p \in 1 .. Len(liste), NEW m \in Messages
    PROVE  \E z \in Listes :
             /\ z = SubSeq(liste, 1, p - 1) \o <<liste[p], <<m>>>> \o SubSeq(liste, p + 1, Len(liste))
             /\ Len(z) = Len(liste) + 1 /\ z[p + 1] = <<m>>
             /\ \A k \in 1 .. p : z[k] = liste[k]
             /\ \A k \in p + 1 .. Len(liste) : z[k + 1] = liste[k]
  <1>1. PICK n \in Nat : n = Len(liste)
    BY DEF Listes
  <1> DEFINE u == SubSeq(liste, 1, p - 1)
             w == SubSeq(liste, p + 1, Len(liste))
             x == <<liste[p], <<m>>>>
             z == u \o x \o w
  <1>2. /\ u \in Seq(Plages) /\ Len(u) = p - 1 /\ \A k \in 1 .. p - 1 : u[k] = liste[k]
        /\ w \in Seq(Plages) /\ Len(w) = n - p /\ \A k \in 1 .. n - p : w[k] = liste[p + k]
    BY <1>1, AvantReste, Zenon
  <1> HIDE DEF u, w
  <1>3. x \in Seq(Plages) /\ Len(x) = 2 /\ x[1] = liste[p] /\ x[2] = <<m>>
    <2>1. liste[p] \in Plages /\ <<m>> \in Plages
      BY DEF Listes, Plages
    <2> QED BY <2>1
  <1> HIDE DEF x
  <1>4. /\ z \in Seq(Plages) /\ Len(z) = Len(u) + Len(x) + Len(w)
        /\ \A k \in 1 .. Len(u) : z[k] = u[k]
        /\ \A k \in 1 .. Len(x) : z[Len(u) + k] = x[k]
        /\ \A k \in 1 .. Len(w) : z[Len(u) + Len(x) + k] = w[k]
    <2>1. u \in Seq(Plages) /\ x \in Seq(Plages) /\ w \in Seq(Plages)
      BY <1>2, <1>3
    <2> QED BY Zenon, <2>1, InsererPlages
  <1> HIDE DEF z
  <1>5. Len(z) = n + 1 /\ z[p] = liste[p] /\ z[p + 1] = <<m>>
    <2>1. 1 \in 1 .. Len(x) /\ 2 \in 1 .. Len(x) /\ Len(u) + 1 = p /\ Len(u) + 2 = p + 1
      BY <1>2, <1>3
    <2>2. z[p] = x[1] /\ z[p + 1] = x[2]
      BY <1>4, <2>1
    <2>3. Len(z) = n + 1
      BY <1>1, <1>2, <1>3, <1>4
    <2> QED BY <1>3, <2>2, <2>3
  <1>6. ASSUME NEW k \in 1 .. p PROVE z[k] = liste[k]
    <2>1. CASE k < p
      <3>1. k \in 1 .. p - 1
        BY <1>1, <2>1
      <3> QED BY <1>2, <1>4, <3>1
    <2>2. CASE k = p
      BY <1>5, <2>2
    <2> QED BY <1>1, <2>1, <2>2
  <1>7. ASSUME NEW k \in p + 1 .. n PROVE z[k + 1] = liste[k]
    <2>1. k - p \in 1 .. n - p /\ p + (k - p) = k /\ Len(u) + Len(x) + (k - p) = k + 1
      BY <1>1, <1>2, <1>3
    <2>2. z[k + 1] = w[k - p] /\ w[k - p] = liste[k]
      BY <1>2, <1>4, <2>1
    <2> QED BY <2>2
  <1>8. z = SubSeq(liste, 1, p - 1) \o <<liste[p], <<m>>>> \o SubSeq(liste, p + 1, Len(liste))
    BY DEF z, x, u, w
  <1>9. z \in Listes
    BY <1>4 DEF Listes
  <1> QED BY <1>1, <1>5, <1>6, <1>7, <1>8, <1>9

(* append_frag_to_ordered_list keeps what the list holds and adds the       *)
(* fragment, wherever the search ended and whatever was merged.             *)
LEMMA Append_ordonneGagne ==
    ASSUME NEW liste \in Listes, NEW m \in Messages, NEW seq
    PROVE  Gagne(liste, Append_ordonne(liste, m, seq), {m})
  <1>1. CASE liste = <<>>
    <2> DEFINE l2 == <<<<m>>>>
    <2>1. l2 = Append_ordonne(liste, m, seq) /\ l2 \in Listes
      BY <1>1, Append_ordonneType DEF Append_ordonne
    <2>2. Len(liste) = 0 /\ Len(l2) = 1 /\ Len(l2[1]) = 1 /\ l2[1][1] = m
      BY <1>1
    <2> HIDE DEF l2
    <2>3. Fragments(liste) = {} /\ Fragments(l2) = {m}
      <3>1. \A x : x \notin Fragments(liste)
        BY <2>2, FragmentsPlaces
      <3>2. ASSUME NEW x PROVE x \in Fragments(l2) <=> x = m
        <4>1. x \in Fragments(l2) <=> \E i \in 1 .. 1 : \E j \in 1 .. Len(l2[i]) : l2[i][j] = x
          BY <2>2, FragmentsPlaces
        <4> QED BY <2>2, <4>1
      <3> QED BY <3>1, <3>2
    <2>4. Suivies(l2) /\ UneFois(l2)
      <3>1. \A i \in 1 .. 1 : i = 1
        OBVIOUS
      <3> QED BY <2>2, <3>1 DEF Suivies, UneFois
    <2> QED BY <2>1, <2>3, <2>4 DEF Gagne
  <1>2. CASE liste # <<>>
    <2> DEFINE n == Len(liste)
               p == Prior(liste, m.seq)
               suite == Fin(liste[p]) + 1 = m.seq
               avant == SubSeq(liste, 1, p - 1)
               reste == SubSeq(liste, p + 1, n)
               grandie == avant \o <<Append(liste[p], m)>> \o reste
               allongee == avant \o <<liste[p], <<m>>>> \o reste
               plages == IF suite THEN Tourner(grandie, p) ELSE Tourner(allongee, p + 1)
               nouvelleTete == /\ ~ suite
                               /\ m.seq >= seq
                               /\ Ecart(m.seq, seq) < Ecart(Debut(liste, 1), seq)
               tete == IF nouvelleTete THEN m ELSE liste[1][1]
               fusion == Fusionner(plages)
               places == {i \in 1 .. Len(fusion) : fusion[i][1] = tete}
    <2>1. p \in 1 .. Len(liste) /\ n \in Nat
      BY <1>2, PriorDansListe DEF Messages, Listes
    <2>2. Append_ordonne(liste, m, seq) = IF places = {} THEN fusion ELSE Tourner(fusion, Min(places))
      BY <1>2, Zenon DEF Append_ordonne, p
    <2> HIDE DEF p
    <2>3. suite => Gagne(liste, grandie, {m}) /\ Len(grandie) = n
      <3> HIDE DEF n
      <3>1. PICK z \in Listes : /\ z = grandie /\ Len(z) = Len(liste) /\ z[p] = Append(liste[p], m)
                                /\ \A k \in 1 .. Len(liste) : k # p => z[k] = liste[k]
        BY <2>1, GrandiePlaces DEF n
      <3> HIDE DEF grandie
      <3>2. suite => Gagne(liste, z, {m})
        BY <2>1, <3>1, GrandieGagne
      <3> QED BY <3>1, <3>2 DEF n
    <2>4. Gagne(liste, allongee, {m}) /\ Len(allongee) = n + 1
      <3> HIDE DEF n
      <3>1. PICK z \in Listes : /\ z = allongee /\ Len(z) = Len(liste) + 1 /\ z[p + 1] = <<m>>
                                /\ \A k \in 1 .. p : z[k] = liste[k]
                                /\ \A k \in p + 1 .. Len(liste) : z[k + 1] = liste[k]
        BY <2>1, AllongeePlaces DEF n
      <3> HIDE DEF allongee
      <3>2. Gagne(liste, z, {m})
        BY <2>1, <3>1, AllongeeGagne
      <3> QED BY <3>1, <3>2 DEF n
    <2> HIDE DEF n, grandie, allongee, suite
    <2>5. Gagne(liste, plages, {m})
      <3>1. CASE suite
        <4>1. Gagne(liste, grandie, {m}) /\ grandie \in Listes /\ p \in 1 .. Len(grandie)
          BY <2>1, <2>3, <3>1 DEF Gagne, n
        <4>2. Gagne(grandie, Tourner(grandie, p), {})
          BY <4>1, TournerGagne
        <4> QED BY <3>1, <4>1, <4>2, GagneEnsuite
      <3>2. CASE ~ suite
        <4>1. Gagne(liste, allongee, {m}) /\ allongee \in Listes /\ p + 1 \in 1 .. Len(allongee)
          BY <2>1, <2>4 DEF Gagne, n
        <4>2. Gagne(allongee, Tourner(allongee, p + 1), {})
          BY <4>1, TournerGagne
        <4> QED BY <3>2, <4>1, <4>2, GagneEnsuite
      <3> QED BY <3>1, <3>2
    <2> HIDE DEF plages, tete
    <2>6. Gagne(liste, fusion, {m})
      <3>1. Gagne(plages, fusion, {})
        BY <2>5, FusionnerGagne DEF Gagne
      <3> QED BY <2>5, <3>1, GagneEnsuite
    <2> HIDE DEF fusion
    <2>7. ASSUME places # {} PROVE Gagne(liste, Tourner(fusion, Min(places)), {m})
      <3>1. places \subseteq Nat /\ places \subseteq 1 .. Len(fusion)
        OBVIOUS
      <3>2. Min(places) \in 1 .. Len(fusion)
        <4> HIDE DEF places
        <4> QED BY <2>7, <3>1, MinProprietes
      <3> HIDE DEF places
      <3>3. Gagne(fusion, Tourner(fusion, Min(places)), {})
        BY <2>6, <3>2, TournerGagne DEF Gagne
      <3> QED BY <2>6, <3>3, GagneEnsuite
    <2> HIDE DEF places
    <2> QED BY <2>2, <2>6, <2>7
  <1> QED BY <1>1, <1>2
-----------------------------------------------------------------------------
(* remove_head_from_ordered_list takes the first fragment and no other.     *)
LEMMA Sans_teteFragments ==
    ASSUME NEW liste \in Listes, liste # <<>>
    PROVE  /\ Sans_tete(liste) \in Listes /\ liste[1][1] \in Fragments(liste)
           /\ Suivies(liste) => Suivies(Sans_tete(liste))
           /\ UneFois(liste) => /\ UneFois(Sans_tete(liste))
                                /\ Fragments(Sans_tete(liste)) = Fragments(liste) \ {liste[1][1]}
  <1> DEFINE n == Len(liste)
             t == liste[1][1]
             a == Len(liste[1])
  <1>1. n \in Nat \ {0} /\ 1 \in 1 .. n /\ a \in Nat \ {0} /\ 1 \in 1 .. a /\ liste[1] \in Seq(Messages)
    <2>1. n \in Nat \ {0} /\ 1 \in 1 .. n
      BY DEF Listes
    <2>2. a \in Nat \ {0} /\ liste[1] \in Seq(Messages)
      BY <2>1, PlageType
    <2> QED BY <2>1, <2>2
  <1>2. t \in Fragments(liste)
    BY <1>1, FragmentsPlaces
  <1>3. Sans_tete(liste) \in Listes
    BY Sans_teteType
  (* the places of the new list: each is one of the old, but the first      *)
  <1> DEFINE Places(l2, d) ==
               /\ \A i \in 1 .. n - d : \A j \in 1 .. Len(l2[i]) :
                    \E x \in 1 .. n : \E y \in 1 .. Len(liste[x]) :
                       /\ l2[i][j] = liste[x][y] /\ x = i + d /\ y = IF d = 0 /\ i = 1 THEN j + 1 ELSE j
                       /\ j < Len(l2[i]) => y + 1 \in 1 .. Len(liste[x]) /\ l2[i][j + 1] = liste[x][y + 1]
               /\ \A x \in 1 .. n : \A y \in 1 .. Len(liste[x]) :
                    (x = 1 /\ y = 1) \/ \E i \in 1 .. n - d : \E j \in 1 .. Len(l2[i]) : l2[i][j] = liste[x][y]
  <1>4. ASSUME NEW l2 \in Listes, NEW d \in 0 .. 1, Len(l2) = n - d, Places(l2, d)
        PROVE  /\ Suivies(liste) => Suivies(l2)
               /\ UneFois(liste) => UneFois(l2) /\ Fragments(l2) = Fragments(liste) \ {t}
    <2>a. \A i \in 1 .. n - d : \A j \in 1 .. Len(l2[i]) :
            \E x \in 1 .. n : \E y \in 1 .. Len(liste[x]) :
               /\ l2[i][j] = liste[x][y] /\ x = i + d /\ y = IF d = 0 /\ i = 1 THEN j + 1 ELSE j
               /\ j < Len(l2[i]) => y + 1 \in 1 .. Len(liste[x]) /\ l2[i][j + 1] = liste[x][y + 1]
      BY Zenon, <1>4
    <2>b. \A x \in 1 .. n : \A y \in 1 .. Len(liste[x]) :
            (x = 1 /\ y = 1) \/ \E i \in 1 .. n - d : \E j \in 1 .. Len(l2[i]) : l2[i][j] = liste[x][y]
      BY Zenon, <1>4
    <2> HIDE DEF n, a, Places
    <2>c. Len(l2) = n - d
      BY <1>4
    <2>1. ASSUME Suivies(liste) PROVE Suivies(l2)
      <3> SUFFICES ASSUME NEW i \in 1 .. n - d, NEW j \in 1 .. Len(l2[i]) - 1
                   PROVE  l2[i][j + 1].seq = l2[i][j].seq + 1
        BY <2>c DEF Suivies
      <3>1. Len(l2[i]) \in Nat /\ j \in 1 .. Len(l2[i]) /\ j < Len(l2[i])
        BY <2>c, PlageType
      <3>2. PICK x \in 1 .. n : \E y \in 1 .. Len(liste[x]) :
                /\ l2[i][j] = liste[x][y]
                /\ y + 1 \in 1 .. Len(liste[x]) /\ l2[i][j + 1] = liste[x][y + 1]
        BY <2>a, <3>1
      <3>3. PICK y \in 1 .. Len(liste[x]) :
                /\ l2[i][j] = liste[x][y]
                /\ y + 1 \in 1 .. Len(liste[x]) /\ l2[i][j + 1] = liste[x][y + 1]
        BY <3>2
      <3>4. y \in 1 .. Len(liste[x]) - 1
        <4>1. Len(liste[x]) \in Nat
          BY PlageType DEF n
        <4> QED BY <3>3, <4>1
      <3>5. liste[x][y + 1].seq = liste[x][y].seq + 1
        BY <2>1, <3>4 DEF Suivies, n
      <3> QED BY <3>3, <3>5
    <2>2. ASSUME UneFois(liste) PROVE UneFois(l2) /\ Fragments(l2) = Fragments(liste) \ {t}
      <3>1. \A x, y \in 1 .. n : \A u \in 1 .. Len(liste[x]) : \A w \in 1 .. Len(liste[y]) :
              liste[x][u] = liste[y][w] => x = y /\ u = w
        BY <2>2 DEF UneFois, n
      <3>2. UneFois(l2)
        <4> SUFFICES ASSUME NEW i \in 1 .. n - d, NEW k \in 1 .. n - d, NEW j \in 1 .. Len(l2[i]),
                            NEW h \in 1 .. Len(l2[k]), l2[i][j] = l2[k][h]
                     PROVE  i = k /\ j = h
          BY <2>c DEF UneFois
        <4>1. PICK x \in 1 .. n : \E u \in 1 .. Len(liste[x]) :
                l2[i][j] = liste[x][u] /\ x = i + d /\ u = IF d = 0 /\ i = 1 THEN j + 1 ELSE j
          BY <2>a
        <4>2. PICK u \in 1 .. Len(liste[x]) :
                l2[i][j] = liste[x][u] /\ x = i + d /\ u = IF d = 0 /\ i = 1 THEN j + 1 ELSE j
          BY <4>1
        <4>3. PICK y \in 1 .. n : \E w \in 1 .. Len(liste[y]) :
                l2[k][h] = liste[y][w] /\ y = k + d /\ w = IF d = 0 /\ k = 1 THEN h + 1 ELSE h
          BY <2>a
        <4>4. PICK w \in 1 .. Len(liste[y]) :
                l2[k][h] = liste[y][w] /\ y = k + d /\ w = IF d = 0 /\ k = 1 THEN h + 1 ELSE h
          BY <4>3
        <4>5. liste[x][u] = liste[y][w]
          BY <4>2, <4>4
        <4>6. x = y /\ u = w
          <5>1. ASSUME NEW p \in 1 .. n, NEW q \in 1 .. n, NEW r \in 1 .. Len(liste[p]), NEW s \in 1 .. Len(liste[q]),
                       liste[p][r] = liste[q][s]
                PROVE  p = q /\ r = s
            BY <3>1, <5>1
          <5> QED BY <4>5, <5>1
        <4>7. i = k
          BY <1>1, <4>2, <4>4, <4>6
        <4> QED BY <1>1, <4>2, <4>4, <4>6, <4>7
      <3>3. ASSUME NEW m \in Fragments(l2) PROVE m \in Fragments(liste) \ {t}
        <4>1. PICK i \in 1 .. Len(l2) : \E j \in 1 .. Len(l2[i]) : l2[i][j] = m
          BY <3>3, FragmentsPlaces
        <4>2. PICK j \in 1 .. Len(l2[i]) : l2[i][j] = m
          BY <4>1
        <4>3. i \in 1 .. n - d
          BY <2>c
        <4>4. PICK x \in 1 .. n : \E u \in 1 .. Len(liste[x]) :
                l2[i][j] = liste[x][u] /\ x = i + d /\ u = IF d = 0 /\ i = 1 THEN j + 1 ELSE j
          BY <2>a, <4>3
        <4>5. PICK u \in 1 .. Len(liste[x]) :
                l2[i][j] = liste[x][u] /\ x = i + d /\ u = IF d = 0 /\ i = 1 THEN j + 1 ELSE j
          BY <4>4
        <4>6. ~ (x = 1 /\ u = 1)
          BY <1>1, <4>3, <4>5
        <4>7. m # t
          <5>1. 1 \in 1 .. Len(liste[1]) /\ t = liste[1][1]
            BY <1>1 DEF a
          <5>2. liste[x][u] = m
            BY <4>2, <4>5
          <5>3. ASSUME liste[x][u] = liste[1][1] PROVE x = 1 /\ u = 1
            BY <1>1, <3>1, <5>1, <5>3
          <5> QED BY Zenon, <4>6, <5>1, <5>2, <5>3
        <4>8. m \in Fragments(liste)
          BY <4>2, <4>5, FragmentsPlaces DEF n
        <4> QED BY <4>7, <4>8
      <3>4. ASSUME NEW m \in Fragments(liste), m # t PROVE m \in Fragments(l2)
        <4>1. PICK x \in 1 .. n : \E u \in 1 .. Len(liste[x]) : liste[x][u] = m
          BY <3>4, FragmentsPlaces DEF n
        <4>2. PICK u \in 1 .. Len(liste[x]) : liste[x][u] = m
          BY <4>1
        <4>3. PICK i \in 1 .. n - d : \E j \in 1 .. Len(l2[i]) : l2[i][j] = m
          <5>1. ~ (x = 1 /\ u = 1)
            BY <3>4, <4>2
          <5>2. PICK i \in 1 .. n - d : \E j \in 1 .. Len(l2[i]) : l2[i][j] = liste[x][u]
            BY Zenon, <2>b, <5>1
          <5> QED BY <4>2, <5>2
        <4>4. i \in 1 .. Len(l2)
          BY <2>c
        <4> QED BY <4>3, <4>4, FragmentsPlaces
      <3> QED BY <3>2, <3>3, <3>4
    <2> QED BY <2>1, <2>2
  <1>5. CASE a = 1
    <2>1. PICK l2 \in Listes : l2 = Sans_tete(liste)
      BY <1>3
    <2>2. Len(l2) = n - 1 /\ \A i \in 1 .. n - 1 : l2[i] = liste[i + 1]
      <3>1. l2 = Tail(liste)
        BY <1>5, <2>1 DEF Sans_tete
      <3> QED BY <1>1, <3>1 DEF Listes
    <2> HIDE DEF n, a
    <2>3. ASSUME NEW i \in 1 .. n - 1, NEW j \in 1 .. Len(l2[i])
          PROVE  \E x \in 1 .. n : \E y \in 1 .. Len(liste[x]) :
                    /\ l2[i][j] = liste[x][y] /\ x = i + 1 /\ y = IF 1 = 0 /\ i = 1 THEN j + 1 ELSE j
                    /\ j < Len(l2[i]) => y + 1 \in 1 .. Len(liste[x]) /\ l2[i][j + 1] = liste[x][y + 1]
      <3>1. i + 1 \in 1 .. n /\ l2[i] = liste[i + 1]
        BY <1>1, <2>2
      <3>2. Len(l2[i]) \in Nat
        BY <2>2, PlageType
      <3> QED BY <3>1, <3>2
    <2>4. ASSUME NEW x \in 1 .. n, NEW y \in 1 .. Len(liste[x])
          PROVE  (x = 1 /\ y = 1) \/ \E i \in 1 .. n - 1 : \E j \in 1 .. Len(l2[i]) : l2[i][j] = liste[x][y]
      <3>1. CASE x = 1
        <4>1. Len(liste[x]) = 1
          BY <1>5, <3>1 DEF a
        <4> QED BY <3>1, <4>1
      <3>2. CASE x # 1
        <4>1. x - 1 \in 1 .. n - 1 /\ l2[x - 1] = liste[x]
          BY <1>1, <2>2, <3>2
        <4> QED BY <4>1
      <3> QED BY <3>1, <3>2
    <2>5. Places(l2, 1)
      BY <2>3, <2>4
    <2> HIDE DEF Places
    <2>6. /\ Suivies(liste) => Suivies(l2)
          /\ UneFois(liste) => UneFois(l2) /\ Fragments(l2) = Fragments(liste) \ {t}
      BY <1>4, <2>2, <2>5, 1 \in 0 .. 1
    <2> QED BY <1>2, <1>3, <2>1, <2>6
  <1>6. CASE a # 1
    <2>1. PICK l2 \in Listes : l2 = Sans_tete(liste)
      BY <1>3
    <2>2. /\ Len(l2) = n /\ l2[1] = Tail(liste[1])
          /\ \A i \in 1 .. n : i # 1 => l2[i] = liste[i]
      <3>1. l2 = [liste EXCEPT ![1] = Tail(liste[1])]
        BY <1>6, <2>1 DEF Sans_tete
      <3> QED BY <1>1, <3>1 DEF Listes
    <2>3. Len(l2[1]) = a - 1 /\ \A j \in 1 .. a - 1 : l2[1][j] = liste[1][j + 1]
      BY <1>1, <2>2
    <2> HIDE DEF n, a
    <2>4. ASSUME NEW i \in 1 .. n, NEW j \in 1 .. Len(l2[i])
          PROVE  \E x \in 1 .. n : \E y \in 1 .. Len(liste[x]) :
                    /\ l2[i][j] = liste[x][y] /\ x = i /\ y = IF i = 1 THEN j + 1 ELSE j
                    /\ j < Len(l2[i]) => y + 1 \in 1 .. Len(liste[x]) /\ l2[i][j + 1] = liste[x][y + 1]
      <3>1. CASE i = 1
        <4>1. j \in 1 .. a - 1 /\ j + 1 \in 1 .. Len(liste[1]) /\ l2[1][j] = liste[1][j + 1]
          BY <1>1, <2>3, <3>1 DEF a
        <4>2. j < a - 1 => j + 1 \in 1 .. a - 1 /\ j + 1 + 1 \in 1 .. Len(liste[1])
                           /\ l2[1][j + 1] = liste[1][j + 1 + 1]
          BY <1>1, <2>3, <4>1 DEF a
        <4> QED BY <1>1, <2>3, <3>1, <4>1, <4>2
      <3>2. CASE i # 1
        <4>1. l2[i] = liste[i]
          BY <2>2, <3>2
        <4>2. Len(l2[i]) \in Nat
          BY <2>2, PlageType
        <4> QED BY <3>2, <4>1, <4>2
      <3> QED BY <3>1, <3>2
    <2>5. ASSUME NEW x \in 1 .. n, NEW y \in 1 .. Len(liste[x])
          PROVE  (x = 1 /\ y = 1) \/ \E i \in 1 .. n : \E j \in 1 .. Len(l2[i]) : l2[i][j] = liste[x][y]
      <3>1. CASE x = 1 /\ y # 1
        <4>1. y - 1 \in 1 .. a - 1 /\ y - 1 \in 1 .. Len(l2[1]) /\ l2[1][y - 1] = liste[1][y]
          BY <1>1, <2>3, <3>1 DEF a
        <4> QED BY <1>1, <3>1, <4>1
      <3>2. CASE x # 1
        <4>1. l2[x] = liste[x]
          BY <2>2, <3>2
        <4> QED BY <4>1
      <3> QED BY <3>1, <3>2
    <2>6. /\ Len(l2) = n - 0 /\ n - 0 = n
          /\ \A i \in 1 .. n : i + 0 = i
      BY <1>1, <2>2
    <2>7. Places(l2, 0)
      <3>1. n - 0 = n
        BY <2>6
      <3>2. ASSUME NEW i \in 1 .. n - 0, NEW j \in 1 .. Len(l2[i])
            PROVE  \E x \in 1 .. n : \E y \in 1 .. Len(liste[x]) :
                      /\ l2[i][j] = liste[x][y] /\ x = i + 0 /\ y = IF 0 = 0 /\ i = 1 THEN j + 1 ELSE j
                      /\ j < Len(l2[i]) => y + 1 \in 1 .. Len(liste[x]) /\ l2[i][j + 1] = liste[x][y + 1]
        <4>1. i \in 1 .. n /\ i + 0 = i
          BY <3>1
        <4>0. PICK x \in 1 .. n : \E y \in 1 .. Len(liste[x]) :
                /\ l2[i][j] = liste[x][y] /\ x = i /\ y = IF i = 1 THEN j + 1 ELSE j
                /\ j < Len(l2[i]) => y + 1 \in 1 .. Len(liste[x]) /\ l2[i][j + 1] = liste[x][y + 1]
          BY Zenon, <2>4, <4>1
        <4>2. PICK y \in 1 .. Len(liste[x]) :
                /\ l2[i][j] = liste[x][y] /\ x = i /\ y = IF i = 1 THEN j + 1 ELSE j
                /\ j < Len(l2[i]) => y + 1 \in 1 .. Len(liste[x]) /\ l2[i][j + 1] = liste[x][y + 1]
          BY Zenon, <4>0
        <4>3. x = i + 0 /\ y = IF 0 = 0 /\ i = 1 THEN j + 1 ELSE j
          BY <4>1, <4>2
        <4> QED BY Zenon, <4>2, <4>3
      <3>3. ASSUME NEW x \in 1 .. n, NEW y \in 1 .. Len(liste[x])
            PROVE  (x = 1 /\ y = 1) \/ \E i \in 1 .. n - 0 : \E j \in 1 .. Len(l2[i]) : l2[i][j] = liste[x][y]
        BY <2>5, <3>1
      <3> QED BY Zenon, <3>2, <3>3
    <2> HIDE DEF Places
    <2>8. /\ Suivies(liste) => Suivies(l2)
          /\ UneFois(liste) => UneFois(l2) /\ Fragments(l2) = Fragments(liste) \ {t}
      BY <1>4, <2>6, <2>7, 0 \in 0 .. 1
    <2> QED BY <1>2, <1>3, <2>1, <2>8
  <1> QED BY <1>5, <1>6
-----------------------------------------------------------------------------
(* Numbers are taken modulo Modulo.                                         *)
LEMMA Division ==
    ASSUME NEW x \in Nat
    PROVE  /\ x = Modulo * (x \div Modulo) + (x % Modulo)
           /\ x % Modulo \in 0 .. Modulo - 1 /\ x \div Modulo \in Nat
  BY ModuloAssumption

LEMMA Reste ==
    ASSUME NEW q \in Int, NEW r \in 0 .. Modulo - 1
    PROVE  (Modulo * q + r) % Modulo = r
  BY ModuloAssumption

(* Two that are less than Modulo apart are the same if their numbers are;   *)
LEMMA MemeNumero ==
    ASSUME NEW a \in Nat, NEW b \in Nat, a <= b, b - a < Modulo, a % Modulo = b % Modulo
    PROVE  a = b
  <1> DEFINE q == (b \div Modulo) - (a \div Modulo)
  <1>1. q \in Int /\ b - a = Modulo * q
    <2>1. PICK u \in Nat, v \in Nat, r \in Nat :
            /\ u = a \div Modulo /\ v = b \div Modulo
            /\ a = Modulo * u + r /\ b = Modulo * v + r
      BY Division
    <2>2. Modulo * v - Modulo * u = Modulo * (v - u)
      BY ModuloAssumption
    <2>3. Modulo * u \in Nat /\ Modulo * v \in Nat
      BY ModuloAssumption
    <2>4. b - a = Modulo * v - Modulo * u
      BY <2>1, <2>3
    <2> QED BY <2>1, <2>2, <2>4
  <1> HIDE DEF q
  <1>2. CASE q <= 0
    <2>1. Modulo * q <= 0
      BY <1>1, <1>2, ModuloAssumption
    <2> QED BY <1>1, <2>1
  <1>3. CASE q >= 1
    <2>1. Modulo * q >= Modulo
      BY <1>1, <1>3, ModuloAssumption
    <2> QED BY <1>1, <2>1, ModuloAssumption
  <1> QED BY <1>1, <1>2, <1>3

(* the number of the next one is the next number.                           *)
LEMMA NumeroSuivant ==
    ASSUME NEW a \in Nat
    PROVE  ((a % Modulo) + 1) % Modulo = (a + 1) % Modulo
  <1>1. PICK q \in Nat, r \in 0 .. Modulo - 1 : a = Modulo * q + r /\ r = a % Modulo
    BY Division
  <1>2. CASE r + 1 < Modulo
    <2>1. r + 1 \in 0 .. Modulo - 1 /\ a + 1 = Modulo * q + (r + 1)
      BY <1>1, <1>2, ModuloAssumption
    <2>2. (a + 1) % Modulo = r + 1 /\ (r + 1) % Modulo = r + 1
      <3>1. (a + 1) % Modulo = r + 1
        BY <2>1, Reste
      <3>2. Modulo * 0 + (r + 1) = r + 1
        BY ModuloAssumption
      <3>3. (Modulo * 0 + (r + 1)) % Modulo = r + 1
        BY <2>1, Reste
      <3> QED BY <3>1, <3>2, <3>3
    <2> QED BY <1>1, <2>2
  <1>3. CASE r + 1 = Modulo
    <2>1. a + 1 = Modulo * (q + 1) + 0 /\ r + 1 = Modulo * 1 + 0
      BY <1>1, <1>3, ModuloAssumption
    <2>2. 0 \in 0 .. Modulo - 1 /\ q + 1 \in Int /\ 1 \in Int
      BY ModuloAssumption
    <2>3. (a + 1) % Modulo = 0 /\ (r + 1) % Modulo = 0
      BY <2>1, <2>2, Reste
    <2> QED BY <1>1, <2>3
  <1> QED BY <1>2, <1>3, ModuloAssumption
-----------------------------------------------------------------------------
(* What the sources send; De(s) is what source s does.                      *)
De(s) == ToSet(envois[s])

EnvoisInv ==
    /\ envois \in [Sources -> Seq(Messages)]
    /\ \A s \in Sources :
         /\ Len(envois[s]) = mode.nb[s + 1]
         /\ \A n \in 1 .. Len(envois[s]) :
              /\ envois[s][n].src = s /\ envois[s][n].rang = n
              /\ mode.overtake \/ envois[s][n].seq = (mode.depart + n - 1) % Modulo

LEMMA EnvoyeProprietes ==
    ASSUME EnvoisInv, NEW s \in Sources
    PROVE  /\ De(s) \subseteq Messages
           /\ \A m \in De(s) :
                /\ m.src = s /\ m.rang \in Nat \ {0} /\ m.rang <= mode.nb[s + 1]
                /\ mode.overtake \/ m.seq = (mode.depart + m.rang - 1) % Modulo
           /\ \A m, x \in De(s) : m.rang = x.rang => m = x
  <1>1. PICK e \in Seq(Messages) :
          /\ e = envois[s] /\ Len(e) = mode.nb[s + 1]
          /\ \A n \in 1 .. Len(e) : /\ e[n].src = s /\ e[n].rang = n
                                    /\ mode.overtake \/ e[n].seq = (mode.depart + n - 1) % Modulo
    BY DEF EnvoisInv
  <1>2. De(s) = {e[n] : n \in 1 .. Len(e)} /\ Len(e) \in Nat
    BY <1>1 DEF De, ToSet
  <1>3. \A m \in De(s) : \E n \in 1 .. Len(e) : m = e[n]
    BY <1>2
  <1>4. ASSUME NEW m \in De(s)
        PROVE  /\ m \in Messages /\ m.src = s /\ m.rang \in 1 .. Len(e) /\ m = e[m.rang]
               /\ mode.overtake \/ m.seq = (mode.depart + m.rang - 1) % Modulo
    <2>1. PICK n \in 1 .. Len(e) : m = e[n]
      BY <1>3
    <2>2. n = m.rang
      BY <1>1, <2>1
    <2> QED BY <1>1, <2>1, <2>2
  <1>5. \A m \in De(s) : m.rang \in Nat \ {0} /\ m.rang <= mode.nb[s + 1]
    BY <1>1, <1>2, <1>4
  <1>6. ASSUME NEW m \in De(s), NEW x \in De(s), m.rang = x.rang PROVE m = x
    BY <1>4, <1>6
  <1> QED BY <1>4, <1>5, <1>6

(* A message of source s is out of the matching (D), out of turn (F),       *)
(* unexpected (U) or with a request (R); T are the ranks of those that have *)
(* been taken up.                                                           *)
Partagees(s, F, U, T, D, R) ==
    /\ F \cup U \subseteq De(s)
    /\ \A m \in De(s) :
         /\ m.rang \in T => m \notin D /\ m \notin F /\ (m \in R <=> m \notin U)
         /\ m.rang \notin T => (m \in D <=> m \notin F) /\ m \notin U /\ m \notin R

(* Without overtaking they are taken up in order, and the number expected   *)
(* is that of the next one,                                                 *)
EnOrdre(t, x) ==
    \/ mode.overtake
    \/ /\ \A k \in 1 .. Len(t) : t[k] = k
       /\ x = (mode.depart + Len(t)) % Modulo

(* and the unexpected ones stay in the order of their sends.                *)
Croissante(u) == mode.overtake \/ \A j, k \in 1 .. Len(u) : j < k => u[j].rang < u[k].rang

RangeeEn(e, s, D, R) ==
    /\ Suivies(e.cant[s]) /\ UneFois(e.cant[s])
    /\ IsInjective(e.unexp[s]) /\ Croissante(e.unexp[s])
    /\ Partagees(s, Fragments(e.cant[s]), ToSet(e.unexp[s]), ToSet(e.traites[s]), D, R)
    /\ EnOrdre(e.traites[s], e.expected[s])

Rangee(e, D, R) == \A s \in Sources : RangeeEn(e, s, D, R)

LEMMA EtatsType ==
    ASSUME NEW e \in Etats, NEW s \in Sources
    PROVE  /\ e.expected[s] \in 0 .. Modulo - 1 /\ e.cant[s] \in Listes
           /\ e.unexp[s] \in Seq(Messages) /\ e.traites[s] \in Seq(Nat)
  BY DEF Etats

(* A source has nothing to do with the messages of another.                 *)
LEMMA RangeeAilleurs ==
    ASSUME EnvoisInv, NEW e, NEW e2, NEW D, NEW D2, NEW R, NEW R2, NEW m \in Messages, NEW s \in Sources,
           RangeeEn(e, s, D, R), s # m.src,
           \A x : x # m => (x \in D2 <=> x \in D), \A x : x # m => (x \in R2 <=> x \in R),
           e2.cant[s] = e.cant[s], e2.unexp[s] = e.unexp[s], e2.traites[s] = e.traites[s],
           e2.expected[s] = e.expected[s] \/ mode.overtake
    PROVE  RangeeEn(e2, s, D2, R2)
  <1>1. \A x \in De(s) : x # m
    BY EnvoyeProprietes
  <1>2. \A x \in De(s) : (x \in D2 <=> x \in D) /\ (x \in R2 <=> x \in R)
    BY <1>1
  <1>3. Partagees(s, Fragments(e2.cant[s]), ToSet(e2.unexp[s]), ToSet(e2.traites[s]), D2, R2)
    BY <1>2 DEF Partagees, RangeeEn
  <1>4. EnOrdre(e2.traites[s], e2.expected[s])
    <2>1. EnOrdre(e.traites[s], e.expected[s])
      BY DEF RangeeEn
    <2>2. CASE mode.overtake
      BY <2>2 DEF EnOrdre
    <2>3. CASE e2.expected[s] = e.expected[s]
      BY <2>1, <2>3
    <2> QED BY <2>2, <2>3
  <1> QED BY <1>3, <1>4 DEF RangeeEn

(* A message that is not the next one is put with those out of turn.        *)
LEMMA AttenteRangee ==
    ASSUME EnvoisInv, NEW e \in Etats, NEW D, NEW R, Rangee(e, D, R), NEW s \in Sources,
           NEW m \in De(s), m \in D, NEW e2 \in Etats,
           e2.cant = [e.cant EXCEPT ![s] = Append_ordonne(@, m, e.expected[s])],
           e2.expected = e.expected, e2.unexp = e.unexp, e2.traites = e.traites
    PROVE  Rangee(e2, D \ {m}, R)
  <1>1. m \in Messages /\ m.src = s
    BY EnvoyeProprietes
  <1>2. /\ e2.cant[s] = Append_ordonne(e.cant[s], m, e.expected[s])
        /\ \A z \in Sources : z # s => e2.cant[z] = e.cant[z]
    BY DEF Etats
  <1>3. e.cant[s] \in Listes /\ Gagne(e.cant[s], e2.cant[s], {m})
    BY <1>1, <1>2, EtatsType, Append_ordonneGagne
  <1>4. RangeeEn(e2, s, D \ {m}, R)
    <2>1. RangeeEn(e, s, D, R)
      BY DEF Rangee
    <2>2. m \notin Fragments(e.cant[s]) /\ m.rang \notin ToSet(e.traites[s])
      BY <2>1 DEF RangeeEn, Partagees
    <2>3. /\ Suivies(e2.cant[s]) /\ UneFois(e2.cant[s])
          /\ Fragments(e2.cant[s]) = Fragments(e.cant[s]) \cup {m}
      BY <1>3, <2>1, <2>2 DEF Gagne, RangeeEn
    <2>4. Partagees(s, Fragments(e2.cant[s]), ToSet(e2.unexp[s]), ToSet(e2.traites[s]), D \ {m}, R)
      BY <2>1, <2>2, <2>3 DEF Partagees, RangeeEn
    <2> QED BY <2>1, <2>3, <2>4 DEF RangeeEn
  <1>5. ASSUME NEW z \in Sources, z # s PROVE RangeeEn(e2, z, D \ {m}, R)
    <2>1. RangeeEn(e, z, D, R) /\ e2.cant[z] = e.cant[z] /\ z # m.src
      BY <1>1, <1>2, <1>5 DEF Rangee
    <2>2. PICK D2 : D2 = D \ {m}
      OBVIOUS
    <2>3. \A x : x # m => (x \in D2 <=> x \in D)
      BY <2>2
    <2>4. RangeeEn(e2, z, D2, R)
      BY <1>1, <2>1, <2>3, RangeeAilleurs
    <2> QED BY <2>2, <2>4
  <1> QED BY <1>4, <1>5 DEF Rangee

(* One of them is taken from there: it is outside for a moment.             *)
LEMMA RetireRangee ==
    ASSUME EnvoisInv, NEW e \in Etats, NEW D, NEW R, Rangee(e, D, R), NEW s \in Sources,
           NEW m \in De(s), m \in Fragments(e.cant[s]), NEW e2 \in Etats,
           Suivies(e2.cant[s]), UneFois(e2.cant[s]),
           Fragments(e2.cant[s]) = Fragments(e.cant[s]) \ {m},
           \A z \in Sources : z # s => e2.cant[z] = e.cant[z],
           e2.expected = e.expected, e2.unexp = e.unexp, e2.traites = e.traites
    PROVE  m \notin D /\ Rangee(e2, D \cup {m}, R)
  <1>1. RangeeEn(e, s, D, R)
    BY DEF Rangee
  <1>2. m \in Messages /\ m.src = s
    BY EnvoyeProprietes
  <1>3. m \notin D /\ m.rang \notin ToSet(e.traites[s])
    BY <1>1 DEF RangeeEn, Partagees
  <1>4. RangeeEn(e2, s, D \cup {m}, R)
    <2>1. Partagees(s, Fragments(e2.cant[s]), ToSet(e2.unexp[s]), ToSet(e2.traites[s]), D \cup {m}, R)
      BY <1>1, <1>3 DEF Partagees, RangeeEn
    <2> QED BY <1>1, <2>1 DEF RangeeEn
  <1>5. ASSUME NEW z \in Sources, z # s PROVE RangeeEn(e2, z, D \cup {m}, R)
    <2>1. RangeeEn(e, z, D, R) /\ e2.cant[z] = e.cant[z] /\ z # m.src
      BY <1>2, <1>5 DEF Rangee
    <2>2. PICK D2 : D2 = D \cup {m}
      OBVIOUS
    <2>3. \A x : x # m => (x \in D2 <=> x \in D)
      BY <2>2
    <2>4. RangeeEn(e2, z, D2, R)
      BY <1>2, <2>1, <2>3, RangeeAilleurs
    <2> QED BY <2>2, <2>4
  <1> QED BY <1>3, <1>4, <1>5 DEF Rangee

(* The first is.                                                            *)
TeteRetiree(e, e2, s) ==
    /\ e2.cant = [e.cant EXCEPT ![s] = Sans_tete(@)]
    /\ e2.expected = e.expected /\ e2.unexp = e.unexp /\ e2.traites = e.traites

LEMMA TeteRangee ==
    ASSUME EnvoisInv, NEW e \in Etats, NEW D, NEW R, Rangee(e, D, R), NEW s \in Sources,
           e.cant[s] # <<>>, NEW e2 \in Etats, TeteRetiree(e, e2, s)
    PROVE  /\ e.cant[s][1][1] \in De(s) /\ e.cant[s][1][1] \notin D
           /\ Rangee(e2, D \cup {e.cant[s][1][1]}, R)
  <1>1. RangeeEn(e, s, D, R) /\ e.cant[s] \in Listes
    BY EtatsType DEF Rangee
  <1>2. /\ e2.cant[s] = Sans_tete(e.cant[s])
        /\ \A z \in Sources : z # s => e2.cant[z] = e.cant[z]
        /\ e2.expected = e.expected /\ e2.unexp = e.unexp /\ e2.traites = e.traites
    BY DEF Etats, TeteRetiree
  <1>3. PICK m \in De(s) : m = e.cant[s][1][1] /\ m \in Fragments(e.cant[s])
    <2>1. e.cant[s][1][1] \in Fragments(e.cant[s])
      BY <1>1, Sans_teteFragments
    <2> QED BY <1>1, <2>1 DEF RangeeEn, Partagees
  <1>4. /\ Suivies(e2.cant[s]) /\ UneFois(e2.cant[s])
        /\ Fragments(e2.cant[s]) = Fragments(e.cant[s]) \ {m}
    <2>1. Suivies(e.cant[s]) /\ UneFois(e.cant[s])
      BY <1>1 DEF RangeeEn
    <2> QED BY <1>1, <1>2, <1>3, <2>1, Sans_teteFragments
  <1>5. m \notin D /\ Rangee(e2, D \cup {m}, R)
    <2>1. m \in Fragments(e.cant[s]) /\ \A z \in Sources : z # s => e2.cant[z] = e.cant[z]
      BY <1>2, <1>3
    <2>2. e2.expected = e.expected /\ e2.unexp = e.unexp /\ e2.traites = e.traites
      BY <1>2
    <2>3. /\ EnvoisInv /\ Rangee(e, D, R) /\ e \in Etats /\ e2 \in Etats
          /\ s \in Sources /\ m \in De(s) /\ Suivies(e2.cant[s]) /\ UneFois(e2.cant[s])
          /\ Fragments(e2.cant[s]) = Fragments(e.cant[s]) \ {m}
      BY <1>4
    <2> QED BY ONLY <2>1, <2>2, <2>3, RetireRangee
  <1> QED BY <1>3, <1>5
-----------------------------------------------------------------------------
(* The numbers of the messages that a source sends are distinct: there are  *)
(* no more than 2^16 of them, whatever the number they start from.          *)
NumerosDistincts ==
    \A mo \in Modes, s \in Sources : mo.overtake \/ mo.nb[s + 1] <= Modulo

LEMMA ModeType ==
    ASSUME mode \in Modes, NEW s \in Sources
    PROVE  /\ mode.depart \in Nat /\ mode.nb[s + 1] \in Nat
           /\ mode.overtake \in BOOLEAN /\ mode.annuler \in BOOLEAN
           /\ mode.fils \in Nat /\ mode.demandes \in Nat
           /\ NumerosDistincts => mode.overtake \/ mode.nb[s + 1] <= Modulo
  <1>1. s + 1 \in 1 .. NbSources /\ mode.nb \in [1 .. NbSources -> Nat]
    BY NbSourcesAssumption, ModesAssumption DEF Sources
  <1>2. mode.depart \in Nat /\ mode.nb[s + 1] \in Nat
    <2>1. mode.depart \in 0 .. Modulo - 1
      BY ModesAssumption
    <2>2. mode.nb[s + 1] \in Nat
      BY <1>1
    <2> QED BY <2>1, <2>2
  <1>3. /\ mode.overtake \in BOOLEAN /\ mode.annuler \in BOOLEAN
        /\ mode.fils \in Nat /\ mode.demandes \in Nat
    BY ModesAssumption
  <1>4. NumerosDistincts => mode.overtake \/ mode.nb[s + 1] <= Modulo
    BY Zenon DEF NumerosDistincts
  <1> QED BY <1>2, <1>3, <1>4

(* So that the one that has the number expected is the next one.            *)
LEMMA ProchainRang ==
    ASSUME mode \in Modes, NumerosDistincts, EnvoisInv, ~ mode.overtake, NEW s \in Sources,
           NEW t \in Seq(Nat), NEW x, EnOrdre(t, x),
           NEW m \in De(s), m.rang \notin ToSet(t), m.seq = x
    PROVE  m.rang = Len(t) + 1
  <1>1. PICK n \in Nat : n = Len(t)
    OBVIOUS
  <1>2. PICK r \in Nat : r = m.rang /\ r >= 1 /\ r <= mode.nb[s + 1] /\ m.seq = (mode.depart + r - 1) % Modulo
    BY EnvoyeProprietes
  <1>3. \A k \in 1 .. n : t[k] = k
    BY <1>1 DEF EnOrdre
  <1>4. x = (mode.depart + n) % Modulo
    BY <1>1 DEF EnOrdre
  <1>5. r > n
    <2> SUFFICES ASSUME r <= n PROVE FALSE
      BY <1>1, <1>2
    <2>1. r \in 1 .. n
      BY <1>1, <1>2
    <2>2. t[r] = r /\ t[r] \in ToSet(t)
      <3>1. r \in DOMAIN t
        BY <1>1, <2>1
      <3> QED BY <1>3, <2>1, <3>1 DEF ToSet
    <2> QED BY <1>2, <2>2
  <1>6. PICK d \in Nat, nb \in Nat : d = mode.depart /\ nb = mode.nb[s + 1] /\ nb <= Modulo /\ r <= nb
    BY <1>2, ModeType
  <1>7. PICK a \in Nat, b \in Nat : a = d + n /\ b = d + r - 1
    <2>1. d + n \in Nat /\ d + r - 1 \in Nat
      BY <1>2
    <2> QED BY <2>1
  <1>8. a <= b /\ b - a < Modulo
    <2>1. b - a = r - 1 - n
      BY <1>7
    <2> QED BY <1>5, <1>6, <2>1, ModuloAssumption
  <1>9. a % Modulo = b % Modulo
    BY <1>2, <1>4, <1>6, <1>7
  <1>10. a = b
    BY <1>8, <1>9, MemeNumero
  <1> QED BY <1>1, <1>2, <1>7, <1>10

LEMMA AppendEnOrdre ==
    ASSUME mode \in Modes, NEW t \in Seq(Nat), NEW x, EnOrdre(t, x), ~ mode.overtake
    PROVE  EnOrdre(Append(t, Len(t) + 1), (x + 1) % Modulo)
  <1>1. PICK n \in Nat : n = Len(t)
    OBVIOUS
  <1>2. /\ Len(Append(t, n + 1)) = n + 1 /\ Append(t, n + 1)[n + 1] = n + 1
        /\ \A k \in 1 .. n : Append(t, n + 1)[k] = t[k]
    BY <1>1
  <1>3. \A k \in 1 .. n : t[k] = k
    BY <1>1 DEF EnOrdre
  <1>4. \A k \in 1 .. n + 1 : k \in 1 .. n \/ k = n + 1
    OBVIOUS
  <1>5. \A k \in 1 .. n + 1 : Append(t, n + 1)[k] = k
    BY <1>2, <1>3, <1>4
  <1>6. x = (mode.depart + n) % Modulo
    BY <1>1 DEF EnOrdre
  <1>7. PICK d \in Nat, a \in Nat : d = mode.depart /\ a = d + n
    BY ModesAssumption, ModuloAssumption
  <1>8. (x + 1) % Modulo = (a + 1) % Modulo
    BY <1>6, <1>7, NumeroSuivant
  <1>9. a + 1 = mode.depart + (n + 1)
    BY <1>7
  <1> QED BY <1>1, <1>2, <1>5, <1>8, <1>9 DEF EnOrdre

LEMMA AppendInjectif ==
    ASSUME NEW S, NEW u \in Seq(S), NEW m \in S, IsInjective(u), m \notin ToSet(u)
    PROVE  IsInjective(Append(u, m))
  <1>1. PICK n \in Nat : n = Len(u)
    OBVIOUS
  <1>2. PICK w \in Seq(S) : w = Append(u, m)
    <2>1. Append(u, m) \in Seq(S)
      OBVIOUS
    <2> QED BY <2>1
  <1>3. /\ DOMAIN u = 1 .. n /\ DOMAIN w = 1 .. n + 1
        /\ w[n + 1] = m /\ \A k \in 1 .. n : w[k] = u[k]
    BY <1>1, <1>2
  <1>4. \A k \in 1 .. n : u[k] # m
    BY <1>3 DEF ToSet
  <1>5. \A k \in 1 .. n + 1 : k \in 1 .. n \/ k = n + 1
    OBVIOUS
  <1>6. \A j, k \in 1 .. n : u[j] = u[k] => j = k
    BY <1>3 DEF IsInjective
  <1>7. ASSUME NEW j \in 1 .. n + 1, NEW k \in 1 .. n + 1, w[j] = w[k] PROVE j = k
    BY <1>3, <1>4, <1>5, <1>6, <1>7
  <1> QED BY <1>2, <1>3, <1>7 DEF IsInjective

LEMMA AppendCroissante ==
    ASSUME NEW u \in Seq(Messages), NEW m \in Messages, Croissante(u),
           mode.overtake \/ \A x \in ToSet(u) : x.rang < m.rang
    PROVE  Croissante(Append(u, m))
  <1>1. CASE mode.overtake
    BY <1>1 DEF Croissante
  <1>2. CASE ~ mode.overtake
    <2>1. PICK n \in Nat : n = Len(u)
      OBVIOUS
    <2>2. PICK w \in Seq(Messages) :
            /\ w = Append(u, m) /\ Len(w) = n + 1
            /\ w[n + 1] = m /\ \A k \in 1 .. n : w[k] = u[k]
      <3>1. /\ Append(u, m) \in Seq(Messages) /\ Len(Append(u, m)) = n + 1
            /\ Append(u, m)[n + 1] = m /\ \A k \in 1 .. n : Append(u, m)[k] = u[k]
        BY <2>1
      <3> QED BY <3>1
    <2>3. \A k \in 1 .. n : u[k].rang < m.rang
      <3>1. \A k \in 1 .. n : u[k] \in ToSet(u)
        BY <2>1 DEF ToSet
      <3> QED BY <1>2, <3>1
    <2>4. \A j, k \in 1 .. n : j < k => u[j].rang < u[k].rang
      BY <1>2, <2>1 DEF Croissante
    <2>5. \A k \in 1 .. n + 1 : k \in 1 .. n \/ k = n + 1
      OBVIOUS
    <2>6. ASSUME NEW j \in 1 .. n + 1, NEW k \in 1 .. n + 1, j < k PROVE w[j].rang < w[k].rang
      <3>1. j \in 1 .. n
        BY <2>6
      <3> QED BY <2>2, <2>3, <2>4, <2>5, <2>6, <3>1
    <2> QED BY <2>2, <2>6 DEF Croissante
  <1> QED BY <1>1, <1>2

(* The next one comes after all those that have been taken up.              *)
LEMMA ProchainApres ==
    ASSUME mode \in Modes, NumerosDistincts, EnvoisInv, ~ mode.overtake, NEW s \in Sources,
           NEW t \in Seq(Nat), NEW x, EnOrdre(t, x),
           NEW m \in De(s), m.rang \notin ToSet(t), m.seq = x
    PROVE  \A r \in ToSet(t) : r < m.rang
  <1>1. PICK n \in Nat : n = Len(t) /\ DOMAIN t = 1 .. n
    OBVIOUS
  <1>2. m.rang = n + 1
    BY <1>1, ProchainRang
  <1>3. \A k \in 1 .. n : t[k] = k
    BY <1>1 DEF EnOrdre
  <1>4. ASSUME NEW r \in ToSet(t) PROVE r < n + 1
    <2>1. PICK k \in 1 .. n : r = t[k]
      BY <1>1 DEF ToSet
    <2> QED BY <1>3, <2>1
  <1> QED BY <1>2, <1>4

(* A message is taken up by e2; it is unexpected, or given to a request.    *)
Prise(e, e2, s, m) ==
    /\ e2.cant = e.cant
    /\ e2.traites = [e.traites EXCEPT ![s] = Append(@, m.rang)]
    /\ mode.overtake \/ e2.expected = [e.expected EXCEPT ![s] = (@ + 1) % Modulo]

LEMMA PriseRangee ==
    ASSUME mode \in Modes, NumerosDistincts, EnvoisInv, NEW e \in Etats, NEW D, NEW R, Rangee(e, D, R),
           NEW s \in Sources, NEW m \in De(s), m \in D, mode.overtake \/ m.seq = e.expected[s],
           NEW e2 \in Etats, Prise(e, e2, s, m)
    PROVE  /\ e2.unexp = [e.unexp EXCEPT ![s] = Append(@, m)] => Rangee(e2, D \ {m}, R)
           /\ e2.unexp = e.unexp => Rangee(e2, D \ {m}, R \cup {m})
  <1>1. RangeeEn(e, s, D, R) /\ m \in Messages /\ m.src = s /\ m.rang \in Nat
    BY EnvoyeProprietes DEF Rangee
  <1>2. /\ e2.cant = e.cant
        /\ e2.traites[s] = Append(e.traites[s], m.rang)
        /\ \A z \in Sources : z # s => e2.traites[z] = e.traites[z]
        /\ \/ mode.overtake
           \/ /\ e2.expected[s] = (e.expected[s] + 1) % Modulo
              /\ \A z \in Sources : z # s => e2.expected[z] = e.expected[z]
    BY DEF Etats, Prise
  <1>3. m.rang \notin ToSet(e.traites[s]) /\ m \notin ToSet(e.unexp[s]) /\ m \notin Fragments(e.cant[s])
    BY <1>1 DEF RangeeEn, Partagees
  <1>4. ToSet(e2.traites[s]) = ToSet(e.traites[s]) \cup {m.rang}
    BY <1>1, <1>2, EtatsType, AppendEnsemble
  <1>5. EnOrdre(e2.traites[s], e2.expected[s])
    <2>1. CASE mode.overtake
      BY <2>1 DEF EnOrdre
    <2>2. CASE ~ mode.overtake
      <3>1. PICK t \in Seq(Nat) : t = e.traites[s]
        BY EtatsType
      <3>2. EnOrdre(t, e.expected[s]) /\ m.seq = e.expected[s] /\ m.rang \notin ToSet(t)
        BY <1>1, <1>3, <2>2, <3>1 DEF RangeeEn
      <3>3. m.rang = Len(t) + 1
        BY <2>2, <3>2, ProchainRang
      <3>4. EnOrdre(Append(t, Len(t) + 1), (e.expected[s] + 1) % Modulo)
        BY <2>2, <3>2, AppendEnOrdre
      <3> QED BY <1>2, <2>2, <3>1, <3>3, <3>4
    <2> QED BY <2>1, <2>2
  <1>6. \A x \in De(s) : x # m => x.rang # m.rang
    BY EnvoyeProprietes
  <1>7. ASSUME NEW R2, NEW U,
               \/ U = ToSet(e.unexp[s]) \cup {m} /\ R2 = R
               \/ U = ToSet(e.unexp[s]) /\ R2 = R \cup {m}
        PROVE  Partagees(s, Fragments(e2.cant[s]), U, ToSet(e2.traites[s]), D \ {m}, R2)
    <2>1. Partagees(s, Fragments(e.cant[s]), ToSet(e.unexp[s]), ToSet(e.traites[s]), D, R)
      BY <1>1 DEF RangeeEn
    <2> DEFINE F == Fragments(e.cant[s])
               T == ToSet(e.traites[s])
               V == ToSet(e.unexp[s])
    <2>2. Partagees(s, F, V, T, D, R) /\ m \notin V /\ m \notin F /\ m.rang \notin T
      BY <1>3, <2>1
    <2>3. \/ U = V \cup {m} /\ R2 = R
          \/ U = V /\ R2 = R \cup {m}
      BY <1>7
    <2> HIDE DEF F, T, V
    <2>4. Partagees(s, F, U, T \cup {m.rang}, D \ {m}, R2)
      <3>1. F \cup U \subseteq De(s)
        BY <2>2, <2>3 DEF Partagees
      <3>2. m \notin R
        BY <2>2 DEF Partagees
      <3>3. ASSUME NEW x \in De(s)
            PROVE  /\ x.rang \in T \cup {m.rang} => x \notin D \ {m} /\ x \notin F /\ (x \in R2 <=> x \notin U)
                   /\ x.rang \notin T \cup {m.rang} =>
                         (x \in D \ {m} <=> x \notin F) /\ x \notin U /\ x \notin R2
        <4>1. CASE x = m
          BY <2>2, <2>3, <3>2, <4>1
        <4>2. CASE x # m
          BY <1>6, <2>2, <2>3, <4>2 DEF Partagees
        <4> QED BY <4>1, <4>2
      <3> QED BY <3>1, <3>3 DEF Partagees
    <2>5. e2.cant[s] = e.cant[s]
      BY <1>2
    <2> QED BY <1>4, <2>4, <2>5 DEF F, T
  <1>8. \A z \in Sources : z # s => RangeeEn(e, z, D, R)
    BY DEF Rangee
  <1>9. ASSUME NEW z \in Sources, z # s, e2.unexp[z] = e.unexp[z], NEW R2, R2 \in {R, R \cup {m}}
        PROVE  RangeeEn(e2, z, D \ {m}, R2)
    <2>1. RangeeEn(e, z, D, R) /\ z # m.src
      BY <1>1, <1>8, <1>9
    <2>2. PICK D2 : D2 = D \ {m}
      OBVIOUS
    <2>3. \A x : x # m => (x \in D2 <=> x \in D)
      BY <2>2
    <2>4. \A x : x # m => (x \in R2 <=> x \in R)
      BY <1>9
    <2>5. e2.cant[z] = e.cant[z] /\ e2.traites[z] = e.traites[z]
      BY <1>2, <1>9
    <2>6. e2.expected[z] = e.expected[z] \/ mode.overtake
      BY <1>2, <1>9
    <2>7. RangeeEn(e2, z, D2, R2)
      BY <1>1, <1>9, <2>1, <2>3, <2>4, <2>5, <2>6, RangeeAilleurs
    <2> QED BY <2>2, <2>7
  <1>10. ASSUME e2.unexp = [e.unexp EXCEPT ![s] = Append(@, m)] PROVE Rangee(e2, D \ {m}, R)
    <2>1. /\ e2.unexp[s] = Append(e.unexp[s], m)
          /\ \A z \in Sources : z # s => e2.unexp[z] = e.unexp[z]
      BY <1>10 DEF Etats
    <2>2. ToSet(e2.unexp[s]) = ToSet(e.unexp[s]) \cup {m} /\ IsInjective(e2.unexp[s])
      <3>1. e.unexp[s] \in Seq(Messages) /\ IsInjective(e.unexp[s])
        BY <1>1, EtatsType DEF RangeeEn
      <3> QED BY <1>1, <1>3, <2>1, <3>1, AppendEnsemble, AppendInjectif
    <2>3. RangeeEn(e2, s, D \ {m}, R)
      <3>0. Croissante(e2.unexp[s])
        <4>1. PICK t \in Seq(Nat) : t = e.traites[s]
          BY EtatsType
        <4>2. PICK u \in Seq(Messages) : u = e.unexp[s] /\ Croissante(u)
          BY <1>1, EtatsType DEF RangeeEn
        <4>3. \A x \in ToSet(u) : x.rang \in ToSet(t)
          BY <1>1, <4>1, <4>2 DEF RangeeEn, Partagees
        <4>4. CASE ~ mode.overtake
          <5>1. EnOrdre(t, e.expected[s]) /\ m.seq = e.expected[s] /\ m.rang \notin ToSet(t)
            BY <1>1, <1>3, <4>1, <4>4 DEF RangeeEn
          <5>2. \A r \in ToSet(t) : r < m.rang
            BY <4>4, <5>1, ProchainApres
          <5> QED BY <1>1, <2>1, <4>2, <4>3, <5>2, AppendCroissante
        <4> QED BY <4>4 DEF Croissante
      <3>1. Partagees(s, Fragments(e2.cant[s]), ToSet(e2.unexp[s]), ToSet(e2.traites[s]), D \ {m}, R)
        BY <1>7, <2>2
      <3>2. Suivies(e2.cant[s]) /\ UneFois(e2.cant[s])
        BY <1>1, <1>2 DEF RangeeEn
      <3> QED BY <1>5, <2>2, <3>0, <3>1, <3>2 DEF RangeeEn
    <2>4. ASSUME NEW z \in Sources, z # s PROVE RangeeEn(e2, z, D \ {m}, R)
      <3>1. e2.unexp[z] = e.unexp[z]
        BY <2>1, <2>4
      <3> QED BY <1>9, <2>4, <3>1
    <2> QED BY <2>3, <2>4 DEF Rangee
  <1>11. ASSUME e2.unexp = e.unexp PROVE Rangee(e2, D \ {m}, R \cup {m})
    <2>1. RangeeEn(e2, s, D \ {m}, R \cup {m})
      <3>1. PICK u \in Seq(Messages) : u = e.unexp[s] /\ u = e2.unexp[s] /\ Croissante(u)
        BY <1>1, <1>11, EtatsType DEF RangeeEn
      <3>2. Partagees(s, Fragments(e2.cant[s]), ToSet(u), ToSet(e2.traites[s]), D \ {m}, R \cup {m})
        BY <1>7, <3>1
      <3>3. Suivies(e2.cant[s]) /\ UneFois(e2.cant[s]) /\ IsInjective(u)
        BY <1>1, <1>2, <3>1 DEF RangeeEn
      <3> QED BY <1>5, <3>1, <3>2, <3>3 DEF RangeeEn
    <2>2. \A z \in Sources : z # s => e2.unexp[z] = e.unexp[z]
      BY <1>11
    <2>3. ASSUME NEW z \in Sources, z # s PROVE RangeeEn(e2, z, D \ {m}, R \cup {m})
      BY <1>9, <2>2, <2>3
    <2> QED BY <2>1, <2>3 DEF Rangee
  <1> QED BY <1>10, <1>11
-----------------------------------------------------------------------------
(* What is left when the k-th is removed, and where.                        *)
LEMMA RemoveAtPlaces ==
    ASSUME NEW S, NEW s \in Seq(S), NEW k \in 1 .. Len(s)
    PROVE  /\ RemoveAt(s, k) \in Seq(S) /\ Len(RemoveAt(s, k)) = Len(s) - 1 /\ Len(s) \in Nat
           /\ \A j \in 1 .. k - 1 : RemoveAt(s, k)[j] = s[j]
           /\ \A j \in k .. Len(s) - 1 : RemoveAt(s, k)[j] = s[j + 1]
  <1>1. PICK n \in Nat : n = Len(s)
    OBVIOUS
  <1>2. PICK a \in Seq(S) : a = SubSeq(s, 1, k - 1) /\ Len(a) = k - 1 /\ \A j \in 1 .. k - 1 : a[j] = s[j]
    <2>1. /\ SubSeq(s, 1, k - 1) \in Seq(S) /\ Len(SubSeq(s, 1, k - 1)) = k - 1
          /\ \A j \in 1 .. k - 1 : SubSeq(s, 1, k - 1)[j] = s[j]
      BY SMT
    <2> QED BY <2>1
  <1>3. PICK b \in Seq(S) : /\ b = SubSeq(s, k + 1, Len(s)) /\ Len(b) = n - k
                            /\ \A j \in 1 .. n - k : b[j] = s[k + j]
    <2>1. /\ SubSeq(s, k + 1, Len(s)) \in Seq(S) /\ Len(SubSeq(s, k + 1, Len(s))) = n - k
          /\ \A j \in 1 .. n - k : SubSeq(s, k + 1, Len(s))[j] = s[k + j]
      BY <1>1, SMT
    <2> QED BY <2>1
  <1>4. RemoveAt(s, k) = a \o b
    BY <1>2, <1>3 DEF RemoveAt
  <1>5. PICK c \in Seq(S) :
          /\ c = a \o b /\ Len(c) = (k - 1) + (n - k)
          /\ \A j \in 1 .. k - 1 : c[j] = a[j]
          /\ \A j \in 1 .. (k - 1) + (n - k) : j > k - 1 => c[j] = b[j - (k - 1)]
    <2>1. k - 1 \in Nat /\ n - k \in Nat
      BY <1>1
    <2>2. /\ a \o b \in Seq(S) /\ Len(a \o b) = Len(a) + Len(b)
          /\ \A j \in 1 .. Len(a) : (a \o b)[j] = a[j]
          /\ \A j \in 1 .. Len(a) + Len(b) : j > Len(a) => (a \o b)[j] = b[j - Len(a)]
      BY ConcatPlaces
    <2>3. Len(a) = k - 1 /\ Len(b) = n - k
      BY <1>2, <1>3
    <2>4. \E c \in Seq(S) : c = a \o b
      BY <2>2
    <2>5. /\ Len(a \o b) = (k - 1) + (n - k)
          /\ \A j \in 1 .. k - 1 : (a \o b)[j] = a[j]
          /\ \A j \in 1 .. (k - 1) + (n - k) : j > k - 1 => (a \o b)[j] = b[j - (k - 1)]
      BY <2>2, <2>3
    <2> HIDE <1>2, <1>3
    <2> QED BY <2>4, <2>5
  <1>6. ASSUME NEW j \in k .. n - 1 PROVE c[j] = s[j + 1]
    <2>1. /\ j \in 1 .. (k - 1) + (n - k) /\ j > k - 1 /\ j - (k - 1) \in 1 .. n - k
          /\ k + (j - (k - 1)) = j + 1
      BY <1>1
    <2>2. c[j] = b[j - (k - 1)] /\ b[j - (k - 1)] = s[k + (j - (k - 1))]
      BY <1>3, <1>5, <2>1
    <2> QED BY <2>1, <2>2
  <1>7. Len(c) = n - 1
    BY <1>1, <1>5
  <1> QED BY <1>1, <1>2, <1>4, <1>5, <1>6, <1>7

LEMMA RemoveAtInjectif ==
    ASSUME NEW S, NEW u \in Seq(S), NEW k \in 1 .. Len(u), IsInjective(u)
    PROVE  IsInjective(RemoveAt(u, k)) /\ ToSet(RemoveAt(u, k)) = ToSet(u) \ {u[k]}
  <1>1. PICK n \in Nat : n = Len(u)
    OBVIOUS
  <1>2. PICK w \in Seq(S) :
          /\ w = RemoveAt(u, k) /\ Len(w) = n - 1
          /\ \A j \in 1 .. k - 1 : w[j] = u[j]
          /\ \A j \in k .. n - 1 : w[j] = u[j + 1]
    BY <1>1, RemoveAtPlaces
  <1>3. DOMAIN u = 1 .. n /\ DOMAIN w = 1 .. n - 1
    BY <1>1, <1>2
  <1>4. \A i, j \in 1 .. n : u[i] = u[j] => i = j
    BY <1>3 DEF IsInjective
  <1>5. ASSUME NEW j \in 1 .. n - 1
        PROVE  \/ j \in 1 .. k - 1 /\ j \in 1 .. n /\ w[j] = u[j]
               \/ j \in k .. n - 1 /\ j + 1 \in 1 .. n /\ w[j] = u[j + 1]
    BY <1>1, <1>2
  <1>6. ASSUME NEW i \in 1 .. n - 1, NEW j \in 1 .. n - 1, w[i] = w[j] PROVE i = j
    <2>1. \/ i \in 1 .. k - 1 /\ i \in 1 .. n /\ w[i] = u[i]
          \/ i \in k .. n - 1 /\ i + 1 \in 1 .. n /\ w[i] = u[i + 1]
      BY <1>5
    <2>2. \/ j \in 1 .. k - 1 /\ j \in 1 .. n /\ w[j] = u[j]
          \/ j \in k .. n - 1 /\ j + 1 \in 1 .. n /\ w[j] = u[j + 1]
      BY <1>5
    <2>3. PICK x \in 1 .. n : /\ u[x] = w[i]
                              /\ (x = i /\ i < k) \/ (x = i + 1 /\ i >= k)
      BY <1>1, <2>1
    <2>4. PICK y \in 1 .. n : /\ u[y] = w[j]
                              /\ (y = j /\ j < k) \/ (y = j + 1 /\ j >= k)
      BY <1>1, <2>2
    <2>5. x = y
      BY <1>4, <1>6, <2>3, <2>4
    <2> QED BY <1>1, <2>3, <2>4, <2>5
  <1>7. ASSUME NEW m \in ToSet(w) PROVE m \in ToSet(u) \ {u[k]}
    <2>1. PICK j \in 1 .. n - 1 : m = w[j]
      BY <1>3 DEF ToSet
    <2>2. PICK x \in 1 .. n : m = u[x] /\ x # k
      <3>1. CASE j \in 1 .. k - 1 /\ j \in 1 .. n /\ w[j] = u[j]
        <4>1. j # k
          BY <1>1, <3>1
        <4> QED BY <2>1, <3>1, <4>1
      <3>2. CASE j \in k .. n - 1 /\ j + 1 \in 1 .. n /\ w[j] = u[j + 1]
        <4>1. j + 1 # k
          BY <1>1, <3>2
        <4> QED BY <2>1, <3>2, <4>1
      <3> QED BY <1>5, <3>1, <3>2
    <2>3. u[x] # u[k] /\ u[x] \in ToSet(u)
      BY <1>1, <1>3, <1>4, <2>2 DEF ToSet
    <2> QED BY <2>2, <2>3
  <1>8. ASSUME NEW m \in ToSet(u) \ {u[k]} PROVE m \in ToSet(w)
    <2>1. PICK x \in 1 .. n : m = u[x] /\ x # k
      BY <1>3 DEF ToSet
    <2>2. CASE x < k
      <3>1. x \in 1 .. k - 1 /\ x \in 1 .. n - 1
        BY <1>1, <2>2
      <3>2. w[x] = m /\ x \in DOMAIN w
        BY <1>2, <1>3, <2>1, <3>1
      <3> QED BY <3>2 DEF ToSet
    <2>3. CASE x > k
      <3>1. x - 1 \in k .. n - 1 /\ x - 1 \in 1 .. n - 1 /\ (x - 1) + 1 = x
        BY <1>1, <2>3
      <3>2. w[x - 1] = u[(x - 1) + 1]
        BY <1>2, <3>1
      <3>3. w[x - 1] = m /\ x - 1 \in DOMAIN w
        BY <1>3, <2>1, <3>1, <3>2
      <3> QED BY <3>3 DEF ToSet
    <2> QED BY <1>1, <2>1, <2>2, <2>3
  <1>9. IsInjective(w)
    BY <1>3, <1>6 DEF IsInjective
  <1> QED BY <1>2, <1>7, <1>8, <1>9

LEMMA RemoveAtCroissante ==
    ASSUME NEW u \in Seq(Messages), NEW k \in 1 .. Len(u), Croissante(u)
    PROVE  Croissante(RemoveAt(u, k))
  <1>1. PICK n \in Nat : n = Len(u)
    OBVIOUS
  <1>2. PICK w \in Seq(Messages) :
          /\ w = RemoveAt(u, k) /\ Len(w) = n - 1
          /\ \A j \in 1 .. k - 1 : w[j] = u[j]
          /\ \A j \in k .. n - 1 : w[j] = u[j + 1]
    <2>1. /\ RemoveAt(u, k) \in Seq(Messages) /\ Len(RemoveAt(u, k)) = Len(u) - 1
          /\ \A j \in 1 .. k - 1 : RemoveAt(u, k)[j] = u[j]
          /\ \A j \in k .. Len(u) - 1 : RemoveAt(u, k)[j] = u[j + 1]
      BY Zenon, RemoveAtPlaces
    <2>2. PICK w \in Seq(Messages) : w = RemoveAt(u, k)
      BY <2>1
    <2> QED BY <1>1, <2>1, <2>2
  <1>3. CASE mode.overtake
    BY <1>3 DEF Croissante
  <1>4. CASE ~ mode.overtake
    <2>1. \A i, j \in 1 .. n : i < j => u[i].rang < u[j].rang
      BY <1>1, <1>4 DEF Croissante
    <2>2. ASSUME NEW j \in 1 .. n - 1
          PROVE  \E x \in 1 .. n : w[j] = u[x] /\ x = IF j < k THEN j ELSE j + 1
      BY <1>1, <1>2
    <2>3. ASSUME NEW i \in 1 .. n - 1, NEW j \in 1 .. n - 1, i < j PROVE w[i].rang < w[j].rang
      <3>1. PICK x \in 1 .. n : w[i] = u[x] /\ x = IF i < k THEN i ELSE i + 1
        BY <2>2
      <3>2. PICK y \in 1 .. n : w[j] = u[y] /\ y = IF j < k THEN j ELSE j + 1
        BY <2>2
      <3>3. x < y
        BY <1>1, <2>3, <3>1, <3>2
      <3>4. u[x].rang < u[y].rang
        BY <2>1, <3>3
      <3> QED BY <3>1, <3>2, <3>4
    <2>4. \A i, j \in 1 .. Len(w) : i < j => w[i].rang < w[j].rang
      BY <1>2, <2>3
    <2> QED BY <1>2, <2>4 DEF Croissante
  <1> QED BY <1>3, <1>4

(* A request takes an unexpected one.                                       *)
Retrait(e, e2, s, k, m) ==
    /\ k \in 1 .. Len(e.unexp[s]) /\ m = e.unexp[s][k]
    /\ e2.unexp = [e.unexp EXCEPT ![s] = RemoveAt(@, k)]
    /\ e2.cant = e.cant /\ e2.expected = e.expected /\ e2.traites = e.traites

LEMMA RetraitRangee ==
    ASSUME EnvoisInv, NEW e \in Etats, NEW D, NEW R, Rangee(e, D, R), NEW s \in Sources,
           NEW k \in Nat, NEW m \in Messages, NEW e2 \in Etats, Retrait(e, e2, s, k, m)
    PROVE  m \in De(s) /\ m \notin R /\ Rangee(e2, D, R \cup {m})
  <1>1. RangeeEn(e, s, D, R)
    BY DEF Rangee
  <1>2. PICK u \in Seq(Messages) : u = e.unexp[s] /\ k \in 1 .. Len(u) /\ m = u[k] /\ IsInjective(u)
                                   /\ Croissante(u)
    BY <1>1, EtatsType DEF RangeeEn, Retrait
  <1>3. /\ e2.unexp[s] = RemoveAt(u, k)
        /\ \A z \in Sources : z # s => e2.unexp[z] = e.unexp[z]
        /\ e2.cant = e.cant /\ e2.expected = e.expected /\ e2.traites = e.traites
    BY <1>2 DEF Etats, Retrait
  <1>4. IsInjective(e2.unexp[s]) /\ ToSet(e2.unexp[s]) = ToSet(u) \ {m}
    BY <1>2, <1>3, RemoveAtInjectif
  <1>5. m \in ToSet(u)
    BY <1>2 DEF ToSet
  <1>6. Partagees(s, Fragments(e.cant[s]), ToSet(u), ToSet(e.traites[s]), D, R)
    BY <1>1, <1>2 DEF RangeeEn
  <1>7. m \in De(s) /\ m \notin R
    BY <1>5, <1>6 DEF Partagees
  <1>8. RangeeEn(e2, s, D, R \cup {m})
    <2>1. \A U : U = ToSet(u) \ {m} =>
             Partagees(s, Fragments(e.cant[s]), U, ToSet(e.traites[s]), D, R \cup {m})
      BY <1>5, <1>6 DEF Partagees
    <2>2. Partagees(s, Fragments(e.cant[s]), ToSet(e2.unexp[s]), ToSet(e.traites[s]), D, R \cup {m})
      BY <1>4, <2>1
    <2>3. Suivies(e2.cant[s]) /\ UneFois(e2.cant[s]) /\ EnOrdre(e2.traites[s], e2.expected[s])
      BY <1>1, <1>3 DEF RangeeEn
    <2>4. Croissante(e2.unexp[s])
      BY <1>2, <1>3, RemoveAtCroissante
    <2> QED BY <1>3, <1>4, <2>2, <2>3, <2>4 DEF RangeeEn
  <1>9. ASSUME NEW z \in Sources, z # s PROVE RangeeEn(e2, z, D, R \cup {m})
    <2>1. RangeeEn(e, z, D, R) /\ z # m.src /\ e2.unexp[z] = e.unexp[z]
      BY <1>3, <1>7, <1>9, EnvoyeProprietes DEF Rangee
    <2>2. PICK R2 : R2 = R \cup {m}
      OBVIOUS
    <2>3. \A x : x # m => (x \in R2 <=> x \in R)
      BY <2>2
    <2>4. /\ e2.cant[z] = e.cant[z] /\ e2.expected[z] = e.expected[z] /\ e2.traites[z] = e.traites[z]
      BY <1>3
    <2>5. RangeeEn(e2, z, D, R2)
      BY <2>1, <2>3, <2>4, RangeeAilleurs
    <2> QED BY <2>2, <2>5
  <1> QED BY <1>7, <1>8, <1>9 DEF Rangee
-----------------------------------------------------------------------------
(* The loops of mca_pml_ob1_add_comm, step by step.                         *)
LEMMA Recurrence ==
    ASSUME NEW n \in Nat, NEW P, 0 \in P, \A i \in 1 .. n : i - 1 \in P => i \in P
    PROVE  n \in P
  <1> DEFINE v == [i \in 0 .. n |-> i]
  <1>1. v[0] \in P /\ \A i \in 1 .. n : v[i - 1] \in P => v[i] \in P
    OBVIOUS
  <1>2. v[n] = n /\ n \in 0 .. n
    OBVIOUS
  <1> HIDE DEF v
  <1>3. \A i \in 0 .. n : v[i] \in P
    BY <1>1, RecurrenceType
  <1> QED BY <1>2, <1>3

LEMMA ViderSuite ==
    ASSUME pending \in Seq(Messages), NEW e \in Etats, NEW s \in Sources
    PROVE  \E v \in [0 .. Len(pending) -> Etats] :
             /\ v[0] = e /\ Vider(e, s) = v[Len(pending)]
             /\ \A i \in 1 .. Len(pending) : v[i] = Depiler(v[i - 1], s)
  <1> DEFINE n == Len(pending)
             v[i \in 0 .. n] == IF i = 0 THEN e ELSE Depiler(v[i - 1], s)
             F == [i \in 1 .. n |-> [x \in Etats |-> Depiler(x, s)]]
  <1>1. n \in Nat /\ Vider(e, s) = v[n]
    BY Zenon, LenProperties DEF Vider
  <1>2. v = [i \in 0 .. n |-> IF i = 0 THEN e ELSE Depiler(v[i - 1], s)]
    <2>1. F \in [1 .. n -> [Etats -> Etats]]
      BY DepilerType
    <2>2. \E g \in [0 .. n -> Etats] : EstSuite(g, e, n, F)
      <3>1. n \in Nat
        BY <1>1
      <3> HIDE DEF F, n, v
      <3> QED BY <2>1, <3>1, RecurrenceExiste
    <2>3. PICK g \in [0 .. n -> Etats] : EstSuite(g, e, n, F)
      BY <2>2
    <2>4. g = [i \in 0 .. n |-> IF i = 0 THEN e ELSE Depiler(g[i - 1], s)]
      <3>1. \A i \in 0 .. n : i # 0 => i \in 1 .. n /\ i - 1 \in 0 .. n
        BY <1>1
      <3>2. \A i \in 1 .. n : F[i][g[i - 1]] = Depiler(g[i - 1], s)
        BY <3>1, <1>1
      <3> HIDE DEF F, n
      <3> QED BY <2>3, <3>1, <3>2 DEF EstSuite
    <2> QED BY <2>4, Zenon
  <1> HIDE DEF v
  <1>3. v[0] = e /\ \A i \in 1 .. n : v[i] = Depiler(v[i - 1], s)
    BY <1>1, <1>2
  <1>4. \A i \in 0 .. n : v[i] \in Etats
    <2>1. v[0] \in Etats /\ \A i \in 1 .. n : v[i - 1] \in Etats => v[i] \in Etats
      BY <1>3, DepilerType
    <2> QED BY <1>1, <2>1, RecurrenceType
  <1>5. v \in [0 .. n -> Etats]
    BY <1>2, <1>4
  <1> QED BY <1>1, <1>3, <1>5

LEMMA RangesSuite ==
    ASSUME pending \in Seq(Messages), NEW e \in Etats,
           e = [expected |-> expected, cant |-> cant_match, unexp |-> unexpected, traites |-> traites]
    PROVE  \E v \in [0 .. Len(pending) -> Etats] :
             /\ v[0] = e /\ Ranges = v[Len(pending)]
             /\ \A i \in 1 .. Len(pending) : v[i] = Ranger(v[i - 1], pending[i])
  <1> DEFINE n == Len(pending)
             depart == [expected |-> expected, cant |-> cant_match, unexp |-> unexpected,
                        traites |-> traites]
             v[i \in 0 .. n] == IF i = 0 THEN depart ELSE Ranger(v[i - 1], pending[i])
             F == [i \in 1 .. n |-> [x \in Etats |-> Ranger(x, pending[i])]]
  <1>1. Ranges = v[n]
    BY Zenon DEF Ranges
  <1>2. n \in Nat /\ \A i \in 1 .. n : pending[i] \in Messages
    OBVIOUS
  <1>3. depart \in Etats /\ depart = e
    OBVIOUS
  <1> HIDE DEF depart
  <1>4. v = [i \in 0 .. n |-> IF i = 0 THEN depart ELSE Ranger(v[i - 1], pending[i])]
    <2>1. F \in [1 .. n -> [Etats -> Etats]]
      BY <1>2, RangerType
    <2>2. PICK g \in [0 .. n -> Etats] : EstSuite(g, depart, n, F)
      <3> HIDE DEF F, n, v
      <3> QED BY <1>2, <1>3, <2>1, RecurrenceExiste
    <2>3. g = [i \in 0 .. n |-> IF i = 0 THEN depart ELSE Ranger(g[i - 1], pending[i])]
      <3>1. \A i \in 0 .. n : i # 0 => i \in 1 .. n /\ i - 1 \in 0 .. n
        BY <1>2
      <3>2. ASSUME NEW i \in 1 .. n
            PROVE  F[i][g[i - 1]] = Ranger(g[i - 1], pending[i])
        <4>1. g[i - 1] \in Etats
          <5> HIDE DEF n
          <5> QED BY <1>2, <3>1
        <4> QED BY <4>1, Zenon
      <3> HIDE DEF F, n
      <3> QED BY <2>2, <3>1, <3>2 DEF EstSuite
    <2> QED BY <2>3, Zenon
  <1> HIDE DEF v
  <1>5. v[0] = depart /\ \A i \in 1 .. n : v[i] = Ranger(v[i - 1], pending[i])
    BY <1>2, <1>4
  <1>6. \A i \in 0 .. n : v[i] \in Etats
    <2>1. v[0] \in Etats /\ \A i \in 1 .. n : v[i - 1] \in Etats => v[i] \in Etats
      BY <1>2, <1>3, <1>5, RangerType
    <2> QED BY <1>2, <2>1, RecurrenceType
  <1>7. v \in [0 .. n -> Etats]
    BY <1>4, <1>6
  <1> QED BY <1>1, <1>3, <1>5, <1>7

(* They keep each message in its place.                                     *)
LEMMA InattenduRangee ==
    ASSUME mode \in Modes, NumerosDistincts, EnvoisInv, NEW e \in Etats, NEW D, NEW R, Rangee(e, D, R),
           NEW s \in Sources, NEW m \in De(s), m \in D, mode.overtake \/ m.seq = e.expected[s]
    PROVE  Inattendu(e, m) \in Etats /\ Rangee(Inattendu(e, m), D \ {m}, R)
  <1>1. m \in Messages /\ m.src = s
    BY EnvoyeProprietes
  <1>2. PICK e2 \in Etats : e2 = Inattendu(e, m)
    BY <1>1, InattenduType
  <1>3. Prise(e, e2, s, m) /\ e2.unexp = [e.unexp EXCEPT ![s] = Append(@, m)]
    BY <1>1, <1>2 DEF Inattendu, Prise
  <1>4. Rangee(e2, D \ {m}, R)
    BY <1>3, PriseRangee
  <1> QED BY <1>2, <1>4

LEMMA DepilerRangee ==
    ASSUME mode \in Modes, NumerosDistincts, EnvoisInv, NEW e \in Etats, NEW D, NEW R, Rangee(e, D, R),
           NEW s \in Sources
    PROVE  Rangee(Depiler(e, s), D, R)
  <1>1. CASE A_son_tour(e.cant[s], e.expected[s])
    <2>1. e.cant[s] # <<>> /\ e.cant[s] \in Listes /\ e.cant[s][1][1].seq = e.expected[s]
      BY <1>1, EtatsType DEF A_son_tour
    <2>2. PICK e2 \in Etats : /\ e2 = [e EXCEPT !.cant[s] = Sans_tete(@)]
                              /\ TeteRetiree(e, e2, s)
      <3>1. Sans_tete(e.cant[s]) \in Listes
        BY <2>1, Sans_teteType
      <3>2. [e EXCEPT !.cant[s] = Sans_tete(@)] \in Etats
        BY <3>1 DEF Etats
      <3>3. TeteRetiree(e, [e EXCEPT !.cant[s] = Sans_tete(@)], s)
        BY DEF TeteRetiree, Etats
      <3> QED BY <3>2, <3>3
    <2>3. PICK m \in De(s) : m = e.cant[s][1][1] /\ m \notin D /\ Rangee(e2, D \cup {m}, R)
      <3>1. /\ e.cant[s][1][1] \in De(s) /\ e.cant[s][1][1] \notin D
            /\ Rangee(e2, D \cup {e.cant[s][1][1]}, R)
        BY <2>1, <2>2, TeteRangee
      <3> QED BY <3>1
    <2>4. mode.overtake \/ m.seq = e2.expected[s]
      BY <2>1, <2>2, <2>3 DEF TeteRetiree
    <2>5. PICK D2 : D2 = D \cup {m} /\ m \in D2
      OBVIOUS
    <2>6. Rangee(e2, D2, R)
      BY <2>3, <2>5
    <2>7. Rangee(Inattendu(e2, m), D2 \ {m}, R)
      BY <2>4, <2>5, <2>6, InattenduRangee
    <2>8. D2 \ {m} = D
      BY <2>3, <2>5
    <2>9. Depiler(e, s) = Inattendu(e2, m)
      BY <1>1, <2>2, <2>3 DEF Depiler
    <2> QED BY <2>7, <2>8, <2>9
  <1>2. CASE ~ A_son_tour(e.cant[s], e.expected[s])
    BY <1>2 DEF Depiler
  <1> QED BY <1>1, <1>2

LEMMA ViderRangee ==
    ASSUME mode \in Modes, NumerosDistincts, EnvoisInv, pending \in Seq(Messages),
           NEW e \in Etats, NEW D, NEW R, Rangee(e, D, R), NEW s \in Sources
    PROVE  Rangee(Vider(e, s), D, R)
  <1> DEFINE B == {x \in Etats : Rangee(x, D, R)}
  <1>1. PICK n \in Nat : n = Len(pending)
    OBVIOUS
  <1>2. PICK v \in [0 .. n -> Etats] : /\ v[0] = e /\ Vider(e, s) = v[n]
                                       /\ \A i \in 1 .. n : v[i] = Depiler(v[i - 1], s)
    BY <1>1, ViderSuite
  <1>3. v[0] \in B
    BY <1>2
  <1>4. ASSUME NEW i \in 1 .. n, v[i - 1] \in B PROVE v[i] \in B
    BY <1>2, <1>4, DepilerType, DepilerRangee
  <1> HIDE DEF B
  <1>5. \A i \in 0 .. n : v[i] \in B
    BY <1>3, <1>4, RecurrenceType
  <1> QED BY <1>2, <1>5 DEF B

LEMMA RangerRangee ==
    ASSUME mode \in Modes, NumerosDistincts, EnvoisInv, pending \in Seq(Messages),
           NEW e \in Etats, NEW D, NEW R, Rangee(e, D, R), NEW s \in Sources, NEW m \in De(s), m \in D
    PROVE  Rangee(Ranger(e, m), D \ {m}, R)
  <1>1. m \in Messages /\ m.src = s
    BY EnvoyeProprietes
  <1>2. CASE mode.overtake
    BY <1>2, InattenduRangee DEF Ranger
  <1>3. CASE ~ mode.overtake /\ m.seq = e.expected[s]
    <2>1. Inattendu(e, m) \in Etats /\ Rangee(Inattendu(e, m), D \ {m}, R)
      BY <1>3, InattenduRangee
    <2>2. Rangee(Vider(Inattendu(e, m), s), D \ {m}, R)
      BY <2>1, ViderRangee
    <2> QED BY <1>1, <1>3, <2>2 DEF Ranger
  <1>4. CASE ~ mode.overtake /\ m.seq # e.expected[s]
    <2>1. PICK e2 \in Etats : e2 = Ranger(e, m)
      BY <1>1, RangerType
    <2>2. e2 = [e EXCEPT !.cant[s] = Append_ordonne(@, m, e.expected[s])]
      BY <1>1, <1>4, <2>1 DEF Ranger
    <2>3. /\ e2.cant = [e.cant EXCEPT ![s] = Append_ordonne(@, m, e.expected[s])]
          /\ e2.expected = e.expected /\ e2.unexp = e.unexp /\ e2.traites = e.traites
      BY <2>2 DEF Etats
    <2>4. Rangee(e2, D \ {m}, R)
      BY <2>3, AttenteRangee
    <2> QED BY <2>1, <2>4
  <1> QED BY <1>2, <1>3, <1>4

(* What is on its way, on the network or in the hands of a thread that      *)
(* found no communicator, and what has not been put away when the first i   *)
(* of pending have.                                                         *)
EnChemin == reseau \cup EnMain
Restants(i) == EnChemin \cup {pending[j] : j \in i + 1 .. Len(pending)}

LEMMA RestantsPas ==
    ASSUME pending \in Seq(Messages), IsInjective(pending), EnChemin \cap ToSet(pending) = {}
    PROVE  /\ Restants(0) = EnChemin \cup ToSet(pending) /\ Restants(Len(pending)) = EnChemin
           /\ \A i \in 1 .. Len(pending) :
                pending[i] \in Restants(i - 1) /\ Restants(i - 1) \ {pending[i]} = Restants(i)
  <1>1. PICK n \in Nat : n = Len(pending) /\ DOMAIN pending = 1 .. n
    OBVIOUS
  <1>2. ToSet(pending) = {pending[j] : j \in 1 .. n}
    BY <1>1 DEF ToSet
  <1>3. Restants(0) = EnChemin \cup ToSet(pending)
    BY <1>1, <1>2 DEF Restants
  <1>4. Restants(n) = EnChemin
    BY <1>1 DEF Restants
  <1>5. ASSUME NEW i \in 1 .. n
        PROVE  pending[i] \in Restants(i - 1) /\ Restants(i - 1) \ {pending[i]} = Restants(i)
    <2>1. \A j \in i - 1 + 1 .. n : j = i \/ j \in i + 1 .. n
      OBVIOUS
    <2>2. \A j \in i + 1 .. n : j \in i - 1 + 1 .. n /\ j \in 1 .. n /\ j # i
      OBVIOUS
    <2>3. i \in i - 1 + 1 .. n
      OBVIOUS
    <2>4. \A j \in 1 .. n : pending[j] = pending[i] => j = i
      BY <1>1 DEF IsInjective
    <2>5. pending[i] \notin EnChemin
      BY <1>2
    <2> QED BY <1>1, <2>1, <2>2, <2>3, <2>4, <2>5 DEF Restants
  <1> QED BY <1>1, <1>3, <1>4, <1>5

LEMMA RangesRangee ==
    ASSUME mode \in Modes, NumerosDistincts, EnvoisInv, pending \in Seq(Messages),
           IsInjective(pending), EnChemin \cap ToSet(pending) = {}, ToSet(pending) \subseteq Envoyees,
           NEW e \in Etats,
           e = [expected |-> expected, cant |-> cant_match, unexp |-> unexpected, traites |-> traites],
           NEW R, Rangee(e, EnChemin \cup ToSet(pending), R)
    PROVE  Rangee(Ranges, EnChemin, R)
  <1>1. PICK n \in Nat : n = Len(pending)
    OBVIOUS
  <1>2. PICK v \in [0 .. n -> Etats] : /\ v[0] = e /\ Ranges = v[n]
                                       /\ \A i \in 1 .. n : v[i] = Ranger(v[i - 1], pending[i])
    BY <1>1, RangesSuite
  <1> DEFINE P == {i \in 0 .. n : Rangee(v[i], Restants(i), R)}
  <1>3. DOMAIN pending = 1 .. n /\ ToSet(pending) = {pending[j] : j \in 1 .. n}
    BY <1>1 DEF ToSet
  <1>4. 0 \in P
    <2>1. Restants(0) = EnChemin \cup ToSet(pending)
      BY RestantsPas
    <2>2. Rangee(v[0], EnChemin \cup ToSet(pending), R)
      <3>1. v[0] = e
        BY <1>2
      <3> QED BY Zenon, <3>1
    <2>3. Rangee(v[0], Restants(0), R)
      BY Zenon, <2>1, <2>2
    <2>4. 0 \in 0 .. n
      OBVIOUS
    <2> QED BY <2>3, <2>4
  <1>5. ASSUME NEW i \in 1 .. n, i - 1 \in P PROVE i \in P
    <2>1. i - 1 \in 0 .. n /\ v[i - 1] \in Etats /\ Rangee(v[i - 1], Restants(i - 1), R)
      BY <1>5
    <2>2. PICK s \in Sources : pending[i] \in De(s)
      <3>1. pending[i] \in ToSet(pending)
        BY <1>3
      <3> QED BY <3>1 DEF Envoyees, De
    <2>3. pending[i] \in Restants(i - 1) /\ Restants(i - 1) \ {pending[i]} = Restants(i)
      BY <1>1, RestantsPas
    <2>4. Rangee(Ranger(v[i - 1], pending[i]), Restants(i - 1) \ {pending[i]}, R)
      BY <2>1, <2>2, <2>3, RangerRangee
    <2>5. v[i] = Ranger(v[i - 1], pending[i]) /\ i \in 0 .. n
      BY <1>2
    <2>6. Rangee(v[i], Restants(i), R)
      BY <2>3, <2>4, <2>5
    <2> QED BY <2>5, <2>6
  <1>6. n \in P
    <2> HIDE DEF P
    <2> QED BY <1>4, <1>5, Recurrence
  <1>7. Restants(n) = EnChemin
    BY <1>1, RestantsPas
  <1> QED BY <1>2, <1>6, <1>7
-----------------------------------------------------------------------------
(* The requests.  One that has been given its message has one it accepts,   *)
(* which no other has.                                                      *)
EstRecue(q) == q.etat \in {"pris", "fini"} /\ q.genre \notin {"probe", "iprobe"}
Recues == {r \in DOMAIN req : EstRecue(req[r])}
Recus == {req[r].msg : r \in Recues}

BonneDemande(q) ==
    /\ q.tag \in TagsDemandes
    /\ q.msg \in Envoyees \cup {Aucun}
    /\ EstRecue(q) => q.msg \in Envoyees /\ Accepte(q, q.msg)

DemandesInv ==
    /\ \A r \in DOMAIN req : BonneDemande(req[r])
    /\ \A q, r \in Recues : req[q].msg = req[r].msg => q = r

(* A step gives no message to a request,                                    *)
LEMMA RequetesMemes ==
    ASSUME DemandesInv, UNCHANGED envois,
           \A r \in DOMAIN req' : BonneDemande(req'[r]),
           \A r \in DOMAIN req' : EstRecue(req'[r]) =>
                r \in DOMAIN req /\ EstRecue(req[r]) /\ req'[r].msg = req[r].msg,
           \A r \in DOMAIN req : EstRecue(req[r]) => r \in DOMAIN req' /\ EstRecue(req'[r])
    PROVE  DemandesInv' /\ Recus' = Recus
  <1>1. Recues' = Recues /\ \A r \in Recues : req'[r].msg = req[r].msg
    BY DEF Recues
  <1>2. Recus' = Recus
    BY <1>1 DEF Recus
  <1>3. (\A r \in DOMAIN req : BonneDemande(req[r]))'
    BY DEF BonneDemande, EstRecue, Accepte, Envoyees
  <1>4. DemandesInv'
    BY <1>1, <1>3 DEF DemandesInv
  <1> QED BY <1>2, <1>4

(* or gives m to the request p.                                             *)
LEMMA RequetesUneDePlus ==
    ASSUME DemandesInv, UNCHANGED envois, NEW m, NEW p \in DOMAIN req', m \notin Recus,
           \A r \in DOMAIN req' : BonneDemande(req'[r]),
           EstRecue(req'[p]), req'[p].msg = m, p \notin Recues,
           \A r \in DOMAIN req' : r # p /\ EstRecue(req'[r]) =>
                r \in DOMAIN req /\ EstRecue(req[r]) /\ req'[r].msg = req[r].msg,
           \A r \in DOMAIN req : EstRecue(req[r]) => r \in DOMAIN req' /\ EstRecue(req'[r])
    PROVE  DemandesInv' /\ Recus' = Recus \cup {m}
  <1>1. Recues' = Recues \cup {p} /\ \A r \in Recues : r # p /\ req'[r].msg = req[r].msg
    BY DEF Recues
  <1>2. Recus' = Recus \cup {m}
    BY <1>1 DEF Recus
  <1>3. (\A r \in DOMAIN req : BonneDemande(req[r]))'
    BY DEF BonneDemande, EstRecue, Accepte, Envoyees
  <1>4. \A r \in Recues : req'[r].msg # m
    BY <1>1 DEF Recus
  <1>5. \A q, r \in Recues' : req'[q].msg = req'[r].msg => q = r
    BY <1>1, <1>4 DEF DemandesInv
  <1> QED BY <1>2, <1>3, <1>5 DEF DemandesInv

(* Who takes a message that is matched: the first that accepts it, of those *)
(* that are posted and are not simple probes.                               *)
LEMMA PreneurProprietes ==
    ASSUME Inv, NEW m
    PROVE  \/ Preneur(m) = 0 /\ Preneurs(m) = {}
           \/ /\ Preneur(m) \in DOMAIN req /\ Preneur(m) \in Nat \ {0}
              /\ Preneur(m) \in Preneurs(m) /\ \A r \in Preneurs(m) : Preneur(m) <= r
              /\ req[Preneur(m)].etat = "poste" /\ req[Preneur(m)].genre \in {"recv", "mprobe"}
              /\ Accepte(req[Preneur(m)], m)
  <1>1. DOMAIN req = 1 .. Len(req) /\ Postes \subseteq 1 .. Len(req) /\ Len(req) \in Nat
        /\ req \in [1 .. Len(req) -> Requetes]
    BY ReqDomaine DEF Inv, TypesInv
  <1>2. Preneurs(m) \subseteq Nat \ {0} /\ Preneurs(m) \subseteq Postes /\ Preneurs(m) \subseteq Nat
    <2>1. Preneurs(m) \subseteq Postes
      BY DEF Preneurs, Candidats
    <2>2. 1 .. Len(req) \subseteq Nat \ {0}
      BY <1>1
    <2> QED BY <1>1, <2>1, <2>2
  <1>3. CASE Preneurs(m) = {}
    BY <1>3 DEF Preneur
  <1>4. CASE Preneurs(m) # {}
    <2>1. PICK p \in Nat \ {0} : p = Preneur(m) /\ p \in Preneurs(m) /\ \A r \in Preneurs(m) : p <= r
      <3>1. Min(Preneurs(m)) \in Preneurs(m) /\ \A r \in Preneurs(m) : Min(Preneurs(m)) <= r
        BY <1>2, <1>4, MinProprietes
      <3> QED BY <1>2, <1>4, <3>1 DEF Preneur
    <2>2. p \in Postes /\ Accepte(req[p], m) /\ req[p].genre # "probe"
      BY <2>1 DEF Preneurs, Candidats
    <2>3. p \in DOMAIN req /\ req[p].etat = "poste" /\ req[p].genre \in Genres
      BY <1>1, <2>2 DEF Postes, Requetes
    <2>4. req[p].genre \notin {"iprobe", "improbe"}
      BY <2>3 DEF Inv, RequetesInv
    <2> QED BY <2>1, <2>2, <2>3, <2>4 DEF Genres
  <1> QED BY <1>3, <1>4

(* What match_one does to each request.                                     *)
Inchangee(q, q2) == q2.peer = q.peer /\ q2.tag = q.tag /\ q2.genre = q.genre

LEMMA Match_oneReq ==
    ASSUME Inv, NEW m, Match_one(m), NEW r \in DOMAIN req
    PROVE  /\ Inchangee(req[r], req'[r])
           /\ \/ /\ r = Preneur(m) /\ req[r].etat = "poste" /\ req[r].genre \in {"recv", "mprobe"}
                 /\ Accepte(req[r], m) /\ req'[r].msg = m /\ req'[r].etat \in {"pris", "fini"}
                 /\ req[r].genre = "recv" => req'[r].etat = "pris"
              \/ /\ r # Preneur(m) /\ r \in Sondes(m)
                 /\ req[r].etat = "poste" /\ req[r].genre = "probe"
                 /\ req'[r].etat = "fini" /\ req'[r].msg = m
              \/ r # Preneur(m) /\ r \notin Sondes(m) /\ req'[r] = req[r]
  <1> DEFINE p == Preneur(m)
             fini == Sondes(m) \cup {x \in {p} \ {0} : req[x].genre = "mprobe"}
  <1>1. /\ req[r] \in Requetes
        /\ req'[r] = IF r \in fini THEN [req[r] EXCEPT !.etat = "fini", !.msg = m]
                     ELSE IF r = p THEN [req[r] EXCEPT !.etat = "pris", !.msg = m]
                     ELSE req[r]
    BY ReqDomaine DEF Inv, TypesInv, Match_one
  <1>2. CASE r = p
    <2>1. p # 0
      <3>1. DOMAIN req = 1 .. Len(req)
        BY ReqDomaine DEF Inv, TypesInv
      <3> QED BY <1>2, <3>1
    <2>2. p \in Preneurs(m) /\ req[p].etat = "poste" /\ req[p].genre \in {"recv", "mprobe"} /\ Accepte(req[p], m)
      BY <2>1, PreneurProprietes
    <2>3. r \in fini <=> req[r].genre = "mprobe"
      BY <1>2, <2>1, <2>2 DEF Sondes
    <2>4. req'[r] = [req[r] EXCEPT !.etat = IF req[r].genre = "mprobe" THEN "fini" ELSE "pris", !.msg = m]
      BY <1>1, <1>2, <2>3
    <2> HIDE DEF p, fini
    <2>5. /\ Inchangee(req[r], req'[r]) /\ req'[r].msg = m
          /\ req'[r].etat = IF req[r].genre = "mprobe" THEN "fini" ELSE "pris"
      BY <1>1, <2>4 DEF Requetes, Inchangee
    <2> QED BY <1>2, <2>2, <2>5 DEF p
  <1>3. CASE r # p /\ r \in Sondes(m)
    <2>1. r \in Candidats(m) /\ r \notin Preneurs(m) /\ r \in fini
      BY <1>3 DEF Sondes
    <2>2. req[r].etat = "poste" /\ req[r].genre = "probe"
      BY <2>1 DEF Candidats, Preneurs, Postes
    <2>3. req'[r] = [req[r] EXCEPT !.etat = "fini", !.msg = m]
      BY <1>1, <2>1
    <2> HIDE DEF p, fini
    <2>4. Inchangee(req[r], req'[r]) /\ req'[r].msg = m /\ req'[r].etat = "fini"
      BY <1>1, <2>3 DEF Requetes, Inchangee
    <2> QED BY <1>3, <2>2, <2>4 DEF p
  <1>4. CASE r # p /\ r \notin Sondes(m)
    BY <1>1, <1>4 DEF Inchangee
  <1> QED BY <1>2, <1>3, <1>4

(* One of them at most is given m.                                          *)
LEMMA Match_oneDemandes ==
    ASSUME Inv, DemandesInv, NEW m \in Envoyees, m \notin Recus, Match_one(m), UNCHANGED envois
    PROVE  /\ DemandesInv'
           /\ Recus' = IF Preneur(m) = 0 THEN Recus ELSE Recus \cup {m}
  <1>1. DOMAIN req' = DOMAIN req
    BY DEF Match_one
  <1>2. ASSUME NEW r \in DOMAIN req
        PROVE  /\ BonneDemande(req'[r])
               /\ r = Preneur(m) => EstRecue(req'[r]) /\ req'[r].msg = m /\ ~ EstRecue(req[r])
               /\ r # Preneur(m) /\ EstRecue(req'[r]) => EstRecue(req[r]) /\ req'[r].msg = req[r].msg
               /\ EstRecue(req[r]) => EstRecue(req'[r])
    <2>1. BonneDemande(req[r])
      BY DEF DemandesInv
    <2>2. Inchangee(req[r], req'[r])
      BY Match_oneReq
    <2>3. CASE /\ r = Preneur(m) /\ req[r].etat = "poste" /\ req[r].genre \in {"recv", "mprobe"}
               /\ Accepte(req[r], m) /\ req'[r].msg = m /\ req'[r].etat \in {"pris", "fini"}
      BY <2>1, <2>2, <2>3 DEF BonneDemande, EstRecue, Accepte, Inchangee
    <2>4. CASE /\ r # Preneur(m) /\ req[r].etat = "poste" /\ req[r].genre = "probe"
               /\ req'[r].etat = "fini" /\ req'[r].msg = m
      BY <2>1, <2>2, <2>4 DEF BonneDemande, EstRecue, Inchangee
    <2>5. CASE r # Preneur(m) /\ req'[r] = req[r]
      BY <2>1, <2>5
    <2> QED BY <2>3, <2>4, <2>5, Match_oneReq
  <1>3. CASE Preneur(m) = 0
    <2>1. \A r \in DOMAIN req : r # Preneur(m)
      <3>1. DOMAIN req = 1 .. Len(req)
        BY ReqDomaine DEF Inv, TypesInv
      <3> QED BY <1>3, <3>1
    <2>2. DemandesInv' /\ Recus' = Recus
      BY <1>1, <1>2, <2>1, RequetesMemes
    <2> QED BY <1>3, <2>2
  <1>4. CASE Preneur(m) # 0
    <2>1. PICK p \in DOMAIN req : p = Preneur(m)
      BY <1>4, PreneurProprietes
    <2>2. EstRecue(req'[p]) /\ req'[p].msg = m /\ p \notin Recues
      BY <1>2, <2>1 DEF Recues
    <2>3. /\ \A r \in DOMAIN req' : BonneDemande(req'[r])
          /\ \A r \in DOMAIN req' : r # p /\ EstRecue(req'[r]) =>
                r \in DOMAIN req /\ EstRecue(req[r]) /\ req'[r].msg = req[r].msg
          /\ \A r \in DOMAIN req : EstRecue(req[r]) => r \in DOMAIN req' /\ EstRecue(req'[r])
      BY <1>1, <1>2, <2>1
    <2>4. DemandesInv' /\ Recus' = Recus \cup {m}
      BY <1>1, <2>1, <2>2, <2>3, RequetesUneDePlus
    <2> QED BY <1>4, <2>4
  <1> QED BY <1>3, <1>4
-----------------------------------------------------------------------------
(* The request for which recv_req_start has found a message is in the hands *)
(* of the thread that has called it, and of no other, until it returns.     *)
MainsInv ==
    /\ \A c \in suites : c.r # 0 => c.r \in DOMAIN req
    /\ \A c \in suites : c.pc = "finir" => c.r \in DOMAIN req /\ req[c.r].etat = "pris"
    /\ \A c, d \in suites : c.pc = "finir" /\ d.r = c.r => d = c

AnnulesRestent ==
    \A r \in DOMAIN req : r \in DOMAIN req' /\ (req[r].etat = "annule" => req'[r] = req[r])

LEMMA MainsMemes ==
    ASSUME MainsInv, suites' \subseteq suites, DOMAIN req \subseteq DOMAIN req',
           \A c \in suites' : c.pc = "finir" => req'[c.r] = req[c.r]
    PROVE  MainsInv'
  BY DEF MainsInv

LEMMA PrendreMains ==
    ASSUME Inv, MainsInv, NEW m, NEW autres, Prendre_en_charge(m, autres), autres \subseteq suites
    PROVE  MainsInv' /\ AnnulesRestent
  <1> DEFINE p == Preneur(m)
             recoit == {r \in {p} \ {0} : req[r].genre = "recv"}
             x == [pc |-> "apres", m |-> m, r |-> IF recoit = {} THEN 0 ELSE p]
  <1>1. Match_one(m) /\ suites' = autres \cup {x} /\ DOMAIN req' = DOMAIN req
    BY DEF Prendre_en_charge, Match_one
  <1>2. x.pc = "apres" /\ (x.r = 0 \/ (x.r = p /\ p # 0))
    OBVIOUS
  <1> HIDE DEF x
  <1>3. x.r = 0 \/ (x.r \in DOMAIN req /\ req[x.r].etat = "poste")
    BY <1>2, PreneurProprietes
  <1>4. \A r \in DOMAIN req : req[r].etat # "poste" => req'[r] = req[r]
    BY <1>1, Match_oneReq
  <1>5. 0 \notin DOMAIN req
    BY ReqDomaine DEF Inv, TypesInv
  <1>6. ASSUME NEW c \in autres, c.pc = "finir"
        PROVE  c.r \in DOMAIN req' /\ req'[c.r].etat = "pris" /\ c.r # x.r
    BY <1>1, <1>3, <1>4, <1>5, <1>6 DEF MainsInv
  <1>7. ASSUME NEW c \in suites', NEW d \in suites', c.pc = "finir", d.r = c.r PROVE d = c
    BY <1>1, <1>2, <1>6, <1>7 DEF MainsInv
  <1>8. \A c \in suites' : c.r # 0 => c.r \in DOMAIN req'
    BY <1>1, <1>3 DEF MainsInv
  <1>9. \A c \in suites' : c.pc = "finir" => c.r \in DOMAIN req' /\ req'[c.r].etat = "pris"
    BY <1>1, <1>2, <1>6
  <1>10. MainsInv'
    BY <1>7, <1>8, <1>9 DEF MainsInv
  <1>11. AnnulesRestent
    BY <1>1, <1>4 DEF AnnulesRestent
  <1> QED BY <1>10, <1>11

LEMMA RecoitMains ==
    ASSUME Inv, MainsInv, NEW m \in reseau, Recoit(m)
    PROVE  MainsInv' /\ AnnulesRestent
  <1>1. CASE suites' = suites \cup {[pc |-> "garder", m |-> m, r |-> 0]} /\ UNCHANGED req
    <2>0. PICK c : c = [pc |-> "garder", m |-> m, r |-> 0]
      OBVIOUS
    <2>1. c.pc = "garder" /\ c.r = 0
      BY <2>0
    <2>2. 0 \notin DOMAIN req
      BY ReqDomaine DEF Inv, TypesInv
    <2> QED BY <1>1, <2>0, <2>1, <2>2 DEF MainsInv, AnnulesRestent
  <1>2. CASE UNCHANGED <<req, suites>>
    BY <1>2, MainsMemes DEF AnnulesRestent
  <1>3. CASE Prendre_en_charge(m, suites)
    BY <1>3, PrendreMains
  <1> QED BY <1>1, <1>2, <1>3 DEF Recoit

LEMMA ApresMains ==
    ASSUME Inv, MainsInv, NEW c \in suites, Apres(c)
    PROVE  MainsInv' /\ AnnulesRestent
  <1> DEFINE d == [c EXCEPT !.pc = "verifie", !.r = 0]
  <1>1. /\ c.pc = "apres"
        /\ req' = [r \in DOMAIN req |-> IF r = c.r /\ req[r].etat = "pris"
                                        THEN [req[r] EXCEPT !.etat = "fini"] ELSE req[r]]
        /\ suites' \subseteq (suites \ {c}) \cup {d}
    BY DEF Apres
  <1>2. d.pc = "verifie" /\ d.r = 0
    BY DEF Inv, TypesInv, Suites
  <1> HIDE DEF d
  <1>3. DOMAIN req' = DOMAIN req /\ \A r \in DOMAIN req : r # c.r \/ req[r].etat # "pris" => req'[r] = req[r]
    BY <1>1
  <1>4. 0 \notin DOMAIN req
    BY ReqDomaine DEF Inv, TypesInv
  <1>5. ASSUME NEW x \in suites, x.pc = "finir"
        PROVE  x.r \in DOMAIN req' /\ req'[x.r].etat = "pris" /\ x.r # 0
    BY <1>1, <1>3, <1>4, <1>5 DEF MainsInv
  <1>6. MainsInv'
    BY <1>1, <1>2, <1>3, <1>5 DEF MainsInv
  <1>7. AnnulesRestent
    BY <1>3 DEF AnnulesRestent
  <1> QED BY <1>6, <1>7

LEMMA VerifieMains ==
    ASSUME Inv, MainsInv, NEW c \in suites, Verifie(c)
    PROVE  MainsInv' /\ AnnulesRestent
  <1>1. CASE Prendre_en_charge(cant_match[c.m.src][1][1], suites \ {c})
    BY <1>1, PrendreMains
  <1>2. CASE suites' = suites \ {c} /\ UNCHANGED req
    BY <1>2, MainsMemes DEF AnnulesRestent
  <1> QED BY <1>1, <1>2 DEF Verifie

LEMMA PosteMains ==
    ASSUME Inv, MainsInv, NEW q \in Demandes, Poste(q)
    PROVE  MainsInv' /\ AnnulesRestent
  <1>1. suites' = suites /\ \E d : req' = Append(req, d)
    BY DEF Poste
  <1>2. PICK n \in Nat : n = Len(req) /\ DOMAIN req = 1 .. n /\ req \in Seq(Requetes)
    BY ReqDomaine DEF Inv, TypesInv
  <1>3. DOMAIN req' = 1 .. n + 1 /\ \A r \in 1 .. n : req'[r] = req[r]
    BY <1>1, <1>2
  <1>4. DOMAIN req \subseteq DOMAIN req' /\ \A r \in DOMAIN req : req'[r] = req[r]
    BY <1>2, <1>3
  <1>5. \A c \in suites' : c.pc = "finir" => req'[c.r] = req[c.r]
    BY <1>1, <1>4 DEF MainsInv
  <1> QED BY <1>1, <1>4, <1>5, MainsMemes DEF AnnulesRestent

LEMMA TrouveMains ==
    ASSUME Inv, MainsInv, NEW q \in Demandes, Trouve(q)
    PROVE  MainsInv' /\ AnnulesRestent
  <1>1. PICK n \in Nat : n = Len(req) /\ DOMAIN req = 1 .. n /\ req \in Seq(Requetes)
    BY ReqDomaine DEF Inv, TypesInv
  <1>2. PICK m : /\ req' = Append(req, [q EXCEPT !.etat = "pris", !.msg = m])
                 /\ suites' = suites \cup {[pc |-> "finir", m |-> m, r |-> n + 1]}
    BY <1>1 DEF Trouve
  <1> DEFINE c == [pc |-> "finir", m |-> m, r |-> n + 1]
             d == [q EXCEPT !.etat = "pris", !.msg = m]
  <1>3. c.pc = "finir" /\ c.r = n + 1
    OBVIOUS
  <1>4. d.etat = "pris"
    BY DEF Demandes
  <1>7. suites' = suites \cup {c} /\ 1 .. n \subseteq 1 .. n + 1 /\ n + 1 \in 1 .. n + 1
    BY <1>2
  <1>12. req' = Append(req, d)
    BY <1>2
  <1> HIDE DEF c, d
  <1>5. DOMAIN req' = 1 .. n + 1 /\ req'[n + 1] = d /\ \A r \in 1 .. n : req'[r] = req[r]
    BY <1>1, <1>12
  <1>6. \A x \in suites : (x.r # 0 \/ x.pc = "finir" => x.r \in 1 .. n) /\ x.r # n + 1
    BY <1>1 DEF MainsInv
  <1>8. \A x \in suites' : x.r # 0 => x.r \in DOMAIN req'
    BY <1>3, <1>5, <1>6, <1>7
  <1>9. \A x \in suites' : x.pc = "finir" => x.r \in DOMAIN req' /\ req'[x.r].etat = "pris"
    BY <1>1, <1>3, <1>4, <1>5, <1>6, <1>7 DEF MainsInv
  <1>10. \A x, y \in suites' : x.pc = "finir" /\ y.r = x.r => y = x
    BY <1>3, <1>6, <1>7 DEF MainsInv
  <1>11. MainsInv'
    BY <1>8, <1>9, <1>10 DEF MainsInv
  <1> QED BY <1>1, <1>5, <1>7, <1>11 DEF AnnulesRestent

(* A step that changes one request, which is not cancelled and which only a *)
(* thread that goes away may have to finish.                                *)
LEMMA UneRequeteMains ==
    ASSUME Inv, MainsInv, NEW r0 \in DOMAIN req, NEW d, req' = [req EXCEPT ![r0] = d],
           req[r0].etat # "annule", suites' \subseteq suites,
           \A c \in suites' : c.pc = "finir" => c.r # r0
    PROVE  MainsInv' /\ AnnulesRestent
  <1>1. DOMAIN req' = DOMAIN req /\ \A r \in DOMAIN req : r # r0 => req'[r] = req[r]
    BY ReqDomaine DEF Inv, TypesInv
  <1>2. \A c \in suites' : c.pc = "finir" => req'[c.r] = req[c.r]
    BY <1>1 DEF MainsInv
  <1> QED BY <1>1, <1>2, MainsMemes DEF AnnulesRestent

LEMMA StepMains ==
    ASSUME Inv, MainsInv, [Next]_vars
    PROVE  MainsInv' /\ AnnulesRestent
  <1>1. CASE UNCHANGED vars
    BY <1>1, MainsMemes DEF vars, AnnulesRestent
  <1>2. CASE Reception
    BY <1>2, RecoitMains DEF Reception
  <1>3. ASSUME NEW c \in suites, Garder(c) PROVE MainsInv' /\ AnnulesRestent
    BY <1>3, MainsMemes DEF Garder, AnnulesRestent
  <1>4. ASSUME NEW c \in suites, Finir(c) PROVE MainsInv' /\ AnnulesRestent
    <2>1. /\ c.pc = "finir" /\ suites' = suites \ {c}
          /\ \E d : req' = [req EXCEPT ![c.r] = d]
      BY <1>4 DEF Finir
    <2>2. c.r \in DOMAIN req /\ req[c.r].etat = "pris" /\ \A x \in suites' : x.r # c.r
      BY <2>1 DEF MainsInv
    <2> QED BY <2>1, <2>2, UneRequeteMains
  <1>5. CASE Suite
    BY <1>3, <1>4, <1>5, ApresMains, VerifieMains DEF Suite
  <1>6. CASE AjouteComm
    BY <1>6, MainsMemes DEF AjouteComm, AnnulesRestent
  <1>7. CASE \E q \in Demandes : Poste(q) \/ Trouve(q)
    BY <1>7, PosteMains, TrouveMains
  <1>8. ASSUME NEW r \in DOMAIN req, MRecv(r) PROVE MainsInv' /\ AnnulesRestent
    <2>1. /\ req[r].etat = "fini" /\ suites' = suites
          /\ \E d : req' = [req EXCEPT ![r] = d]
      BY <1>8 DEF MRecv
    <2>2. \A c \in suites' : c.pc = "finir" => c.r # r
      BY <2>1 DEF MainsInv
    <2> QED BY <2>1, <2>2, UneRequeteMains
  <1>9. ASSUME NEW r \in DOMAIN req, Annule(r) PROVE MainsInv' /\ AnnulesRestent
    <2>1. /\ req[r].etat \in {"poste", "pris"} /\ suites' = suites
          /\ \E d : req' = [req EXCEPT ![r] = d]
          /\ \A c \in suites' : c.pc = "finir" => c.r # r
      BY <1>9 DEF Annule, Rendue
    <2> QED BY <2>1, UneRequeteMains
  <1>10. CASE \E r \in DOMAIN req : MRecv(r) \/ Annule(r)
    BY <1>8, <1>9, <1>10
  <1> QED BY <1>1, <1>2, <1>5, <1>6, <1>7, <1>10 DEF Next

LEMMA MainsTheorem == Spec => []MainsInv
  <1>1. Init => MainsInv
    BY DEF Init, MainsInv
  <1>2. Inv /\ MainsInv /\ [Next]_vars => MainsInv'
    BY StepMains
  <1> QED BY <1>1, <1>2, InvTheorem, PTL DEF Spec

(* However many threads there are, a receive is cancelled with a message    *)
(* only between its removal from its list, under the lock, and              *)
(* req_match_received, which the same thread sets once it has let go of the *)
(* lock (pml_ob1_recvreq.h:247); and what has been cancelled is not         *)
(* completed, matched or cancelled again.                                   *)
THEOREM AnnulationFenetreTheorem == Spec => AnnulationFenetre
  <1> DEFINE Fenetre ==
               \A r \in DOMAIN req :
                 /\ req[r].etat # "annule" /\ req'[r].etat = "annule" /\ req'[r].msg # Aucun
                      => \E c \in suites : c.pc = "apres" /\ c.r = r
                 /\ req[r].etat = "annule" => req'[r] = req[r]
  <1>3. ASSUME Inv, MainsInv, [Next]_vars PROVE Fenetre
    <2> SUFFICES ASSUME NEW r \in DOMAIN req, req[r].etat # "annule", req'[r].etat = "annule",
                        req'[r].msg # Aucun
                 PROVE  \E c \in suites : c.pc = "apres" /\ c.r = r
      BY <1>3, StepMains DEF AnnulesRestent
    <2>1. CASE AnnulesAvant
      <3>1. r \in DOMAIN req'
        BY <1>3, StepMains DEF AnnulesRestent
      <3> QED BY <2>1, <3>1 DEF AnnulesAvant
    <2>2. CASE \E x \in DOMAIN req : Annule(x)
      <3>1. PICK x \in DOMAIN req : Annule(x)
        BY <2>2
      <3>2. req' = [req EXCEPT ![x].etat = "annule"] /\ req \in [1 .. Len(req) -> Requetes]
        BY <1>3, <3>1, ReqDomaine DEF Annule, Inv, TypesInv
      <3>3. x = r /\ req'[r].msg = req[r].msg
        BY <3>2 DEF Requetes
      <3>4. Rendue(r) /\ req[r].etat = "pris"
        BY <1>3, <3>1, <3>3 DEF Annule, Inv, RequetesInv
      <3>5. PICK c \in suites : c.r = r /\ c.pc \in {"apres", "finir"}
        BY <1>3, <3>4 DEF Inv, RequetesInv
      <3> QED BY <3>4, <3>5 DEF Rendue
    <2> QED BY <1>3, <2>1, <2>2, StepInv
  <1>5. ASSUME Inv, MainsInv, [Next]_vars PROVE [Fenetre]_vars
    BY <1>3, <1>5
  <1> HIDE DEF Fenetre
  <1>6. Spec => [][Fenetre]_vars
    BY <1>5, InvTheorem, MainsTheorem, PTL DEF Spec
  <1> QED BY <1>6 DEF AnnulationFenetre, Fenetre

(* What is broken stays so.                                                 *)
LEMMA RompuReste ==
    ASSUME Inv, MainsInv, [Next]_vars, Rompu
    PROVE  Rompu'
  <1>1. PICK r \in DOMAIN req : req[r].etat = "annule" /\ req[r].msg # Aucun
    BY DEF Rompu
  <1>2. r \in DOMAIN req' /\ req'[r] = req[r]
    BY <1>1, StepMains DEF AnnulesRestent
  <1> QED BY <1>1, <1>2 DEF Rompu

-----------------------------------------------------------------------------
(* The receiver as a whole: what it works on, the messages that have not    *)
(* reached it, and the threads, each with a request of its own.             *)
LEtat == [expected |-> expected, cant |-> cant_match, unexp |-> unexpected, traites |-> traites]

Dehors == EnChemin \cup ToSet(pending)

RangeeInv == Rangee(LEtat, Dehors, Recus)

EnRoute ==
    /\ EnChemin \subseteq Envoyees /\ ToSet(pending) \subseteq Envoyees
    /\ reseau \cap EnMain = {} /\ EnChemin \cap ToSet(pending) = {} /\ IsInjective(pending)

FilsInv ==
    /\ Cardinality(suites) <= mode.fils
    /\ \A c \in suites :
         /\ c.r # 0 => c.r \in DOMAIN req /\ req[c.r].etat = "pris" /\ req[c.r].msg = c.m
         /\ c.pc = "finir" => c.r # 0
         /\ c.pc \in {"garder", "verifie"} => c.r = 0
    /\ \A c, d \in suites : c.r = d.r /\ c.r # 0 => c = d

EndroitsInv == EnvoisInv /\ RangeeInv /\ EnRoute /\ DemandesInv /\ FilsInv

LEMMA LEtatType ==
    ASSUME TypesInv
    PROVE  LEtat \in Etats
  BY DEF TypesInv, LEtat, Etats

LEMMA LEtatTypeApres ==
    ASSUME TypesInv'
    PROVE  LEtat' \in Etats
  BY DEF TypesInv, LEtat, Etats

LEMMA EnvoisMemes ==
    ASSUME UNCHANGED <<mode, envois>>
    PROVE  /\ Envoyees' = Envoyees
           /\ EnvoisInv => EnvoisInv'
           /\ \A e2, D, R : e2 = LEtat' /\ D = Dehors' /\ R = Recus' /\ Rangee(e2, D, R)
                            => RangeeInv'
  <1>1. Envoyees' = Envoyees
    BY DEF Envoyees
  <1>2. EnvoisInv => EnvoisInv'
    BY DEF EnvoisInv
  <1>3. ASSUME NEW e2, NEW D, NEW R, e2 = LEtat', D = Dehors', R = Recus',
               Rangee(e2, D, R)
        PROVE  RangeeInv'
    <2>1. Rangee(LEtat', Dehors', Recus')
      BY Zenon, <1>3
    <2> QED BY Zenon, <2>1 DEF RangeeInv, Rangee, RangeeEn, Partagees, EnOrdre, Croissante, De
  <1> QED BY <1>1, <1>2, <1>3

(* A step that leaves alone the messages for a communicator to come.        *)
LEMMA MainMemes ==
    ASSUME \A c \in suites : c.pc = "garder" => c \in suites',
           \A c \in suites' : c.pc = "garder" => c \in suites
    PROVE  EnMain' = EnMain
  BY DEF EnMain

LEMMA DehorsMemes ==
    ASSUME EnMain' = EnMain, reseau' = reseau, pending' = pending
    PROVE  EnChemin' = EnChemin /\ Dehors' = Dehors
  BY DEF EnChemin, Dehors

LEMMA FilsCardinal ==
    ASSUME NEW S, IsFiniteSet(S), NEW n \in Nat, NEW d
    PROVE  /\ Cardinality(S) < n => Cardinality(S \cup {d}) <= n
           /\ \A c \in S : Cardinality(S) <= n =>
                Cardinality(S \ {c}) <= n /\ Cardinality((S \ {c}) \cup {d}) <= n
  <1>1. Cardinality(S) \in Nat
    BY FS_CardinalityType
  <1>2. ASSUME Cardinality(S) < n PROVE Cardinality(S \cup {d}) <= n
    BY <1>1, <1>2, FS_AddElement
  <1>3. ASSUME NEW c \in S, Cardinality(S) <= n
        PROVE  Cardinality(S \ {c}) <= n /\ Cardinality((S \ {c}) \cup {d}) <= n
    <2>1. PICK T : T = S \ {c}
      OBVIOUS
    <2>2. IsFiniteSet(T) /\ Cardinality(T) = Cardinality(S) - 1
      BY <2>1, FS_RemoveElement
    <2>3. Cardinality(T \cup {d}) = Cardinality(T) \/ Cardinality(T \cup {d}) = Cardinality(T) + 1
      BY <2>2, FS_AddElement
    <2> QED BY <1>1, <1>3, <2>1, <2>2, <2>3
  <1> QED BY <1>2, <1>3

-----------------------------------------------------------------------------
LEMMA InitEndroits == Init => EndroitsInv
  <1> SUFFICES ASSUME Init PROVE EndroitsInv
    OBVIOUS
  <1>1. Inv /\ mode \in Modes
    BY InitInv DEF Init
  <1>2. EnvoisInv
    <2>1. PICK tags \in [Sources -> UNION {[1 .. n -> Tags] : n \in ToSet(mode.nb)}] :
            /\ \A s \in Sources : DOMAIN tags[s] = 1 .. mode.nb[s + 1]
            /\ envois = [s \in Sources |-> [n \in DOMAIN tags[s] |-> Message(s, n, tags[s][n])]]
      BY DEF Init
    <2>2. ASSUME NEW s \in Sources
          PROVE  /\ envois[s] \in Seq(Messages) /\ Len(envois[s]) = mode.nb[s + 1]
                 /\ \A n \in 1 .. Len(envois[s]) :
                      /\ envois[s][n].src = s /\ envois[s][n].rang = n
                      /\ mode.overtake \/ envois[s][n].seq = (mode.depart + n - 1) % Modulo
      <3>1. PICK nb \in Nat : nb = mode.nb[s + 1]
        BY <1>1, ModeType
      <3>2. envois[s] = [n \in 1 .. nb |-> Message(s, n, tags[s][n])]
        BY <2>1, <3>1
      <3>3. ASSUME NEW n \in 1 .. nb
            PROVE  /\ Message(s, n, tags[s][n]) \in Messages
                   /\ Message(s, n, tags[s][n]).src = s /\ Message(s, n, tags[s][n]).rang = n
                   /\ mode.overtake \/ Message(s, n, tags[s][n]).seq = (mode.depart + n - 1) % Modulo
        <4>1. envois[s][n] \in ToSet(envois[s]) /\ envois[s][n] = Message(s, n, tags[s][n])
          BY <3>2 DEF ToSet
        <4>2. envois[s][n] \in reseau
          BY <4>1 DEF Init
        <4>3. Message(s, n, tags[s][n]) \in Messages
          BY <1>1, <4>1, <4>2 DEF Inv, TypesInv
        <4>4. /\ Message(s, n, tags[s][n]).src = s /\ Message(s, n, tags[s][n]).rang = n
              /\ Message(s, n, tags[s][n]).seq =
                   IF mode.overtake THEN 0 ELSE (mode.depart + n - 1) % Modulo
          BY DEF Message
        <4>5. mode.overtake \in BOOLEAN
          BY <1>1, ModeType
        <4> QED BY <4>3, <4>4, <4>5
      <3>4. envois[s] \in [1 .. nb -> Messages]
        BY <3>2, <3>3
      <3>5. envois[s] \in Seq(Messages) /\ Len(envois[s]) = nb
        BY <3>4
      <3>6. \A n \in 1 .. nb : envois[s][n] = Message(s, n, tags[s][n])
        BY <3>2
      <3> QED BY <3>1, <3>3, <3>5, <3>6
    <2>3. envois \in [Sources -> Seq(Messages)]
      BY <2>1, <2>2
    <2> QED BY <2>2, <2>3 DEF EnvoisInv
  <1>3. req = <<>> /\ pending = <<>> /\ suites = {} /\ reseau = Envoyees
        /\ EnMain = {} /\ EnChemin = Envoyees
    BY DEF Init, Envoyees, EnMain, EnChemin
  <1>4. Recus = {} /\ Recues = {}
    BY <1>3 DEF Recus, Recues
  <1>5. ToSet(pending) = {} /\ IsInjective(pending)
    BY <1>3 DEF ToSet, IsInjective
  <1>6. RangeeInv
    <2> SUFFICES ASSUME NEW s \in Sources
                 PROVE  RangeeEn(LEtat, s, Dehors, Recus)
      BY DEF RangeeInv, Rangee
    <2>1. LEtat.cant[s] = <<>> /\ LEtat.unexp[s] = <<>> /\ LEtat.traites[s] = <<>> /\ LEtat.expected[s] = mode.depart
      BY DEF LEtat, Init, Vides
    <2>2. Fragments(<<>>) = {} /\ Suivies(<<>>) /\ UneFois(<<>>) /\ IsInjective(<<>>) /\ ToSet(<<>>) = {}
      BY DEF Fragments, Suivies, UneFois, IsInjective, ToSet
    <2>3. De(s) \subseteq Dehors
      BY <1>3 DEF De, Envoyees, Dehors
    <2>4. Partagees(s, {}, {}, {}, Dehors, Recus)
      BY <1>4, <2>3 DEF Partagees
    <2>5. EnOrdre(<<>>, mode.depart)
      <3>1. PICK d \in 0 .. Modulo - 1 : d = mode.depart
        BY <1>1, ModesAssumption
      <3>2. Modulo * 0 + d = d
        BY ModuloAssumption
      <3>3. d % Modulo = d
        BY <3>2, Reste
      <3>4. Len(<<>>) = 0 /\ mode.depart + 0 = d
        BY <3>1
      <3> QED BY <3>1, <3>3, <3>4 DEF EnOrdre
    <2>6. Croissante(<<>>)
      BY DEF Croissante
    <2> QED BY <2>1, <2>2, <2>4, <2>5, <2>6 DEF RangeeEn
  <1>7. FilsInv
    <2>1. Cardinality(suites) = 0
      BY <1>3, FS_EmptySet
    <2>2. mode.fils \in Nat
      BY <1>1, ModesAssumption
    <2> QED BY <1>3, <2>1, <2>2 DEF FilsInv
  <1>8. EnRoute /\ DemandesInv
    BY <1>3, <1>4, <1>5 DEF EnRoute, DemandesInv
  <1> QED BY <1>2, <1>6, <1>7, <1>8 DEF EndroitsInv
-----------------------------------------------------------------------------
LEMMA DehorsPasRecu ==
    ASSUME EnvoisInv, NEW e, NEW D, NEW R, Rangee(e, D, R), NEW s \in Sources, NEW m \in De(s), m \in D
    PROVE  m \notin R
  BY DEF Rangee, RangeeEn, Partagees

LEMMA EnvoyeeDe ==
    ASSUME EnvoisInv, NEW m \in Envoyees
    PROVE  m \in Messages /\ m.src \in Sources /\ m \in De(m.src)
  <1>1. PICK s \in Sources : m \in De(s)
    BY DEF Envoyees, De
  <1>2. m \in Messages /\ m.src = s
    BY <1>1, EnvoyeProprietes
  <1> QED BY <1>1, <1>2

(* A message is taken up, by a thread that is one of few or was about to    *)
(* look for it.                                                             *)
LEMMA PrendreFils ==
    ASSUME Inv, FilsInv, NEW m \in Messages, NEW autres, Prendre_en_charge(m, autres), UNCHANGED mode,
           \/ autres = suites /\ UnFilLibre
           \/ \E c \in suites : autres = suites \ {c}
    PROVE  FilsInv'
  <1> DEFINE p == Preneur(m)
             recoit == {r \in {p} \ {0} : req[r].genre = "recv"}
             x == [pc |-> "apres", m |-> m, r |-> IF recoit = {} THEN 0 ELSE p]
  <1>1. Match_one(m) /\ suites' = autres \cup {x} /\ DOMAIN req' = DOMAIN req
    BY DEF Prendre_en_charge, Match_one
  <1>2. autres \subseteq suites /\ IsFiniteSet(suites)
    BY DEF Inv, TypesInv
  <1>3. x.pc = "apres" /\ x.m = m /\ (x.r = 0 \/ (x.r = p /\ p # 0 /\ req[p].genre = "recv"))
    OBVIOUS
  <1> HIDE DEF x
  <1>4. Cardinality(suites') <= mode'.fils
    <2>1. PICK n \in Nat : n = mode.fils /\ Cardinality(suites) <= n
      BY ModesAssumption DEF Inv, TypesInv, FilsInv
    <2>2. CASE autres = suites /\ UnFilLibre
      BY <1>1, <1>2, <2>1, <2>2, FilsCardinal DEF UnFilLibre
    <2>3. CASE \E c \in suites : autres = suites \ {c}
      BY <1>1, <1>2, <2>1, <2>3, FilsCardinal
    <2> QED BY <2>2, <2>3
  <1>5. x.r # 0 => /\ x.r \in DOMAIN req /\ req[x.r].etat = "poste"
                   /\ req'[x.r].etat = "pris" /\ req'[x.r].msg = m
    <2> SUFFICES ASSUME x.r # 0
                 PROVE  /\ x.r \in DOMAIN req /\ req[x.r].etat = "poste"
                        /\ req'[x.r].etat = "pris" /\ req'[x.r].msg = m
      OBVIOUS
    <2>1. x.r = p /\ p # 0 /\ req[p].genre = "recv"
      BY <1>3
    <2>2. PICK r \in DOMAIN req : r = Preneur(m)
      BY <2>1, PreneurProprietes
    <2>3. /\ req[r].etat = "poste" /\ req'[r].msg = m
          /\ req[r].genre = "recv" => req'[r].etat = "pris"
      BY <1>1, <2>2, Match_oneReq
    <2> QED BY <2>1, <2>2, <2>3
  <1>6. ASSUME NEW c \in autres, c.r # 0
        PROVE  /\ c.r \in DOMAIN req /\ req[c.r].etat = "pris"
               /\ req'[c.r].etat = "pris" /\ req'[c.r].msg = c.m
    <2>1. c.r \in DOMAIN req /\ req[c.r].etat = "pris" /\ req[c.r].msg = c.m
      BY <1>2, <1>6 DEF FilsInv
    <2>2. req'[c.r] = req[c.r]
      BY <1>1, <2>1, Match_oneReq
    <2> QED BY <2>1, <2>2
  <1>7. ASSUME NEW c \in suites'
        PROVE  /\ c.r # 0 => c.r \in DOMAIN req' /\ req'[c.r].etat = "pris" /\ req'[c.r].msg = c.m
               /\ c.pc = "finir" => c.r # 0
               /\ c.pc \in {"garder", "verifie"} => c.r = 0
    <2>1. CASE c = x
      BY <1>1, <1>3, <1>5, <2>1
    <2>2. CASE c \in autres
      BY <1>1, <1>2, <1>6, <2>2 DEF FilsInv
    <2> QED BY <1>1, <2>1, <2>2
  <1>8. ASSUME NEW c \in suites', NEW d \in suites', c.r = d.r, c.r # 0 PROVE c = d
    <2>1. CASE c \in autres /\ d \in autres
      BY <1>2, <1>8, <2>1 DEF FilsInv
    <2>2. CASE c = x /\ d \in autres
      BY <1>5, <1>6, <1>8, <2>2
    <2>3. CASE d = x /\ c \in autres
      BY <1>5, <1>6, <1>8, <2>3
    <2> QED BY <1>1, <1>8, <2>1, <2>2, <2>3
  <1> QED BY <1>4, <1>7, <1>8 DEF FilsInv

LEMMA PrendreRangee ==
    ASSUME Inv, Inv', EnvoisInv, DemandesInv, NumerosDistincts, UNCHANGED envois,
           NEW e \in Etats, NEW D, Rangee(e, D, Recus), e.unexp = unexpected,
           NEW m \in Envoyees, m \in D, mode.overtake \/ m.seq = e.expected[m.src],
           NEW autres, Prendre_en_charge(m, autres), Prise(e, LEtat', m.src, m)
    PROVE  DemandesInv' /\ Rangee(LEtat', D \ {m}, Recus')
  <1>1. m \in Messages /\ m.src \in Sources /\ m \in De(m.src)
    BY EnvoyeeDe
  <1>2. m \notin Recus
    BY <1>1, DehorsPasRecu
  <1>3. Match_one(m)
    BY DEF Prendre_en_charge
  <1>4. /\ DemandesInv'
        /\ Recus' = IF Preneur(m) = 0 THEN Recus ELSE Recus \cup {m}
    BY <1>2, <1>3, Match_oneDemandes
  <1>5. PICK e2 \in Etats : e2 = LEtat'
    BY LEtatTypeApres DEF Inv
  <1>6. mode \in Modes /\ Prise(e, e2, m.src, m)
    BY <1>5 DEF Inv, TypesInv
  <1>7. /\ e2.unexp = [e.unexp EXCEPT ![m.src] = Append(@, m)] => Rangee(e2, D \ {m}, Recus)
        /\ e2.unexp = e.unexp => Rangee(e2, D \ {m}, Recus \cup {m})
    BY <1>1, <1>6, PriseRangee
  <1>8. e2.unexp = IF Preneur(m) = 0 THEN [e.unexp EXCEPT ![m.src] = Append(@, m)] ELSE e.unexp
    BY <1>3, <1>5 DEF Match_one, LEtat
  <1>9. Rangee(e2, D \ {m}, Recus')
    BY <1>4, <1>7, <1>8
  <1> QED BY <1>4, <1>5, <1>9

(* The thread that has taken a message up, or gives up the search for one,  *)
(* leaves alone those for a communicator to come.                           *)
LEMMA PrendreMain ==
    ASSUME NEW m, NEW autres, Prendre_en_charge(m, autres), autres \subseteq suites,
           \A c \in suites \ autres : c.pc # "garder"
    PROVE  EnMain' = EnMain
  <1>1. PICK r : suites' = autres \cup {[pc |-> "apres", m |-> m, r |-> r]}
    BY DEF Prendre_en_charge
  <1>2. PICK x : x = [pc |-> "apres", m |-> m, r |-> r]
    OBVIOUS
  <1>3. x.pc = "apres"
    BY <1>2
  <1> QED BY <1>1, <1>2, <1>3, MainMemes

LEMMA RecoitEndroits ==
    ASSUME Inv, Inv', EndroitsInv, NumerosDistincts, NEW m \in reseau, Recoit(m)
    PROVE  EndroitsInv'
  <1> USE DEF EndroitsInv
  <1>1. /\ mode' = mode /\ envois' = envois /\ pending' = pending /\ reseau' = reseau \ {m}
        /\ UnFilLibre /\ m \in Envoyees
    BY DEF Recoit, EnRoute, EnChemin, varsComm
  <1>2. m \in Messages /\ m.src \in Sources /\ m \in De(m.src) /\ Envoyees' = Envoyees /\ EnvoisInv'
    BY <1>1, EnvoyeeDe, EnvoisMemes
  <1>3. LEtat \in Etats /\ LEtat' \in Etats /\ pending \in Seq(Messages)
    BY LEtatType, LEtatTypeApres DEF Inv, TypesInv
  <1>4. CASE /\ suites' = suites \cup {[pc |-> "garder", m |-> m, r |-> 0]}
             /\ UNCHANGED <<varsRecus, req>>
    <2>1. LEtat' = LEtat /\ Recus' = Recus /\ DemandesInv'
      BY <1>1, <1>2, <1>4
         DEF LEtat, varsRecus, Recus, Recues, DemandesInv, BonneDemande, EstRecue, Accepte
    <2> DEFINE c == [pc |-> "garder", m |-> m, r |-> 0]
    <2>2. c.pc = "garder" /\ c.m = m /\ c.r = 0
      OBVIOUS
    <2>3. suites' = suites \cup {c}
      BY <1>4
    <2> HIDE DEF c
    <2>4. EnMain' = EnMain \cup {m}
      BY <2>2, <2>3 DEF EnMain
    <2>5. EnChemin' = EnChemin /\ Dehors' = Dehors
      BY <1>1, <2>4 DEF EnChemin, Dehors
    <2>6. EnRoute'
      BY <1>1, <1>2, <2>4, <2>5 DEF EnRoute
    <2>7. FilsInv'
      <3>1. PICK n \in Nat : n = mode.fils /\ Cardinality(suites) < n /\ IsFiniteSet(suites)
        BY <1>1, ModesAssumption DEF Inv, TypesInv, UnFilLibre
      <3>2. Cardinality(suites') <= mode'.fils
        BY <1>1, <2>3, <3>1, FilsCardinal
      <3>3. \A x \in suites' : x \in suites \/ x = c
        BY <2>3
      <3>4. req' = req
        BY <1>4
      <3> QED BY <2>2, <3>2, <3>3, <3>4 DEF FilsInv
    <2>8. RangeeInv'
      <3>1. Rangee(LEtat, Dehors, Recus)
        BY DEF RangeeInv
      <3> QED BY <1>1, <2>1, <2>5, <3>1, EnvoisMemes
    <2> QED BY <1>2, <2>1, <2>6, <2>7, <2>8
  <1>5. ASSUME EnMain' = EnMain
        PROVE  EnRoute' /\ Dehors' = Dehors \ {m} /\ m \in Dehors
    <2>1. m \notin EnMain /\ m \notin ToSet(pending)
      BY DEF EnRoute, EnChemin
    <2>2. EnChemin' = EnChemin \ {m} /\ Dehors' = Dehors \ {m} /\ m \in Dehors
      BY <1>1, <1>5, <2>1 DEF EnChemin, Dehors
    <2> QED BY <1>1, <1>2, <1>5, <2>2 DEF EnRoute
  <1>6. CASE /\ cant_match' = [cant_match EXCEPT ![m.src] = Append_ordonne(@, m, expected[m.src])]
             /\ UNCHANGED <<expected, unexpected, traites, req, suites>>
    <2>1. Recus' = Recus /\ DemandesInv' /\ FilsInv'
      BY <1>1, <1>2, <1>6
         DEF Recus, Recues, DemandesInv, FilsInv, BonneDemande, EstRecue, Accepte
    <2>2. Rangee(LEtat', Dehors \ {m}, Recus)
      <3>1. PICK e \in Etats, e2 \in Etats : e = LEtat /\ e2 = LEtat'
        BY <1>3
      <3>2. /\ e2.cant = [e.cant EXCEPT ![m.src] = Append_ordonne(@, m, e.expected[m.src])]
            /\ e2.expected = e.expected /\ e2.unexp = e.unexp /\ e2.traites = e.traites
        BY <1>6, <3>1 DEF LEtat
      <3>3. Rangee(e, Dehors, Recus) /\ m \in Dehors
        BY <3>1 DEF RangeeInv, Dehors, EnChemin
      <3>4. Rangee(e2, Dehors \ {m}, Recus)
        BY <1>2, <3>2, <3>3, AttenteRangee
      <3> QED BY <3>1, <3>4
    <2>3. RangeeInv' /\ EnRoute'
      <3>1. EnMain' = EnMain
        BY <1>6, MainMemes
      <3> QED BY <1>1, <1>5, <2>1, <2>2, <3>1, EnvoisMemes
    <2> QED BY <1>2, <2>1, <2>3
  <1>7. CASE /\ ~ HorsOrdre(m)
             /\ IF SansNumero(m) THEN UNCHANGED expected ELSE Avancer(m.src)
             /\ Prendre_en_charge(m, suites)
             /\ UNCHANGED cant_match
    <2>1. FilsInv'
      BY <1>1, <1>2, <1>7, PrendreFils
    <2>2. mode.overtake \/ m.seq = expected[m.src]
      BY <1>7 DEF HorsOrdre, SansNumero
    <2>3. DemandesInv' /\ Rangee(LEtat', Dehors \ {m}, Recus')
      <3>1. PICK e \in Etats : e = LEtat
        BY <1>3
      <3>2. Prise(e, LEtat', m.src, m)
        BY <1>7, <3>1 DEF Prise, LEtat, Prendre_en_charge, Match_one, Avancer, SansNumero
      <3>3. /\ Rangee(e, Dehors, Recus) /\ m \in Dehors
            /\ e.unexp = unexpected /\ (mode.overtake \/ m.seq = e.expected[m.src])
        BY <2>2, <3>1 DEF RangeeInv, LEtat, Dehors, EnChemin
      <3> QED BY <1>1, <1>7, <3>2, <3>3, PrendreRangee
    <2>4. RangeeInv' /\ EnRoute'
      <3>1. EnMain' = EnMain
        BY <1>7, PrendreMain
      <3> QED BY <1>1, <1>5, <2>3, <3>1, EnvoisMemes
    <2> QED BY <1>2, <2>1, <2>3, <2>4
  <1> QED BY <1>4, <1>6, <1>7 DEF Recoit

(* The message joins those for a communicator to come.                      *)
LEMMA GarderEndroits ==
    ASSUME Inv, EndroitsInv, NEW c \in suites, Garder(c)
    PROVE  EndroitsInv'
  <1> USE DEF EndroitsInv
  <1>1. /\ c.pc = "garder" /\ pending' = Append(pending, c.m) /\ suites' = suites \ {c}
        /\ mode' = mode /\ envois' = envois /\ reseau' = reseau /\ req' = req
        /\ UNCHANGED varsRecus
    BY DEF Garder
  <1>2. PICK m \in Messages : m = c.m /\ m \in EnMain
    BY <1>1 DEF EnMain, Inv, TypesInv, Suites
  <1>3. EnMain' = EnMain \ {m}
    <2>1. ASSUME NEW d \in suites, d.pc = "garder", d.m = m PROVE d = c
      <3>1. d.r = 0 /\ c.r = 0
        BY <1>1, <2>1 DEF FilsInv
      <3>2. d \in Suites /\ c \in Suites
        BY DEF Inv, TypesInv
      <3> QED BY <1>1, <1>2, <2>1, <3>1, <3>2 DEF Suites
    <2> QED BY <1>1, <1>2, <2>1 DEF EnMain
  <1>4. m \notin ToSet(pending) /\ m \notin reseau /\ m \in Envoyees /\ pending \in Seq(Messages)
    BY <1>2 DEF EnRoute, EnChemin, Inv, TypesInv
  <1>5. ToSet(pending') = ToSet(pending) \cup {m} /\ IsInjective(pending')
    BY <1>1, <1>2, <1>4, AppendEnsemble, AppendInjectif DEF EnRoute
  <1>6. EnChemin' = EnChemin \ {m} /\ Dehors' = Dehors
    BY <1>1, <1>2, <1>3, <1>4, <1>5 DEF EnChemin, Dehors
  <1>7. EnvoisInv' /\ Envoyees' = Envoyees
    BY <1>1, EnvoisMemes
  <1>8. EnRoute'
    BY <1>1, <1>3, <1>4, <1>5, <1>6, <1>7 DEF EnRoute
  <1>9. LEtat' = LEtat /\ Recus' = Recus /\ DemandesInv'
    BY <1>1, <1>7 DEF LEtat, varsRecus, Recus, Recues, DemandesInv, BonneDemande, EstRecue, Accepte
  <1>10. RangeeInv'
    <2>1. Rangee(LEtat, Dehors, Recus)
      BY DEF RangeeInv
    <2> QED BY <1>1, <1>6, <1>9, <2>1, EnvoisMemes
  <1>11. FilsInv'
    <2>1. PICK n \in Nat : n = mode.fils /\ Cardinality(suites) <= n /\ IsFiniteSet(suites)
      BY ModesAssumption DEF Inv, TypesInv, FilsInv
    <2>2. Cardinality(suites') <= mode'.fils
      BY <1>1, <2>1, FilsCardinal
    <2> QED BY <1>1, <2>2 DEF FilsInv
  <1> QED BY <1>7, <1>8, <1>9, <1>10, <1>11
-----------------------------------------------------------------------------
(* A step that leaves the lists alone.                                      *)
LEMMA ListesMemes ==
    ASSUME EndroitsInv, UNCHANGED <<mode, envois, reseau, varsComm, varsRecus>>, EnMain' = EnMain,
           Recus' = Recus, DemandesInv', FilsInv'
    PROVE  EndroitsInv'
  <1>1. LEtat' = LEtat /\ reseau' = reseau /\ pending' = pending /\ EnChemin' = EnChemin /\ Dehors' = Dehors
        /\ mode' = mode /\ envois' = envois
    BY DehorsMemes DEF LEtat, varsComm, varsRecus
  <1>2. Rangee(LEtat, Dehors, Recus)
    BY DEF EndroitsInv, RangeeInv
  <1>3. RangeeInv' /\ EnvoisInv' /\ Envoyees' = Envoyees
    BY <1>1, <1>2, EnvoisMemes DEF EndroitsInv
  <1>4. EnRoute'
    BY <1>1, <1>3 DEF EndroitsInv, EnRoute
  <1> QED BY <1>3, <1>4 DEF EndroitsInv

LEMMA ApresEndroits ==
    ASSUME Inv, EndroitsInv, NEW c \in suites, Apres(c)
    PROVE  EndroitsInv'
  <1> USE DEF EndroitsInv
  <1> DEFINE d == [c EXCEPT !.pc = "verifie", !.r = 0]
  <1>1. /\ c.pc = "apres"
        /\ req' = [r \in DOMAIN req |-> IF r = c.r /\ req[r].etat = "pris"
                                        THEN [req[r] EXCEPT !.etat = "fini"] ELSE req[r]]
        /\ suites' = suites \ {c} \/ suites' = (suites \ {c}) \cup {d}
        /\ UNCHANGED <<mode, envois, reseau, varsComm, varsRecus>>
    <2>1. suites' = (suites \ {c}) \cup {x \in {d} : cant_match[c.m.src] # <<>>}
      BY DEF Apres
    <2> QED BY <2>1 DEF Apres
  <1>2. mode' = mode /\ envois' = envois
    BY <1>1
  <1>3. /\ req \in [1 .. Len(req) -> Requetes] /\ DOMAIN req = 1 .. Len(req) /\ suites \subseteq Suites
        /\ IsFiniteSet(suites)
    BY ReqDomaine DEF Inv, TypesInv
  <1>4. d.pc = "verifie" /\ d.r = 0
    BY <1>3 DEF Suites
  <1> HIDE DEF d
  <1>5. ASSUME NEW r \in DOMAIN req
        PROVE  /\ Inchangee(req[r], req'[r]) /\ req'[r].msg = req[r].msg
               /\ req'[r].etat # req[r].etat => req'[r].etat = "fini" /\ req[r].etat = "pris"
               /\ r # c.r => req'[r] = req[r]
    <2>1. req[r] \in Requetes
      BY <1>3
    <2>2. CASE r = c.r /\ req[r].etat = "pris"
      <3>1. req'[r] = [req[r] EXCEPT !.etat = "fini"]
        BY <1>1, <2>2
      <3> QED BY <2>1, <2>2, <3>1 DEF Requetes, Inchangee
    <2>3. CASE ~ (r = c.r /\ req[r].etat = "pris")
      <3>1. req'[r] = req[r]
        BY <1>1, <2>3
      <3> QED BY <3>1 DEF Inchangee
    <2> QED BY <2>2, <2>3
  <1>6. DOMAIN req' = DOMAIN req
    BY <1>1
  <1>7. DemandesInv' /\ Recus' = Recus
    <2>1. ASSUME NEW r \in DOMAIN req
          PROVE  BonneDemande(req'[r]) /\ (EstRecue(req'[r]) <=> EstRecue(req[r]))
      <3>1. BonneDemande(req[r])
        BY DEF DemandesInv
      <3>2. EstRecue(req'[r]) <=> EstRecue(req[r])
        BY <1>5 DEF EstRecue, Inchangee
      <3> QED BY <1>5, <3>1, <3>2 DEF BonneDemande, Accepte, Inchangee
    <2> QED BY <1>2, <1>5, <1>6, <2>1, RequetesMemes
  <1>8. FilsInv'
    <2>1. Cardinality(suites') <= mode'.fils
      <3>1. PICK n \in Nat : n = mode.fils /\ Cardinality(suites) <= n
        BY ModesAssumption DEF Inv, TypesInv, FilsInv
      <3> QED BY <1>1, <1>2, <1>3, <3>1, FilsCardinal
    <2>2. ASSUME NEW x \in suites, x # c, x.r # 0
          PROVE  x.r \in DOMAIN req' /\ req'[x.r].etat = "pris" /\ req'[x.r].msg = x.m
      <3>1. x.r \in DOMAIN req /\ req[x.r].etat = "pris" /\ req[x.r].msg = x.m /\ x.r # c.r
        BY <2>2 DEF FilsInv
      <3> QED BY <1>5, <1>6, <3>1
    <2>3. \A x \in suites' : (x \in suites /\ x # c) \/ x = d
      BY <1>1
    <2>4. ASSUME NEW x \in suites'
          PROVE  /\ x.r # 0 => x.r \in DOMAIN req' /\ req'[x.r].etat = "pris" /\ req'[x.r].msg = x.m
                 /\ x.pc = "finir" => x.r # 0
                 /\ x.pc \in {"garder", "verifie"} => x.r = 0
      <3>1. CASE x = d
        BY <1>4, <3>1
      <3>2. CASE x \in suites /\ x # c
        BY <2>2, <3>2 DEF FilsInv
      <3> QED BY <2>3, <3>1, <3>2
    <2>5. ASSUME NEW x \in suites', NEW y \in suites', x.r = y.r, x.r # 0 PROVE x = y
      BY <1>4, <2>3, <2>5 DEF FilsInv
    <2> QED BY <2>1, <2>4, <2>5 DEF FilsInv
  <1>9. EnMain' = EnMain
    BY <1>1, <1>4, MainMemes
  <1> QED BY <1>1, <1>7, <1>8, <1>9, ListesMemes

LEMMA VerifieEndroits ==
    ASSUME Inv, Inv', EndroitsInv, NumerosDistincts, NEW c \in suites, Verifie(c)
    PROVE  EndroitsInv'
  <1> USE DEF EndroitsInv
  <1>0. PICK s \in Sources : s = c.m.src
    BY DEF Inv, TypesInv, Suites, Messages
  <1>1. /\ c.pc = "verifie" /\ mode' = mode /\ envois' = envois /\ comm_existe' = comm_existe
        /\ pending' = pending /\ reseau' = reseau
    BY DEF Verifie, varsComm
  <1>2. LEtat \in Etats /\ LEtat' \in Etats /\ mode \in Modes /\ IsFiniteSet(suites)
    BY LEtatType, LEtatTypeApres DEF Inv, TypesInv
  <1>3. EnvoisInv' /\ Envoyees' = Envoyees
    BY <1>1, EnvoisMemes
  <1>4. EnMain' = EnMain => EnRoute' /\ Dehors' = Dehors
    BY <1>1, <1>3, DehorsMemes DEF EnRoute
  <1>5. CASE /\ A_son_tour(cant_match[s], expected[s])
             /\ cant_match' = [cant_match EXCEPT ![s] = Sans_tete(@)]
             /\ Avancer(s)
             /\ Prendre_en_charge(cant_match[s][1][1], suites \ {c})
    <2> DEFINE D == Dehors
    <2>0. EnMain' = EnMain
      BY <1>1, <1>5, PrendreMain
    <2>1. PICK e \in Etats : e = LEtat
      BY <1>2
    <2>2. e.cant[s] # <<>> /\ e.cant[s][1][1].seq = e.expected[s] /\ Rangee(e, D, Recus)
          /\ e.cant = cant_match /\ e.cant[s] \in Listes
      BY <1>2, <1>5, <2>1, EtatsType DEF A_son_tour, LEtat, RangeeInv
    <2>3. PICK e2 \in Etats : TeteRetiree(e, e2, s)
      <3>1. Sans_tete(e.cant[s]) \in Listes
        BY <2>2, Sans_teteType
      <3>2. [e EXCEPT !.cant = [e.cant EXCEPT ![s] = Sans_tete(@)]] \in Etats
        BY <3>1 DEF Etats
      <3>3. TeteRetiree(e, [e EXCEPT !.cant = [e.cant EXCEPT ![s] = Sans_tete(@)]], s)
        BY DEF TeteRetiree, Etats
      <3> QED BY <3>2, <3>3
    <2>4. PICK m \in De(s) : m = e.cant[s][1][1] /\ m \notin D /\ Rangee(e2, D \cup {m}, Recus)
      <3>1. /\ e.cant[s][1][1] \in De(s) /\ e.cant[s][1][1] \notin D
            /\ Rangee(e2, D \cup {e.cant[s][1][1]}, Recus)
        <4>1. mode \in Modes /\ e.cant[s] # <<>> /\ Rangee(e, D, Recus)
          BY <1>2, <2>2
        <4> HIDE DEF D
        <4> QED BY <1>2, <2>3, <4>1, TeteRangee
      <3> QED BY <3>1
    <2>5. m \in Messages /\ m.src = s /\ m \in Envoyees
      BY <1>2, EnvoyeProprietes DEF Envoyees, De
    <2>6. Prendre_en_charge(m, suites \ {c})
      BY <1>5, <2>2, <2>4
    <2>7. FilsInv'
      BY <1>1, <2>5, <2>6, PrendreFils
    <2>8. Prise(e2, LEtat', m.src, m)
      <3>1. e2.cant = cant_match' /\ e2.expected = expected /\ e2.traites = traites
        BY <1>5, <2>1, <2>3 DEF TeteRetiree, LEtat
      <3> QED BY <1>5, <2>5, <2>6, <3>1 DEF Prise, LEtat, Prendre_en_charge, Match_one, Avancer
    <2>9. e2.unexp = unexpected /\ m.seq = e2.expected[m.src]
      BY <2>1, <2>2, <2>3, <2>4, <2>5 DEF TeteRetiree, LEtat
    <2>10. PICK D2 : D2 = D \cup {m} /\ m \in D2
      OBVIOUS
    <2>11. Rangee(e2, D2, Recus)
      BY <2>4, <2>10
    <2>12. DemandesInv' /\ Rangee(LEtat', D2 \ {m}, Recus')
      <3> HIDE DEF D
      <3> QED BY <1>1, <2>5, <2>6, <2>8, <2>9, <2>10, <2>11, PrendreRangee
    <2>13. D2 \ {m} = Dehors'
      BY <1>4, <2>0, <2>4, <2>10
    <2>14. RangeeInv'
      BY <1>1, <2>12, <2>13, EnvoisMemes
    <2> QED BY <1>3, <1>4, <2>0, <2>7, <2>12, <2>14
  <1>6. CASE suites' = suites \ {c} /\ UNCHANGED <<varsRecus, req>>
    <2>1. DemandesInv' /\ Recus' = Recus
      BY <1>1, <1>3, <1>6 DEF DemandesInv, Recus, Recues, BonneDemande, EstRecue, Accepte
    <2>2. Cardinality(suites') <= mode'.fils
      <3>1. PICK n \in Nat : n = mode.fils /\ Cardinality(suites) <= n
        BY <1>2, ModesAssumption DEF FilsInv
      <3> QED BY <1>1, <1>2, <1>6, <3>1, FilsCardinal
    <2>3. FilsInv'
      BY <1>6, <2>2 DEF FilsInv
    <2>4. EnMain' = EnMain
      BY <1>1, <1>6, MainMemes
    <2> QED BY <1>1, <1>6, <2>1, <2>3, <2>4, ListesMemes DEF varsComm
  <1> QED BY <1>0, <1>5, <1>6 DEF Verifie
-----------------------------------------------------------------------------
(* A thread keeps its request if the step leaves the request alone.         *)
LEMMA FilsMemes ==
    ASSUME FilsInv, UNCHANGED mode, suites' \subseteq suites, Cardinality(suites') <= mode.fils,
           \A c \in suites' : c.r # 0 => c.r \in DOMAIN req' /\ req'[c.r] = req[c.r]
    PROVE  FilsInv'
  BY DEF FilsInv

LEMMA PosteEndroits ==
    ASSUME Inv, EndroitsInv, NEW q \in Demandes, Poste(q)
    PROVE  EndroitsInv'
  <1> USE DEF EndroitsInv
  <1> DEFINE d == [q EXCEPT !.etat = IF q.genre \in {"iprobe", "improbe"} THEN "rien" ELSE "poste"]
  <1>1. /\ req' = Append(req, d) /\ suites' = suites
        /\ UNCHANGED <<mode, envois, reseau, varsComm, varsRecus>>
    BY DEF Poste
  <1>2. /\ d \in Requetes /\ d.etat \in {"rien", "poste"} /\ d.tag \in TagsDemandes /\ d.msg = Aucun
    BY DEF Demandes, Requetes, Etiquettes
  <1> HIDE DEF d
  <1>3. PICK n \in Nat : n = Len(req) /\ DOMAIN req = 1 .. n
    BY ReqDomaine DEF Inv, TypesInv
  <1>4. /\ DOMAIN req' = 1 .. n + 1 /\ req'[n + 1] = d /\ \A r \in 1 .. n : req'[r] = req[r]
    BY <1>1, <1>2, <1>3 DEF Inv, TypesInv
  <1>5. \A r \in 1 .. n + 1 : r \in 1 .. n \/ r = n + 1
    OBVIOUS
  <1>6. ~ EstRecue(d) /\ BonneDemande(d)
    BY <1>2 DEF EstRecue, BonneDemande
  <1>7. envois' = envois /\ mode' = mode
    BY <1>1
  <1>8. DemandesInv' /\ Recus' = Recus
    <2>1. \A r \in DOMAIN req' : BonneDemande(req'[r])
      BY <1>3, <1>4, <1>5, <1>6 DEF DemandesInv
    <2>2. \A r \in DOMAIN req' : EstRecue(req'[r]) =>
                r \in DOMAIN req /\ EstRecue(req[r]) /\ req'[r].msg = req[r].msg
      BY <1>3, <1>4, <1>5, <1>6
    <2>3. \A r \in DOMAIN req : EstRecue(req[r]) => r \in DOMAIN req' /\ EstRecue(req'[r])
      BY <1>3, <1>4
    <2> QED BY <1>7, <2>1, <2>2, <2>3, RequetesMemes
  <1>9. FilsInv'
    <2>1. \A c \in suites' : c.r # 0 => c.r \in DOMAIN req' /\ req'[c.r] = req[c.r]
      BY <1>1, <1>3, <1>4 DEF FilsInv
    <2> QED BY <1>1, <1>7, <2>1, FilsMemes DEF FilsInv
  <1>10. EnMain' = EnMain
    BY <1>1, MainMemes
  <1> QED BY <1>1, <1>8, <1>9, <1>10, ListesMemes

LEMMA TrouveEndroits ==
    ASSUME Inv, Inv', EndroitsInv, NEW q \in Demandes, Trouve(q)
    PROVE  EndroitsInv'
  <1> USE DEF EndroitsInv
  <1>1. PICK s \in Sources, k \in Nat :
          /\ s = Premiere(q) /\ k = Min(Convient(q, s))
          /\ k \in 1 .. Len(unexpected[s]) /\ unexpected[s] \in Seq(Messages)
          /\ Accepte(q, unexpected[s][k])
    <2>1. PICK s \in Sources : s = Premiere(q) /\ Convient(q, s) # {}
      BY PremiereSource DEF Trouve, Inv
    <2>2. Convient(q, s) \subseteq 1 .. Len(unexpected[s]) /\ Convient(q, s) \subseteq Nat
      BY DEF Convient
    <2>3. PICK k \in Nat : k = Min(Convient(q, s)) /\ k \in Convient(q, s)
      <3>1. Min(Convient(q, s)) \in Convient(q, s)
        BY <2>1, <2>2, MinProprietes
      <3> QED BY <2>2, <3>1
    <2>4. unexpected[s] \in Seq(Messages)
      BY DEF Inv, TypesInv
    <2>5. k \in 1 .. Len(unexpected[s]) /\ Accepte(q, unexpected[s][k])
      BY <2>3 DEF Convient
    <2> QED BY <2>1, <2>3, <2>4, <2>5
  <1>2. PICK m \in Messages : m = unexpected[s][k]
    BY <1>1
  <1>3. PICK n \in Nat : n = Len(req) /\ DOMAIN req = 1 .. n
    BY ReqDomaine DEF Inv, TypesInv
  <1> DEFINE d == [q EXCEPT !.etat = "pris", !.msg = m]
             c == [pc |-> "finir", m |-> m, r |-> n + 1]
  <1>4. /\ req' = Append(req, d) /\ suites' = suites \cup {c} /\ UnFilLibre
        /\ unexpected' = IF q.genre \in {"probe", "iprobe"} THEN unexpected
                         ELSE [unexpected EXCEPT ![s] = RemoveAt(@, k)]
        /\ mode' = mode /\ envois' = envois /\ reseau' = reseau /\ comm_existe' = comm_existe
        /\ pending' = pending /\ expected' = expected /\ cant_match' = cant_match /\ traites' = traites
    BY <1>1, <1>2, <1>3 DEF Trouve, Demander, varsComm
  <1>5. /\ d \in Requetes /\ d.etat = "pris" /\ d.tag = q.tag /\ d.peer = q.peer /\ d.genre = q.genre
        /\ d.msg = m /\ d.tag \in TagsDemandes
    BY DEF Demandes, Requetes, Etiquettes
  <1>6. c.pc = "finir" /\ c.m = m /\ c.r = n + 1
    OBVIOUS
  <1> HIDE DEF d, c
  <1>7. /\ DOMAIN req' = 1 .. n + 1 /\ req'[n + 1] = d /\ \A r \in 1 .. n : req'[r] = req[r]
    BY <1>3, <1>4, <1>5 DEF Inv, TypesInv
  <1>8. \A r \in 1 .. n + 1 : r \in 1 .. n \/ r = n + 1
    OBVIOUS
  <1>9. m \in De(s) /\ m \in Envoyees
    <2>1. m \in ToSet(unexpected[s])
      BY <1>1, <1>2 DEF ToSet
    <2>2. LEtat.unexp[s] = unexpected[s] /\ RangeeEn(LEtat, s, Dehors, Recus)
      BY DEF LEtat, RangeeInv, Rangee
    <2>3. m \in De(s)
      BY <2>1, <2>2 DEF RangeeEn, Partagees
    <2> QED BY <2>3 DEF De, Envoyees
  <1>10. BonneDemande(d)
    BY <1>1, <1>2, <1>5, <1>9 DEF BonneDemande, Accepte
  <1>11. FilsInv'
    <2>1. Cardinality(suites') <= mode'.fils
      <3>1. PICK f \in Nat : f = mode.fils /\ Cardinality(suites) < f
        BY <1>4, ModesAssumption DEF Inv, TypesInv, UnFilLibre
      <3>2. IsFiniteSet(suites)
        BY DEF Inv, TypesInv
      <3> QED BY <1>4, <3>1, <3>2, FilsCardinal
    <2>2. ASSUME NEW x \in suites
          PROVE  /\ x.r # 0 => /\ x.r \in DOMAIN req' /\ req'[x.r].etat = "pris" /\ req'[x.r].msg = x.m
                               /\ x.r # n + 1
                 /\ x.pc = "finir" => x.r # 0
                 /\ x.pc \in {"garder", "verifie"} => x.r = 0
      BY <1>3, <1>7 DEF FilsInv
    <2>3. c.r \in DOMAIN req' /\ req'[c.r].etat = "pris" /\ req'[c.r].msg = c.m /\ c.r # 0
      BY <1>5, <1>6, <1>7
    <2>4. \A x \in suites' : x \in suites \/ x = c
      BY <1>4
    <2>5. ASSUME NEW x \in suites', NEW y \in suites', x.r = y.r, x.r # 0 PROVE x = y
      BY <1>6, <2>2, <2>4, <2>5 DEF FilsInv
    <2>6. \A x \in suites' :
            /\ x.r # 0 => x.r \in DOMAIN req' /\ req'[x.r].etat = "pris" /\ req'[x.r].msg = x.m
            /\ x.pc = "finir" => x.r # 0
            /\ x.pc \in {"garder", "verifie"} => x.r = 0
      BY <1>6, <2>2, <2>3, <2>4
    <2> QED BY <2>1, <2>5, <2>6 DEF FilsInv
  <1>12. \A r \in DOMAIN req' : BonneDemande(req'[r])
    BY <1>3, <1>7, <1>8, <1>10 DEF DemandesInv
  <1>15. EnMain' = EnMain
    BY <1>4, <1>6, MainMemes
  <1>13. CASE q.genre \in {"probe", "iprobe"}
    <2>1. ~ EstRecue(d)
      BY <1>5, <1>13 DEF EstRecue
    <2>2. \A r \in DOMAIN req' : EstRecue(req'[r]) =>
                r \in DOMAIN req /\ EstRecue(req[r]) /\ req'[r].msg = req[r].msg
      BY <1>3, <1>7, <1>8, <2>1
    <2>3. \A r \in DOMAIN req : EstRecue(req[r]) => r \in DOMAIN req' /\ EstRecue(req'[r])
      BY <1>3, <1>7
    <2>4. DemandesInv' /\ Recus' = Recus
      BY <1>4, <1>12, <2>2, <2>3, RequetesMemes
    <2> QED BY <1>4, <1>11, <1>13, <1>15, <2>4, ListesMemes DEF varsComm, varsRecus
  <1>14. CASE q.genre \notin {"probe", "iprobe"}
    <2>1. PICK e \in Etats, e2 \in Etats : e = LEtat /\ e2 = LEtat'
      BY LEtatType, LEtatTypeApres DEF Inv
    <2>2. Retrait(e, e2, s, k, m)
      BY <1>1, <1>2, <1>4, <1>14, <2>1 DEF Retrait, LEtat
    <2>3. Rangee(e, Dehors, Recus)
      BY <2>1 DEF RangeeInv
    <2>4. m \notin Recus /\ Rangee(e2, Dehors, Recus \cup {m})
      BY <2>2, <2>3, RetraitRangee
    <2>5. PICK p \in DOMAIN req' : p = n + 1
      BY <1>7
    <2>6. EstRecue(req'[p]) /\ req'[p].msg = m /\ p \notin Recues
      BY <1>3, <1>5, <1>7, <1>14, <2>5 DEF EstRecue, Recues
    <2>7. /\ \A r \in DOMAIN req' : r # p /\ EstRecue(req'[r]) =>
                r \in DOMAIN req /\ EstRecue(req[r]) /\ req'[r].msg = req[r].msg
          /\ \A r \in DOMAIN req : EstRecue(req[r]) => r \in DOMAIN req' /\ EstRecue(req'[r])
      BY <1>3, <1>7, <1>8, <2>5
    <2>8. DemandesInv' /\ Recus' = Recus \cup {m}
      BY <1>4, <1>12, <2>4, <2>6, <2>7, RequetesUneDePlus
    <2>9. EnvoisInv' /\ Envoyees' = Envoyees /\ RangeeInv'
      BY <1>4, <1>15, <2>1, <2>4, <2>8, DehorsMemes, EnvoisMemes
    <2>10. EnRoute'
      BY <1>4, <1>15, <2>9, DehorsMemes DEF EnRoute
    <2> QED BY <1>11, <2>8, <2>9, <2>10
  <1> QED BY <1>13, <1>14

(* A step that changes one request, and not what it has been given.         *)
LEMMA UneRequeteEndroits ==
    ASSUME Inv, EndroitsInv, NEW r0 \in DOMAIN req, NEW d, req' = [req EXCEPT ![r0] = d],
           BonneDemande(d), EstRecue(d) <=> EstRecue(req[r0]), EstRecue(d) => d.msg = req[r0].msg,
           suites' \subseteq suites, \A c \in suites' : c.r # r0,
           \A c \in suites : c.pc = "garder" => c \in suites',
           UNCHANGED <<mode, envois, reseau, varsComm, varsRecus>>
    PROVE  EndroitsInv'
  <1> USE DEF EndroitsInv
  <1>1. /\ DOMAIN req' = DOMAIN req /\ req'[r0] = d
        /\ \A r \in DOMAIN req : r # r0 => req'[r] = req[r]
    BY ReqDomaine DEF Inv, TypesInv
  <1>2. mode' = mode /\ envois' = envois
    OBVIOUS
  <1>3. DemandesInv' /\ Recus' = Recus
    <2>1. \A r \in DOMAIN req' : BonneDemande(req'[r])
      BY <1>1 DEF DemandesInv
    <2>2. \A r \in DOMAIN req' : EstRecue(req'[r]) =>
                r \in DOMAIN req /\ EstRecue(req[r]) /\ req'[r].msg = req[r].msg
      BY <1>1
    <2>3. \A r \in DOMAIN req : EstRecue(req[r]) => r \in DOMAIN req' /\ EstRecue(req'[r])
      BY <1>1
    <2> QED BY <1>2, <2>1, <2>2, <2>3, RequetesMemes
  <1>4. FilsInv'
    <2>1. Cardinality(suites') <= mode.fils
      <3>1. PICK n \in Nat : n = mode.fils /\ Cardinality(suites) <= n
        BY ModesAssumption DEF Inv, TypesInv, FilsInv
      <3>2. /\ IsFiniteSet(suites) /\ Cardinality(suites) \in Nat
            /\ Cardinality(suites') \in Nat /\ Cardinality(suites') <= Cardinality(suites)
        <4>1. IsFiniteSet(suites)
          BY DEF Inv, TypesInv
        <4>2. IsFiniteSet(suites') /\ Cardinality(suites') <= Cardinality(suites)
          BY <4>1, FS_Subset
        <4> QED BY <4>1, <4>2, FS_CardinalityType
      <3> QED BY <3>1, <3>2
    <2>2. \A c \in suites' : c.r # 0 => c.r \in DOMAIN req' /\ req'[c.r] = req[c.r]
      BY <1>1 DEF FilsInv
    <2> QED BY <1>2, <2>1, <2>2, FilsMemes
  <1>5. EnMain' = EnMain
    BY MainMemes
  <1> QED BY <1>3, <1>4, <1>5, ListesMemes

LEMMA FinirEndroits ==
    ASSUME Inv, EndroitsInv, NEW c \in suites, Finir(c)
    PROVE  EndroitsInv'
  <1> USE DEF EndroitsInv
  <1> DEFINE d == [req[c.r] EXCEPT !.etat = "fini", !.msg = IF Consomme(c.m) THEN Aucun ELSE c.m]
  <1>1. /\ c.pc = "finir" /\ req' = [req EXCEPT ![c.r] = d] /\ suites' = suites \ {c}
        /\ UNCHANGED <<mode, envois, reseau, varsComm, varsRecus>>
    BY DEF Finir
  <1>2. PICK r \in DOMAIN req : r = c.r /\ req[r].etat = "pris" /\ req[r].msg = c.m /\ c.r # 0
    BY <1>1 DEF FilsInv
  <1>3. req[r] \in Requetes /\ BonneDemande(req[r])
    BY ReqDomaine DEF Inv, TypesInv, DemandesInv
  <1>4. /\ d.etat = "fini" /\ d.tag = req[r].tag /\ d.peer = req[r].peer /\ d.genre = req[r].genre
        /\ d.msg = IF Consomme(c.m) THEN Aucun ELSE c.m
    BY <1>2, <1>3 DEF Requetes
  <1> HIDE DEF d
  <1>5. ASSUME EstRecue(d) PROVE EstRecue(req[r]) /\ ~ Consomme(c.m) /\ d.msg = req[r].msg
    <2>1. EstRecue(req[r])
      BY <1>2, <1>4, <1>5 DEF EstRecue
    <2>2. ~ Consomme(c.m)
      <3> SUFFICES ASSUME Consomme(c.m) PROVE FALSE
        OBVIOUS
      <3>1. PICK x \in DOMAIN req : req[x].genre = "recv" /\ req[x].etat = "fini" /\ req[x].msg = c.m
        BY DEF Consomme
      <3>2. x \in Recues /\ r \in Recues
        BY <2>1, <3>1 DEF Recues, EstRecue
      <3>3. x = r
        BY <1>2, <3>1, <3>2 DEF DemandesInv
      <3> QED BY <1>2, <3>1, <3>3
    <2> QED BY <1>2, <1>4, <2>1, <2>2
  <1>6. EstRecue(req[r]) => EstRecue(d)
    BY <1>4 DEF EstRecue
  <1>7. BonneDemande(d)
    BY <1>2, <1>3, <1>4, <1>5 DEF BonneDemande, Accepte
  <1>8. /\ suites' \subseteq suites /\ \A x \in suites' : x.r # r
        /\ \A x \in suites : x.pc = "garder" => x \in suites'
    BY <1>1, <1>2 DEF FilsInv
  <1>9. req' = [req EXCEPT ![r] = d] /\ UNCHANGED <<mode, envois, reseau, varsComm, varsRecus>>
    BY <1>1, <1>2
  <1> QED BY <1>5, <1>6, <1>7, <1>8, <1>9, UneRequeteEndroits

(* A tag that a message may have, if it is not that of a collective, may be *)
(* asked for.                                                               *)
EtiquettesDemandables == \A t \in Tags : t >= 0 => t \in TagsDemandes

LEMMA MRecvEndroits ==
    ASSUME Inv, EndroitsInv, EtiquettesDemandables, NEW r \in DOMAIN req, MRecv(r)
    PROVE  EndroitsInv'
  <1> USE DEF EndroitsInv
  <1> DEFINE d == [req[r] EXCEPT !.genre = "recv", !.peer = req[r].msg.src, !.tag = req[r].msg.tag]
  <1>1. /\ req[r].etat = "fini" /\ req[r].genre \in {"mprobe", "improbe"}
        /\ req' = [req EXCEPT ![r] = d] /\ suites' = suites
        /\ UNCHANGED <<mode, envois, reseau, varsComm, varsRecus>>
    BY DEF MRecv
  <1>2. req[r] \in Requetes /\ BonneDemande(req[r])
    BY ReqDomaine DEF Inv, TypesInv, DemandesInv
  <1>3. /\ d.etat = "fini" /\ d.genre = "recv" /\ d.msg = req[r].msg
        /\ d.peer = req[r].msg.src /\ d.tag = req[r].msg.tag
    BY <1>1, <1>2 DEF Requetes
  <1> HIDE DEF d
  <1>4. EstRecue(req[r]) /\ EstRecue(d)
    BY <1>1, <1>3 DEF EstRecue
  <1>5. req[r].msg \in Messages /\ Accepte(req[r], req[r].msg) /\ req[r].msg \in Envoyees
    <2>1. req[r].msg \in Envoyees /\ Accepte(req[r], req[r].msg)
      BY <1>2, <1>4 DEF BonneDemande
    <2> QED BY <2>1, EnvoyeeDe
  <1>6. req[r].msg.tag \in TagsDemandes
    <2>1. req[r].msg.tag \in Tags /\ req[r].tag \in TagsDemandes
      BY <1>2, <1>5 DEF Messages, BonneDemande
    <2> QED BY <1>5, <2>1 DEF Accepte, EtiquettesDemandables
  <1>7. BonneDemande(d)
    BY <1>3, <1>5, <1>6 DEF BonneDemande, Accepte
  <1>8. \A c \in suites' : c.r # r
    <2>1. r # 0
      <3>1. DOMAIN req = 1 .. Len(req)
        BY ReqDomaine DEF Inv, TypesInv
      <3> QED BY <3>1
    <2> QED BY <1>1, <2>1 DEF FilsInv
  <1> QED BY <1>1, <1>3, <1>4, <1>7, <1>8, UneRequeteEndroits

(* What is cancelled without a message waits for one, and no thread has it  *)
(* in its hands.                                                            *)
LEMMA AnnuleEnAttente ==
    ASSUME Inv, EndroitsInv, ~ Rompu', NEW r \in DOMAIN req, Annule(r)
    PROVE  req[r].etat = "poste" /\ \A c \in suites : c.r # r
  <1>1. /\ req' = [req EXCEPT ![r].etat = "annule"]
        /\ req[r].genre = "recv" /\ req[r].etat \in {"poste", "pris"}
    BY DEF Annule
  <1>2. r \in 1 .. Len(req) /\ req \in [1 .. Len(req) -> Requetes] /\ Len(req) \in Nat
    BY ReqDomaine DEF Inv, TypesInv
  <1>3. req'[r].msg = Aucun
    <2>1. r \in DOMAIN req' /\ req'[r].etat = "annule"
      BY <1>1, <1>2 DEF Requetes
    <2> QED BY <2>1 DEF Rompu
  <1>4. req[r].msg = Aucun
    BY <1>1, <1>2, <1>3 DEF Requetes
  <1>5. req[r].etat # "pris"
    <2> SUFFICES ASSUME req[r].etat = "pris" PROVE FALSE
      OBVIOUS
    <2>1. r \in Recues
      BY <1>1 DEF Recues, EstRecue
    <2>2. req[r].msg \in Envoyees
      BY <2>1 DEF EndroitsInv, DemandesInv, BonneDemande, Recues
    <2>3. req[r].msg.src \in Sources
      BY <2>2, EnvoyeeDe DEF EndroitsInv
    <2> QED BY <1>4, <2>3, AnyAssumption DEF AnyAssumption, Aucun
  <1>6. req[r].etat = "poste"
    BY <1>1, <1>5
  <1> QED BY <1>2, <1>6 DEF EndroitsInv, FilsInv

LEMMA AnnuleEndroits ==
    ASSUME Inv, EndroitsInv, ~ Rompu', NEW r \in DOMAIN req, Annule(r)
    PROVE  EndroitsInv'
  <1> USE DEF EndroitsInv
  <1> DEFINE d == [req[r] EXCEPT !.etat = "annule"]
  <1>1. /\ req' = [req EXCEPT ![r] = d] /\ suites' = suites
        /\ UNCHANGED <<mode, envois, reseau, varsComm, varsRecus>>
    BY DEF Annule
  <1>2. /\ req[r] \in Requetes /\ BonneDemande(req[r]) /\ req[r].etat = "poste"
        /\ \A c \in suites : c.r # r
    BY ReqDomaine, AnnuleEnAttente DEF Inv, TypesInv, DemandesInv
  <1>3. d.etat = "annule" /\ d.msg = req[r].msg /\ d.tag = req[r].tag
    BY <1>2 DEF Requetes
  <1> HIDE DEF d
  <1>4. ~ EstRecue(d) /\ ~ EstRecue(req[r]) /\ BonneDemande(d)
    BY <1>2, <1>3 DEF EstRecue, BonneDemande
  <1> QED BY <1>1, <1>2, <1>4, UneRequeteEndroits

LEMMA AjouteCommEndroits ==
    ASSUME Inv, Inv', EndroitsInv, NumerosDistincts, AjouteComm
    PROVE  EndroitsInv'
  <1> USE DEF EndroitsInv
  <1>1. /\ comm_existe' = TRUE /\ pending' = <<>>
        /\ expected' = Ranges.expected /\ cant_match' = Ranges.cant
        /\ unexpected' = Ranges.unexp /\ traites' = Ranges.traites
        /\ mode' = mode /\ envois' = envois /\ reseau' = reseau /\ req' = req /\ suites' = suites
    BY DEF AjouteComm
  <1>2. Ranges \in Etats /\ mode \in Modes /\ pending \in Seq(Messages)
    BY RangesType DEF Inv, TypesInv
  <1>3. PICK e \in Etats : e = LEtat
    BY LEtatType DEF Inv
  <1>4. Rangee(Ranges, EnChemin, Recus)
    <2>1. Rangee(e, EnChemin \cup ToSet(pending), Recus)
      BY <1>3 DEF RangeeInv, Dehors
    <2>2. e = [expected |-> expected, cant |-> cant_match, unexp |-> unexpected, traites |-> traites]
      BY <1>3 DEF LEtat
    <2> QED BY <1>2, <2>1, <2>2, RangesRangee DEF EnRoute
  <1>5. LEtat' = Ranges
    BY <1>1, <1>2 DEF LEtat, Etats
  <1>6. EnvoisInv' /\ Envoyees' = Envoyees
    BY <1>1, EnvoisMemes
  <1>7. DemandesInv' /\ Recus' = Recus /\ FilsInv'
    BY <1>1, <1>6 DEF Recus, Recues, DemandesInv, FilsInv, BonneDemande, EstRecue, Accepte
  <1>8. ToSet(pending') = {} /\ IsInjective(pending')
    BY <1>1 DEF ToSet, IsInjective
  <1>9. EnRoute'
    <2>1. EnChemin' = EnChemin /\ EnMain' = EnMain
      BY <1>1 DEF EnChemin, EnMain
    <2> QED BY <1>1, <1>6, <1>8, <2>1 DEF EnRoute
  <1>10. Dehors' = EnChemin
    BY <1>1, <1>8 DEF Dehors, EnChemin, EnMain
  <1>11. RangeeInv'
    BY <1>1, <1>4, <1>5, <1>7, <1>10, EnvoisMemes
  <1> QED BY <1>6, <1>7, <1>9, <1>11
-----------------------------------------------------------------------------
LEMMA StepEndroits ==
    ASSUME Inv, EndroitsInv, [Next]_vars, ~ Rompu', NumerosDistincts, EtiquettesDemandables
    PROVE  EndroitsInv'
  <1>0. Inv'
    BY StepInv
  <1>1. CASE UNCHANGED vars
    <2>1. UNCHANGED <<mode, envois, reseau, varsComm, varsRecus>> /\ UNCHANGED <<req, suites>>
      BY <1>1 DEF vars
    <2>2. Recus' = Recus /\ DemandesInv' /\ FilsInv' /\ EnMain' = EnMain
      BY <2>1
         DEF EndroitsInv, EnMain, Recus, Recues, DemandesInv, FilsInv, BonneDemande, EstRecue,
             Accepte, Envoyees
    <2> QED BY <2>1, <2>2, ListesMemes
  <1>2. CASE Reception
    BY <1>0, <1>2, RecoitEndroits DEF Reception
  <1>3. CASE Suite
    BY <1>0, <1>3, GarderEndroits, ApresEndroits, VerifieEndroits, FinirEndroits DEF Suite
  <1>4. CASE AjouteComm
    BY <1>0, <1>4, AjouteCommEndroits
  <1>5. CASE \E q \in Demandes : Poste(q) \/ Trouve(q)
    BY <1>0, <1>5, PosteEndroits, TrouveEndroits
  <1>6. CASE \E r \in DOMAIN req : MRecv(r) \/ Annule(r)
    BY <1>6, MRecvEndroits, AnnuleEndroits
  <1> QED BY <1>1, <1>2, <1>3, <1>4, <1>5, <1>6 DEF Next

(* Every message of a source is out of the matching, out of turn,           *)
(* unexpected or with the one request that has been given it, each of the   *)
(* lists holds it once, and without overtaking the messages are taken up in *)
(* the order of their sends: mca_pml_ob1_recv_frag_callback_match,          *)
(* check_cantmatch_for_match, match_one, recv_req_start and add_comm only   *)
(* ever move it.  (Until a receive is cancelled with its message.)          *)
THEOREM EndroitsTheorem ==
    ASSUME NumerosDistincts, EtiquettesDemandables
    PROVE  Spec => [](Inv /\ (~ Rompu => EndroitsInv))
  <1>1. Init => EndroitsInv
    BY InitEndroits
  <1>2. Inv /\ EndroitsInv /\ [Next]_vars /\ ~ Rompu' => EndroitsInv'
    BY StepEndroits
  <1>3. Inv /\ MainsInv /\ [Next]_vars => (Rompu => Rompu')
    BY RompuReste
  <1> QED BY <1>1, <1>2, <1>3, InvTheorem, MainsTheorem, PTL DEF Spec

-----------------------------------------------------------------------------
LEMMA PlacesDans ==
    ASSUME NEW S, NEW u \in Seq(S), IsInjective(u), NEW m
    PROVE  Cardinality({k \in DOMAIN u : u[k] = m}) = IF m \in ToSet(u) THEN 1 ELSE 0
  <1>1. CASE m \in ToSet(u)
    <2>1. PICK k \in DOMAIN u : u[k] = m
      BY <1>1 DEF ToSet
    <2>2. {x \in DOMAIN u : u[x] = m} = {k}
      BY <2>1 DEF IsInjective
    <2> QED BY <1>1, <2>2, FS_Singleton
  <1>2. CASE m \notin ToSet(u)
    <2>1. {x \in DOMAIN u : u[x] = m} = {}
      BY <1>2 DEF ToSet
    <2> QED BY <1>2, <2>1, FS_EmptySet
  <1> QED BY <1>1, <1>2

LEMMA DemandesDe ==
    ASSUME DemandesInv, NEW m
    PROVE  Cardinality({r \in DOMAIN req : A_recu(r) /\ req[r].msg = m}) = IF m \in Recus THEN 1 ELSE 0
  <1>1. \A r \in DOMAIN req : A_recu(r) <=> r \in Recues
    BY DEF A_recu, Recues, EstRecue
  <1>2. CASE m \in Recus
    <2>1. PICK q \in Recues : req[q].msg = m
      BY <1>2 DEF Recus
    <2>2. {r \in DOMAIN req : A_recu(r) /\ req[r].msg = m} = {q}
      BY <1>1, <2>1 DEF DemandesInv, Recues
    <2> QED BY <1>2, <2>2, FS_Singleton
  <1>3. CASE m \notin Recus
    <2>1. {r \in DOMAIN req : A_recu(r) /\ req[r].msg = m} = {}
      BY <1>1, <1>3 DEF Recus
    <2> QED BY <1>3, <2>1, FS_EmptySet
  <1> QED BY <1>2, <1>3

LEMMA EnsemblesAvec ==
    ASSUME NEW A, NEW B, NEW C, NEW m,
           ~ (m \in A /\ m \in B), ~ (m \in A /\ m \in C), ~ (m \in B /\ m \in C)
    PROVE  Cardinality({i \in 1 .. 3 : m \in (<<A, B, C>>)[i]}) = IF m \in A \cup B \cup C THEN 1 ELSE 0
  <1>1. PICK T : T = {i \in 1 .. 3 : m \in (<<A, B, C>>)[i]}
    OBVIOUS
  <1>2. \A i : i \in T <=> (i = 1 /\ m \in A) \/ (i = 2 /\ m \in B) \/ (i = 3 /\ m \in C)
    <2>1. (<<A, B, C>>)[1] = A /\ (<<A, B, C>>)[2] = B /\ (<<A, B, C>>)[3] = C
      OBVIOUS
    <2>2. \A i : i \in 1 .. 3 <=> i = 1 \/ i = 2 \/ i = 3
      OBVIOUS
    <2> QED BY <1>1, <2>1, <2>2
  <1>3. CASE m \in A
    <2>1. T = {1}
      BY <1>2, <1>3
    <2> QED BY <1>1, <1>3, <2>1, FS_Singleton
  <1>4. CASE m \in B
    <2>1. T = {2}
      BY <1>2, <1>4
    <2> QED BY <1>1, <1>4, <2>1, FS_Singleton
  <1>5. CASE m \in C
    <2>1. T = {3}
      BY <1>2, <1>5
    <2> QED BY <1>1, <1>5, <2>1, FS_Singleton
  <1>6. CASE m \notin A \cup B \cup C
    <2>1. T = {}
      BY <1>2, <1>6
    <2> QED BY <1>1, <1>6, <2>1, FS_EmptySet
  <1> QED BY <1>3, <1>4, <1>5, <1>6

LEMMA EndroitsTypeOK == Inv /\ EndroitsInv => TypeOK
  <1> SUFFICES ASSUME Inv, EndroitsInv PROVE TypeOK
    OBVIOUS
  <1> USE DEF EndroitsInv
  <1>1. reseau \subseteq Envoyees /\ ToSet(pending) \subseteq Envoyees
    BY DEF EnRoute, EnChemin
  <1>2. expected \in [Sources -> 0 .. Modulo - 1] /\ last_probed \in Sources
    BY DEF Inv, TypesInv
  <1>3. ASSUME NEW s \in Sources
        PROVE  /\ RangeeEn(LEtat, s, Dehors, Recus)
               /\ LEtat.cant[s] = cant_match[s] /\ LEtat.unexp[s] = unexpected[s]
               /\ LEtat.traites[s] = traites[s] /\ cant_match[s] \in Listes /\ traites[s] \in Seq(Nat)
    BY DEF RangeeInv, Rangee, LEtat, Inv, TypesInv
  <1>4. ASSUME NEW s \in Sources
        PROVE  EnAttente(s) \cup ToSet(unexpected[s]) \subseteq ToSet(envois[s])
    BY <1>3 DEF RangeeEn, Partagees, EnAttente, De
  <1>5. ASSUME NEW s \in Sources, NEW i \in DOMAIN cant_match[s]
        PROVE  /\ cant_match[s][i] # <<>>
               /\ \A j \in 1 .. Len(cant_match[s][i]) - 1 :
                    cant_match[s][i][j + 1].seq = cant_match[s][i][j].seq + 1
    <2>1. PICK l \in Listes : l = cant_match[s] /\ Suivies(l)
      BY <1>3 DEF RangeeEn
    <2>2. i \in 1 .. Len(l) /\ l[i] \in Plages
      BY <2>1 DEF Listes
    <2> QED BY <2>1, <2>2 DEF Suivies, Plages
  <1>6. ASSUME NEW r \in DOMAIN req
        PROVE  /\ [req[r] EXCEPT !.etat = "poste", !.msg = Aucun] \in Demandes
               /\ req[r].etat \in {"poste", "pris", "fini", "rien", "annule"}
               /\ req[r].msg \in Envoyees \cup {Aucun}
    <2>1. req[r] \in Requetes /\ req[r].tag \in TagsDemandes /\ req[r].msg \in Envoyees \cup {Aucun}
      BY ReqDomaine DEF Inv, TypesInv, DemandesInv, BonneDemande
    <2> QED BY <2>1 DEF Requetes, Demandes
  <1>7. Cardinality(suites) <= mode.fils
    BY DEF FilsInv
  <1>8. ASSUME ~ mode.overtake, NEW s \in Sources, NEW k \in DOMAIN traites[s] PROVE traites[s][k] = k
    <2>1. PICK t \in Seq(Nat) : t = traites[s] /\ \A x \in 1 .. Len(t) : t[x] = x
      BY <1>3, <1>8 DEF RangeeEn, EnOrdre
    <2>2. k \in 1 .. Len(t)
      BY <2>1
    <2> QED BY <2>1, <2>2
  <1> HIDE DEF EndroitsInv
  <1> QED BY <1>1, <1>2, <1>4, <1>5, <1>6, <1>7, <1>8 DEF TypeOK

(* A message that has been sent is in exactly one place, and a request gets *)
(* it at most once: none is lost between the lists and none is delivered    *)
(* twice, with several threads, over the wrap of the numbers, requests that *)
(* are cancelled and messages that come before the communicator included.   *)
THEOREM UnSeulEndroitTheorem ==
    ASSUME NumerosDistincts, EtiquettesDemandables
    PROVE  Spec => []UnSeulEndroit
  <1>1. ASSUME Inv, EndroitsInv, NEW s \in Sources, NEW m \in De(s)
        PROVE  Cardinality({r \in DOMAIN req : A_recu(r) /\ req[r].msg = m})
               + Cardinality({k \in DOMAIN unexpected[s] : unexpected[s][k] = m})
               + Cardinality({k \in DOMAIN pending : pending[k] = m})
               + Cardinality({i \in 1 .. 3 : m \in (<<reseau, EnMain, EnAttente(s)>>)[i]}) = 1
    <2>1. RangeeEn(LEtat, s, Dehors, Recus)
      BY <1>1 DEF EndroitsInv, RangeeInv, Rangee
    <2>2. LEtat.cant[s] = cant_match[s] /\ LEtat.unexp[s] = unexpected[s]
      BY DEF LEtat
    <2>3. PICK T : Partagees(s, EnAttente(s), ToSet(unexpected[s]), T, Dehors, Recus)
      BY <2>1, <2>2 DEF RangeeEn, EnAttente
    <2>4. IsInjective(unexpected[s]) /\ IsInjective(pending)
          /\ reseau \cap EnMain = {} /\ EnChemin \cap ToSet(pending) = {}
      BY <1>1, <2>1, <2>2 DEF RangeeEn, EndroitsInv, EnRoute
    <2>5. unexpected[s] \in Seq(Messages) /\ pending \in Seq(Messages) /\ DemandesInv
      BY <1>1 DEF Inv, TypesInv, EndroitsInv
    <2> DEFINE Ailleurs == reseau \cup EnMain \cup EnAttente(s)
    <2>6. /\ m \in Recus => m \notin ToSet(unexpected[s]) /\ m \notin ToSet(pending) /\ m \notin Ailleurs
          /\ m \in ToSet(unexpected[s]) => m \notin ToSet(pending) /\ m \notin Ailleurs
          /\ m \in ToSet(pending) => m \notin Ailleurs
          /\ ~ (m \in reseau /\ m \in EnMain)
          /\ ~ (m \in reseau /\ m \in EnAttente(s))
          /\ ~ (m \in EnMain /\ m \in EnAttente(s))
          /\ \/ m \in Recus
             \/ m \in ToSet(unexpected[s])
             \/ m \in ToSet(pending)
             \/ m \in Ailleurs
      BY <1>1, <2>3, <2>4 DEF Partagees, Dehors, EnChemin
    <2>7. /\ Cardinality({r \in DOMAIN req : A_recu(r) /\ req[r].msg = m}) = IF m \in Recus THEN 1 ELSE 0
          /\ Cardinality({k \in DOMAIN unexpected[s] : unexpected[s][k] = m})
               = IF m \in ToSet(unexpected[s]) THEN 1 ELSE 0
          /\ Cardinality({k \in DOMAIN pending : pending[k] = m}) = IF m \in ToSet(pending) THEN 1 ELSE 0
      BY <2>4, <2>5, DemandesDe, PlacesDans
    <2>8. Cardinality({i \in 1 .. 3 : m \in (<<reseau, EnMain, EnAttente(s)>>)[i]})
            = IF m \in Ailleurs THEN 1 ELSE 0
      BY <2>6, EnsemblesAvec
    <2> HIDE DEF Ailleurs
    <2> QED BY <2>6, <2>7, <2>8
  <1>2. Inv /\ (~ Rompu => EndroitsInv) => UnSeulEndroit
    BY <1>1, EndroitsTypeOK DEF UnSeulEndroit, De
  <1> QED BY <1>2, EndroitsTheorem, PTL
-----------------------------------------------------------------------------
(* The order of the messages of a source.  Croise(q, n): the request q has  *)
(* got a message although n, which it accepts, was sent before it.          *)
Croise(q, n) == q.msg.src = n.src /\ n.rang < q.msg.rang /\ Accepte(q, n)
Inattendus == UNION {ToSet(unexpected[s]) : s \in Sources}

(* No request that is still posted accepts what a later one has got; no     *)
(* request has got a message before one that is unexpected, or that a later *)
(* request has got.                                                         *)
CroisementInv ==
    \/ mode.overtake
    \/ /\ \A q \in Postes, r \in Recues :
            req[q].genre # "probe" /\ q < r => ~ Accepte(req[q], req[r].msg)
       /\ \A q \in Recues, n \in Inattendus : ~ Croise(req[q], n)
       /\ \A q, r \in Recues : q < r => ~ Croise(req[q], req[r].msg)

LEMMA RecueMessage ==
    ASSUME EndroitsInv, NEW r \in Recues
    PROVE  /\ r \in DOMAIN req /\ req[r].msg \in Recus /\ req[r].msg \in Messages
           /\ req[r].msg.src \in Sources /\ req[r].msg \in De(req[r].msg.src)
           /\ Accepte(req[r], req[r].msg)
  <1>1. r \in DOMAIN req /\ EstRecue(req[r])
    BY DEF Recues
  <1>2. req[r].msg \in Envoyees /\ Accepte(req[r], req[r].msg)
    BY <1>1 DEF EndroitsInv, DemandesInv, BonneDemande
  <1> QED BY <1>1, <1>2, EnvoyeeDe DEF EndroitsInv, Recus

LEMMA InattenduDe ==
    ASSUME EndroitsInv, NEW s \in Sources, NEW n \in ToSet(unexpected[s])
    PROVE  n \in De(s) /\ n \in Messages /\ n.src = s
  <1>1. RangeeEn(LEtat, s, Dehors, Recus) /\ LEtat.unexp[s] = unexpected[s]
    BY DEF EndroitsInv, RangeeInv, Rangee, LEtat
  <1>2. n \in De(s)
    BY <1>1 DEF RangeeEn, Partagees
  <1> QED BY <1>2, EnvoyeProprietes DEF EndroitsInv

(* What a step has to show of the requests to which it gives a message (N). *)
LEMMA CroisementPas ==
    ASSUME CroisementInv, EndroitsInv, UNCHANGED mode, NEW N,
           \A r \in Recues' : \/ r \in N
                              \/ /\ r \in Recues /\ req'[r].msg = req[r].msg
                                 /\ \A n \in Messages : Accepte(req'[r], n) => Accepte(req[r], n),
           \A q \in Postes' : req'[q].genre # "probe" =>
                              \/ q \in Postes /\ req'[q] = req[q]
                              \/ \A r \in Recues' : ~ (q < r),
           Inattendus' \subseteq Messages,
           \A n \in Inattendus' : n \in Inattendus \/ \A q \in Recues' : ~ Croise(req'[q], n),
           \A r \in Recues' : req'[r].msg \in Messages,
           mode.overtake \/ \A p \in N :
               /\ \A q \in Postes' : req'[q].genre # "probe" /\ q < p => ~ Accepte(req'[q], req'[p].msg)
               /\ \A r \in Recues' : p < r => ~ Croise(req'[p], req'[r].msg)
               /\ \A n \in Inattendus : ~ Croise(req'[p], n)
               /\ \A q \in Recues' : q < p => ~ Croise(req'[q], req'[p].msg)
    PROVE  CroisementInv'
  <1>1. CASE mode.overtake
    BY <1>1 DEF CroisementInv
  <1>2. CASE ~ mode.overtake
    <2>1. ASSUME NEW q \in Postes', NEW r \in Recues', req'[q].genre # "probe", q < r
          PROVE  ~ Accepte(req'[q], req'[r].msg)
      <3>1. CASE r \in N
        BY <1>2, <2>1, <3>1
      <3>2. CASE r \in Recues /\ req'[r].msg = req[r].msg
        BY <1>2, <2>1, <3>2 DEF CroisementInv
      <3> QED BY <3>1, <3>2
    <2>2. ASSUME NEW q \in Recues', NEW n \in Inattendus' PROVE ~ Croise(req'[q], n)
      <3>1. CASE n \in Inattendus /\ q \in N
        BY <1>2, <3>1
      <3>2. CASE /\ n \in Inattendus /\ q \in Recues /\ req'[q].msg = req[q].msg
                 /\ \A x \in Messages : Accepte(req'[q], x) => Accepte(req[q], x)
        <4>1. ~ Croise(req[q], n) /\ n \in Messages
          BY <1>2, <3>2 DEF CroisementInv
        <4> QED BY <3>2, <4>1 DEF Croise
      <3> QED BY <3>1, <3>2
    <2>3. ASSUME NEW q \in Recues', NEW r \in Recues', q < r PROVE ~ Croise(req'[q], req'[r].msg)
      <3>1. CASE q \in N \/ r \in N
        BY <1>2, <2>3, <3>1
      <3>2. CASE /\ r \in Recues /\ req'[r].msg = req[r].msg
                 /\ q \in Recues /\ req'[q].msg = req[q].msg
                 /\ \A x \in Messages : Accepte(req'[q], x) => Accepte(req[q], x)
        <4>1. ~ Croise(req[q], req[r].msg) /\ req[r].msg \in Messages
          BY <1>2, <2>3, <3>2 DEF CroisementInv
        <4> QED BY <3>2, <4>1 DEF Croise
      <3> QED BY <3>1, <3>2
    <2>4. (\A q \in Postes, r \in Recues :
             req[q].genre # "probe" /\ q < r => ~ Accepte(req[q], req[r].msg))'
      BY <2>1 DEF Accepte
    <2>5. (\A q \in Recues, n \in Inattendus : ~ Croise(req[q], n))'
      BY <2>2 DEF Croise, Accepte
    <2>6. (\A q, r \in Recues : q < r => ~ Croise(req[q], req[r].msg))'
      BY <2>3 DEF Croise, Accepte
    <2> QED BY <2>4, <2>5, <2>6 DEF CroisementInv
  <1> QED BY <1>1, <1>2

(* The message that is taken up comes after all that have been before it.   *)
LEMMA ApresLesAutres ==
    ASSUME Inv, EndroitsInv, NumerosDistincts, ~ mode.overtake, NEW s \in Sources, NEW m \in De(s),
           m.rang \notin ToSet(traites[s]), m.seq = expected[s]
    PROVE  /\ \A r \in Recues : req[r].msg.src = s => req[r].msg.rang < m.rang
           /\ \A n \in ToSet(unexpected[s]) : n.rang < m.rang
  <1>1. PICK t \in Seq(Nat), x \in 0 .. Modulo - 1 : t = traites[s] /\ x = expected[s]
    BY DEF Inv, TypesInv
  <1>2. /\ Partagees(s, Fragments(cant_match[s]), ToSet(unexpected[s]), ToSet(t),
                     Dehors, Recus)
        /\ EnOrdre(t, x)
    <2>1. RangeeEn(LEtat, s, Dehors, Recus)
      BY DEF EndroitsInv, RangeeInv, Rangee
    <2>2. /\ LEtat.cant[s] = cant_match[s] /\ LEtat.unexp[s] = unexpected[s]
          /\ LEtat.traites[s] = t /\ LEtat.expected[s] = x
      BY <1>1 DEF LEtat
    <2> QED BY <2>1, <2>2 DEF RangeeEn
  <1>3. \A r \in ToSet(t) : r < m.rang
    <2>1. mode \in Modes /\ EnvoisInv
      BY DEF Inv, TypesInv, EndroitsInv
    <2>2. m.rang \notin ToSet(t) /\ m.seq = x
      BY <1>1
    <2> QED BY <1>2, <2>1, <2>2, ProchainApres
  <1>4. \A n \in De(s) : n \in Recus \/ n \in ToSet(unexpected[s]) => n.rang \in ToSet(t)
    BY <1>2 DEF Partagees
  <1>5. \A n \in ToSet(unexpected[s]) : n \in De(s)
    BY InattenduDe
  <1>6. \A r \in Recues : req[r].msg.src = s => req[r].msg \in De(s) /\ req[r].msg \in Recus
    BY RecueMessage
  <1> QED BY <1>3, <1>4, <1>5, <1>6
-----------------------------------------------------------------------------
LEMMA PasEncorePris ==
    ASSUME EndroitsInv, NEW s \in Sources, NEW m \in De(s),
           m \in reseau \/ m \in Fragments(cant_match[s])
    PROVE  m.rang \notin ToSet(traites[s]) /\ m \notin Recus
  <1>1. RangeeEn(LEtat, s, Dehors, Recus)
    BY DEF EndroitsInv, RangeeInv, Rangee
  <1>2. LEtat.cant[s] = cant_match[s] /\ LEtat.traites[s] = traites[s]
    BY DEF LEtat
  <1>3. m \in Dehors \/ m \in Fragments(cant_match[s])
    BY DEF Dehors, EnChemin
  <1>4. PICK D, R : D = Dehors /\ R = Recus
    OBVIOUS
  <1>5. RangeeEn(LEtat, s, D, R) /\ (m \in D \/ m \in Fragments(cant_match[s]))
    BY <1>1, <1>3, <1>4
  <1>6. m.rang \notin ToSet(traites[s]) /\ m \notin R
    BY <1>2, <1>5 DEF RangeeEn, Partagees
  <1> QED BY <1>4, <1>6

(* match_one gives the message to the first that accepts it, or keeps it    *)
(* after those it comes after.                                              *)
LEMMA Match_oneCroisement ==
    ASSUME Inv, EndroitsInv, CroisementInv, UNCHANGED <<mode, envois>>,
           Inv', EndroitsInv', NEW s \in Sources, NEW m \in De(s), m \in Messages, m.src = s, Match_one(m),
           \/ mode.overtake
           \/ /\ \A r \in Recues : req[r].msg.src = s => req[r].msg.rang < m.rang
              /\ \A n \in ToSet(unexpected[s]) : n.rang < m.rang
    PROVE  CroisementInv'
  <1> DEFINE p == Preneur(m)
             N == {p} \ {0}
  <1>1. DOMAIN req' = DOMAIN req /\ DOMAIN req = 1 .. Len(req) /\ Len(req) \in Nat
    BY ReqDomaine DEF Match_one, Inv, TypesInv
  <1>2. \/ p = 0 /\ Preneurs(m) = {} /\ N = {}
        \/ /\ p \in DOMAIN req /\ p \in Nat \ {0} /\ N = {p}
           /\ p \in Preneurs(m) /\ \A r \in Preneurs(m) : p <= r
           /\ req[p].etat = "poste" /\ req[p].genre \in {"recv", "mprobe"}
    BY PreneurProprietes
  <1>3. ASSUME NEW r \in DOMAIN req, r = p
        PROVE  /\ req'[r].msg = m /\ req'[r].etat \in {"pris", "fini"} /\ r \in N
               /\ \A n : Accepte(req'[r], n) => Accepte(req[r], n)
    <2>1. r # 0
      BY <1>1
    <2>2. Inchangee(req[r], req'[r]) /\ req'[r].msg = m /\ req'[r].etat \in {"pris", "fini"}
      BY <1>3, Match_oneReq
    <2> QED BY <1>3, <2>1, <2>2 DEF Inchangee, Accepte
  <1>4. ASSUME NEW r \in DOMAIN req, r # p
        PROVE  \/ req'[r] = req[r]
               \/ req'[r].etat = "fini" /\ req'[r].genre = "probe"
    BY <1>4, Match_oneReq DEF Inchangee
  <1> HIDE DEF p, N
  <1>5. ASSUME NEW r \in Recues'
        PROVE  \/ r \in N /\ r = p /\ req'[r].msg = m
               \/ r \in Recues /\ req'[r] = req[r]
    <2>1. r \in DOMAIN req /\ EstRecue(req'[r])
      BY <1>1 DEF Recues, EstRecue
    <2> QED BY <1>3, <1>4, <2>1 DEF Recues, EstRecue
  <1>6. ASSUME NEW q \in Postes' PROVE q \in Postes /\ req'[q] = req[q]
    <2>1. q \in DOMAIN req /\ req'[q].etat = "poste"
      BY <1>1 DEF Postes
    <2> QED BY <1>3, <1>4, <2>1 DEF Postes
  <1>7. Inattendus' \subseteq Inattendus \cup {m} /\ (p # 0 => Inattendus' = Inattendus)
    <2>1. unexpected' = IF p = 0 THEN [unexpected EXCEPT ![s] = Append(@, m)] ELSE unexpected
      BY DEF Match_one, p
    <2>2. CASE p = 0
      <3>1. unexpected \in [Sources -> Seq(Messages)]
        BY DEF Inv, TypesInv
      <3>2. unexpected'[s] = Append(unexpected[s], m) /\ \A z \in Sources : z # s => unexpected'[z] = unexpected[z]
        BY <2>1, <2>2, <3>1
      <3>3. ToSet(unexpected'[s]) = ToSet(unexpected[s]) \cup {m}
        BY <3>1, <3>2, AppendEnsemble
      <3>4. \A z \in Sources : ToSet(unexpected'[z]) \subseteq ToSet(unexpected[z]) \cup {m}
        BY <3>2, <3>3
      <3>5. Inattendus' \subseteq Inattendus \cup {m}
        BY <3>4 DEF Inattendus
      <3> QED BY <2>2, <3>5
    <2>3. CASE p # 0
      BY <2>1, <2>3 DEF Inattendus
    <2> QED BY <2>2, <2>3
  <1>8. Inattendus' \subseteq Messages /\ \A r \in Recues' : req'[r].msg \in Messages
    <2>1. \A r \in Recues : req[r].msg \in Messages
      BY RecueMessage
    <2>2. Inattendus \subseteq Messages
      BY InattenduDe DEF Inattendus
    <2> QED BY <1>5, <1>7, <2>1, <2>2
  <1>9. ASSUME ~ mode.overtake, NEW q \in Recues PROVE ~ Croise(req[q], m)
    <2>1. req[q].msg.src = s => req[q].msg.rang < m.rang
      BY <1>9
    <2>2. req[q].msg.rang \in Nat /\ m.rang \in Nat
      BY RecueMessage DEF Messages
    <2> QED BY <2>1, <2>2 DEF Croise
  <1>10. ASSUME ~ mode.overtake, NEW n \in Inattendus', n \notin Inattendus, NEW q \in Recues'
         PROVE  ~ Croise(req'[q], n)
    <2>1. n = m /\ p = 0
      BY <1>7, <1>10
    <2>2. q \in Recues /\ req'[q] = req[q]
      BY <1>2, <1>5, <2>1 DEF p, N
    <2> QED BY <1>9, <1>10, <2>1, <2>2
  <1>11. ASSUME ~ mode.overtake, NEW x \in N
         PROVE  /\ \A q \in Postes' : req'[q].genre # "probe" /\ q < x => ~ Accepte(req'[q], req'[x].msg)
                /\ \A r \in Recues' : x < r => ~ Croise(req'[x], req'[r].msg)
                /\ \A n \in Inattendus : ~ Croise(req'[x], n)
                /\ \A q \in Recues' : q < x => ~ Croise(req'[q], req'[x].msg)
    <2>1. /\ x = p /\ p \in DOMAIN req /\ p \in Nat \ {0} /\ \A r \in Preneurs(m) : p <= r
          /\ req[p].etat = "poste" /\ req[p].genre \in {"recv", "mprobe"}
      BY <1>2, <1>11 DEF p, N
    <2>2. req'[p].msg = m /\ \A n : Accepte(req'[p], n) => Accepte(req[p], n)
      BY <1>3, <2>1
    <2>3. p \in Postes /\ p \notin Recues
      BY <2>1 DEF Postes, Recues, EstRecue
    <2>4. ASSUME NEW q \in Postes', req'[q].genre # "probe", q < p PROVE ~ Accepte(req'[q], m)
      <3>1. q \in Postes /\ req'[q] = req[q] /\ q \in Nat
        BY <1>1, <1>6 DEF Postes
      <3>2. q \notin Preneurs(m)
        BY <2>1, <2>4, <3>1
      <3> QED BY <2>4, <3>1, <3>2 DEF Preneurs, Candidats
    <2>5. ASSUME NEW r \in Recues', p < r PROVE ~ Croise(req'[p], req'[r].msg)
      <3>1. r \in Recues /\ req'[r] = req[r]
        BY <1>5, <2>1, <2>5
      <3>2. ~ Accepte(req[p], req[r].msg)
        BY <1>11, <2>1, <2>3, <2>5, <3>1 DEF CroisementInv
      <3> QED BY <2>2, <3>1, <3>2 DEF Croise
    <2>6. ASSUME NEW n \in Inattendus PROVE ~ Croise(req'[p], n)
      <3>1. ~ Accepte(req[p], n)
        BY <2>3 DEF Inv, SansCouple, Inattendus
      <3> QED BY <2>2, <3>1 DEF Croise
    <2>7. ASSUME NEW q \in Recues', q < p PROVE ~ Croise(req'[q], m)
      <3>1. q \in Recues /\ req'[q] = req[q]
        BY <1>5, <2>1, <2>7
      <3> QED BY <1>9, <1>11, <3>1
    <2> QED BY <2>1, <2>2, <2>4, <2>5, <2>6, <2>7
  <1>12. CASE mode.overtake
    BY <1>12 DEF CroisementInv
  <1>13. CASE ~ mode.overtake
    <2>1. \A r \in Recues' : \/ r \in N
                             \/ /\ r \in Recues /\ req'[r].msg = req[r].msg
                                /\ \A n \in Messages : Accepte(req'[r], n) => Accepte(req[r], n)
      BY <1>5
    <2> QED BY <1>6, <1>8, <1>10, <1>11, <1>13, <2>1, CroisementPas
  <1> QED BY <1>12, <1>13

(* A step that gives no message and adds no unexpected one.                 *)
LEMMA RienDeNeuf ==
    ASSUME EndroitsInv, CroisementInv, UNCHANGED mode, Inattendus' \subseteq Inattendus,
           \A r \in Recues' : /\ r \in Recues /\ req'[r].msg = req[r].msg
                              /\ \A n \in Messages : Accepte(req'[r], n) => Accepte(req[r], n),
           \A q \in Postes' : req'[q].genre # "probe" =>
                              \/ q \in Postes /\ req'[q] = req[q]
                              \/ \A r \in Recues' : ~ (q < r)
    PROVE  CroisementInv'
  <1>1. \A r \in Recues' : req'[r].msg \in Messages
    BY RecueMessage
  <1>2. Inattendus' \subseteq Messages
    BY InattenduDe DEF Inattendus
  <1>3. PICK N : N = {}
    OBVIOUS
  <1>4. \A r \in Recues' : \/ r \in N
                           \/ /\ r \in Recues /\ req'[r].msg = req[r].msg
                              /\ \A n \in Messages : Accepte(req'[r], n) => Accepte(req[r], n)
    OBVIOUS
  <1>5. \A n \in Inattendus' : n \in Inattendus \/ \A q \in Recues' : ~ Croise(req'[q], n)
    OBVIOUS
  <1>6. mode.overtake \/ \A p \in N :
          /\ \A q \in Postes' : req'[q].genre # "probe" /\ q < p => ~ Accepte(req'[q], req'[p].msg)
          /\ \A r \in Recues' : p < r => ~ Croise(req'[p], req'[r].msg)
          /\ \A n \in Inattendus : ~ Croise(req'[p], n)
          /\ \A q \in Recues' : q < p => ~ Croise(req'[q], req'[p].msg)
    BY <1>3
  <1> HIDE <1>3
  <1> QED BY <1>1, <1>2, <1>4, <1>5, <1>6, CroisementPas
-----------------------------------------------------------------------------
LEMMA DemandesIntactes ==
    ASSUME EndroitsInv, CroisementInv, UNCHANGED <<mode, req>>, Inattendus' \subseteq Inattendus
    PROVE  CroisementInv'
  <1>1. Recues' = Recues /\ Postes' = Postes /\ req' = req
    BY DEF Recues, Postes, EstRecue
  <1> QED BY <1>1, RienDeNeuf

LEMMA RecoitCroisement ==
    ASSUME Inv, Inv', EndroitsInv, EndroitsInv', CroisementInv, NumerosDistincts, NEW m \in reseau, Recoit(m)
    PROVE  CroisementInv'
  <1>1. mode' = mode /\ envois' = envois /\ m \in Envoyees
    BY DEF Recoit, EndroitsInv, EnRoute, EnChemin
  <1>2. PICK s \in Sources : s = m.src /\ m \in Messages /\ m \in De(s)
    BY <1>1, EnvoyeeDe DEF EndroitsInv
  <1>3. CASE UNCHANGED <<unexpected, req>>
    BY <1>1, <1>3, DemandesIntactes DEF Inattendus
  <1>4. CASE ~ HorsOrdre(m) /\ Prendre_en_charge(m, suites)
    <2>1. Match_one(m)
      BY <1>4 DEF Prendre_en_charge
    <2>2. mode.overtake \/ m.seq = expected[s]
      BY <1>2, <1>4 DEF HorsOrdre, SansNumero
    <2>3. \/ mode.overtake
          \/ /\ \A r \in Recues : req[r].msg.src = s => req[r].msg.rang < m.rang
             /\ \A n \in ToSet(unexpected[s]) : n.rang < m.rang
      BY <1>2, <2>2, PasEncorePris, ApresLesAutres
    <2> QED BY <1>1, <1>2, <2>1, <2>3, Match_oneCroisement
  <1> QED BY <1>3, <1>4 DEF Recoit, varsRecus

LEMMA GarderCroisement ==
    ASSUME EndroitsInv, CroisementInv, NEW c \in suites, Garder(c)
    PROVE  CroisementInv'
  BY DemandesIntactes DEF Garder, Inattendus, varsRecus

LEMMA VerifieCroisement ==
    ASSUME Inv, Inv', EndroitsInv, EndroitsInv', CroisementInv, NumerosDistincts, NEW c \in suites, Verifie(c)
    PROVE  CroisementInv'
  <1>0. PICK s \in Sources : s = c.m.src
    BY DEF Inv, TypesInv, Suites, Messages
  <1>1. mode' = mode /\ envois' = envois
    BY DEF Verifie
  <1>2. CASE UNCHANGED <<varsRecus, req>>
    BY <1>1, <1>2, DemandesIntactes DEF Inattendus, varsRecus
  <1>3. CASE /\ A_son_tour(cant_match[s], expected[s])
             /\ Prendre_en_charge(cant_match[s][1][1], suites \ {c})
    <2>1. PICK l \in Listes : l = cant_match[s] /\ l # <<>>
      BY <1>3 DEF Inv, TypesInv, A_son_tour
    <2>2. l[1][1] \in Fragments(l)
      BY <2>1, Sans_teteFragments
    <2>3. Fragments(l) \subseteq De(s)
      <3>1. RangeeEn(LEtat, s, Dehors, Recus) /\ LEtat.cant[s] = cant_match[s]
        BY DEF EndroitsInv, RangeeInv, Rangee, LEtat
      <3> QED BY <2>1, <3>1 DEF RangeeEn, Partagees
    <2>4. PICK m \in De(s) : m = cant_match[s][1][1] /\ m \in Fragments(cant_match[s])
      BY <2>1, <2>2, <2>3
    <2>5. Match_one(m) /\ m.seq = expected[s]
      BY <1>3, <2>4 DEF Prendre_en_charge, A_son_tour
    <2>6. m \in Messages /\ m.src = s /\ m \in Fragments(cant_match[s])
      BY <2>4, EnvoyeProprietes DEF EndroitsInv
    <2>7. \/ mode.overtake
          \/ /\ \A r \in Recues : req[r].msg.src = s => req[r].msg.rang < m.rang
             /\ \A n \in ToSet(unexpected[s]) : n.rang < m.rang
      <3>1. m.rang \notin ToSet(traites[s])
        BY <2>6, PasEncorePris
      <3> QED BY <2>5, <3>1, ApresLesAutres
    <2> QED BY <1>1, <2>5, <2>6, <2>7, Match_oneCroisement
  <1> QED BY <1>0, <1>2, <1>3 DEF Verifie

LEMMA ApresCroisement ==
    ASSUME Inv, EndroitsInv, CroisementInv, NEW c \in suites, Apres(c)
    PROVE  CroisementInv'
  <1>1. /\ req' = [r \in DOMAIN req |-> IF r = c.r /\ req[r].etat = "pris"
                                        THEN [req[r] EXCEPT !.etat = "fini"] ELSE req[r]]
        /\ mode' = mode /\ unexpected' = unexpected
    BY DEF Apres, varsRecus
  <1>2. req \in [1 .. Len(req) -> Requetes] /\ DOMAIN req = 1 .. Len(req) /\ DOMAIN req' = DOMAIN req
    BY <1>1, ReqDomaine DEF Inv, TypesInv
  <1>3. ASSUME NEW r \in DOMAIN req
        PROVE  /\ req'[r].msg = req[r].msg /\ Inchangee(req[r], req'[r])
               /\ req'[r] = req[r] \/ (req[r].etat = "pris" /\ req'[r].etat = "fini")
    <2>1. req[r] \in Requetes
      BY <1>2
    <2>2. CASE r = c.r /\ req[r].etat = "pris"
      <3>1. req'[r] = [req[r] EXCEPT !.etat = "fini"]
        BY <1>1, <2>2
      <3> QED BY <2>1, <2>2, <3>1 DEF Requetes, Inchangee
    <2>3. CASE ~ (r = c.r /\ req[r].etat = "pris")
      <3>1. req'[r] = req[r]
        BY <1>1, <2>3
      <3> QED BY <3>1 DEF Inchangee
    <2> QED BY <2>2, <2>3
  <1>4. \A r \in Recues' : /\ r \in Recues /\ req'[r].msg = req[r].msg
                           /\ \A n \in Messages : Accepte(req'[r], n) => Accepte(req[r], n)
    BY <1>2, <1>3 DEF Recues, EstRecue, Inchangee, Accepte
  <1>5. \A q \in Postes' : q \in Postes /\ req'[q] = req[q]
    BY <1>2, <1>3 DEF Postes
  <1> QED BY <1>1, <1>4, <1>5, RienDeNeuf DEF Inattendus

LEMMA PosteCroisement ==
    ASSUME Inv, EndroitsInv, CroisementInv, NEW q \in Demandes, Poste(q)
    PROVE  CroisementInv'
  <1> DEFINE d == [q EXCEPT !.etat = IF q.genre \in {"iprobe", "improbe"} THEN "rien" ELSE "poste"]
  <1>1. req' = Append(req, d) /\ mode' = mode /\ unexpected' = unexpected
    BY DEF Poste, varsRecus
  <1>2. d \in Requetes /\ d.etat \in {"rien", "poste"}
    BY DEF Demandes, Requetes, Etiquettes
  <1> HIDE DEF d
  <1>3. PICK n \in Nat : n = Len(req) /\ DOMAIN req = 1 .. n
    BY ReqDomaine DEF Inv, TypesInv
  <1>4. /\ DOMAIN req' = 1 .. n + 1 /\ req'[n + 1] = d /\ \A r \in 1 .. n : req'[r] = req[r]
    BY <1>1, <1>2, <1>3 DEF Inv, TypesInv
  <1>5. \A r \in 1 .. n + 1 : r \in 1 .. n \/ r = n + 1
    OBVIOUS
  <1>6. ~ EstRecue(d)
    BY <1>2 DEF EstRecue
  <1>7. \A r \in Recues' : r \in 1 .. n /\ r \in Recues /\ req'[r] = req[r]
    BY <1>3, <1>4, <1>5, <1>6 DEF Recues, EstRecue
  <1>8. \A x \in Postes' : (x \in Postes /\ req'[x] = req[x]) \/ \A r \in Recues' : ~ (x < r)
    BY <1>3, <1>4, <1>5, <1>7 DEF Postes
  <1> QED BY <1>1, <1>7, <1>8, RienDeNeuf DEF Inattendus

(* The oldest unexpected message that suits is taken.                       *)
LEMMA TrouveCroisement ==
    ASSUME Inv, Inv', EndroitsInv, EndroitsInv', CroisementInv, NEW q \in Demandes, Trouve(q)
    PROVE  CroisementInv'
  <1>1. PICK s \in Sources, k \in Nat :
          /\ s = Premiere(q) /\ k = Min(Convient(q, s))
          /\ k \in 1 .. Len(unexpected[s]) /\ unexpected[s] \in Seq(Messages)
          /\ \A x \in Convient(q, s) : k <= x
    <2>1. PICK s \in Sources : s = Premiere(q) /\ Convient(q, s) # {}
      BY PremiereSource DEF Trouve, Inv
    <2>2. Convient(q, s) \subseteq 1 .. Len(unexpected[s]) /\ Convient(q, s) \subseteq Nat
      BY DEF Convient
    <2>3. PICK k \in Nat : k = Min(Convient(q, s)) /\ k \in Convient(q, s) /\ \A x \in Convient(q, s) : k <= x
      <3>1. Min(Convient(q, s)) \in Convient(q, s) /\ \A x \in Convient(q, s) : Min(Convient(q, s)) <= x
        BY <2>1, <2>2, MinProprietes
      <3> QED BY <2>2, <3>1
    <2>4. unexpected[s] \in Seq(Messages)
      BY DEF Inv, TypesInv
    <2> QED BY <2>1, <2>2, <2>3, <2>4
  <1>2. PICK m \in Messages : m = unexpected[s][k]
    BY <1>1
  <1>3. PICK n \in Nat : n = Len(req) /\ DOMAIN req = 1 .. n
    BY ReqDomaine DEF Inv, TypesInv
  <1> DEFINE d == [q EXCEPT !.etat = "pris", !.msg = m]
  <1>4. /\ req' = Append(req, d) /\ mode' = mode
        /\ unexpected' = unexpected \/ unexpected' = [unexpected EXCEPT ![s] = RemoveAt(@, k)]
    BY <1>1, <1>2, <1>3 DEF Trouve
  <1>5. /\ d \in Requetes /\ d.etat = "pris" /\ d.msg = m
        /\ \A x : Accepte(d, x) => Accepte(q, x)
    BY DEF Demandes, Requetes, Etiquettes, Accepte
  <1> HIDE DEF d
  <1>6. /\ DOMAIN req' = 1 .. n + 1 /\ req'[n + 1] = d /\ \A r \in 1 .. n : req'[r] = req[r]
    BY <1>3, <1>4, <1>5 DEF Inv, TypesInv
  <1>7. \A r \in 1 .. n + 1 : r \in 1 .. n \/ r = n + 1
    OBVIOUS
  <1>8. Inattendus' \subseteq Inattendus
    <2>1. CASE unexpected' = unexpected
      BY <2>1 DEF Inattendus
    <2>2. CASE unexpected' = [unexpected EXCEPT ![s] = RemoveAt(@, k)]
      <3>1. unexpected \in [Sources -> Seq(Messages)]
        BY DEF Inv, TypesInv
      <3>2. unexpected'[s] = RemoveAt(unexpected[s], k) /\ \A z \in Sources : z # s => unexpected'[z] = unexpected[z]
        BY <2>2, <3>1
      <3>3. ToSet(RemoveAt(unexpected[s], k)) \subseteq ToSet(unexpected[s])
        <4>1. IsInjective(unexpected[s])
          <5>1. RangeeEn(LEtat, s, Dehors, Recus) /\ LEtat.unexp[s] = unexpected[s]
            BY DEF EndroitsInv, RangeeInv, Rangee, LEtat
          <5> QED BY <5>1 DEF RangeeEn
        <4> QED BY <1>1, <4>1, RemoveAtInjectif
      <3>4. \A z \in Sources : ToSet(unexpected'[z]) \subseteq ToSet(unexpected[z])
        BY <3>2, <3>3
      <3> QED BY <3>4 DEF Inattendus
    <2> QED BY <1>4, <2>1, <2>2
  <1>9. m \in ToSet(unexpected[s]) /\ m \in Inattendus /\ m.src = s
    <2>1. m \in ToSet(unexpected[s])
      BY <1>1, <1>2 DEF ToSet
    <2> QED BY <2>1, InattenduDe DEF Inattendus
  <1>10. PICK N : N = {n + 1}
    OBVIOUS
  <1>11. ASSUME NEW r \in Recues'
         PROVE  /\ r \in 1 .. n + 1 /\ req'[r].msg \in Messages
                /\ r # n + 1 => r \in Recues /\ req'[r] = req[r]
    <2>1. r \in 1 .. n + 1 /\ EstRecue(req'[r])
      BY <1>6 DEF Recues, EstRecue
    <2>2. r # n + 1 => r \in Recues /\ req'[r] = req[r]
      BY <1>3, <1>6, <1>7, <2>1 DEF Recues
    <2>3. req'[r].msg \in Messages
      BY <1>5, <1>6, <2>1, <2>2, RecueMessage
    <2> QED BY <2>1, <2>2, <2>3
  <1>12. ASSUME NEW x \in Postes' PROVE x \in Postes /\ req'[x] = req[x] /\ x \in 1 .. n
    BY <1>3, <1>5, <1>6, <1>7 DEF Postes
  <1>13. ASSUME NEW x \in Inattendus PROVE mode.overtake \/ ~ Croise(d, x)
    <2> SUFFICES ASSUME ~ mode.overtake, Croise(d, x) PROVE FALSE
      OBVIOUS
    <2>1. x.src = s /\ x.rang < m.rang /\ Accepte(q, x)
      BY <1>5, <1>9 DEF Croise
    <2>2. x \in ToSet(unexpected[s])
      BY <2>1, InattenduDe DEF Inattendus
    <2>3. PICK u \in Seq(Messages) : u = unexpected[s] /\ Croissante(u)
      <3>1. RangeeEn(LEtat, s, Dehors, Recus) /\ LEtat.unexp[s] = unexpected[s]
        BY DEF EndroitsInv, RangeeInv, Rangee, LEtat
      <3> QED BY <1>1, <3>1 DEF RangeeEn
    <2>4. PICK j \in 1 .. Len(u) : x = u[j]
      BY <2>2, <2>3 DEF ToSet
    <2>5. j \in Convient(q, s)
      BY <2>1, <2>3, <2>4 DEF Convient
    <2>6. k \in 1 .. Len(u) /\ m = u[k] /\ k <= j
      BY <1>1, <1>2, <2>3, <2>5
    <2>7. k < j => m.rang < x.rang
      BY <2>3, <2>4, <2>6 DEF Croissante
    <2>8. m.rang \in Nat /\ x.rang \in Nat
      <3>1. x \in Messages
        BY InattenduDe DEF Inattendus
      <3> HIDE <1>2, <2>4
      <3> QED BY <3>1 DEF Messages
    <2>9. k # j
      BY <2>1, <2>4, <2>6, <2>8
    <2> QED BY <2>1, <2>4, <2>6, <2>7, <2>8, <2>9
  <1>14. mode.overtake \/ \A p \in N :
           /\ \A x \in Postes' : req'[x].genre # "probe" /\ x < p => ~ Accepte(req'[x], req'[p].msg)
           /\ \A r \in Recues' : p < r => ~ Croise(req'[p], req'[r].msg)
           /\ \A x \in Inattendus : ~ Croise(req'[p], x)
           /\ \A x \in Recues' : x < p => ~ Croise(req'[x], req'[p].msg)
    <2> SUFFICES ASSUME ~ mode.overtake
                 PROVE  /\ \A x \in Postes' : ~ Accepte(req'[x], m)
                        /\ \A r \in Recues' : ~ (n + 1 < r)
                        /\ \A x \in Inattendus : ~ Croise(d, x)
                        /\ \A x \in Recues' : x < n + 1 => ~ Croise(req'[x], m)
      BY <1>5, <1>6, <1>10
    <2>1. ASSUME NEW x \in Postes' PROVE ~ Accepte(req'[x], m)
      BY <1>9, <1>12 DEF Inv, SansCouple
    <2>2. \A r \in Recues' : ~ (n + 1 < r)
      BY <1>11
    <2>3. ASSUME NEW x \in Recues', x < n + 1 PROVE ~ Croise(req'[x], m)
      <3>1. x \in Recues /\ req'[x] = req[x]
        BY <1>11, <2>3
      <3> QED BY <1>9, <3>1 DEF CroisementInv
    <2> QED BY <1>13, <2>1, <2>2, <2>3
  <1>15. \A r \in Recues' : \/ r \in N
                            \/ /\ r \in Recues /\ req'[r].msg = req[r].msg
                               /\ \A x \in Messages : Accepte(req'[r], x) => Accepte(req[r], x)
    BY <1>10, <1>11
  <1>16. Inattendus' \subseteq Messages
    BY <1>8, InattenduDe DEF Inattendus
  <1> HIDE <1>10
  <1>17. mode' = mode /\ \A x \in Inattendus' : x \in Inattendus \/ \A r \in Recues' : ~ Croise(req'[r], x)
    BY <1>4, <1>8
  <1> QED BY <1>11, <1>12, <1>14, <1>15, <1>16, <1>17, CroisementPas
-----------------------------------------------------------------------------
LEMMA UneRequeteCroisement ==
    ASSUME Inv, EndroitsInv, CroisementInv, NEW r0 \in DOMAIN req, NEW d, req' = [req EXCEPT ![r0] = d],
           d.etat # "poste",
           EstRecue(d) => /\ EstRecue(req[r0]) /\ d.msg = req[r0].msg
                          /\ \A n \in Messages : Accepte(d, n) => Accepte(req[r0], n),
           UNCHANGED <<mode, varsRecus>>
    PROVE  CroisementInv'
  <1>1. /\ DOMAIN req' = DOMAIN req /\ req'[r0] = d
        /\ \A r \in DOMAIN req : r # r0 => req'[r] = req[r]
    BY ReqDomaine DEF Inv, TypesInv
  <1>2. \A r \in Recues' : /\ r \in Recues /\ req'[r].msg = req[r].msg
                           /\ \A n \in Messages : Accepte(req'[r], n) => Accepte(req[r], n)
    BY <1>1 DEF Recues, EstRecue
  <1>3. \A q \in Postes' : q \in Postes /\ req'[q] = req[q]
    BY <1>1 DEF Postes
  <1> QED BY <1>2, <1>3, RienDeNeuf DEF Inattendus, varsRecus

LEMMA FinirCroisement ==
    ASSUME Inv, EndroitsInv, CroisementInv, NEW c \in suites, Finir(c)
    PROVE  CroisementInv'
  <1> DEFINE d == [req[c.r] EXCEPT !.etat = "fini", !.msg = IF Consomme(c.m) THEN Aucun ELSE c.m]
  <1>1. c.pc = "finir" /\ req' = [req EXCEPT ![c.r] = d] /\ UNCHANGED <<mode, varsRecus>>
    BY DEF Finir
  <1>2. PICK r \in DOMAIN req : r = c.r /\ req[r].etat = "pris" /\ req[r].msg = c.m
    BY <1>1 DEF EndroitsInv, FilsInv
  <1>3. req[r] \in Requetes
    BY ReqDomaine DEF Inv, TypesInv
  <1>4. /\ d.etat = "fini" /\ d.tag = req[r].tag /\ d.peer = req[r].peer /\ d.genre = req[r].genre
        /\ d.msg = IF Consomme(c.m) THEN Aucun ELSE c.m
    BY <1>2, <1>3 DEF Requetes
  <1> HIDE DEF d
  <1>5. ASSUME EstRecue(d) PROVE EstRecue(req[r]) /\ d.msg = req[r].msg
    <2>1. EstRecue(req[r])
      BY <1>2, <1>4, <1>5 DEF EstRecue
    <2>2. ~ Consomme(c.m)
      <3> SUFFICES ASSUME Consomme(c.m) PROVE FALSE
        OBVIOUS
      <3>1. PICK x \in DOMAIN req : req[x].genre = "recv" /\ req[x].etat = "fini" /\ req[x].msg = c.m
        BY DEF Consomme
      <3>2. x \in Recues /\ r \in Recues
        BY <2>1, <3>1 DEF Recues, EstRecue
      <3>3. x = r
        BY <1>2, <3>1, <3>2 DEF EndroitsInv, DemandesInv
      <3> QED BY <1>2, <3>1, <3>3
    <2> QED BY <1>2, <1>4, <2>1, <2>2
  <1>6. \A n \in Messages : Accepte(d, n) => Accepte(req[r], n)
    BY <1>4 DEF Accepte
  <1>7. req' = [req EXCEPT ![r] = d] /\ d.etat # "poste"
    BY <1>1, <1>2, <1>4
  <1> QED BY <1>1, <1>5, <1>6, <1>7, UneRequeteCroisement

(* The receive made of a matched probe accepts no more than the probe did.  *)
LEMMA MRecvCroisement ==
    ASSUME Inv, EndroitsInv, CroisementInv, NEW r \in DOMAIN req, MRecv(r)
    PROVE  CroisementInv'
  <1> DEFINE d == [req[r] EXCEPT !.genre = "recv", !.peer = req[r].msg.src, !.tag = req[r].msg.tag]
  <1>1. /\ req[r].etat = "fini" /\ req[r].genre \in {"mprobe", "improbe"}
        /\ req' = [req EXCEPT ![r] = d] /\ UNCHANGED <<mode, varsRecus>>
    BY DEF MRecv
  <1>2. req[r] \in Requetes
    BY ReqDomaine DEF Inv, TypesInv
  <1>3. /\ d.etat = "fini" /\ d.msg = req[r].msg
        /\ d.peer = req[r].msg.src /\ d.tag = req[r].msg.tag
    BY <1>1, <1>2 DEF Requetes
  <1> HIDE DEF d
  <1>4. EstRecue(req[r]) /\ r \in Recues
    BY <1>1 DEF EstRecue, Recues
  <1>5. PICK m \in Messages : m = req[r].msg /\ Accepte(req[r], m) /\ m.src \in Sources /\ m.tag \in Tags
    BY <1>4, RecueMessage DEF Messages
  <1>6. m.src # AnySource /\ m.tag # AnyTag
    BY <1>5, AnyAssumption DEF AnyAssumption
  <1>7. ASSUME NEW n \in Messages, Accepte(d, n) PROVE Accepte(req[r], n)
    <2>1. n.src = m.src /\ n.tag = m.tag
      BY <1>3, <1>5, <1>6, <1>7 DEF Accepte
    <2> QED BY <1>5, <2>1 DEF Accepte
  <1> QED BY <1>1, <1>3, <1>4, <1>7, UneRequeteCroisement

LEMMA AnnuleCroisement ==
    ASSUME Inv, EndroitsInv, CroisementInv, NEW r \in DOMAIN req, Annule(r)
    PROVE  CroisementInv'
  <1> DEFINE d == [req[r] EXCEPT !.etat = "annule"]
  <1>1. req' = [req EXCEPT ![r] = d] /\ UNCHANGED <<mode, varsRecus>>
    BY DEF Annule
  <1>2. req[r] \in Requetes
    BY ReqDomaine DEF Inv, TypesInv
  <1>3. d.etat = "annule"
    BY <1>2 DEF Requetes
  <1> HIDE DEF d
  <1> QED BY <1>1, <1>3, UneRequeteCroisement DEF EstRecue

(* There is no request before the communicator.                             *)
LEMMA AjouteCommCroisement ==
    ASSUME Inv, CroisementInv, AjouteComm
    PROVE  CroisementInv'
  <1>1. req' = <<>> /\ mode' = mode
    BY DEF AjouteComm, Inv, RequetesInv
  <1>2. Recues' = {} /\ Postes' = {}
    BY <1>1 DEF Recues, Postes
  <1> QED BY <1>2 DEF CroisementInv

LEMMA StepCroisement ==
    ASSUME Inv, EndroitsInv, CroisementInv, [Next]_vars, ~ Rompu',
           NumerosDistincts, EtiquettesDemandables
    PROVE  CroisementInv'
  <1>0. Inv' /\ EndroitsInv'
    BY StepInv, StepEndroits
  <1>1. CASE UNCHANGED vars
    <2>1. UNCHANGED <<mode, req>> /\ unexpected' = unexpected
      BY <1>1 DEF vars, varsRecus
    <2> QED BY <2>1, DemandesIntactes DEF Inattendus
  <1>2. CASE Reception
    BY <1>0, <1>2, RecoitCroisement DEF Reception
  <1>3. CASE Suite
    BY <1>0, <1>3, GarderCroisement, ApresCroisement, VerifieCroisement, FinirCroisement DEF Suite
  <1>4. CASE AjouteComm
    BY <1>4, AjouteCommCroisement
  <1>5. CASE \E q \in Demandes : Poste(q) \/ Trouve(q)
    BY <1>0, <1>5, PosteCroisement, TrouveCroisement
  <1>6. CASE \E r \in DOMAIN req : MRecv(r) \/ Annule(r)
    BY <1>6, MRecvCroisement, AnnuleCroisement
  <1> QED BY <1>1, <1>2, <1>3, <1>4, <1>5, <1>6 DEF Next

(* MPI's rule of order: of two requests that both accept the first of two   *)
(* messages of a source, the one posted first does not get the second while *)
(* the other gets the first.  match_incomming and recv_req_start both take  *)
(* the oldest that suits, what is unexpected stays in the order of the      *)
(* sends, and nothing is left posted beside what it accepts.                *)
THEOREM SansCroisementTheorem ==
    ASSUME NumerosDistincts, EtiquettesDemandables
    PROVE  Spec => []SansCroisement
  <1>1. Init => CroisementInv
    <2>1. Init => Recues = {} /\ Postes = {}
      BY DEF Init, Recues, Postes
    <2> QED BY <2>1 DEF CroisementInv
  <1>2. Inv /\ EndroitsInv /\ CroisementInv /\ [Next]_vars /\ ~ Rompu' => CroisementInv'
    BY StepCroisement
  <1>3. ASSUME Inv, EndroitsInv, CroisementInv PROVE SansCroisement
    <2> SUFFICES ASSUME NEW q \in DOMAIN req, NEW r \in DOMAIN req, q < r, A_recu(q), A_recu(r),
                        req[q].msg.src = req[r].msg.src, req[q].msg.rang > req[r].msg.rang
                 PROVE  mode.overtake \/ ~ Accepte(req[q], req[r].msg)
      BY DEF SansCroisement
    <2>1. q \in Recues /\ r \in Recues
      BY DEF A_recu, Recues, EstRecue
    <2>2. req[q].msg.rang \in Nat /\ req[r].msg.rang \in Nat
      BY <2>1, <1>3, RecueMessage DEF Messages
    <2>3. mode.overtake \/ ~ Croise(req[q], req[r].msg)
      BY <1>3, <2>1 DEF CroisementInv
    <2> QED BY <2>2, <2>3 DEF Croise
  <1>4. Rompu => SansCroisement
    BY DEF SansCroisement
  <1>5. Inv /\ MainsInv /\ [Next]_vars => (Rompu => Rompu')
    BY RompuReste
  <1> QED BY <1>1, <1>2, <1>3, <1>4, <1>5, MainsTheorem, EndroitsTheorem, PTL DEF Spec
-----------------------------------------------------------------------------
(* The order of the ranges.  As long as the numbers do not wrap, the list   *)
(* is in the order of the numbers; while append_frag_to_ordered_list works  *)
(* on the ring, it is once round from some range c.                         *)
Rond(liste, c) ==
    /\ c \in 1 .. Len(liste)
    /\ \A i \in 1 .. Len(liste) :
         PlageSuivante(liste, i) # c => Fin(liste[i]) < Debut(liste, PlageSuivante(liste, i))
Triees(liste) == \A i \in 1 .. Len(liste) - 1 : Fin(liste[i]) < Debut(liste, i + 1)

LEMMA RondTriees ==
    ASSUME NEW liste \in Listes, liste # <<>>
    PROVE  Rond(liste, 1) <=> Triees(liste)
  <1>1. PICK n \in Nat : n = Len(liste) /\ n >= 1
    BY DEF Listes
  <1>2. \A i \in 1 .. n : PlageSuivante(liste, i) # 1 <=> i \in 1 .. n - 1
    BY <1>1 DEF PlageSuivante
  <1>3. \A i \in 1 .. n - 1 : PlageSuivante(liste, i) = i + 1 /\ i \in 1 .. n
    BY <1>1 DEF PlageSuivante
  <1>4. Rond(liste, 1) <=> \A i \in 1 .. n : i \in 1 .. n - 1 => Fin(liste[i]) < Debut(liste, PlageSuivante(liste, i))
    BY <1>1, <1>2 DEF Rond
  <1> QED BY <1>1, <1>3, <1>4 DEF Triees

(* The numbers of a range, from its first to its last.                      *)
LEMMA NumerosDePlage ==
    ASSUME NEW liste \in Listes, Suivies(liste), NEW i \in 1 .. Len(liste)
    PROVE  /\ \A j \in 1 .. Len(liste[i]) : liste[i][j].seq = Debut(liste, i) + j - 1
           /\ Debut(liste, i) \in Nat /\ Fin(liste[i]) \in Nat
           /\ Fin(liste[i]) = Debut(liste, i) + Len(liste[i]) - 1
           /\ Debut(liste, i) <= Fin(liste[i])
  <1>1. PICK a \in Nat \ {0} : a = Len(liste[i])
    BY PlageType
  <1>2. PICK d \in Nat : d = Debut(liste, i) /\ d = liste[i][1].seq
    BY <1>1, PlageType DEF Debut
  <1> DEFINE P == {k \in 0 .. a - 1 : liste[i][k + 1].seq = d + k}
  <1>3. \A j \in 1 .. a - 1 : liste[i][j + 1].seq = liste[i][j].seq + 1
    BY <1>1 DEF Suivies
  <1>4. 0 \in P
    BY <1>2
  <1>5. ASSUME NEW k \in 1 .. a - 1, k - 1 \in P PROVE k \in P
    <2>1. liste[i][k - 1 + 1].seq = d + (k - 1) /\ k - 1 + 1 = k
      BY <1>5
    <2>2. liste[i][k + 1].seq = d + k
      BY <1>3, <2>1
    <2> QED BY <2>2
  <1>6. \A n \in 0 .. a - 1 : n \in P
    <2> SUFFICES ASSUME NEW n \in 0 .. a - 1 PROVE n \in P
      OBVIOUS
    <2>1. \A k \in 1 .. n : k \in 1 .. a - 1
      OBVIOUS
    <2>2. \A k \in 1 .. n : k - 1 \in P => k \in P
      BY <1>5, <2>1
    <2> HIDE DEF P
    <2> QED BY <1>4, <2>2, Recurrence
  <1>7. ASSUME NEW j \in 1 .. a PROVE liste[i][j].seq = d + j - 1
    <2>1. j - 1 \in 0 .. a - 1 /\ j - 1 + 1 = j
      OBVIOUS
    <2>2. liste[i][j - 1 + 1].seq = d + (j - 1)
      BY <1>6, <2>1
    <2> QED BY <2>1, <2>2
  <1>8. Fin(liste[i]) = d + a - 1
    <2>1. liste[i][a].seq = d + a - 1
      BY <1>7
    <2> QED BY <1>1, <2>1 DEF Fin
  <1> QED BY <1>1, <1>2, <1>7, <1>8

(* The first number of a list in order is the least one.                    *)
LEMMA PremierNumero ==
    ASSUME NEW liste \in Listes, Suivies(liste), Triees(liste), NEW i \in 1 .. Len(liste)
    PROVE  Debut(liste, 1) <= Debut(liste, i)
  <1>1. PICK n \in Nat : n = Len(liste)
    BY DEF Listes
  <1> DEFINE P == {k \in 0 .. n - 1 : Debut(liste, 1) <= Debut(liste, k + 1)}
  <1>2. \A k \in 1 .. n : Debut(liste, k) \in Nat /\ Fin(liste[k]) \in Nat /\ Debut(liste, k) <= Fin(liste[k])
    BY <1>1, NumerosDePlage
  <1>3. 0 \in P
    BY <1>1, <1>2
  <1>4. ASSUME NEW k \in 1 .. i - 1, k - 1 \in P PROVE k \in P
    <2>1. k \in 1 .. n - 1 /\ k \in 1 .. n /\ k + 1 \in 1 .. n /\ 1 \in 1 .. n /\ k - 1 + 1 = k /\ k \in 0 .. n - 1
      BY <1>1
    <2>2. Fin(liste[k]) < Debut(liste, k + 1)
      BY <1>1, <2>1 DEF Triees
    <2>3. Debut(liste, 1) <= Debut(liste, k)
      BY <1>4, <2>1
    <2>4. Debut(liste, 1) <= Debut(liste, k + 1)
      BY <1>2, <2>1, <2>2, <2>3
    <2> QED BY <2>1, <2>4
  <1>5. i - 1 \in P
    <2>1. i - 1 \in Nat
      OBVIOUS
    <2> HIDE DEF P
    <2> QED BY <1>3, <1>4, <2>1, Recurrence
  <1>6. i - 1 + 1 = i
    OBVIOUS
  <1> QED BY <1>5, <1>6

(* A turn of the ring.                                                      *)
LEMMA TournerRond ==
    ASSUME NEW liste \in Listes, NEW c, Rond(liste, c), NEW k \in 1 .. Len(liste)
    PROVE  \E d \in 1 .. Len(liste) :
             /\ Rond(Tourner(liste, k), d) /\ Tourner(liste, k)[d] = liste[c]
             /\ d = IF c >= k THEN c - k + 1 ELSE c - k + 1 + Len(liste)
  <1>1. PICK n \in Nat : n = Len(liste) /\ n >= 1
    BY DEF Listes
  <1>2. c \in 1 .. n
    BY <1>1 DEF Rond
  <1> DEFINE t == Tourner(liste, k)
  <1>3. Len(t) = n /\ \A i \in 1 .. n : t[i] = IF i <= n - k + 1 THEN liste[i + k - 1] ELSE liste[i - (n - k + 1)]
    BY <1>1, TournerPlaces DEF Listes
  <1> HIDE DEF t
  <1> DEFINE d == IF c >= k THEN c - k + 1 ELSE c - k + 1 + n
             f(i) == IF i <= n - k + 1 THEN i + k - 1 ELSE i - (n - k + 1)
  <1>4. d \in 1 .. n /\ f(d) = c
    BY <1>1, <1>2
  <1>5. \A i \in 1 .. n : f(i) \in 1 .. n /\ t[i] = liste[f(i)]
    BY <1>1, <1>3
  <1>6. ASSUME NEW i \in 1 .. n
        PROVE  /\ PlageSuivante(t, i) \in 1 .. n
               /\ f(PlageSuivante(t, i)) = PlageSuivante(liste, f(i))
               /\ PlageSuivante(t, i) # d => PlageSuivante(liste, f(i)) # c
    <2>1. PlageSuivante(t, i) = (IF i = n THEN 1 ELSE i + 1)
      BY <1>3 DEF PlageSuivante
    <2>2. PlageSuivante(liste, f(i)) = (IF f(i) = n THEN 1 ELSE f(i) + 1)
      BY <1>1 DEF PlageSuivante
    <2>3. PlageSuivante(t, i) \in 1 .. n
      BY <1>1, <2>1
    <2>4. f(PlageSuivante(t, i)) = PlageSuivante(liste, f(i))
      BY <1>1, <2>1, <2>2
    <2>5. ASSUME NEW x \in 1 .. n, f(x) = c PROVE x = d
      BY <1>1, <1>2, <2>5
    <2> HIDE DEF f, d
    <2> QED BY <2>3, <2>4, <2>5
  <1> HIDE DEF f
  <1>7. ASSUME NEW i \in 1 .. n, PlageSuivante(t, i) # d
        PROVE  Fin(t[i]) < Debut(t, PlageSuivante(t, i))
    <2>1. Fin(liste[f(i)]) < Debut(liste, PlageSuivante(liste, f(i)))
      BY <1>1, <1>5, <1>6, <1>7 DEF Rond
    <2>2. t[i] = liste[f(i)] /\ t[PlageSuivante(t, i)] = liste[PlageSuivante(liste, f(i))]
      BY <1>5, <1>6
    <2> QED BY <2>1, <2>2 DEF Debut
  <1>8. Rond(t, d)
    BY <1>3, <1>4, <1>7 DEF Rond
  <1>9. t[d] = liste[c]
    BY <1>4, <1>5
  <1> QED BY <1>1, <1>4, <1>8, <1>9 DEF t
-----------------------------------------------------------------------------
(* The merge of the first two ranges, unless the second is the first of all. *)
LEMMA FusionnerRond ==
    ASSUME NEW liste \in Listes, NEW c, Rond(liste, c),
           Len(liste) > 1 /\ Fin(liste[1]) + 1 = Debut(liste, 2) => c # 2
    PROVE  \E d \in 1 .. Len(Fusionner(liste)) :
             Rond(Fusionner(liste), d) /\ Fusionner(liste)[d][1] = liste[c][1]
  <1>1. PICK n \in Nat : n = Len(liste) /\ n >= 1 /\ c \in 1 .. n
    BY DEF Listes, Rond
  <1>2. CASE ~ (n > 1 /\ Fin(liste[1]) + 1 = Debut(liste, 2))
    <2>1. Fusionner(liste) = liste
      BY <1>1, <1>2 DEF Fusionner
    <2> QED BY <1>1, <2>1
  <1>3. CASE n > 1 /\ Fin(liste[1]) + 1 = Debut(liste, 2)
    <2>1. PICK f \in Listes : /\ f = Fusionner(liste) /\ Len(f) = n - 1 /\ f[1] = liste[1] \o liste[2]
                              /\ \A k \in 2 .. n - 1 : f[k] = liste[k + 1]
      BY <1>1, <1>3, FusionnerPlaces
    <2>2. 1 \in 1 .. n /\ 2 \in 1 .. n /\ c # 2
      BY <1>1, <1>3
    <2>3. f[1][1] = liste[1][1] /\ Fin(f[1]) = Fin(liste[2])
      <3>1. PICK x \in Seq(Messages), y \in Seq(Messages) :
              /\ x = liste[1] /\ y = liste[2] /\ Len(x) \in Nat \ {0} /\ Len(y) \in Nat \ {0}
        BY <1>1, <2>2, PlageType
      <3> DEFINE w == x \o y
      <3>2. /\ Len(w) = Len(x) + Len(y)
            /\ \A j \in 1 .. Len(x) : w[j] = x[j]
            /\ \A j \in 1 .. Len(y) : w[Len(x) + j] = y[j]
        BY ConcatPlaces
      <3>5. f[1] = w
        BY <2>1, <3>1
      <3> HIDE DEF w
      <3>3. 1 \in 1 .. Len(x) /\ Len(y) \in 1 .. Len(y)
        BY <3>1
      <3>4. w[1] = x[1] /\ w[Len(w)] = y[Len(y)]
        BY <3>2, <3>3
      <3> QED BY <3>1, <3>4, <3>5 DEF Fin
    <2> DEFINE d == IF c = 1 THEN 1 ELSE c - 1
    <2>4. d \in 1 .. n - 1 /\ f[d][1] = liste[c][1]
      <3>1. CASE c = 1
        BY <1>1, <1>3, <2>3, <3>1
      <3>2. CASE c # 1
        <4>1. c - 1 \in 2 .. n - 1 /\ c - 1 + 1 = c
          BY <1>1, <2>2, <3>2
        <4> QED BY <2>1, <3>2, <4>1
      <3> QED BY <3>1, <3>2
    <2>5. ASSUME NEW i \in 1 .. n - 1 PROVE i + 1 \in 1 .. n /\ Fin(f[i]) = Fin(liste[i + 1])
      <3>1. CASE i = 1
        BY <1>3, <2>3, <3>1
      <3>2. CASE i # 1
        BY <2>1, <3>2
      <3> QED BY <3>1, <3>2
    <2>6. ASSUME NEW i \in 1 .. n - 1
          PROVE  /\ PlageSuivante(f, i) # d => PlageSuivante(liste, i + 1) # c
                 /\ Debut(f, PlageSuivante(f, i)) = Debut(liste, PlageSuivante(liste, i + 1))
      <3>1. CASE i = n - 1
        <4>1. PlageSuivante(f, i) = 1 /\ PlageSuivante(liste, i + 1) = 1
          BY <1>1, <2>1, <3>1 DEF PlageSuivante
        <4> QED BY <2>3, <4>1 DEF Debut
      <3>2. CASE i # n - 1
        <4>1. PlageSuivante(f, i) = i + 1 /\ PlageSuivante(liste, i + 1) = i + 2 /\ i + 1 \in 2 .. n - 1
          BY <1>1, <2>1, <3>2 DEF PlageSuivante
        <4>2. f[i + 1] = liste[i + 2]
          BY <2>1, <4>1
        <4> QED BY <1>1, <4>1, <4>2 DEF Debut
      <3> QED BY <3>1, <3>2
    <2> HIDE DEF d
    <2>7. ASSUME NEW i \in 1 .. n - 1, PlageSuivante(f, i) # d
          PROVE  Fin(f[i]) < Debut(f, PlageSuivante(f, i))
      <3>1. Fin(liste[i + 1]) < Debut(liste, PlageSuivante(liste, i + 1))
        BY <1>1, <2>5, <2>6, <2>7 DEF Rond
      <3> QED BY <2>5, <2>6, <3>1
    <2>8. Rond(f, d)
      BY <2>1, <2>4, <2>7 DEF Rond
    <2> QED BY <2>1, <2>4, <2>8
  <1> QED BY <1>2, <1>3

(* The search in a list in order ends at the last range if the number is    *)
(* less than all others, at the range that it follows otherwise.            *)
LEMMA PriorTriees ==
    ASSUME NEW liste \in Listes, liste # <<>>, Suivies(liste), Triees(liste),
           NEW seq \in 0 .. Modulo - 1, \A x \in Fragments(liste) : x.seq # seq
    PROVE  /\ Prior(liste, seq) \in 1 .. Len(liste)
           /\ \/ seq < Debut(liste, 1) /\ Prior(liste, seq) = Len(liste)
              \/ /\ Debut(liste, 1) < seq /\ Fin(liste[Prior(liste, seq)]) < seq
                 /\ Prior(liste, seq) < Len(liste) => seq < Debut(liste, Prior(liste, seq) + 1)
  <1> DEFINE d(i) == (Debut(liste, i) - seq) % Modulo
             Recule(i) == /\ seq < Debut(liste, i)
                          /\ d(PlageSuivante(liste, i)) > d(i)
                          /\ i # 1
             Avance(i) == /\ seq > Debut(liste, i)
                          /\ seq > Debut(liste, PlageSuivante(liste, i))
                          /\ Debut(liste, i) < Debut(liste, PlageSuivante(liste, i))
             Reculs == {i \in 1 .. Len(liste) : ~ Recule(i)}
             Avances == {i \in 1 .. Len(liste) : ~ Avance(i)}
  <1>0. PICK n \in Nat \ {0} : n = Len(liste)
    BY DEF Listes
  <1>1. \A i \in 1 .. n : Debut(liste, i) \in 0 .. Modulo - 1
    <2> SUFFICES ASSUME NEW i \in 1 .. n PROVE Debut(liste, i) \in 0 .. Modulo - 1
      OBVIOUS
    <2>1. liste[i][1] \in Messages
      BY <1>0, PlageType
    <2> QED BY <2>1 DEF Messages, Debut
  <1>2. Prior(liste, seq) = IF seq < Debut(liste, 1) THEN Max(Reculs) ELSE Min(Avances)
    BY Zenon DEF Prior
  <1>3. Prior(liste, seq) \in 1 .. n
    BY <1>0, PriorDansListe
  <1>4. ASSUME NEW i \in 1 .. n, NEW j \in 1 .. Len(liste[i]) PROVE liste[i][j].seq # seq
    BY <1>0, FragmentsA
  <1>5. \A i \in 1 .. n : Debut(liste, i) # seq
    <2> SUFFICES ASSUME NEW i \in 1 .. n PROVE Debut(liste, i) # seq
      OBVIOUS
    <2>1. 1 \in 1 .. Len(liste[i])
      BY <1>0, PlageType
    <2> QED BY <1>4, <2>1 DEF Debut
  <1>6. PlageSuivante(liste, n) = 1 /\ \A i \in 1 .. n - 1 : PlageSuivante(liste, i) = i + 1
    BY <1>0 DEF PlageSuivante
  <1>7. CASE seq < Debut(liste, 1)
    <2>1. Debut(liste, 1) <= Debut(liste, n)
      BY <1>0, PremierNumero
    <2>2. ~ (d(1) > d(n))
      <3>1. PICK a \in 0 .. Modulo - 1, b \in 0 .. Modulo - 1 : a = Debut(liste, 1) - seq /\ b = Debut(liste, n) - seq
        BY <1>1, <1>7, <2>1, ModuloAssumption
      <3>2. a % Modulo = a /\ b % Modulo = b
        BY ModuloAssumption
      <3>3. a <= b
        BY <1>1, <2>1, <3>1
      <3>4. d(1) = a /\ d(n) = b
        BY <3>1, <3>2
      <3> HIDE DEF d
      <3> QED BY <3>3, <3>4
    <2> HIDE DEF d
    <2>3. n \in Reculs /\ Reculs \subseteq 0 .. n
      BY <1>0, <1>6, <2>2
    <2> HIDE DEF Reculs
    <2>4. n <= Max(Reculs)
      BY <2>3, MaxProprietes
    <2>5. Prior(liste, seq) = n
      BY <1>2, <1>3, <1>7, <2>4
    <2> QED BY <1>0, <1>7, <2>5
  <1>8. CASE seq > Debut(liste, 1)
    <2>1. Avances \subseteq Nat /\ n \in Avances
      <3>1. ~ (Debut(liste, n) < Debut(liste, 1))
        BY <1>0, <1>1, PremierNumero
      <3> QED BY <1>0, <1>6, <3>1
    <2>2. PICK p \in 1 .. n : p = Prior(liste, seq)
      BY <1>3
    <2>3. p \in Avances /\ \A x \in Avances : p <= x
      <3> HIDE DEF Avances
      <3>1. p = Min(Avances)
        BY <1>1, <1>2, <1>8, <2>2
      <3> QED BY <2>1, <3>1, MinProprietes
    <2>4. Debut(liste, p) < seq
      <3>1. CASE p = 1
        BY <1>8, <3>1
      <3>2. CASE p # 1
        <4>1. p - 1 \in 1 .. n - 1 /\ p - 1 \in 1 .. n /\ ~ (p <= p - 1) /\ p - 1 + 1 = p
          BY <3>2
        <4>2. p - 1 \notin Avances
          <5> HIDE DEF Avances
          <5> QED BY <2>3, <4>1
        <4>3. Avance(p - 1)
          BY <1>0, <4>1, <4>2
        <4>4. PlageSuivante(liste, p - 1) = p
          BY <1>6, <4>1
        <4> QED BY <4>3, <4>4
      <3> QED BY <3>1, <3>2
    <2>5. ASSUME p < n PROVE seq < Debut(liste, p + 1)
      <3>1. ~ Avance(p)
        BY <2>3
      <3>2. p \in 1 .. n - 1 /\ p + 1 \in 1 .. n /\ PlageSuivante(liste, p) = p + 1
        BY <1>6, <2>5
      <3>3. Debut(liste, p) < Debut(liste, p + 1)
        <4>1. Debut(liste, p) <= Fin(liste[p]) /\ Fin(liste[p]) < Debut(liste, p + 1)
              /\ Fin(liste[p]) \in Nat
          BY <1>0, <3>2, NumerosDePlage DEF Triees
        <4> QED BY <1>1, <3>2, <4>1
      <3>4. ~ (seq > Debut(liste, p + 1))
        BY <2>4, <3>1, <3>2, <3>3
      <3> QED BY <1>1, <1>5, <3>2, <3>4
    <2>6. Fin(liste[p]) < seq
      <3>1. PICK a \in Nat \ {0}, b \in Nat :
              /\ a = Len(liste[p]) /\ b = Debut(liste, p) /\ Fin(liste[p]) = b + a - 1
              /\ \A j \in 1 .. a : liste[p][j].seq = b + j - 1
        <4>1. /\ Fin(liste[p]) = Debut(liste, p) + Len(liste[p]) - 1
              /\ \A j \in 1 .. Len(liste[p]) : liste[p][j].seq = Debut(liste, p) + j - 1
              /\ Debut(liste, p) \in Nat
          BY <1>0, NumerosDePlage
        <4>2. Len(liste[p]) \in Nat \ {0}
          BY <1>0, PlageType
        <4> QED BY <4>1, <4>2
      <3>2. ASSUME b + a - 1 >= seq PROVE FALSE
        <4>1. PICK j \in 1 .. a : b + j - 1 = seq
          <5>1. seq - b + 1 \in 1 .. a /\ b + (seq - b + 1) - 1 = seq
            BY <2>4, <3>1, <3>2
          <5> QED BY <5>1
        <4>2. liste[p][j].seq = seq
          BY <3>1, <4>1
        <4> QED BY <1>4, <3>1, <4>2
      <3> QED BY <3>1, <3>2
    <2> QED BY <1>0, <1>8, <2>2, <2>5, <2>6
  <1> QED BY <1>0, <1>1, <1>3, <1>5, <1>7, <1>8
-----------------------------------------------------------------------------
(* A range that grows by the number after its last one,                     *)
LEMMA GrandieRond ==
    ASSUME NEW liste \in Listes, Triees(liste), NEW p \in 1 .. Len(liste), NEW m \in Messages,
           p < Len(liste) => m.seq < Debut(liste, p + 1),
           NEW z \in Listes, Len(z) = Len(liste), z[p] = Append(liste[p], m),
           \A k \in 1 .. Len(liste) : k # p => z[k] = liste[k]
    PROVE  Rond(z, 1) /\ z[1][1] = liste[1][1] /\ Fin(z[p]) = m.seq
  <1>1. PICK n \in Nat : n = Len(liste) /\ n >= 1 /\ n = Len(z)
    BY DEF Listes
  <1>2. z[p][1] = liste[p][1] /\ Fin(z[p]) = m.seq
    <2>1. PICK x \in Seq(Messages) : x = liste[p] /\ Len(x) \in Nat \ {0}
      BY PlageType
    <2>2. PICK y : y = Append(x, m)
      OBVIOUS
    <2>3. Len(y) = Len(x) + 1 /\ y[Len(x) + 1] = m /\ y[1] = x[1]
      BY <2>1, <2>2
    <2>4. z[p] = y
      BY <2>1, <2>2
    <2> QED BY <2>1, <2>3, <2>4 DEF Fin
  <1>3. \A k \in 1 .. n : z[k][1] = liste[k][1]
    BY <1>1, <1>2
  <1>4. ASSUME NEW i \in 1 .. n - 1 PROVE Fin(z[i]) < Debut(z, i + 1)
    <2>1. i \in 1 .. n /\ i + 1 \in 1 .. n /\ Debut(z, i + 1) = Debut(liste, i + 1)
      BY <1>3 DEF Debut
    <2>2. CASE i = p
      <3>1. m.seq < Debut(liste, p + 1)
        BY <1>1, <2>2
      <3> QED BY <1>2, <2>1, <2>2, <3>1
    <2>3. CASE i # p
      <3>1. z[i] = liste[i]
        BY <1>1, <2>1, <2>3
      <3>2. Fin(liste[i]) < Debut(liste, i + 1)
        BY <1>1 DEF Triees
      <3> QED BY <2>1, <3>1, <3>2
    <2> QED BY <2>2, <2>3
  <1>5. Triees(z)
    BY <1>1, <1>4 DEF Triees
  <1>6. z # <<>>
    BY <1>1
  <1> QED BY <1>1, <1>2, <1>3, <1>5, <1>6, RondTriees

(* a new range after one that it follows, or after the last when it comes   *)
(* before the first.                                                        *)
LEMMA AllongeeRond ==
    ASSUME NEW liste \in Listes, Triees(liste), NEW p \in 1 .. Len(liste), NEW m \in Messages,
           NEW z \in Listes, Len(z) = Len(liste) + 1, z[p + 1] = <<m>>,
           \A k \in 1 .. p : z[k] = liste[k], \A k \in p + 1 .. Len(liste) : z[k + 1] = liste[k]
    PROVE  /\ z[1] = liste[1] /\ Fin(z[p + 1]) = m.seq /\ z[p + 1][1] = m
           /\ Fin(liste[p]) < m.seq /\ (p < Len(liste) => m.seq < Debut(liste, p + 1)) => Rond(z, 1)
           /\ p = Len(liste) /\ m.seq < Debut(liste, 1) => Rond(z, p + 1)
  <1>1. PICK n \in Nat : n = Len(liste) /\ n >= 1 /\ Len(z) = n + 1
    BY DEF Listes
  <1>2. z[1] = liste[1] /\ Fin(z[p + 1]) = m.seq /\ z[p + 1][1] = m
    BY <1>1 DEF Fin
  <1>3. \A i \in 1 .. n - 1 : Fin(liste[i]) < Debut(liste, i + 1)
    BY <1>1 DEF Triees
  <1>4. ASSUME Fin(liste[p]) < m.seq, p < n => m.seq < Debut(liste, p + 1) PROVE Rond(z, 1)
    <2>1. ASSUME NEW i \in 1 .. n PROVE Fin(z[i]) < Debut(z, i + 1)
      <3>1. CASE i < p
        <4>1. i \in 1 .. p /\ i + 1 \in 1 .. p /\ i \in 1 .. n - 1
          BY <1>1, <3>1
        <4>2. z[i] = liste[i] /\ z[i + 1] = liste[i + 1]
          BY <4>1
        <4> QED BY <1>3, <4>1, <4>2 DEF Debut
      <3>2. CASE i = p
        <4>1. z[i] = liste[i] /\ Debut(z, i + 1) = m.seq
          BY <1>2, <3>2 DEF Debut
        <4> QED BY <1>4, <3>2, <4>1
      <3>3. CASE i = p + 1
        <4>1. p + 1 \in p + 1 .. n /\ p < n
          BY <1>1, <3>3
        <4>2. z[i + 1] = liste[p + 1]
          BY <1>1, <3>3, <4>1
        <4> QED BY <1>2, <1>4, <3>3, <4>1, <4>2 DEF Debut
      <3>4. CASE i > p + 1
        <4>1. i - 1 \in p + 1 .. n /\ i \in p + 1 .. n /\ i - 1 + 1 = i /\ i - 1 \in 1 .. n - 1
          BY <1>1, <3>4
        <4>2. z[i] = liste[i - 1] /\ z[i + 1] = liste[i]
          BY <1>1, <4>1
        <4> QED BY <1>3, <4>1, <4>2 DEF Debut
      <3> QED BY <1>1, <3>1, <3>2, <3>3, <3>4
    <2>2. Triees(z)
      BY <1>1, <2>1 DEF Triees
    <2>3. z # <<>>
      BY <1>1
    <2> QED BY <2>2, <2>3, RondTriees
  <1>5. ASSUME p = n, m.seq < Debut(liste, 1) PROVE Rond(z, n + 1)
    <2>1. ASSUME NEW i \in 1 .. n + 1, PlageSuivante(z, i) # n + 1
          PROVE  Fin(z[i]) < Debut(z, PlageSuivante(z, i))
      <3>1. CASE i = n + 1
        <4>1. PlageSuivante(z, i) = 1
          BY <1>1, <3>1 DEF PlageSuivante
        <4> QED BY <1>2, <1>5, <3>1, <4>1 DEF Debut
      <3>2. CASE i # n + 1
        <4>1. PlageSuivante(z, i) = i + 1 /\ i \in 1 .. n - 1 /\ i \in 1 .. p /\ i + 1 \in 1 .. p
          BY <1>1, <1>5, <2>1, <3>2 DEF PlageSuivante
        <4>2. z[i] = liste[i] /\ z[i + 1] = liste[i + 1]
          BY <4>1
        <4> QED BY <1>3, <4>1, <4>2 DEF Debut
      <3> QED BY <3>1, <3>2
    <2> QED BY <1>1, <2>1 DEF Rond
  <1> QED BY <1>1, <1>2, <1>4, <1>5

(* The head of the list comes first again.                                  *)
LEMMA TeteEnTete ==
    ASSUME NEW fusion \in Listes, UneFois(fusion), NEW d, Rond(fusion, d), NEW tete, tete = fusion[d][1],
           NEW places, places = {i \in 1 .. Len(fusion) : fusion[i][1] = tete}
    PROVE  places # {} /\ Triees(Tourner(fusion, Min(places)))
  <1>1. d \in 1 .. Len(fusion) /\ d \in places /\ places \subseteq Nat
    BY DEF Rond
  <1>2. ASSUME NEW i \in places PROVE i = d
    <2>1. i \in 1 .. Len(fusion) /\ fusion[i][1] = fusion[d][1]
      OBVIOUS
    <2>2. 1 \in 1 .. Len(fusion[i]) /\ 1 \in 1 .. Len(fusion[d])
      BY <1>1, <2>1, PlageType
    <2> QED BY <1>1, <2>1, <2>2, UneFoisPlace
  <1>3. Min(places) = d
    BY <1>1, <1>2, MinProprietes
  <1>4. Rond(Tourner(fusion, d), 1)
    <2>1. PICK e \in 1 .. Len(fusion) :
            Rond(Tourner(fusion, d), e) /\ e = IF d >= d THEN d - d + 1 ELSE d - d + 1 + Len(fusion)
      BY <1>1, TournerRond
    <2>2. e = 1
      BY <1>1, <2>1
    <2> QED BY <2>1, <2>2
  <1>5. Tourner(fusion, d) \in Listes /\ Tourner(fusion, d) # <<>>
    <2>1. /\ Tourner(fusion, d) \in Seq(Plages) /\ Len(Tourner(fusion, d)) = Len(fusion)
          /\ Len(fusion) \in Nat /\ Len(fusion) >= 1
      BY <1>1, TournerPlaces DEF Listes
    <2> QED BY <2>1 DEF Listes
  <1> QED BY <1>1, <1>3, <1>4, <1>5, RondTriees

(* append_frag_to_ordered_list keeps the list in order, from its head, when *)
(* no number is less than the one expected.                                 *)
LEMMA Append_ordonneTriees ==
    ASSUME NEW liste \in Listes, Suivies(liste), UneFois(liste), Triees(liste),
           NEW m \in Messages, NEW seq \in Nat, seq <= m.seq,
           \A x \in Fragments(liste) : seq <= x.seq /\ x.seq # m.seq
    PROVE  Triees(Append_ordonne(liste, m, seq))
  <1>1. CASE liste = <<>>
    <2>1. Append_ordonne(liste, m, seq) = <<<<m>>>>
      BY <1>1 DEF Append_ordonne
    <2> QED BY <2>1 DEF Triees
  <1>2. CASE liste # <<>>
    <2> DEFINE n == Len(liste)
               p == Prior(liste, m.seq)
               suite == Fin(liste[p]) + 1 = m.seq
               avant == SubSeq(liste, 1, p - 1)
               reste == SubSeq(liste, p + 1, n)
               grandie == avant \o <<Append(liste[p], m)>> \o reste
               allongee == avant \o <<liste[p], <<m>>>> \o reste
               plages == IF suite THEN Tourner(grandie, p) ELSE Tourner(allongee, p + 1)
               nouvelleTete == /\ ~ suite
                               /\ m.seq >= seq
                               /\ Ecart(m.seq, seq) < Ecart(Debut(liste, 1), seq)
               tete == IF nouvelleTete THEN m ELSE liste[1][1]
               fusion == Fusionner(plages)
               places == {i \in 1 .. Len(fusion) : fusion[i][1] = tete}
    <2>1. Append_ordonne(liste, m, seq) = IF places = {} THEN fusion ELSE Tourner(fusion, Min(places))
      BY <1>2, Zenon DEF Append_ordonne
    <2>2. m.seq \in 0 .. Modulo - 1 /\ m.seq \in Nat /\ m \notin Fragments(liste)
      BY ModuloAssumption DEF Messages
    <2>3. /\ p \in 1 .. n
          /\ \/ m.seq < Debut(liste, 1) /\ p = n
             \/ /\ Debut(liste, 1) < m.seq /\ Fin(liste[p]) < m.seq
                /\ p < n => m.seq < Debut(liste, p + 1)
      BY <1>2, <2>2, PriorTriees
    <2> HIDE DEF p
    <2>4. n \in Nat /\ 1 \in 1 .. n
      BY <1>2 DEF Listes
    <2>5. Debut(liste, 1) \in Nat /\ seq <= Debut(liste, 1) /\ Fin(liste[p]) \in Nat /\ Debut(liste, 1) <= Debut(liste, p)
          /\ Debut(liste, p) <= Fin(liste[p]) /\ Debut(liste, p) \in Nat
      <3>1. 1 \in 1 .. Len(liste[1])
        BY <2>4, PlageType
      <3>2. liste[1][1] \in Fragments(liste)
        BY <2>4, <3>1, FragmentsA
      <3>3. seq <= Debut(liste, 1)
        BY <3>2 DEF Debut
      <3> QED BY <2>3, <2>4, <3>3, NumerosDePlage, PremierNumero
    <2>6. nouvelleTete <=> m.seq < Debut(liste, 1)
      <3>1. CASE m.seq < Debut(liste, 1)
        BY <2>2, <2>5, <3>1 DEF Ecart
      <3>2. CASE ~ (m.seq < Debut(liste, 1))
        BY <2>2, <2>5, <3>2 DEF Ecart
      <3> QED BY <3>1, <3>2
    <2> HIDE DEF n, nouvelleTete
    <2>7. PICK z \in Listes : \E r, c \in 1 .. Len(z) :
            /\ plages = Tourner(z, r) /\ Gagne(liste, z, {m})
            /\ Rond(z, c) /\ z[c][1] = tete /\ (c = r \/ Fin(z[r]) + 1 # Debut(z, c))
      <3>1. CASE suite
        <4>1. PICK z \in Listes : /\ z = grandie /\ Len(z) = Len(liste) /\ z[p] = Append(liste[p], m)
                                  /\ \A k \in 1 .. Len(liste) : k # p => z[k] = liste[k]
          BY <2>3, GrandiePlaces DEF n
        <4>2. ~ (m.seq < Debut(liste, 1)) /\ (p < Len(liste) => m.seq < Debut(liste, p + 1))
          BY <2>2, <2>3, <2>5, <3>1 DEF n
        <4>3. plages = Tourner(z, p)
          BY <3>1, <4>1
        <4>4. ~ nouvelleTete /\ tete = liste[1][1]
          BY <2>6, <4>2
        <4>5. suite => Gagne(liste, z, {m})
          BY <2>3, <4>1, GrandieGagne DEF n
        <4> HIDE DEF plages, suite, grandie, tete
        <4>6. Rond(z, 1) /\ z[1][1] = liste[1][1] /\ Fin(z[p]) = m.seq
          BY <2>3, <4>1, <4>2, GrandieRond DEF n
        <4>7. Fin(z[p]) + 1 # Debut(z, 1)
          BY <2>2, <2>5, <4>2, <4>6 DEF Debut
        <4>8. p \in 1 .. Len(z) /\ 1 \in 1 .. Len(z)
          BY <2>3, <2>4, <4>1 DEF n
        <4> QED BY <3>1, <4>3, <4>4, <4>5, <4>6, <4>7, <4>8
      <3>2. CASE ~ suite
        <4>1. PICK z \in Listes : /\ z = allongee /\ Len(z) = Len(liste) + 1 /\ z[p + 1] = <<m>>
                                  /\ \A k \in 1 .. p : z[k] = liste[k]
                                  /\ \A k \in p + 1 .. Len(liste) : z[k + 1] = liste[k]
          BY <2>3, AllongeePlaces DEF n
        <4>2. plages = Tourner(z, p + 1)
          BY <3>2, <4>1
        <4>3. tete = IF m.seq < Debut(liste, 1) THEN m ELSE liste[1][1]
          BY <2>6
        <4> HIDE DEF plages, suite, allongee, tete
        <4>4. /\ z[1] = liste[1] /\ Fin(z[p + 1]) = m.seq /\ z[p + 1][1] = m
              /\ Fin(liste[p]) < m.seq /\ (p < Len(liste) => m.seq < Debut(liste, p + 1)) => Rond(z, 1)
              /\ p = Len(liste) /\ m.seq < Debut(liste, 1) => Rond(z, p + 1)
          BY <2>3, <4>1, AllongeeRond DEF n
        <4>5. p + 1 \in 1 .. Len(z) /\ 1 \in 1 .. Len(z)
          BY <2>3, <2>4, <4>1 DEF n
        <4>6. Gagne(liste, z, {m})
          BY <2>3, <4>1, AllongeeGagne DEF n
        <4>7. CASE m.seq < Debut(liste, 1)
          <5>1. Rond(z, p + 1) /\ tete = m
            BY <2>2, <2>3, <2>5, <4>3, <4>4, <4>7 DEF n
          <5> QED BY <4>2, <4>4, <4>5, <4>6, <5>1
        <4>8. CASE ~ (m.seq < Debut(liste, 1))
          <5>1. Rond(z, 1) /\ tete = liste[1][1] /\ Debut(liste, 1) < m.seq
            BY <2>3, <4>3, <4>4, <4>8 DEF n
          <5>2. Fin(z[p + 1]) + 1 # Debut(z, 1)
            BY <2>2, <2>5, <4>4, <5>1 DEF Debut
          <5> QED BY <4>2, <4>4, <4>5, <4>6, <5>1, <5>2
        <4> QED BY <4>7, <4>8
      <3> QED BY <3>1, <3>2
    <2> HIDE DEF plages, tete
    <2>8. PICK r \in 1 .. Len(z), c \in 1 .. Len(z) :
            /\ plages = Tourner(z, r) /\ Gagne(liste, z, {m})
            /\ Rond(z, c) /\ z[c][1] = tete /\ (c = r \/ Fin(z[r]) + 1 # Debut(z, c))
      BY <2>7
    <2>9. Gagne(liste, plages, {m}) /\ plages \in Listes
      <3>1. Gagne(z, plages, {})
        BY <2>8, TournerGagne
      <3>2. Gagne(liste, plages, {m})
        BY <2>8, <3>1, GagneEnsuite
      <3> QED BY <3>2 DEF Gagne
    <2>10. PICK e \in 1 .. Len(plages) : /\ Rond(plages, e) /\ plages[e][1] = tete
                                         /\ Len(plages) > 1 /\ Fin(plages[1]) + 1 = Debut(plages, 2) => e # 2
      <3>1. PICK e \in 1 .. Len(z) : /\ Rond(plages, e) /\ plages[e] = z[c]
                                     /\ e = IF c >= r THEN c - r + 1 ELSE c - r + 1 + Len(z)
        <4>1. \E e \in 1 .. Len(z) :
                /\ Rond(Tourner(z, r), e) /\ Tourner(z, r)[e] = z[c]
                /\ e = IF c >= r THEN c - r + 1 ELSE c - r + 1 + Len(z)
          BY <2>8, TournerRond, Zenon
        <4> QED BY <2>8, <4>1, Zenon
      <3>2. e \in 1 .. Len(plages)
        BY <3>1 DEF Rond
      <3>3. ASSUME Fin(plages[1]) + 1 = Debut(plages, 2), e = 2 PROVE FALSE
        <4>1. plages[1] = z[r]
          <5>1. 1 \in 1 .. Len(z) /\ 1 <= Len(z) - r + 1 /\ 1 + r - 1 = r
            BY <2>8 DEF Listes
          <5> QED BY <2>8, <5>1, TournerPlaces DEF Listes
        <4>2. c # r
          BY <2>8, <3>1, <3>3
        <4>3. Debut(plages, 2) = Debut(z, c)
          BY <3>1, <3>3 DEF Debut
        <4> QED BY <2>8, <3>3, <4>1, <4>2, <4>3
      <3> QED BY <2>8, <3>1, <3>2, <3>3
    <2>11. PICK d \in 1 .. Len(fusion) : Rond(fusion, d) /\ fusion[d][1] = tete
      <3>1. \E d \in 1 .. Len(Fusionner(plages)) :
              Rond(Fusionner(plages), d) /\ Fusionner(plages)[d][1] = plages[e][1]
        BY <2>9, <2>10, FusionnerRond
      <3> QED BY <2>10, <3>1
    <2>12. fusion \in Listes /\ UneFois(fusion)
      <3>1. Gagne(plages, fusion, {})
        BY <2>9, FusionnerGagne
      <3>2. Gagne(liste, fusion, {m})
        BY <2>9, <3>1, GagneEnsuite
      <3> QED BY <2>2, <3>2 DEF Gagne
    <2> HIDE DEF fusion
    <2>13. places # {} /\ Triees(Tourner(fusion, Min(places)))
      BY <2>11, <2>12, TeteEnTete
    <2> HIDE DEF places
    <2> QED BY <2>1, <2>13
  <1> QED BY <1>1, <1>2
-----------------------------------------------------------------------------
(* remove_head_from_ordered_list keeps the order.                           *)
LEMMA Sans_teteTriees ==
    ASSUME NEW liste \in Listes, liste # <<>>, Triees(liste)
    PROVE  Triees(Sans_tete(liste))
  <1>1. PICK n \in Nat \ {0} : n = Len(liste) /\ 1 \in 1 .. n
    BY DEF Listes
  <1>2. PICK x \in Seq(Messages) : x = liste[1] /\ Len(x) \in Nat \ {0}
    BY <1>1, PlageType
  <1>3. CASE Len(x) = 1
    <2> DEFINE z == Tail(liste)
    <2>1. Len(z) = n - 1 /\ \A i \in 1 .. n - 1 : z[i] = liste[i + 1]
      BY <1>1 DEF Listes
    <2>2. Sans_tete(liste) = z
      BY <1>2, <1>3 DEF Sans_tete
    <2> HIDE DEF z
    <2>3. ASSUME NEW i \in 1 .. n - 2 PROVE Fin(z[i]) < Debut(z, i + 1)
      <3>1. i \in 1 .. n - 1 /\ i + 1 \in 1 .. n - 1 /\ i + 1 \in 1 .. Len(liste) - 1
        BY <1>1
      <3>2. z[i] = liste[i + 1] /\ z[i + 1] = liste[i + 1 + 1]
        BY <2>1, <3>1
      <3>3. Fin(liste[i + 1]) < Debut(liste, i + 1 + 1)
        BY <3>1 DEF Triees
      <3> QED BY <3>2, <3>3 DEF Debut
    <2>4. Len(z) - 1 = n - 2
      BY <2>1
    <2> QED BY <2>2, <2>3, <2>4 DEF Triees
  <1>4. CASE Len(x) # 1
    <2> DEFINE z == [liste EXCEPT ![1] = Tail(x)]
    <2>1. Len(z) = n /\ z[1] = Tail(x) /\ \A i \in 2 .. n : z[i] = liste[i]
      BY <1>1 DEF Listes
    <2>2. Sans_tete(liste) = z
      BY <1>1, <1>2, <1>4 DEF Sans_tete, Listes
    <2> HIDE DEF z
    <2>3. Fin(Tail(x)) = Fin(x)
      <3>1. Len(Tail(x)) = Len(x) - 1 /\ Len(x) - 1 \in 1 .. Len(x) - 1
        <4>1. x # <<>>
          BY <1>2
        <4>2. Len(Tail(x)) = Len(x) - 1
          BY <4>1
        <4>3. Len(x) - 1 \in 1 .. Len(x) - 1
          <5>1. PICK k \in Nat \ {0} : k = Len(x)
            BY <1>2
          <5>2. k - 1 \in 1 .. k - 1
            BY <1>4, <5>1
          <5> QED BY <5>1, <5>2
        <4> QED BY <4>2, <4>3
      <3>2. \A j \in 1 .. Len(x) - 1 : Tail(x)[j] = x[j + 1]
        BY <1>2
      <3>3. Tail(x)[Len(x) - 1] = x[Len(x) - 1 + 1] /\ Len(x) - 1 + 1 = Len(x)
        BY <1>2, <3>1, <3>2
      <3> QED BY <3>1, <3>3 DEF Fin
    <2>4. ASSUME NEW i \in 1 .. n - 1 PROVE Fin(z[i]) < Debut(z, i + 1)
      <3>1. Fin(z[i]) = Fin(liste[i])
        <4>1. CASE i = 1
          BY <1>2, <2>1, <2>3, <4>1
        <4>2. CASE i # 1
          BY <2>1, <4>2
        <4> QED BY <4>1, <4>2
      <3>2. i + 1 \in 2 .. n /\ i \in 1 .. Len(liste) - 1
        BY <1>1
      <3>3. Debut(z, i + 1) = Debut(liste, i + 1)
        BY <2>1, <3>2 DEF Debut
      <3> QED BY <3>1, <3>2, <3>3 DEF Triees
    <2> QED BY <2>1, <2>2, <2>4 DEF Triees
  <1> QED BY <1>3, <1>4

(* If one has the number expected, and none has a number less than that,    *)
(* check_cantmatch_for_match finds it at the head.                          *)
LEMMA TeteDabord ==
    ASSUME NEW liste \in Listes, Suivies(liste), Triees(liste), NEW x \in Fragments(liste),
           \A y \in Fragments(liste) : x.seq <= y.seq
    PROVE  A_son_tour(liste, x.seq)
  <1>0. PICK i \in 1 .. Len(liste) : \E j \in 1 .. Len(liste[i]) : liste[i][j] = x
    BY FragmentsPlaces
  <1>1. PICK j \in 1 .. Len(liste[i]) : liste[i][j] = x
    BY <1>0
  <1>2. 1 \in 1 .. Len(liste) /\ liste # <<>>
    BY <1>0 DEF Listes
  <1>3. x.seq \in Nat /\ x.seq = Debut(liste, i) + j - 1 /\ Debut(liste, i) \in Nat /\ j >= 1 /\ j \in Nat
    <2>1. liste[i][j].seq = Debut(liste, i) + j - 1 /\ Debut(liste, i) \in Nat
      BY NumerosDePlage
    <2>2. liste[i][j].seq \in Nat /\ Len(liste[i]) \in Nat
      BY PlageType
    <2> QED BY <1>1, <2>1, <2>2
  <1>4. Debut(liste, 1) <= Debut(liste, i) /\ Debut(liste, 1) \in Nat
    BY <1>2, PremierNumero, NumerosDePlage
  <1>5. liste[1][1] \in Fragments(liste)
    <2>1. 1 \in 1 .. Len(liste[1])
      BY <1>2, PlageType
    <2> QED BY <1>2, <2>1, FragmentsA
  <1>6. x.seq <= Debut(liste, 1)
    BY <1>5 DEF Debut
  <1>7. liste[1][1].seq = x.seq
    BY <1>3, <1>4, <1>6 DEF Debut
  <1> QED BY <1>2, <1>7 DEF A_son_tour

-----------------------------------------------------------------------------
(* No source goes past the last number in the instance, or messages overtake. *)
SansRoulement == mode.overtake \/ \A s \in Sources : mode.depart + mode.nb[s + 1] <= Modulo

LEMMA NumeroExact ==
    ASSUME mode \in Modes, EnvoisInv, SansRoulement, ~ mode.overtake, NEW s \in Sources, NEW m \in De(s)
    PROVE  /\ m.seq = mode.depart + m.rang - 1 /\ m.seq \in 0 .. Modulo - 1
           /\ m.rang \in Nat \ {0} /\ mode.depart \in Nat
  <1>1. PICK d \in Nat, b \in Nat, r \in Nat \ {0} :
          d = mode.depart /\ b = mode.nb[s + 1] /\ r = m.rang /\ r <= b /\ d + b <= Modulo
    BY ModeType, EnvoyeProprietes DEF SansRoulement
  <1>2. m.seq = (d + r - 1) % Modulo
    BY <1>1, EnvoyeProprietes
  <1>3. d + r - 1 \in 0 .. Modulo - 1
    BY <1>1, ModuloAssumption
  <1>4. (d + r - 1) % Modulo = d + r - 1
    BY <1>3, ModuloAssumption
  <1> QED BY <1>1, <1>2, <1>3, <1>4

LEMMA MemeMessage ==
    ASSUME mode \in Modes, EnvoisInv, SansRoulement, ~ mode.overtake, NEW s \in Sources,
           NEW m \in De(s), NEW x \in De(s), m.seq = x.seq
    PROVE  m = x
  <1>1. m.rang = x.rang
    <2>1. m.seq = mode.depart + m.rang - 1 /\ m.rang \in Nat /\ mode.depart \in Nat
      BY NumeroExact
    <2>2. x.seq = mode.depart + x.rang - 1 /\ x.rang \in Nat
      BY NumeroExact
    <2>3. PICK d \in Nat, a \in Nat, b \in Nat : d = mode.depart /\ a = m.rang /\ b = x.rang
      BY <2>1, <2>2
    <2>4. d + a - 1 = d + b - 1
      BY <2>1, <2>2, <2>3
    <2>5. a = b
      BY <2>4
    <2> QED BY <2>3, <2>5
  <1> QED BY <1>1, EnvoyeProprietes

(* None that is still to be taken up has a number less than the one         *)
(* expected.                                                                *)
LEMMA PasAvant ==
    ASSUME mode \in Modes, EnvoisInv, SansRoulement, ~ mode.overtake, NEW s \in Sources,
           NEW t \in Seq(Nat), NEW x, EnOrdre(t, x), NEW m \in De(s), m.rang \notin ToSet(t)
    PROVE  x \in Nat /\ x <= m.seq
  <1>1. PICK d \in Nat, r \in Nat \ {0}, n \in Nat :
          /\ d = mode.depart /\ r = m.rang /\ n = Len(t)
          /\ m.seq = d + r - 1 /\ d + r - 1 <= Modulo - 1
    <2>1. /\ m.seq = mode.depart + m.rang - 1 /\ m.seq \in 0 .. Modulo - 1
          /\ m.rang \in Nat \ {0} /\ mode.depart \in Nat
      BY NumeroExact
    <2>2. Len(t) \in Nat /\ m.seq <= Modulo - 1
      BY <2>1, ModuloAssumption
    <2> QED BY <2>1, <2>2
  <1>2. x = (d + n) % Modulo /\ \A k \in 1 .. n : t[k] = k
    BY <1>1 DEF EnOrdre
  <1>3. r > n
    <2>1. ASSUME r <= n PROVE FALSE
      <3>1. r \in 1 .. n /\ r \in DOMAIN t
        BY <1>1, <2>1
      <3>2. t[r] = r
        BY <1>2, <3>1
      <3> QED BY <1>1, <3>1, <3>2 DEF ToSet
    <2> QED BY <1>1, <2>1
  <1>4. d + n \in 0 .. Modulo - 1
    BY <1>1, <1>3, ModuloAssumption
  <1>5. (d + n) % Modulo = d + n
    <2>1. PICK y \in 0 .. Modulo - 1 : y = d + n
      BY <1>4
    <2>2. y % Modulo = y
      BY ModuloAssumption
    <2> QED BY <2>1, <2>2
  <1> QED BY <1>1, <1>2, <1>3, <1>5
-----------------------------------------------------------------------------
(* What is out of turn is in order, and one of them is due if its number is *)
(* the one expected.  With messages that overtake none is ever due.         *)
Du(e, s) == \E m \in Fragments(e.cant[s]) : m.seq = e.expected[s]
EnRang(e, s) == IF mode.overtake THEN ~ Du(e, s) ELSE Triees(e.cant[s])

LEMMA DuTete ==
    ASSUME mode \in Modes, EnvoisInv, SansRoulement, NEW e \in Etats, NEW D, NEW R, Rangee(e, D, R),
           NEW s \in Sources, EnRang(e, s), Du(e, s)
    PROVE  ~ mode.overtake /\ A_son_tour(e.cant[s], e.expected[s])
  <1>1. ~ mode.overtake /\ Triees(e.cant[s])
    BY DEF EnRang
  <1>2. PICK x \in Fragments(e.cant[s]) : x.seq = e.expected[s]
    BY DEF Du
  <1>3. RangeeEn(e, s, D, R)
    BY DEF Rangee
  <1>4. PICK liste \in Listes : liste = e.cant[s]
    BY EtatsType
  <1>5. PICK t \in Seq(Nat) : t = e.traites[s]
    BY EtatsType
  <1>6. \A y \in Fragments(liste) : y \in De(s) /\ y.rang \notin ToSet(t)
    BY <1>3, <1>4, <1>5 DEF RangeeEn, Partagees
  <1>7. EnOrdre(t, e.expected[s]) /\ Suivies(liste)
    BY <1>3, <1>4, <1>5 DEF RangeeEn
  <1>8. \A y \in Fragments(liste) : x.seq <= y.seq
    BY <1>1, <1>2, <1>6, <1>7, PasAvant
  <1>9. A_son_tour(liste, x.seq)
    BY <1>1, <1>2, <1>4, <1>7, <1>8, TeteDabord
  <1> QED BY <1>1, <1>2, <1>4, <1>9

(* One that comes out of turn is put where it belongs, and is not due.      *)
LEMMA AttenteEnRang ==
    ASSUME mode \in Modes, EnvoisInv, SansRoulement, NEW e \in Etats, NEW D, NEW R, Rangee(e, D, R),
           NEW s \in Sources, EnRang(e, s), NEW m \in De(s), m \in D, m.seq # e.expected[s],
           NEW l2, l2 = Append_ordonne(e.cant[s], m, e.expected[s])
    PROVE  /\ Fragments(l2) = Fragments(e.cant[s]) \cup {m}
           /\ ~ mode.overtake => Triees(l2)
           /\ (\E x \in Fragments(l2) : x.seq = e.expected[s]) => Du(e, s)
  <1>1. RangeeEn(e, s, D, R)
    BY DEF Rangee
  <1>2. PICK liste \in Listes : liste = e.cant[s]
    BY EtatsType
  <1>3. PICK t \in Seq(Nat) : t = e.traites[s]
    BY EtatsType
  <1>4. PICK x \in 0 .. Modulo - 1 : x = e.expected[s]
    BY EtatsType
  <1>5. m \in Messages
    BY EnvoyeProprietes
  <1>6. /\ \A y \in Fragments(liste) : y \in De(s) /\ y.rang \notin ToSet(t)
        /\ m \notin Fragments(liste) /\ m.rang \notin ToSet(t)
    BY <1>1, <1>2, <1>3 DEF RangeeEn, Partagees
  <1>7. EnOrdre(t, x) /\ Suivies(liste) /\ UneFois(liste)
    BY <1>1, <1>2, <1>3, <1>4 DEF RangeeEn
  <1>8. Gagne(liste, Append_ordonne(liste, m, x), {m})
    BY <1>5, Append_ordonneGagne
  <1>9. Fragments(l2) = Fragments(liste) \cup {m}
    BY <1>2, <1>4, <1>8 DEF Gagne
  <1>10. ASSUME ~ mode.overtake PROVE Triees(l2)
    <2>1. Triees(liste) /\ x \in Nat /\ x <= m.seq
      BY <1>2, <1>6, <1>7, <1>10, PasAvant DEF EnRang
    <2>2. \A y \in Fragments(liste) : x <= y.seq
      BY <1>6, <1>7, <1>10, PasAvant
    <2>3. \A y \in Fragments(liste) : y.seq # m.seq
      BY <1>6, <1>10, MemeMessage
    <2>4. Triees(Append_ordonne(liste, m, x))
      BY <1>5, <1>7, <2>1, <2>2, <2>3, Append_ordonneTriees
    <2> QED BY <1>2, <1>4, <2>4
  <1>11. ASSUME NEW y \in Fragments(l2), y.seq = e.expected[s] PROVE Du(e, s)
    <2>1. y \in Fragments(e.cant[s])
      BY <1>2, <1>9, <1>11
    <2> QED BY <1>11, <2>1 DEF Du
  <1> QED BY <1>2, <1>9, <1>10, <1>11
-----------------------------------------------------------------------------
(* mca_pml_ob1_add_comm empties each list of what is due: a message that    *)
(* came before is taken from it at most once for each that came.            *)
LEMMA AttendusFinis ==
    ASSUME pending \in Seq(Messages), NEW F, F \subseteq ToSet(pending)
    PROVE  IsFiniteSet(F) /\ Cardinality(F) \in Nat /\ Cardinality(F) <= Len(pending)
  <1>1. PICK n \in Nat : n = Len(pending) /\ DOMAIN pending = 1 .. n
    OBVIOUS
  <1>2. IsFiniteSet(1 .. n) /\ Cardinality(1 .. n) = n
    BY FS_Interval
  <1> DEFINE f == [x \in F |-> CHOOSE i \in 1 .. n : pending[i] = x]
  <1>3. \A x \in F : \E i \in 1 .. n : pending[i] = x
    BY <1>1 DEF ToSet
  <1>4. f \in [F -> 1 .. n] /\ \A x \in F : pending[f[x]] = x
    BY <1>3
  <1> HIDE DEF f
  <1>5. f \in Injection(F, 1 .. n)
    BY <1>4 DEF Injection, IsInjective
  <1>6. IsFiniteSet(F) /\ Cardinality(F) <= n
    BY <1>2, <1>5, FS_Injection
  <1> QED BY <1>1, <1>6, FS_CardinalityType
-----------------------------------------------------------------------------
(* While the messages of source s that have become due are taken from its   *)
(* list, nothing of another source is due.                                  *)
EnCours(e, s) ==
    \A z \in Sources :
        EnRang(e, z) /\ (z # s => ~ Du(e, z)) /\ Fragments(e.cant[z]) \subseteq ToSet(pending)
SansDu(e) ==
    \A z \in Sources : EnRang(e, z) /\ ~ Du(e, z) /\ Fragments(e.cant[z]) \subseteq ToSet(pending)

LEMMA AilleursEnCours ==
    ASSUME NEW e, NEW e2, NEW s, NEW z \in Sources, z # s, EnCours(e, s),
           e2.cant[z] = e.cant[z], e2.expected[z] = e.expected[z]
    PROVE  EnRang(e2, z) /\ ~ Du(e2, z) /\ Fragments(e2.cant[z]) \subseteq ToSet(pending)
  BY DEF EnCours, EnRang, Du

LEMMA DepilerEnCours ==
    ASSUME mode \in Modes, EnvoisInv, ~ mode.overtake, NEW e \in Etats, NEW D, NEW R, Rangee(e, D, R),
           NEW s \in Sources, EnCours(e, s), A_son_tour(e.cant[s], e.expected[s])
    PROVE  /\ EnCours(Depiler(e, s), s)
           /\ \E m \in Fragments(e.cant[s]) :
                Fragments(Depiler(e, s).cant[s]) = Fragments(e.cant[s]) \ {m}
  <1>1. PICK liste \in Listes : liste = e.cant[s] /\ liste # <<>>
    BY EtatsType DEF A_son_tour
  <1>2. PICK m \in De(s) : m = liste[1][1] /\ m \in Messages /\ m.src = s /\ m \in Fragments(liste)
    <2>1. liste[1][1] \in Fragments(liste)
      BY <1>1, Sans_teteFragments
    <2>2. Fragments(liste) \subseteq De(s)
      BY <1>1 DEF Rangee, RangeeEn, Partagees
    <2> QED BY <2>1, <2>2, EnvoyeProprietes
  <1>3. PICK l2 \in Listes : /\ l2 = Sans_tete(liste) /\ Fragments(l2) = Fragments(liste) \ {m}
                             /\ Triees(l2)
    <2>1. UneFois(liste)
      BY <1>1 DEF Rangee, RangeeEn
    <2>2. Triees(liste)
      BY <1>1 DEF EnCours, EnRang
    <2> QED BY <1>1, <1>2, <2>1, <2>2, Sans_teteFragments, Sans_teteTriees
  <1>4. PICK e2 \in Etats : e2 = Depiler(e, s)
    BY DepilerType
  <1>5. /\ e2.cant = [e.cant EXCEPT ![s] = l2]
        /\ e2.expected = [e.expected EXCEPT ![s] = (@ + 1) % Modulo]
    BY <1>1, <1>2, <1>3, <1>4 DEF Depiler, Inattendu, Etats
  <1>6. /\ e2.cant[s] = l2
        /\ \A z \in Sources : z # s => e2.cant[z] = e.cant[z] /\ e2.expected[z] = e.expected[z]
    BY <1>5 DEF Etats
  <1>7. EnRang(e2, s) /\ Fragments(e2.cant[s]) \subseteq ToSet(pending)
    <2>1. Fragments(liste) \subseteq ToSet(pending)
      BY <1>1 DEF EnCours
    <2> QED BY <1>3, <1>6, <2>1 DEF EnRang
  <1>8. EnCours(e2, s)
    <2>1. EnRang(e2, s) /\ Fragments(e2.cant[s]) \subseteq ToSet(pending)
      BY <1>7
    <2>2. ASSUME NEW z \in Sources, z # s
          PROVE  EnRang(e2, z) /\ ~ Du(e2, z) /\ Fragments(e2.cant[z]) \subseteq ToSet(pending)
      BY <1>6, <2>2, AilleursEnCours
    <2> QED BY <2>1, <2>2 DEF EnCours
  <1> QED BY <1>1, <1>2, <1>3, <1>4, <1>6, <1>8

LEMMA ViderSansDu ==
    ASSUME mode \in Modes, NumerosDistincts, EnvoisInv, SansRoulement, ~ mode.overtake,
           pending \in Seq(Messages), NEW e \in Etats, NEW D, NEW R, Rangee(e, D, R),
           NEW s \in Sources, EnCours(e, s)
    PROVE  SansDu(Vider(e, s))
  <1>1. PICK n \in Nat : n = Len(pending)
    OBVIOUS
  <1>2. PICK v \in [0 .. n -> Etats] : /\ v[0] = e /\ Vider(e, s) = v[n]
                                       /\ \A i \in 1 .. n : v[i] = Depiler(v[i - 1], s)
    BY <1>1, ViderSuite
  <1> DEFINE AVider(i) == Fragments(v[i].cant[s])
             Arret(i) == ~ A_son_tour(v[i].cant[s], v[i].expected[s])
             P == {i \in 0 .. n : /\ Rangee(v[i], D, R) /\ EnCours(v[i], s)
                                  /\ Arret(i) \/ Cardinality(AVider(i)) + i <= n}
  <1>3. ASSUME NEW i \in 0 .. n, EnCours(v[i], s)
        PROVE  IsFiniteSet(AVider(i)) /\ Cardinality(AVider(i)) \in Nat /\ Cardinality(AVider(i)) <= n
    <2>1. AVider(i) \subseteq ToSet(pending)
      BY <1>3 DEF EnCours
    <2> HIDE DEF AVider
    <2> QED BY <1>1, <2>1, AttendusFinis
  <1>4. 0 \in P
    <2>1. 0 \in 0 .. n /\ EnCours(v[0], s) /\ Rangee(v[0], D, R)
      BY <1>2
    <2>2. Cardinality(AVider(0)) + 0 <= n
      <3> HIDE DEF AVider
      <3> QED BY <1>3, <2>1
    <2> HIDE DEF AVider, Arret
    <2> QED BY <2>1, <2>2
  <1>5. ASSUME NEW i \in 1 .. n, i - 1 \in P PROVE i \in P
    <2>1. /\ i - 1 \in 0 .. n /\ i \in 0 .. n /\ v[i - 1] \in Etats /\ v[i] = Depiler(v[i - 1], s)
          /\ Rangee(v[i - 1], D, R) /\ EnCours(v[i - 1], s)
          /\ Arret(i - 1) \/ Cardinality(AVider(i - 1)) + (i - 1) <= n
      BY <1>2, <1>5
    <2>2. Rangee(v[i], D, R)
      BY <2>1, DepilerRangee
    <2>3. CASE Arret(i - 1)
      <3>1. v[i] = v[i - 1]
        BY <2>1, <2>3 DEF Depiler
      <3>2. Arret(i) /\ EnCours(v[i], s)
        BY <2>1, <2>3, <3>1
      <3> HIDE DEF Arret, AVider
      <3> QED BY <2>1, <2>2, <3>2
    <2>4. CASE ~ Arret(i - 1)
      <3>1. EnCours(v[i], s) /\ \E m \in AVider(i - 1) : AVider(i) = AVider(i - 1) \ {m}
        BY <2>1, <2>4, DepilerEnCours
      <3> HIDE DEF Arret, AVider
      <3>2. IsFiniteSet(AVider(i - 1)) /\ Cardinality(AVider(i - 1)) \in Nat
        BY <1>3, <2>1
      <3>3. Cardinality(AVider(i)) = Cardinality(AVider(i - 1)) - 1
        <4>1. PICK m \in AVider(i - 1) : AVider(i) = AVider(i - 1) \ {m}
          BY <3>1
        <4>2. Cardinality(AVider(i - 1) \ {m}) = Cardinality(AVider(i - 1)) - 1
          BY <3>2, FS_RemoveElement
        <4> QED BY <4>1, <4>2
      <3>4. Cardinality(AVider(i)) + i <= n
        BY <2>1, <2>4, <3>2, <3>3
      <3> QED BY <2>1, <2>2, <3>1, <3>4
    <2> QED BY <2>3, <2>4
  <1>6. n \in P
    <2> HIDE DEF P
    <2> QED BY <1>4, <1>5, Recurrence
  <1>7. v[n] \in Etats /\ Rangee(v[n], D, R) /\ EnCours(v[n], s)
    BY <1>6
  <1>8. ~ Du(v[n], s)
    <2> SUFFICES ASSUME Du(v[n], s) PROVE FALSE
      OBVIOUS
    <2>1. ~ Arret(n)
      BY <1>7, DuTete DEF EnCours
    <2>2. PICK m : m \in AVider(n)
      BY DEF Du
    <2>3. IsFiniteSet(AVider(n)) /\ Cardinality(AVider(n)) \in Nat /\ Cardinality(AVider(n)) + n <= n
      <3> HIDE DEF Arret, AVider
      <3> QED BY <1>3, <1>6, <1>7, <2>1
    <2> HIDE DEF Arret, AVider
    <2>4. Cardinality(AVider(n)) = 0
      BY <2>3
    <2> QED BY <2>2, <2>3, <2>4, FS_EmptySet
  <1>9. SansDu(v[n])
    BY <1>7, <1>8 DEF EnCours, SansDu
  <1> QED BY <1>2, <1>9
-----------------------------------------------------------------------------
LEMMA RangerSansDu ==
    ASSUME mode \in Modes, NumerosDistincts, EnvoisInv, SansRoulement, pending \in Seq(Messages),
           NEW e \in Etats, NEW D, NEW R, Rangee(e, D, R), SansDu(e),
           NEW s \in Sources, NEW m \in De(s), m \in D, m \in ToSet(pending)
    PROVE  SansDu(Ranger(e, m))
  <1>1. m \in Messages /\ m.src = s
    BY EnvoyeProprietes
  <1>2. CASE mode.overtake
    <2>1. PICK e2 \in Etats : e2 = Ranger(e, m) /\ e2.cant = e.cant /\ e2.expected = e.expected
      <3>1. Ranger(e, m) \in Etats
        BY <1>1, RangerType
      <3>2. Ranger(e, m).cant = e.cant /\ Ranger(e, m).expected = e.expected
        BY <1>2 DEF Ranger, Inattendu
      <3> QED BY <3>1, <3>2
    <2> QED BY <2>1 DEF SansDu, EnRang, Du
  <1>3. CASE ~ mode.overtake /\ m.seq = e.expected[s]
    <2>1. PICK e2 \in Etats : e2 = Inattendu(e, m) /\ Rangee(e2, D \ {m}, R)
      BY <1>3, InattenduRangee
    <2>2. e2.cant = e.cant /\ \A z \in Sources : z # s => e2.expected[z] = e.expected[z]
      BY <1>1, <2>1 DEF Inattendu, Etats
    <2>3. EnCours(e2, s)
      <3>1. ASSUME NEW z \in Sources PROVE EnRang(e2, z) /\ Fragments(e2.cant[z]) \subseteq ToSet(pending)
        BY <1>3, <2>2 DEF SansDu, EnRang
      <3>2. ASSUME NEW z \in Sources, z # s PROVE ~ Du(e2, z)
        BY <2>2, <3>2 DEF SansDu, Du
      <3> QED BY <3>1, <3>2 DEF EnCours
    <2>4. SansDu(Vider(e2, s))
      BY <1>3, <2>1, <2>3, ViderSansDu
    <2> QED BY <1>1, <1>3, <2>1, <2>4 DEF Ranger
  <1>4. CASE ~ mode.overtake /\ m.seq # e.expected[s]
    <2>1. PICK e2 \in Etats : e2 = Ranger(e, m)
      BY <1>1, RangerType
    <2>2. PICK l2 : l2 = Append_ordonne(e.cant[s], m, e.expected[s])
      OBVIOUS
    <2>3. e2.expected = e.expected /\ e2.cant[s] = l2 /\ \A z \in Sources : z # s => e2.cant[z] = e.cant[z]
      BY <1>1, <1>4, <2>1, <2>2 DEF Ranger, Etats
    <2>4. EnRang(e, s) /\ ~ Du(e, s) /\ Fragments(e.cant[s]) \subseteq ToSet(pending)
      BY DEF SansDu
    <2>5. /\ Fragments(l2) = Fragments(e.cant[s]) \cup {m} /\ Triees(l2)
          /\ ~ \E x \in Fragments(l2) : x.seq = e.expected[s]
      BY <1>4, <2>2, <2>4, AttenteEnRang
    <2>6. EnRang(e2, s) /\ ~ Du(e2, s) /\ Fragments(e2.cant[s]) \subseteq ToSet(pending)
      BY <1>4, <2>3, <2>4, <2>5 DEF EnRang, Du
    <2>7. ASSUME NEW z \in Sources, z # s
          PROVE  EnRang(e2, z) /\ ~ Du(e2, z) /\ Fragments(e2.cant[z]) \subseteq ToSet(pending)
      BY <2>3, <2>7 DEF SansDu, EnRang, Du
    <2> QED BY <2>1, <2>6, <2>7 DEF SansDu
  <1> QED BY <1>2, <1>3, <1>4

LEMMA RangesSansDu ==
    ASSUME mode \in Modes, NumerosDistincts, EnvoisInv, SansRoulement, pending \in Seq(Messages),
           IsInjective(pending), EnChemin \cap ToSet(pending) = {}, ToSet(pending) \subseteq Envoyees,
           NEW e \in Etats,
           e = [expected |-> expected, cant |-> cant_match, unexp |-> unexpected, traites |-> traites],
           NEW R, Rangee(e, EnChemin \cup ToSet(pending), R), SansDu(e)
    PROVE  SansDu(Ranges)
  <1>1. PICK n \in Nat : n = Len(pending)
    OBVIOUS
  <1>2. PICK v \in [0 .. n -> Etats] : /\ v[0] = e /\ Ranges = v[n]
                                       /\ \A i \in 1 .. n : v[i] = Ranger(v[i - 1], pending[i])
    BY <1>1, RangesSuite
  <1> DEFINE P == {i \in 0 .. n : Rangee(v[i], Restants(i), R) /\ SansDu(v[i])}
  <1>3. DOMAIN pending = 1 .. n /\ ToSet(pending) = {pending[j] : j \in 1 .. n}
    BY <1>1 DEF ToSet
  <1>4. 0 \in P
    <2>1. Restants(0) = EnChemin \cup ToSet(pending)
      BY RestantsPas
    <2>2. Rangee(v[0], EnChemin \cup ToSet(pending), R) /\ SansDu(v[0])
      <3>1. v[0] = e
        BY <1>2
      <3> QED BY Zenon, <3>1
    <2>3. Rangee(v[0], Restants(0), R)
      BY Zenon, <2>1, <2>2
    <2>4. 0 \in 0 .. n
      OBVIOUS
    <2> QED BY <2>2, <2>3, <2>4
  <1>5. ASSUME NEW i \in 1 .. n, i - 1 \in P PROVE i \in P
    <2>1. i - 1 \in 0 .. n /\ v[i - 1] \in Etats /\ Rangee(v[i - 1], Restants(i - 1), R) /\ SansDu(v[i - 1])
      BY <1>5
    <2>2. PICK s \in Sources : pending[i] \in De(s)
      <3>1. pending[i] \in ToSet(pending)
        BY <1>3
      <3> QED BY <3>1 DEF Envoyees, De
    <2>3. pending[i] \in Restants(i - 1) /\ Restants(i - 1) \ {pending[i]} = Restants(i)
      BY <1>1, RestantsPas
    <2>4. pending[i] \in ToSet(pending)
      BY <1>3
    <2>5. Rangee(Ranger(v[i - 1], pending[i]), Restants(i - 1) \ {pending[i]}, R) /\ SansDu(Ranger(v[i - 1], pending[i]))
      BY <2>1, <2>2, <2>3, <2>4, RangerRangee, RangerSansDu
    <2>6. v[i] = Ranger(v[i - 1], pending[i]) /\ i \in 0 .. n
      BY <1>2
    <2>7. Rangee(v[i], Restants(i), R) /\ SansDu(v[i])
      BY <2>3, <2>5, <2>6
    <2> QED BY <2>6, <2>7
  <1>6. n \in P
    <2> HIDE DEF P
    <2> QED BY <1>4, <1>5, Recurrence
  <1> QED BY <1>2, <1>6
-----------------------------------------------------------------------------
(* Some thread is about to look at what is out of turn, whenever one that   *)
(* came out of turn has become due.                                         *)
Regarde(c) == c.pc \in {"apres", "verifie"}
Suivi(s) == \E c \in suites : c.m.src = s /\ Regarde(c)

OubliInv ==
    /\ ~ comm_existe => cant_match = Vides /\ \A c \in suites : c.pc = "garder"
    /\ mode.overtake => \A m \in Envoyees : m.seq = 0
    /\ SansRoulement => \A s \in Sources : EnRang(LEtat, s) /\ (Du(LEtat, s) => Suivi(s))

LEMMA RienEnAttente ==
    ASSUME cant_match = Vides, NEW s \in Sources
    PROVE  EnRang(LEtat, s) /\ ~ Du(LEtat, s) /\ Fragments(LEtat.cant[s]) = {}
  <1>1. LEtat.cant[s] = <<>>
    BY DEF LEtat, Vides
  <1>2. Fragments(<<>>) = {} /\ Triees(<<>>)
    BY DEF Fragments, Triees
  <1> QED BY <1>1, <1>2 DEF EnRang, Du

LEMMA InitOubli == Init => OubliInv
  <1> SUFFICES ASSUME Init PROVE OubliInv
    OBVIOUS
  <1>1. cant_match = Vides /\ suites = {}
    BY DEF Init
  <1>2. ASSUME mode.overtake, NEW m \in Envoyees PROVE m.seq = 0
    <2>1. PICK s \in Sources : m \in ToSet(envois[s])
      BY DEF Envoyees
    <2>2. PICK tags : envois = [z \in Sources |-> [n \in DOMAIN tags[z] |-> Message(z, n, tags[z][n])]]
      BY DEF Init
    <2>3. envois[s] = [n \in DOMAIN tags[s] |-> Message(s, n, tags[s][n])]
      BY <2>2
    <2>4. PICK n \in DOMAIN tags[s] : m = Message(s, n, tags[s][n])
      BY <2>1, <2>3 DEF ToSet
    <2> QED BY <1>2, <2>4 DEF Message
  <1>3. \A s \in Sources : EnRang(LEtat, s) /\ ~ Du(LEtat, s)
    BY <1>1, RienEnAttente
  <1> QED BY <1>1, <1>2, <1>3 DEF OubliInv

(* What a step has to show,                                                 *)
LEMMA OubliPas ==
    ASSUME OubliInv, UNCHANGED <<mode, envois>>,
           comm_existe' \/ (cant_match' = Vides /\ \A c \in suites' : c.pc = "garder"),
           SansRoulement => \A s \in Sources : (EnRang(LEtat, s) /\ (Du(LEtat, s) => Suivi(s)))'
    PROVE  OubliInv'
  <1>1. SansRoulement' <=> SansRoulement
    BY DEF SansRoulement
  <1>2. (mode.overtake => \A m \in Envoyees : m.seq = 0)'
    BY DEF OubliInv, Envoyees
  <1>3. (\A s \in Sources : EnRang(LEtat, s) /\ (Du(LEtat, s) => Suivi(s)))' \/ ~ SansRoulement
    OBVIOUS
  <1> QED BY <1>1, <1>2, <1>3 DEF OubliInv

(* and why it does for a source whose fragments it leaves alone.            *)
LEMMA SourceIntacte ==
    ASSUME OubliInv, SansRoulement, mode' = mode, NEW s \in Sources,
           cant_match'[s] = cant_match[s], expected'[s] = expected[s],
           \A c \in suites : c.m.src = s /\ Regarde(c) => \E d \in suites' : d.m.src = s /\ Regarde(d)
    PROVE  (EnRang(LEtat, s) /\ (Du(LEtat, s) => Suivi(s)))'
  <1>1. EnRang(LEtat, s) /\ (Du(LEtat, s) => Suivi(s))
    BY DEF OubliInv
  <1>2. Du(LEtat, s)' <=> Du(LEtat, s)
    BY DEF Du, LEtat
  <1>3. EnRang(LEtat, s)'
    BY <1>1, <1>2 DEF EnRang, LEtat
  <1>4. Suivi(s) => Suivi(s)'
    BY DEF Suivi
  <1> QED BY <1>1, <1>2, <1>3, <1>4

(* A step that leaves the fragments alone, and the threads that look at     *)
(* them.                                                                    *)
LEMMA FragmentsIntacts ==
    ASSUME OubliInv, UNCHANGED <<mode, envois, comm_existe, cant_match, expected>>,
           \A c \in suites' : comm_existe \/ c \in suites \/ c.pc = "garder",
           \A c \in suites : Regarde(c) => c \in suites'
    PROVE  OubliInv'
  <1>1. comm_existe' \/ (cant_match' = Vides /\ \A c \in suites' : c.pc = "garder")
    BY DEF OubliInv
  <1>2. ASSUME SansRoulement, NEW s \in Sources
        PROVE  (EnRang(LEtat, s) /\ (Du(LEtat, s) => Suivi(s)))'
    BY <1>2, SourceIntacte
  <1> QED BY <1>1, <1>2, OubliPas

LEMMA ApresOubli ==
    ASSUME Inv, OubliInv, NEW c \in suites, Apres(c)
    PROVE  OubliInv'
  <1>1. /\ UNCHANGED <<mode, envois, comm_existe, cant_match, expected>>
        /\ suites' = (suites \ {c}) \cup {d \in {[c EXCEPT !.pc = "verifie", !.r = 0]} :
                                            cant_match[c.m.src] # <<>>}
    BY DEF Apres, varsComm, varsRecus
  <1>2. comm_existe
    BY DEF OubliInv, Apres
  <1>3. ASSUME SansRoulement, NEW s \in Sources
        PROVE  (EnRang(LEtat, s) /\ (Du(LEtat, s) => Suivi(s)))'
    <2>1. CASE s # c.m.src
      <3>1. \A d \in suites : d.m.src = s => d \in suites'
        BY <1>1, <2>1
      <3> QED BY <1>1, <1>3, <3>1, SourceIntacte
    <2>2. CASE s = c.m.src /\ cant_match[s] # <<>>
      <3>1. PICK d \in suites' : d.m.src = s /\ Regarde(d)
        <4>1. PICK d : d = [c EXCEPT !.pc = "verifie", !.r = 0]
          OBVIOUS
        <4>2. d \in suites' /\ d.m = c.m /\ d.pc = "verifie"
          BY <1>1, <2>2, <4>1 DEF Inv, TypesInv, Suites
        <4> QED BY <2>2, <4>2 DEF Regarde
      <3> QED BY <1>1, <1>3, <3>1, SourceIntacte
    <2>3. CASE cant_match[s] = <<>>
      <3>1. LEtat'.cant[s] = <<>>
        BY <1>1, <2>3 DEF LEtat
      <3>2. Fragments(<<>>) = {} /\ Triees(<<>>)
        BY DEF Fragments, Triees
      <3>3. ~ Du(LEtat, s)'
        BY <3>1, <3>2 DEF Du
      <3>4. EnRang(LEtat, s)'
        BY <3>1, <3>2, <3>3 DEF EnRang
      <3> QED BY <3>3, <3>4
    <2> QED BY <2>1, <2>2, <2>3
  <1> QED BY <1>1, <1>2, <1>3, OubliPas
-----------------------------------------------------------------------------
(* A message taken up while messages overtake leaves nothing due: their     *)
(* numbers are all zero.                                                    *)
LEMMA RienDuSansOrdre ==
    ASSUME Inv, EndroitsInv, OubliInv, mode.overtake, NEW s \in Sources, ~ Du(LEtat, s),
           NEW m \in Envoyees, SansNumero(m) \/ m.seq = expected[s],
           SansNumero(m) => expected'[s] = expected[s], UNCHANGED <<mode, cant_match>>
    PROVE  EnRang(LEtat, s)' /\ ~ Du(LEtat, s)'
  <1>1. Fragments(cant_match[s]) \subseteq Envoyees
    <2>1. RangeeEn(LEtat, s, Dehors, Recus) /\ LEtat.cant[s] = cant_match[s]
      BY DEF EndroitsInv, RangeeInv, Rangee, LEtat
    <2>2. Fragments(cant_match[s]) \subseteq ToSet(envois[s])
      BY <2>1 DEF RangeeEn, Partagees, De
    <2> QED BY <2>2 DEF Envoyees
  <1>2. ASSUME NEW x \in Fragments(cant_match[s]) PROVE x.seq = m.seq /\ x.seq # expected[s]
    <2>1. x.seq = 0 /\ m.seq = 0
      BY <1>1, <1>2 DEF OubliInv
    <2>2. x.seq # expected[s]
      BY <1>2 DEF Du, LEtat
    <2> QED BY <2>1, <2>2
  <1>3. ASSUME NEW x \in Fragments(cant_match[s]) PROVE x.seq # expected'[s]
    BY <1>2, <1>3
  <1>4. ~ Du(LEtat, s)'
    BY <1>3 DEF Du, LEtat
  <1> QED BY <1>4 DEF EnRang

(* The thread that has taken m up still has to look.                        *)
LEMMA SuiviApres ==
    ASSUME NEW m, NEW autres, Prendre_en_charge(m, autres)
    PROVE  autres \subseteq suites' /\ Suivi(m.src)'
  <1>1. PICK d : suites' = autres \cup {d} /\ d.m = m /\ d.pc = "apres"
    <2> DEFINE x(r) == [pc |-> "apres", m |-> m, r |-> r]
    <2>1. \A r : x(r).m = m /\ x(r).pc = "apres"
      OBVIOUS
    <2>2. PICK r : suites' = autres \cup {x(r)}
      BY DEF Prendre_en_charge
    <2> HIDE DEF x
    <2> QED BY <2>1, <2>2
  <1>2. d \in suites' /\ d.m.src = m.src /\ Regarde(d)
    BY <1>1 DEF Regarde
  <1> QED BY <1>1, <1>2 DEF Suivi

LEMMA RecoitOubli ==
    ASSUME Inv, EndroitsInv, OubliInv, NEW m \in reseau, Recoit(m)
    PROVE  OubliInv'
  <1>1. /\ mode' = mode /\ envois' = envois /\ comm_existe' = comm_existe
        /\ expected \in [Sources -> 0 .. Modulo - 1] /\ cant_match \in [Sources -> Listes]
    BY DEF Recoit, varsComm, Inv, TypesInv
  <1>2. PICK s \in Sources : s = m.src /\ m \in De(s) /\ m \in Envoyees /\ m \in Messages
    BY EnvoyeeDe DEF EndroitsInv, EnRoute, EnChemin
  <1>3. CASE ~ comm_existe
    <2>1. /\ cant_match' = cant_match /\ expected' = expected
          /\ suites' = suites \cup {[pc |-> "garder", m |-> m, r |-> 0]}
      BY <1>3 DEF Recoit, varsRecus
    <2> QED BY <1>1, <2>1, FragmentsIntacts
  <1>4. CASE comm_existe /\ HorsOrdre(m)
    <2>1. /\ cant_match' = [cant_match EXCEPT ![s] = Append_ordonne(@, m, expected[s])]
          /\ expected' = expected /\ suites' = suites
      BY <1>2, <1>4 DEF Recoit
    <2>2. m.seq # expected[s]
      BY <1>2, <1>4 DEF HorsOrdre
    <2>3. ASSUME SansRoulement, NEW z \in Sources
          PROVE  (EnRang(LEtat, z) /\ (Du(LEtat, z) => Suivi(z)))'
      <3>1. CASE z # s
        <4>1. cant_match'[z] = cant_match[z] /\ expected'[z] = expected[z]
          BY <1>1, <2>1, <3>1
        <4> QED BY <1>1, <2>1, <2>3, <4>1, SourceIntacte
      <3>2. CASE z = s
        <4>1. PICK e \in Etats : e = LEtat /\ e.cant = cant_match /\ e.expected = expected
          BY LEtatType DEF Inv, LEtat
        <4>2. PICK l2 : l2 = Append_ordonne(e.cant[s], m, e.expected[s])
          OBVIOUS
        <4>3. EnRang(e, s) /\ (Du(e, s) => Suivi(s))
          BY <2>3, <4>1 DEF OubliInv
        <4>4. /\ mode \in Modes /\ EnvoisInv /\ Rangee(e, Dehors, Recus)
              /\ m \in Dehors /\ m.seq # e.expected[s]
          BY <2>2, <4>1 DEF Inv, TypesInv, EndroitsInv, RangeeInv, Dehors, EnChemin
        <4>5. /\ ~ mode.overtake => Triees(l2)
              /\ (\E x \in Fragments(l2) : x.seq = e.expected[s]) => Du(e, s)
          BY <1>2, <2>3, <4>2, <4>3, <4>4, AttenteEnRang
        <4>6. LEtat'.cant[s] = l2 /\ LEtat'.expected[s] = e.expected[s]
          BY <1>1, <2>1, <4>1, <4>2 DEF LEtat
        <4>7. Du(LEtat, s)' => Du(e, s)
          BY <4>5, <4>6 DEF Du
        <4>8. Suivi(s)' <=> Suivi(s)
          BY <2>1 DEF Suivi
        <4>9. EnRang(LEtat, s)'
          <5>1. mode.overtake => ~ Du(LEtat, s)'
            BY <4>3, <4>7 DEF EnRang
          <5>2. ~ mode.overtake => Triees(LEtat'.cant[s])
            BY <4>5, <4>6
          <5> QED BY <1>1, <5>1, <5>2 DEF EnRang
        <4> QED BY <3>2, <4>3, <4>7, <4>8, <4>9
      <3> QED BY <3>1, <3>2
    <2> QED BY <1>1, <1>4, <2>3, OubliPas
  <1>5. CASE comm_existe /\ ~ HorsOrdre(m)
    <2>1. /\ IF SansNumero(m) THEN UNCHANGED expected ELSE Avancer(s)
          /\ Prendre_en_charge(m, suites) /\ cant_match' = cant_match
      BY <1>2, <1>5 DEF Recoit
    <2>2. suites \subseteq suites' /\ Suivi(s)'
      BY <1>2, <2>1, SuiviApres
    <2>3. ASSUME SansRoulement, NEW z \in Sources
          PROVE  (EnRang(LEtat, z) /\ (Du(LEtat, z) => Suivi(z)))'
      <3>1. EnRang(LEtat, z)
        BY <2>3 DEF OubliInv
      <3>2. CASE z # s
        <4>1. expected'[z] = expected[z]
          BY <1>1, <2>1, <3>2 DEF Avancer
        <4> QED BY <1>1, <2>1, <2>2, <2>3, <4>1, SourceIntacte
      <3>3. CASE z = s /\ ~ mode.overtake
        <4>1. EnRang(LEtat, s)'
          BY <1>1, <2>1, <3>1, <3>3 DEF EnRang, LEtat
        <4> QED BY <2>2, <3>3, <4>1
      <3>4. CASE z = s /\ mode.overtake
        <4>1. SansNumero(m) \/ m.seq = expected[s]
          BY <1>2, <1>5 DEF HorsOrdre
        <4>2. ~ Du(LEtat, s)
          BY <3>1, <3>4 DEF EnRang
        <4> QED BY <1>1, <1>2, <2>1, <3>4, <4>1, <4>2, RienDuSansOrdre
      <3> QED BY <3>2, <3>3, <3>4
    <2> QED BY <1>1, <1>5, <2>3, OubliPas
  <1> QED BY <1>3, <1>4, <1>5

(* check_cantmatch_for_match gives up only when nothing is due, and goes on *)
(* looking after each it takes up.                                          *)
LEMMA VerifieOubli ==
    ASSUME Inv, EndroitsInv, OubliInv, NEW c \in suites, Verifie(c)
    PROVE  OubliInv'
  <1>1. /\ mode' = mode /\ envois' = envois /\ comm_existe' = comm_existe /\ comm_existe
        /\ expected \in [Sources -> 0 .. Modulo - 1] /\ cant_match \in [Sources -> Listes]
    BY DEF Verifie, Inv, TypesInv, OubliInv, varsComm
  <1>2. PICK s \in Sources : s = c.m.src
    BY DEF Inv, TypesInv, Suites, Messages
  <1>3. PICK e \in Etats : e = LEtat /\ e.cant = cant_match /\ e.expected = expected
    BY LEtatType DEF Inv, LEtat
  <1>4. /\ mode \in Modes /\ EnvoisInv /\ Rangee(e, Dehors, Recus)
    BY <1>3 DEF Inv, TypesInv, EndroitsInv, RangeeInv
  <1>5. CASE /\ A_son_tour(cant_match[s], expected[s])
             /\ cant_match' = [cant_match EXCEPT ![s] = Sans_tete(@)]
             /\ Avancer(s)
             /\ Prendre_en_charge(cant_match[s][1][1], suites \ {c})
    <2>1. PICK liste \in Listes : liste = e.cant[s] /\ liste # <<>>
      BY <1>3, <1>5, EtatsType DEF A_son_tour
    <2>2. PICK m \in De(s) : m = liste[1][1] /\ m \in Fragments(liste) /\ m.src = s
      <3>1. liste[1][1] \in Fragments(liste)
        BY <2>1, Sans_teteFragments
      <3>2. Fragments(liste) \subseteq De(s)
        BY <1>4, <2>1 DEF Rangee, RangeeEn, Partagees
      <3> QED BY <1>4, <3>1, <3>2, EnvoyeProprietes
    <2>3. Du(LEtat, s)
      BY <1>3, <1>5, <2>1, <2>2 DEF Du, A_son_tour
    <2>4. Prendre_en_charge(m, suites \ {c})
      BY <1>3, <1>5, <2>1, <2>2
    <2>5. suites \ {c} \subseteq suites' /\ Suivi(s)'
      BY <2>2, <2>4, SuiviApres
    <2>6. ASSUME SansRoulement, NEW z \in Sources
          PROVE  (EnRang(LEtat, z) /\ (Du(LEtat, z) => Suivi(z)))'
      <3>1. CASE z # s
        <4>1. cant_match'[z] = cant_match[z] /\ expected'[z] = expected[z]
          BY <1>1, <1>5, <3>1 DEF Avancer
        <4>2. \A d \in suites : d.m.src = z => d \in suites'
          BY <1>2, <2>5, <3>1
        <4> QED BY <1>1, <2>6, <4>1, <4>2, SourceIntacte
      <3>2. CASE z = s
        <4>1. ~ mode.overtake /\ Triees(liste)
          BY <1>3, <2>1, <2>3, <2>6 DEF OubliInv, EnRang
        <4>2. cant_match'[s] = Sans_tete(liste) /\ Triees(Sans_tete(liste))
          BY <1>1, <1>3, <1>5, <2>1, <4>1, Sans_teteTriees
        <4>3. EnRang(LEtat, s)'
          BY <1>1, <4>1, <4>2 DEF EnRang, LEtat
        <4> QED BY <2>5, <3>2, <4>3
      <3> QED BY <3>1, <3>2
    <2> QED BY <1>1, <2>6, OubliPas
  <1>6. CASE /\ ~ A_son_tour(cant_match[s], expected[s])
             /\ suites' = suites \ {c} /\ UNCHANGED <<varsRecus, req>>
    <2>1. cant_match' = cant_match /\ expected' = expected
      BY <1>6 DEF varsRecus
    <2>2. ASSUME SansRoulement, NEW z \in Sources
          PROVE  (EnRang(LEtat, z) /\ (Du(LEtat, z) => Suivi(z)))'
      <3>1. CASE z # s
        <4>1. \A d \in suites : d.m.src = z => d \in suites'
          BY <1>2, <1>6, <3>1
        <4> QED BY <1>1, <2>1, <2>2, <4>1, SourceIntacte
      <3>2. CASE z = s
        <4>1. EnRang(e, s)
          BY <1>3, <2>2 DEF OubliInv
        <4>2. ~ Du(e, s)
          BY <1>3, <1>4, <1>6, <2>2, <4>1, DuTete
        <4>3. LEtat'.cant[s] = e.cant[s] /\ LEtat'.expected[s] = e.expected[s]
          BY <1>3, <2>1 DEF LEtat
        <4>4. ~ Du(LEtat, s)'
          BY <4>2, <4>3 DEF Du
        <4>5. EnRang(LEtat, s)'
          BY <1>1, <4>1, <4>3, <4>4 DEF EnRang
        <4> QED BY <3>2, <4>4, <4>5
      <3> QED BY <3>1, <3>2
    <2> QED BY <1>1, <2>2, OubliPas
  <1> QED BY <1>2, <1>5, <1>6 DEF Verifie

LEMMA AjouteCommOubli ==
    ASSUME Inv, EndroitsInv, OubliInv, NumerosDistincts, AjouteComm
    PROVE  OubliInv'
  <1>1. /\ mode' = mode /\ envois' = envois /\ comm_existe' = TRUE
        /\ cant_match = Vides
    BY DEF AjouteComm, OubliInv
  <1>2. PICK e \in Etats : /\ e = LEtat
                           /\ e = [expected |-> expected, cant |-> cant_match, unexp |-> unexpected,
                                   traites |-> traites]
    BY LEtatType DEF Inv, LEtat
  <1>3. ASSUME SansRoulement, NEW z \in Sources
        PROVE  (EnRang(LEtat, z) /\ (Du(LEtat, z) => Suivi(z)))'
    <2>1. SansDu(e)
      <3>1. ASSUME NEW s \in Sources
            PROVE  EnRang(e, s) /\ ~ Du(e, s) /\ Fragments(e.cant[s]) \subseteq ToSet(pending)
        BY <1>1, <1>2, RienEnAttente
      <3> QED BY <3>1 DEF SansDu
    <2>2. /\ mode \in Modes /\ EnvoisInv /\ Rangee(e, EnChemin \cup ToSet(pending), Recus)
          /\ pending \in Seq(Messages) /\ IsInjective(pending) /\ EnChemin \cap ToSet(pending) = {}
          /\ ToSet(pending) \subseteq Envoyees
      BY <1>2 DEF Inv, TypesInv, EndroitsInv, RangeeInv, EnRoute, Dehors
    <2>3. SansDu(Ranges)
      BY <1>2, <1>3, <2>1, <2>2, RangesSansDu
    <2>4. EnRang(Ranges, z) /\ ~ Du(Ranges, z)
      BY <2>3 DEF SansDu
    <2>5. LEtat'.cant[z] = Ranges.cant[z] /\ LEtat'.expected[z] = Ranges.expected[z]
      BY DEF AjouteComm, LEtat
    <2>6. ~ Du(LEtat, z)'
      BY <2>4, <2>5 DEF Du
    <2>7. EnRang(LEtat, z)'
      BY <1>1, <2>4, <2>5, <2>6 DEF EnRang
    <2> QED BY <2>6, <2>7
  <1> QED BY <1>1, <1>3, OubliPas

LEMMA StepOubli ==
    ASSUME Inv, EndroitsInv, OubliInv, NumerosDistincts, [Next]_vars
    PROVE  OubliInv'
  <1>1. CASE UNCHANGED vars
    <2>1. UNCHANGED <<mode, envois, comm_existe, cant_match, expected>> /\ suites' = suites
      BY <1>1 DEF vars, varsComm, varsRecus
    <2> QED BY <2>1, FragmentsIntacts
  <1>2. CASE Reception
    BY <1>2, RecoitOubli DEF Reception
  <1>3. ASSUME NEW c \in suites, Finir(c) PROVE OubliInv'
    <2>1. /\ UNCHANGED <<mode, envois, comm_existe, cant_match, expected>>
          /\ suites' = suites \ {c} /\ c.pc = "finir"
      BY <1>3 DEF Finir, varsComm, varsRecus
    <2>2. \A d \in suites : Regarde(d) => d \in suites'
      BY <2>1 DEF Regarde
    <2> QED BY <2>1, <2>2, FragmentsIntacts
  <1>8. ASSUME NEW c \in suites, Garder(c) PROVE OubliInv'
    <2>1. /\ UNCHANGED <<mode, envois, comm_existe, cant_match, expected>>
          /\ suites' = suites \ {c} /\ c.pc = "garder"
      BY <1>8 DEF Garder, varsRecus
    <2>2. \A d \in suites : Regarde(d) => d \in suites'
      BY <2>1 DEF Regarde
    <2> QED BY <2>1, <2>2, FragmentsIntacts
  <1>4. CASE Suite
    BY <1>3, <1>4, <1>8, ApresOubli, VerifieOubli DEF Suite
  <1>5. CASE AjouteComm
    BY <1>5, AjouteCommOubli
  <1>6. ASSUME NEW q \in Demandes, Poste(q) \/ Trouve(q) PROVE OubliInv'
    <2>1. /\ UNCHANGED <<mode, envois, comm_existe, cant_match, expected>>
          /\ comm_existe /\ suites \subseteq suites'
      BY <1>6 DEF Poste, Trouve, Demander, varsComm, varsRecus
    <2> QED BY <2>1, FragmentsIntacts
  <1>7. ASSUME NEW r \in DOMAIN req, MRecv(r) \/ Annule(r) PROVE OubliInv'
    <2>1. UNCHANGED <<mode, envois, comm_existe, cant_match, expected>> /\ suites' = suites
      BY <1>7 DEF MRecv, Annule, varsComm, varsRecus
    <2> QED BY <2>1, FragmentsIntacts
  <1> QED BY <1>1, <1>2, <1>4, <1>5, <1>6, <1>7 DEF Next

(* As long as the numbers of no source wrap, the message that is the next   *)
(* to be taken up is not forgotten among those that came out of turn:       *)
(* append_frag_to_ordered_list keeps them in order, so that                 *)
(* check_cantmatch_for_match and mca_pml_ob1_add_comm, which look at the    *)
(* head only, see it, and a thread that may have made it the next has still *)
(* to look.  MCOb1Roulement shows that over the wrap it does not hold.      *)
THEOREM AucunOubliTheorem ==
    ASSUME NumerosDistincts, EtiquettesDemandables
    PROVE  Spec => [](SansRoulement /\ ~ Rompu => AucunOubli)
  <1>1. Init => OubliInv
    BY InitOubli
  <1>2. Inv /\ EndroitsInv /\ OubliInv /\ [Next]_vars => OubliInv'
    BY StepOubli
  <1>3. OubliInv => (SansRoulement => AucunOubli)
    <2> SUFFICES ASSUME OubliInv, SansRoulement, NEW s \in Sources,
                        \E m \in EnAttente(s) : m.seq = expected[s]
                 PROVE  \E c \in suites : c.m.src = s /\ c.pc \in {"apres", "verifie"}
      BY DEF AucunOubli
    <2>1. Du(LEtat, s)
      BY DEF Du, LEtat, EnAttente
    <2>2. Suivi(s)
      BY <2>1 DEF OubliInv
    <2> QED BY <2>2 DEF Suivi, Regarde
  <1>4. Inv /\ MainsInv /\ [Next]_vars => (Rompu => Rompu')
    BY RompuReste
  <1> QED BY <1>1, <1>2, <1>3, <1>4, MainsTheorem, EndroitsTheorem, PTL DEF Spec

-----------------------------------------------------------------------------
(* What the abstract matching sees: the requests that wait for a message,   *)
(* those that have one, and what has not been taken up.                     *)
Attend(q) == q.etat = "poste" /\ q.genre \in {"recv", "mprobe"}
Attendue(r) == [id |-> r, peer |-> req[r].peer, tag |-> req[r].tag]
Attendent == {Attendue(r) : r \in {q \in DOMAIN req : Attend(req[q])}}
Servie(r) == [id |-> r, msg |-> req[r].msg]
Servies == {Servie(r) : r \in Recues}
AVenir == [s \in Sources |-> Restent(s)]

LEMMA VuesAbstraites ==
    /\ Attendent = {[id |-> r, peer |-> req[r].peer, tag |-> req[r].tag] : r \in {q \in Postes : Prennent(q)}}
    /\ Servies = {[id |-> r, msg |-> req[r].msg] : r \in {q \in DOMAIN req : A_recu(q)}}
  <1>1. {q \in Postes : Prennent(q)} = {q \in DOMAIN req : Attend(req[q])}
    BY DEF Postes, Prennent, Attend
  <1>2. {q \in DOMAIN req : A_recu(q)} = Recues
    BY DEF A_recu, Recues, EstRecue
  <1> QED BY <1>1, <1>2 DEF Attendent, Attendue, Servies, Servie

LEMMA VuesAbstraitesApres ==
    /\ Attendent' = {[id |-> r, peer |-> req[r].peer, tag |-> req[r].tag] : r \in {q \in Postes : Prennent(q)}}'
    /\ Servies' = {[id |-> r, msg |-> req[r].msg] : r \in {q \in DOMAIN req : A_recu(q)}}'
  <1>1. {q \in Postes : Prennent(q)}' = {q \in DOMAIN req' : Attend(req'[q])}
    BY DEF Postes, Prennent, Attend
  <1>2. {q \in DOMAIN req : A_recu(q)}' = Recues'
    BY DEF A_recu, Recues, EstRecue
  <1> QED BY <1>1, <1>2 DEF Attendent, Attendue, Servies, Servie

(* A step that it does not see,                                             *)
LEMMA PasMuet ==
    ASSUME UNCHANGED <<mode, unexpected>>, AVenir' = AVenir, Attendent' = Attendent, Servies' = Servies
    PROVE  UNCHANGED LAppariement!etat
  <1>1. [s \in Sources |-> Restent(s)]' = [s \in Sources |-> Restent(s)]
    BY DEF AVenir
  <1> QED BY <1>1, VuesAbstraites, VuesAbstraitesApres DEF LAppariement!etat

(* one that takes up the message m,                                         *)
LEMMA PasPrendre ==
    ASSUME UNCHANGED mode, NEW s \in Sources, NEW m \in Restent(s),
           mode.overtake \/ \A n \in Restent(s) : m.rang <= n.rang,
           AVenir' = [AVenir EXCEPT ![s] = @ \ {m}],
           \/ /\ \A q \in Attendent : ~ Accepte(q, m)
              /\ unexpected' = [unexpected EXCEPT ![s] = Append(@, m)]
              /\ Attendent' = Attendent /\ Servies' = Servies
           \/ \E q \in Attendent :
                /\ Accepte(q, m) /\ \A p \in Attendent : Accepte(p, m) => q.id <= p.id
                /\ Servies' = Servies \cup {[id |-> q.id, msg |-> m]}
                /\ Attendent' = Attendent \ {q}
                /\ unexpected' = unexpected
    PROVE  LAppariement!Pas
  <1>1. LAppariement!Preneurs(m) = {q \in Attendent : Accepte(q, m)}
    BY VuesAbstraites DEF LAppariement!Preneurs, LAppariement!Accepte, Accepte
  <1>2. AVenir = [z \in Sources |-> Restent(z)] /\ AVenir' = [z \in Sources |-> Restent(z)]' /\ AVenir[s] = Restent(s)
    BY DEF AVenir
  <1>3. LAppariement!Prendre(s)
    <2>1. CASE /\ \A q \in Attendent : ~ Accepte(q, m)
               /\ unexpected' = [unexpected EXCEPT ![s] = Append(@, m)]
               /\ Attendent' = Attendent /\ Servies' = Servies
      <3>1. LAppariement!Preneurs(m) = {}
        BY <1>1, <2>1
      <3> QED BY <1>2, <2>1, <3>1, VuesAbstraites, VuesAbstraitesApres DEF LAppariement!Prendre
    <2>2. ASSUME NEW q \in Attendent, Accepte(q, m), \A p \in Attendent : Accepte(p, m) => q.id <= p.id,
                 Servies' = Servies \cup {[id |-> q.id, msg |-> m]},
                 Attendent' = Attendent \ {q}, unexpected' = unexpected
          PROVE  LAppariement!Prendre(s)
      <3>1. q \in LAppariement!Preneurs(m) /\ \A p \in LAppariement!Preneurs(m) : q.id <= p.id
        BY <1>1, <2>2
      <3>2. LAppariement!Associer(q.id, m)
        BY <2>2, VuesAbstraites, VuesAbstraitesApres DEF LAppariement!Associer
      <3> QED BY <1>2, <2>2, <3>1, <3>2, VuesAbstraites, VuesAbstraitesApres
                 DEF LAppariement!Prendre
    <2> QED BY <2>1, <2>2
  <1> QED BY <1>3 DEF LAppariement!Pas
-----------------------------------------------------------------------------
(* Requests that go on waiting, or keep what they have, are seen as before. *)
LEMMA RequetesVues ==
    ASSUME \A r \in DOMAIN req : /\ r \in DOMAIN req'
                                 /\ Attend(req'[r]) <=> Attend(req[r])
                                 /\ Attend(req[r]) => Attendue(r)' = Attendue(r)
                                 /\ EstRecue(req'[r]) <=> EstRecue(req[r])
                                 /\ EstRecue(req[r]) => req'[r].msg = req[r].msg,
           \A r \in DOMAIN req' : r \in DOMAIN req \/ ~ (Attend(req'[r]) \/ EstRecue(req'[r]))
    PROVE  Attendent' = Attendent /\ Servies' = Servies
  <1>1. {r \in DOMAIN req : Attend(req[r])}' = {r \in DOMAIN req : Attend(req[r])}
    OBVIOUS
  <1>2. ASSUME NEW r \in DOMAIN req, Attend(req[r]) PROVE Attendue(r)' = Attendue(r)
    BY <1>2
  <1>3. Attendent' = Attendent
    BY <1>1, <1>2 DEF Attendent
  <1>4. Recues' = Recues
    BY DEF Recues
  <1>5. ASSUME NEW r \in Recues PROVE Servie(r)' = Servie(r)
    BY <1>5 DEF Servie, Recues
  <1>6. Servies' = Servies
    BY <1>4, <1>5 DEF Servies
  <1> QED BY <1>3, <1>6

(* A message that has got to its turn, whoever it came with: the abstract   *)
(* matching takes it up.                                                    *)
LEMMA Match_oneVu ==
    ASSUME Inv, EndroitsInv, NumerosDistincts, UNCHANGED <<mode, envois>>,
           NEW s \in Sources, NEW m \in De(s), m \in reseau \/ m \in Fragments(cant_match[s]),
           mode.overtake \/ m.seq = expected[s], Match_one(m)
    PROVE  LAppariement!Pas
  <1> DEFINE p == Preneur(m)
  <1>1. m \in Messages /\ m.src = s /\ m.rang \in Nat /\ mode \in Modes /\ EnvoisInv
        /\ traites \in [Sources -> Seq(Nat)] /\ unexpected \in [Sources -> Seq(Messages)]
    BY EnvoyeProprietes DEF EndroitsInv, Inv, TypesInv
  <1>2. m \in Restent(s)
    BY PasEncorePris DEF Restent, De
  <1>3. ASSUME ~ mode.overtake, NEW n \in Restent(s) PROVE m.rang <= n.rang
    <2>1. RangeeEn(LEtat, s, Dehors, Recus)
          /\ LEtat.traites[s] = traites[s] /\ LEtat.expected[s] = expected[s]
      BY DEF EndroitsInv, RangeeInv, Rangee, LEtat
    <2>a. PICK D, R, e : D = Dehors /\ R = Recus /\ e = LEtat
      OBVIOUS
    <2>b. RangeeEn(e, s, D, R) /\ e.traites[s] = traites[s] /\ e.expected[s] = expected[s]
      BY <2>1, <2>a
    <2>c. EnOrdre(traites[s], expected[s])
      BY <2>b DEF RangeeEn
    <2>d. traites[s] \in Seq(Nat) /\ Len(traites[s]) \in Nat
      BY <1>1
    <2>2. PICK t \in Seq(Nat), k \in Nat : t = traites[s] /\ k = Len(t) /\ EnOrdre(t, expected[s])
      BY <2>c, <2>d
    <2>3. m.rang = k + 1
      BY <1>1, <1>2, <1>3, <2>2, ProchainRang DEF Restent
    <2>4. n.rang \in Nat \ {0} /\ n.rang \notin ToSet(t)
      BY <1>1, <1>3, <2>2, EnvoyeProprietes DEF Restent, De
    <2>5. ASSUME n.rang <= k PROVE FALSE
      <3>1. n.rang \in 1 .. k /\ t[n.rang] = n.rang /\ n.rang \in DOMAIN t
        BY <1>3, <2>2, <2>4, <2>5 DEF EnOrdre
      <3> QED BY <2>4, <3>1 DEF ToSet
    <2> QED BY <2>2, <2>3, <2>4, <2>5
  <1>4. AVenir' = [AVenir EXCEPT ![s] = @ \ {m}]
    <2>1. traites'[s] = Append(traites[s], m.rang) /\ \A z \in Sources : z # s => traites'[z] = traites[z]
      BY <1>1 DEF Match_one
    <2>2. ToSet(traites'[s]) = ToSet(traites[s]) \cup {m.rang}
      <3>1. PICK t \in Seq(Nat), n \in Nat : t = traites[s] /\ n = m.rang
        BY <1>1
      <3>2. ToSet(Append(t, n)) = ToSet(t) \cup {n}
        BY AppendEnsemble
      <3> QED BY <2>1, <3>1, <3>2
    <2>3. ASSUME NEW x \in De(s), x.rang = m.rang PROVE x = m
      BY <1>1, <2>3, EnvoyeProprietes
    <2>4. Restent(s)' = Restent(s) \ {m}
      BY <2>2, <2>3 DEF Restent, De
    <2>5. \A z \in Sources : z # s => Restent(z)' = Restent(z)
      BY <2>1 DEF Restent
    <2> QED BY <2>4, <2>5 DEF AVenir
  <1>5. DOMAIN req' = DOMAIN req /\ DOMAIN req = 1 .. Len(req)
    BY ReqDomaine DEF Match_one, Inv, TypesInv
  <1>6. ASSUME NEW r \in DOMAIN req
        PROVE  /\ r = p => Attend(req[r]) /\ ~ Attend(req'[r]) /\ ~ EstRecue(req[r])
                           /\ EstRecue(req'[r]) /\ req'[r].msg = m
               /\ r # p => /\ Attend(req'[r]) <=> Attend(req[r])
                           /\ EstRecue(req'[r]) <=> EstRecue(req[r])
                           /\ EstRecue(req[r]) => req'[r].msg = req[r].msg
               /\ Attendue(r)' = Attendue(r)
    <2>1. Inchangee(req[r], req'[r])
      BY Match_oneReq
    <2>2. Attendue(r)' = Attendue(r)
      BY <2>1 DEF Attendue, Inchangee
    <2>3. CASE /\ r = Preneur(m) /\ req[r].etat = "poste" /\ req[r].genre \in {"recv", "mprobe"}
               /\ req'[r].msg = m /\ req'[r].etat \in {"pris", "fini"}
      BY <2>1, <2>2, <2>3 DEF Attend, EstRecue, Inchangee
    <2>4. CASE /\ r # Preneur(m) /\ req[r].etat = "poste" /\ req[r].genre = "probe"
               /\ req'[r].etat = "fini"
      BY <2>1, <2>2, <2>4 DEF Attend, EstRecue, Inchangee
    <2>5. CASE r # Preneur(m) /\ req'[r] = req[r]
      BY <2>2, <2>5
    <2> QED BY <2>3, <2>4, <2>5, Match_oneReq
  <1>7. \A r \in DOMAIN req : Attend(req[r]) /\ Accepte(Attendue(r), m) <=> r \in Preneurs(m)
    <2>1. ASSUME NEW r \in DOMAIN req PROVE Accepte(Attendue(r), m) <=> Accepte(req[r], m)
      BY DEF Accepte, Attendue
    <2>2. ASSUME NEW r \in DOMAIN req, req[r].etat = "poste"
          PROVE  req[r].genre \in {"recv", "mprobe"} <=> req[r].genre # "probe"
      <3>1. req[r].genre \notin {"iprobe", "improbe"} /\ req[r].genre \in Genres
        BY <2>2, ReqDomaine DEF Inv, TypesInv, RequetesInv, Requetes
      <3> QED BY <3>1 DEF Genres
    <2> QED BY <2>1, <2>2 DEF Attend, Preneurs, Candidats, Postes
  <1>8. CASE p = 0
    <2>1. Preneurs(m) = {} /\ 0 \notin DOMAIN req
      BY <1>5, <1>8, PreneurProprietes
    <2>2. \A q \in Attendent : ~ Accepte(q, m)
      BY <1>7, <2>1 DEF Attendent
    <2>3. unexpected' = [unexpected EXCEPT ![s] = Append(@, m)]
      BY <1>1, <1>8 DEF Match_one
    <2>4. Attendent' = Attendent /\ Servies' = Servies
      <3> HIDE DEF p
      <3> QED BY <1>5, <1>6, <1>8, <2>1, RequetesVues
    <2> HIDE DEF p
    <2> QED BY <1>2, <1>3, <1>4, <2>2, <2>3, <2>4, PasPrendre
  <1>9. CASE p # 0
    <2>1. p \in DOMAIN req /\ p \in Preneurs(m) /\ \A r \in Preneurs(m) : p <= r
      BY <1>9, PreneurProprietes
    <2>2. unexpected' = unexpected
      BY <1>9 DEF Match_one
    <2> HIDE DEF p
    <2>3. /\ Attendue(p) \in Attendent /\ Accepte(Attendue(p), m) /\ Attendue(p).id = p
          /\ \A q \in Attendent : Accepte(q, m) => p <= q.id
      <3>1. \A r : Attendue(r).id = r
        BY DEF Attendue
      <3> QED BY <1>6, <1>7, <2>1, <3>1 DEF Attendent
    <2>4. Attendent' = Attendent \ {Attendue(p)}
      <3>1. \A r : Attendue(r).id = r
        BY DEF Attendue
      <3>2. Attendent' = {Attendue(r)' : r \in {q \in DOMAIN req : Attend(req'[q])}}
        BY <1>5 DEF Attendent
      <3>3. {q \in DOMAIN req : Attend(req'[q])} = {q \in DOMAIN req : Attend(req[q])} \ {p}
        BY <1>6, <2>1
      <3>4. Attendent' = {Attendue(r) : r \in {q \in DOMAIN req : Attend(req[q])} \ {p}}
        BY <1>6, <3>2, <3>3
      <3> QED BY <3>1, <3>4 DEF Attendent
    <2>5. Servies' = Servies \cup {[id |-> p, msg |-> m]}
      <3>1. Recues' = Recues \cup {p} /\ p \notin Recues /\ Recues \subseteq DOMAIN req
        BY <1>5, <1>6, <2>1 DEF Recues
      <3>2. ASSUME NEW r \in Recues PROVE Servie(r)' = Servie(r)
        BY <1>6, <3>1 DEF Servie, Recues
      <3>3. ASSUME NEW r, r = p PROVE Servie(r)' = [id |-> p, msg |-> m]
        BY <1>6, <2>1, <3>3 DEF Servie
      <3>4. Servies' = {Servie(r)' : r \in Recues \cup {p}}
        BY <3>1 DEF Servies
      <3>5. Servies' = {Servie(r) : r \in Recues} \cup {[id |-> p, msg |-> m]}
        BY <3>2, <3>3, <3>4
      <3> QED BY <3>5 DEF Servies
    <2>6. PICK q \in Attendent :
            /\ Accepte(q, m) /\ \A x \in Attendent : Accepte(x, m) => q.id <= x.id
            /\ Servies' = Servies \cup {[id |-> q.id, msg |-> m]}
            /\ Attendent' = Attendent \ {q}
      BY <2>3, <2>4, <2>5
    <2> QED BY <1>2, <1>3, <1>4, <2>2, <2>6, PasPrendre
  <1> QED BY <1>8, <1>9
-----------------------------------------------------------------------------
(* Nothing is unexpected before the communicator.                           *)
AvantInv == ~ comm_existe => unexpected = Vides

LEMMA StepAvant ==
    ASSUME OubliInv, AvantInv, [Next]_vars
    PROVE  AvantInv'
  <1> USE DEF AvantInv
  <1>1. CASE UNCHANGED vars
    BY <1>1 DEF vars, varsComm, varsRecus
  <1>2. CASE Reception
    BY <1>2 DEF Reception, Recoit, varsComm, varsRecus
  <1>3. CASE Suite
    BY <1>3 DEF Suite, Garder, Apres, Verifie, Finir, varsComm, varsRecus, OubliInv
  <1>4. CASE AjouteComm
    BY <1>4 DEF AjouteComm
  <1>5. CASE \E q \in Demandes : Poste(q) \/ Trouve(q)
    BY <1>5 DEF Poste, Trouve, Demander, varsComm
  <1>6. CASE \E r \in DOMAIN req : MRecv(r) \/ Annule(r)
    BY <1>6 DEF MRecv, Annule, varsComm, varsRecus
  <1> QED BY <1>1, <1>2, <1>3, <1>4, <1>5, <1>6 DEF Next

(* At the beginning nothing has been taken up and there is no request.      *)
LEMMA InitVu == Init => LAppariement!Init
  <1> SUFFICES ASSUME Init PROVE LAppariement!Init
    OBVIOUS
  <1>1. EnvoisInv
    BY InitEndroits DEF EndroitsInv
  <1>2. mode.overtake \in BOOLEAN
    BY ModesAssumption DEF Init
  <1>3. ASSUME NEW s \in Sources
        PROVE  /\ Restent(s) \subseteq Messages
               /\ \A m, n \in Restent(s) : m.src = s /\ (m.rang = n.rang => m = n)
    BY <1>1, EnvoyeProprietes DEF Restent, De
  <1>4. Attendent = {} /\ Servies = {}
    BY DEF Init, Attendent, Servies, Recues
  <1>5. unexpected = [s \in Sources |-> <<>>]
    BY DEF Init, Vides
  <1>6. Rompu = FALSE
    BY DEF Init, Rompu
  <1> QED BY <1>2, <1>3, <1>4, <1>5, <1>6, VuesAbstraites DEF LAppariement!Init, Messages
-----------------------------------------------------------------------------
(* What arrives before the communicator or out of turn, what threads do out *)
(* of the lock and what happens to probes is not seen.                      *)
LEMMA RienDeVu ==
    ASSUME UNCHANGED <<mode, envois, unexpected, traites>>, Attendent' = Attendent, Servies' = Servies
    PROVE  UNCHANGED LAppariement!etat
  <1>1. AVenir' = AVenir
    BY DEF AVenir, Restent
  <1> QED BY <1>1, PasMuet

LEMMA DemandesPasVues ==
    ASSUME UNCHANGED <<mode, envois, unexpected, traites, req>>
    PROVE  UNCHANGED LAppariement!etat
  <1>1. Attendent' = Attendent /\ Servies' = Servies
    BY DEF Attendent, Attendue, Servies, Servie, Recues
  <1> QED BY <1>1, RienDeVu

LEMMA RecoitVu ==
    ASSUME Inv, EndroitsInv, NumerosDistincts, NEW m \in reseau, Recoit(m)
    PROVE  LAppariement!Pas \/ UNCHANGED LAppariement!etat
  <1>1. mode' = mode /\ envois' = envois /\ m \in Envoyees
    BY DEF Recoit, EndroitsInv, EnRoute, EnChemin
  <1>2. PICK s \in Sources : s = m.src /\ m \in De(s)
    BY <1>1, EnvoyeeDe DEF EndroitsInv
  <1>3. CASE UNCHANGED <<unexpected, traites, req>>
    BY <1>1, <1>3, DemandesPasVues
  <1>4. CASE ~ HorsOrdre(m) /\ Prendre_en_charge(m, suites)
    <2>1. Match_one(m) /\ (mode.overtake \/ m.seq = expected[s])
      BY <1>2, <1>4 DEF HorsOrdre, SansNumero, Prendre_en_charge
    <2> QED BY <1>1, <1>2, <2>1, Match_oneVu
  <1> QED BY <1>3, <1>4 DEF Recoit, varsRecus

LEMMA GarderVu ==
    ASSUME NEW c \in suites, Garder(c)
    PROVE  UNCHANGED LAppariement!etat
  BY DemandesPasVues DEF Garder, varsRecus

LEMMA VerifieVu ==
    ASSUME Inv, EndroitsInv, NumerosDistincts, NEW c \in suites, Verifie(c)
    PROVE  LAppariement!Pas \/ UNCHANGED LAppariement!etat
  <1>0. PICK s \in Sources : s = c.m.src
    BY DEF Inv, TypesInv, Suites, Messages
  <1>1. mode' = mode /\ envois' = envois
    BY DEF Verifie
  <1>2. CASE UNCHANGED <<varsRecus, req>>
    BY <1>1, <1>2, DemandesPasVues DEF varsRecus
  <1>3. CASE /\ A_son_tour(cant_match[s], expected[s])
             /\ Prendre_en_charge(cant_match[s][1][1], suites \ {c})
    <2>1. PICK l \in Listes : l = cant_match[s] /\ l # <<>>
      BY <1>3 DEF Inv, TypesInv, A_son_tour
    <2>2. l[1][1] \in Fragments(l)
      BY <2>1, Sans_teteFragments
    <2>3. Fragments(l) \subseteq De(s)
      <3>1. RangeeEn(LEtat, s, Dehors, Recus) /\ LEtat.cant[s] = cant_match[s]
        BY DEF EndroitsInv, RangeeInv, Rangee, LEtat
      <3> QED BY <2>1, <3>1 DEF RangeeEn, Partagees
    <2>4. PICK m \in De(s) : m = cant_match[s][1][1] /\ m \in Fragments(cant_match[s])
      BY <2>1, <2>2, <2>3
    <2>5. Match_one(m) /\ m.seq = expected[s]
      BY <1>3, <2>4 DEF Prendre_en_charge, A_son_tour
    <2> QED BY <1>1, <2>4, <2>5, Match_oneVu
  <1> QED BY <1>0, <1>2, <1>3 DEF Verifie

LEMMA ApresVu ==
    ASSUME Inv, NEW c \in suites, Apres(c)
    PROVE  UNCHANGED LAppariement!etat
  <1>1. /\ req' = [r \in DOMAIN req |-> IF r = c.r /\ req[r].etat = "pris"
                                        THEN [req[r] EXCEPT !.etat = "fini"] ELSE req[r]]
        /\ UNCHANGED <<mode, envois, unexpected, traites>>
    BY DEF Apres, varsRecus
  <1>2. req \in [1 .. Len(req) -> Requetes] /\ DOMAIN req = 1 .. Len(req) /\ DOMAIN req' = DOMAIN req
    BY <1>1, ReqDomaine DEF Inv, TypesInv
  <1>3. ASSUME NEW r \in DOMAIN req
        PROVE  /\ Attend(req'[r]) <=> Attend(req[r])
               /\ Attend(req[r]) => Attendue(r)' = Attendue(r)
               /\ EstRecue(req'[r]) <=> EstRecue(req[r])
               /\ EstRecue(req[r]) => req'[r].msg = req[r].msg
    <2>1. req[r] \in Requetes
      BY <1>2
    <2>2. CASE r = c.r /\ req[r].etat = "pris"
      <3>1. req'[r] = [req[r] EXCEPT !.etat = "fini"]
        BY <1>1, <2>2
      <3> QED BY <2>1, <2>2, <3>1 DEF Requetes, Attend, EstRecue
    <2>3. CASE ~ (r = c.r /\ req[r].etat = "pris")
      <3>1. req'[r] = req[r]
        BY <1>1, <2>3
      <3> QED BY <3>1 DEF Attendue
    <2> QED BY <2>2, <2>3
  <1>4. Attendent' = Attendent /\ Servies' = Servies
    BY <1>2, <1>3, RequetesVues
  <1> QED BY <1>1, <1>4, RienDeVu

(* One request that no longer waits or has not begun to,                    *)
LEMMA UneRequeteVue ==
    ASSUME Inv, NEW r0 \in DOMAIN req, NEW d, req' = [req EXCEPT ![r0] = d],
           ~ Attend(req[r0]), ~ Attend(d), EstRecue(d) <=> EstRecue(req[r0]),
           EstRecue(d) => d.msg = req[r0].msg,
           UNCHANGED <<mode, envois, varsRecus>>
    PROVE  UNCHANGED LAppariement!etat
  <1>1. /\ DOMAIN req' = DOMAIN req /\ req'[r0] = d
        /\ \A r \in DOMAIN req : r # r0 => req'[r] = req[r]
    BY ReqDomaine DEF Inv, TypesInv
  <1>2. ASSUME NEW r \in DOMAIN req, Attend(req[r]) PROVE Attendue(r)' = Attendue(r)
    BY <1>1, <1>2 DEF Attendue
  <1>3. Attendent' = Attendent /\ Servies' = Servies
    BY <1>1, <1>2, RequetesVues
  <1> QED BY <1>3, RienDeVu DEF varsRecus

LEMMA FinirVu ==
    ASSUME Inv, EndroitsInv, NEW c \in suites, Finir(c)
    PROVE  UNCHANGED LAppariement!etat
  <1> DEFINE d == [req[c.r] EXCEPT !.etat = "fini", !.msg = IF Consomme(c.m) THEN Aucun ELSE c.m]
  <1>1. c.pc = "finir" /\ req' = [req EXCEPT ![c.r] = d] /\ UNCHANGED <<mode, envois, varsRecus>>
    BY DEF Finir
  <1>2. PICK r \in DOMAIN req : r = c.r /\ req[r].etat = "pris" /\ req[r].msg = c.m
    BY <1>1 DEF EndroitsInv, FilsInv
  <1>3. req[r] \in Requetes
    BY ReqDomaine DEF Inv, TypesInv
  <1>4. /\ d.etat = "fini" /\ d.genre = req[r].genre
        /\ d.msg = IF Consomme(c.m) THEN Aucun ELSE c.m
    BY <1>2, <1>3 DEF Requetes
  <1> HIDE DEF d
  <1>5. EstRecue(d) <=> EstRecue(req[r])
    BY <1>2, <1>4 DEF EstRecue
  <1>6. ASSUME EstRecue(d) PROVE d.msg = req[r].msg
    <2>1. ~ Consomme(c.m)
      <3> SUFFICES ASSUME Consomme(c.m) PROVE FALSE
        OBVIOUS
      <3>1. PICK x \in DOMAIN req : req[x].genre = "recv" /\ req[x].etat = "fini" /\ req[x].msg = c.m
        BY DEF Consomme
      <3>2. x \in Recues /\ r \in Recues
        BY <1>5, <1>6, <3>1 DEF Recues, EstRecue
      <3>3. x = r
        BY <1>2, <3>1, <3>2 DEF EndroitsInv, DemandesInv
      <3> QED BY <1>2, <3>1, <3>3
    <2> QED BY <1>2, <1>4, <2>1
  <1>7. ~ Attend(req[r]) /\ ~ Attend(d) /\ req' = [req EXCEPT ![r] = d]
    BY <1>1, <1>2, <1>4 DEF Attend
  <1> QED BY <1>1, <1>5, <1>6, <1>7, UneRequeteVue

LEMMA MRecvVu ==
    ASSUME Inv, NEW r \in DOMAIN req, MRecv(r)
    PROVE  UNCHANGED LAppariement!etat
  <1> DEFINE d == [req[r] EXCEPT !.genre = "recv", !.peer = req[r].msg.src, !.tag = req[r].msg.tag]
  <1>1. /\ req[r].etat = "fini" /\ req[r].genre \in {"mprobe", "improbe"}
        /\ req' = [req EXCEPT ![r] = d] /\ UNCHANGED <<mode, envois, varsRecus>>
    BY DEF MRecv
  <1>2. req[r] \in Requetes
    BY ReqDomaine DEF Inv, TypesInv
  <1>3. d.etat = "fini" /\ d.genre = "recv" /\ d.msg = req[r].msg
    BY <1>1, <1>2 DEF Requetes
  <1> HIDE DEF d
  <1>4. ~ Attend(req[r]) /\ ~ Attend(d) /\ EstRecue(d) /\ EstRecue(req[r])
    BY <1>1, <1>3 DEF Attend, EstRecue
  <1> QED BY <1>1, <1>3, <1>4, UneRequeteVue

(* A request that is cancelled without a message waits.                     *)
LEMMA AnnuleVu ==
    ASSUME Inv, EndroitsInv, ~ Rompu', NEW r \in DOMAIN req, Annule(r)
    PROVE  LAppariement!Pas
  <1> DEFINE d == [req[r] EXCEPT !.etat = "annule"]
  <1>1. req' = [req EXCEPT ![r] = d] /\ UNCHANGED <<mode, envois, varsRecus>> /\ req[r].genre = "recv"
    BY DEF Annule
  <1>2. req[r] \in Requetes /\ req[r].etat = "poste"
    BY AnnuleEnAttente, ReqDomaine DEF Inv, TypesInv
  <1>3. d.etat = "annule"
    BY <1>2 DEF Requetes
  <1> HIDE DEF d
  <1>4. /\ DOMAIN req' = DOMAIN req /\ req'[r] = d
        /\ \A x \in DOMAIN req : x # r => req'[x] = req[x]
    BY <1>1, ReqDomaine DEF Inv, TypesInv
  <1>5. Attendent' = Attendent \ {Attendue(r)}
    <2>1. \A x : Attendue(x).id = x
      BY DEF Attendue
    <2>2. {x \in DOMAIN req' : Attend(req'[x])} = {x \in DOMAIN req : Attend(req[x])} \ {r}
      BY <1>3, <1>4 DEF Attend
    <2>3. Attendent' = {Attendue(x)' : x \in {y \in DOMAIN req : Attend(req[y])} \ {r}}
      BY <2>2 DEF Attendent
    <2>4. ASSUME NEW x \in DOMAIN req, x # r PROVE Attendue(x)' = Attendue(x)
      BY <1>4, <2>4 DEF Attendue
    <2>5. Attendent' = {Attendue(x) : x \in {y \in DOMAIN req : Attend(req[y])} \ {r}}
      BY <2>3, <2>4
    <2> QED BY <2>1, <2>5 DEF Attendent
  <1>6. Servies' = Servies
    <2>1. Recues' = Recues
      BY <1>1, <1>2, <1>3, <1>4 DEF Recues, EstRecue
    <2>2. ASSUME NEW x \in Recues PROVE Servie(x)' = Servie(x)
      BY <1>2, <1>4, <2>2 DEF Servie, Recues, EstRecue
    <2> QED BY <2>1, <2>2 DEF Servies
  <1>7. AVenir' = AVenir /\ Attendue(r) \in Attendent
    BY <1>1, <1>2 DEF AVenir, Restent, varsRecus, Attendent, Attend
  <1>8. [s \in Sources |-> Restent(s)]' = [s \in Sources |-> Restent(s)]
    BY <1>7 DEF AVenir
  <1>9. PICK p : p = Attendue(r)
    OBVIOUS
  <1>10. p \in Attendent /\ LAppariement!Annuler(p)
    <2>1. p \in Attendent /\ Attendent' = Attendent \ {p}
      BY <1>5, <1>7, <1>9
    <2> QED BY <1>1, <1>6, <1>8, <2>1, VuesAbstraites, VuesAbstraitesApres
            DEF LAppariement!Annuler, varsRecus
  <1>11. p \in {[id |-> x, peer |-> req[x].peer, tag |-> req[x].tag] : x \in {y \in Postes : Prennent(y)}}
    BY <1>10, VuesAbstraites
  <1> QED BY <1>10, <1>11 DEF LAppariement!Pas
-----------------------------------------------------------------------------
(* There is a bound on the requests of a process, so that they have their   *)
(* numbers.                                                                 *)
DemandesBornees == \E n \in Nat : \A mo \in Modes : mo.demandes <= n

LEMMA NumeroDeRequete ==
    ASSUME DemandesBornees, mode \in Modes, NEW i \in Nat \ {0}, i <= mode.demandes
    PROVE  i \in 1 .. Max({mo.demandes : mo \in Modes})
  <1>1. PICK n \in Nat : \A mo \in Modes : mo.demandes <= n
    BY DEF DemandesBornees
  <1> DEFINE S == {mo.demandes : mo \in Modes}
  <1>2. \A mo \in Modes : mo.demandes \in Nat
    BY ModesAssumption
  <1>3. S \subseteq 0 .. n /\ S # {} /\ mode.demandes \in S
    BY <1>1, <1>2
  <1> HIDE DEF S
  <1>4. Max(S) \in S /\ mode.demandes <= Max(S)
    BY <1>3, MaxProprietes
  <1>5. Max(S) \in Nat
    <2>1. Max(S) \in 0 .. n
      BY <1>3, <1>4
    <2> QED BY <2>1
  <1>6. i \in 1 .. Max(S)
    <2>1. mode.demandes \in Nat
      BY <1>2
    <2> QED BY <1>4, <1>5, <2>1
  <1> QED BY <1>6 DEF S

(* A new request waits, or takes the oldest that suits of some source.      *)
LEMMA PasPoster ==
    ASSUME DemandesBornees, mode \in Modes, UNCHANGED mode, AVenir' = AVenir, NEW q \in Demandes,
           NEW i \in Nat \ {0}, i <= mode.demandes, \A p \in Attendent \cup Servies : p.id < i,
           \/ /\ \A s \in Sources : Convient(q, s) = {}
              /\ Attendent' = Attendent \cup {[id |-> i, peer |-> q.peer, tag |-> q.tag]}
              /\ unexpected' = unexpected /\ Servies' = Servies
           \/ \E s \in Sources : \E k \in Convient(q, s) :
                /\ \A j \in Convient(q, s) : k <= j
                /\ Servies' = Servies \cup {[id |-> i, msg |-> unexpected[s][k]]}
                /\ unexpected' = [unexpected EXCEPT ![s] = RemoveAt(@, k)]
                /\ Attendent' = Attendent
    PROVE  LAppariement!Pas
  <1> DEFINE d == [id |-> i, peer |-> q.peer, tag |-> q.tag]
  <1>1. d \in [id : 1 .. Max({mo.demandes : mo \in Modes}), peer : Sources \cup {AnySource}, tag : TagsDemandes]
    BY NumeroDeRequete DEF Demandes
  <1>2. d.id = i /\ d.peer = q.peer /\ d.tag = q.tag
    OBVIOUS
  <1>3. \A s \in Sources : LAppariement!Convient(d, s) = Convient(q, s)
    BY <1>2 DEF LAppariement!Convient, LAppariement!Accepte, Convient, Accepte
  <1>4. d = [id |-> i, peer |-> q.peer, tag |-> q.tag]
    OBVIOUS
  <1> HIDE DEF d
  <1>5. AVenir = [s \in Sources |-> Restent(s)] /\ AVenir' = [s \in Sources |-> Restent(s)]'
    BY DEF AVenir
  <1>6. CASE /\ \A s \in Sources : Convient(q, s) = {}
             /\ Attendent' = Attendent \cup {d}
             /\ unexpected' = unexpected /\ Servies' = Servies
    <2>1. LAppariement!Poster(d)
      BY <1>2, <1>3, <1>5, <1>6, VuesAbstraites, VuesAbstraitesApres DEF LAppariement!Poster
    <2> QED BY <1>1, <2>1 DEF LAppariement!Pas
  <1>7. ASSUME NEW s \in Sources, NEW k \in Convient(q, s), \A j \in Convient(q, s) : k <= j,
               Servies' = Servies \cup {[id |-> i, msg |-> unexpected[s][k]]},
               unexpected' = [unexpected EXCEPT ![s] = RemoveAt(@, k)], Attendent' = Attendent
        PROVE  LAppariement!Pas
    <2>1. LAppariement!Associer(d.id, unexpected[s][k])
      BY <1>2, <1>7, VuesAbstraites, VuesAbstraitesApres DEF LAppariement!Associer
    <2>2. unexpected' = [unexpected EXCEPT ![s] = LAppariement!RemoveAt(@, k)]
      BY <1>7 DEF LAppariement!RemoveAt, RemoveAt
    <2>3. \A p \in Attendent \cup Servies : p.id < d.id
      BY <1>2
    <2>4. k \in LAppariement!Convient(d, s) /\ \A j \in LAppariement!Convient(d, s) : k <= j
      BY <1>3, <1>7
    <2>5. LAppariement!Poster(d)
      BY <1>5, <1>7, <2>1, <2>2, <2>3, <2>4, VuesAbstraites, VuesAbstraitesApres
         DEF LAppariement!Poster
    <2> QED BY <1>1, <2>5 DEF LAppariement!Pas
  <1> QED BY <1>4, <1>6, <1>7

(* The requests once d is added to them.                                    *)
LEMMA RequeteAjoutee ==
    ASSUME Inv, NEW d, d \in Requetes, req' = Append(req, d),
           NEW n \in Nat, n = Len(req)
    PROVE  /\ Attendent' = Attendent \cup {x \in {[id |-> n + 1, peer |-> d.peer, tag |-> d.tag]} : Attend(d)}
           /\ Servies' = Servies \cup {x \in {[id |-> n + 1, msg |-> d.msg]} : EstRecue(d)}
           /\ \A p \in Attendent \cup Servies : p.id < n + 1
  <1>1. /\ DOMAIN req = 1 .. n /\ DOMAIN req' = 1 .. n + 1 /\ req'[n + 1] = d
        /\ \A r \in 1 .. n : req'[r] = req[r]
    BY ReqDomaine DEF Inv, TypesInv
  <1>2. \A r \in 1 .. n + 1 : r \in 1 .. n \/ r = n + 1
    OBVIOUS
  <1>3. n + 1 \notin 1 .. n /\ n + 1 \in 1 .. n + 1 /\ \A r \in 1 .. n : r \in 1 .. n + 1 /\ r < n + 1
    OBVIOUS
  <1>4. Attendent' = Attendent \cup {x \in {[id |-> n + 1, peer |-> d.peer, tag |-> d.tag]} : Attend(d)}
    <2>1. Attendent' = {Attendue(r)' : r \in {x \in 1 .. n + 1 : Attend(req'[x])}}
      BY <1>1 DEF Attendent
    <2>2. Attendent = {Attendue(r) : r \in {x \in 1 .. n : Attend(req[x])}}
      BY <1>1 DEF Attendent
    <2>3. ASSUME NEW r \in 1 .. n PROVE Attendue(r)' = Attendue(r) /\ (Attend(req'[r]) <=> Attend(req[r]))
      BY <1>1 DEF Attendue
    <2>4. ASSUME NEW r, r = n + 1
          PROVE  Attendue(r)' = [id |-> n + 1, peer |-> d.peer, tag |-> d.tag] /\ (Attend(req'[r]) <=> Attend(d))
      BY <1>1, <2>4 DEF Attendue
    <2> QED BY <1>2, <1>3, <2>1, <2>2, <2>3, <2>4
  <1>5. Servies' = Servies \cup {x \in {[id |-> n + 1, msg |-> d.msg]} : EstRecue(d)}
    <2>1. Servies' = {Servie(r)' : r \in {x \in 1 .. n + 1 : EstRecue(req'[x])}}
      BY <1>1 DEF Servies, Recues
    <2>2. Servies = {Servie(r) : r \in {x \in 1 .. n : EstRecue(req[x])}}
      BY <1>1 DEF Servies, Recues
    <2>3. ASSUME NEW r \in 1 .. n PROVE Servie(r)' = Servie(r) /\ (EstRecue(req'[r]) <=> EstRecue(req[r]))
      BY <1>1 DEF Servie
    <2>4. ASSUME NEW r, r = n + 1
          PROVE  Servie(r)' = [id |-> n + 1, msg |-> d.msg] /\ (EstRecue(req'[r]) <=> EstRecue(d))
      BY <1>1, <2>4 DEF Servie
    <2> QED BY <1>2, <1>3, <2>1, <2>2, <2>3, <2>4
  <1>6. \A p \in Attendent \cup Servies : p.id < n + 1
    BY <1>1, <1>3 DEF Attendent, Attendue, Servies, Servie, Recues
  <1> QED BY <1>4, <1>5, <1>6

LEMMA PosteVu ==
    ASSUME Inv, DemandesBornees, NEW q \in Demandes, Poste(q)
    PROVE  LAppariement!Pas \/ UNCHANGED LAppariement!etat
  <1> DEFINE d == [q EXCEPT !.etat = IF q.genre \in {"iprobe", "improbe"} THEN "rien" ELSE "poste"]
  <1>1. /\ req' = Append(req, d) /\ UNCHANGED <<mode, envois, varsRecus>>
        /\ Len(req) < mode.demandes /\ \A s \in Sources : Convient(q, s) = {}
    BY DEF Poste, Demander
  <1>2. /\ d \in Requetes /\ d.peer = q.peer /\ d.tag = q.tag /\ d.genre = q.genre
        /\ d.etat = IF q.genre \in {"iprobe", "improbe"} THEN "rien" ELSE "poste"
    BY DEF Demandes, Requetes, Etiquettes
  <1> HIDE DEF d
  <1>3. PICK n \in Nat : n = Len(req)
    BY ReqDomaine DEF Inv, TypesInv
  <1>4. mode \in Modes /\ mode.demandes \in Nat
    BY ModesAssumption DEF Inv, TypesInv
  <1>5. AVenir' = AVenir /\ ~ EstRecue(d) /\ n + 1 \in Nat \ {0} /\ n + 1 <= mode.demandes
    BY <1>1, <1>2, <1>3, <1>4 DEF AVenir, Restent, EstRecue, varsRecus
  <1>6. Servies' = Servies /\ \A p \in Attendent \cup Servies : p.id < n + 1
    BY <1>1, <1>2, <1>3, <1>5, RequeteAjoutee
  <1>7. CASE Attend(d)
    <2>1. Attendent' = Attendent \cup {[id |-> n + 1, peer |-> q.peer, tag |-> q.tag]}
      BY <1>1, <1>2, <1>3, <1>7, RequeteAjoutee
    <2> QED BY <1>1, <1>4, <1>5, <1>6, <2>1, PasPoster DEF varsRecus
  <1>8. CASE ~ Attend(d)
    <2>1. Attendent' = Attendent
      BY <1>1, <1>2, <1>3, <1>8, RequeteAjoutee
    <2> QED BY <1>1, <1>6, <2>1, RienDeVu DEF varsRecus
  <1> QED BY <1>7, <1>8

LEMMA TrouveVu ==
    ASSUME Inv, DemandesBornees, NEW q \in Demandes, Trouve(q)
    PROVE  LAppariement!Pas \/ UNCHANGED LAppariement!etat
  <1>1. PICK s \in Sources, k \in Nat :
          /\ s = Premiere(q) /\ k = Min(Convient(q, s))
          /\ k \in Convient(q, s) /\ \A x \in Convient(q, s) : k <= x
    <2>1. PICK s \in Sources : s = Premiere(q) /\ Convient(q, s) # {}
      BY PremiereSource DEF Trouve, Inv
    <2>2. Convient(q, s) \subseteq Nat
      BY DEF Convient
    <2>3. Min(Convient(q, s)) \in Convient(q, s) /\ \A x \in Convient(q, s) : Min(Convient(q, s)) <= x
      BY <2>1, <2>2, MinProprietes
    <2> QED BY <2>1, <2>2, <2>3
  <1>2. PICK m \in Messages : m = unexpected[s][k]
    <2>1. k \in 1 .. Len(unexpected[s]) /\ unexpected[s] \in Seq(Messages)
      BY <1>1 DEF Convient, Inv, TypesInv
    <2> QED BY <2>1
  <1>3. PICK n \in Nat : n = Len(req)
    BY ReqDomaine DEF Inv, TypesInv
  <1> DEFINE d == [q EXCEPT !.etat = "pris", !.msg = m]
  <1>4. /\ req' = Append(req, d) /\ UNCHANGED <<mode, envois, traites>> /\ Len(req) < mode.demandes
        /\ unexpected' = IF q.genre \in {"probe", "iprobe"} THEN unexpected
                         ELSE [unexpected EXCEPT ![s] = RemoveAt(@, k)]
    BY <1>1, <1>2 DEF Trouve, Demander
  <1>5. d \in Requetes /\ d.etat = "pris" /\ d.msg = m /\ d.genre = q.genre
    BY DEF Demandes, Requetes, Etiquettes
  <1> HIDE DEF d
  <1>6. mode \in Modes /\ mode.demandes \in Nat
    BY ModesAssumption DEF Inv, TypesInv
  <1>7. AVenir' = AVenir /\ ~ Attend(d) /\ n + 1 \in Nat \ {0} /\ n + 1 <= mode.demandes
    BY <1>3, <1>4, <1>5, <1>6 DEF AVenir, Restent, Attend
  <1>8. Attendent' = Attendent /\ \A p \in Attendent \cup Servies : p.id < n + 1
    <2>1. /\ Attendent' = Attendent \cup {x \in {[id |-> n + 1, peer |-> d.peer, tag |-> d.tag]} : Attend(d)}
          /\ \A p \in Attendent \cup Servies : p.id < n + 1
      BY <1>3, <1>4, <1>5, RequeteAjoutee
    <2> QED BY <1>7, <2>1
  <1>9. CASE q.genre \in {"probe", "iprobe"}
    <2>1. Servies' = Servies
      <3>1. ~ EstRecue(d)
        BY <1>5, <1>9 DEF EstRecue
      <3> QED BY <1>3, <1>4, <1>5, <3>1, RequeteAjoutee
    <2> QED BY <1>4, <1>8, <1>9, <2>1, RienDeVu
  <1>10. CASE q.genre \notin {"probe", "iprobe"}
    <2>1. Servies' = Servies \cup {[id |-> n + 1, msg |-> unexpected[s][k]]}
      <3>1. EstRecue(d)
        BY <1>5, <1>10 DEF EstRecue
      <3> QED BY <1>2, <1>3, <1>4, <1>5, <3>1, RequeteAjoutee
    <2>2. unexpected' = [unexpected EXCEPT ![s] = RemoveAt(@, k)]
      BY <1>4, <1>10
    <2>3. \E z \in Sources : \E j \in Convient(q, z) :
            /\ \A x \in Convient(q, z) : j <= x
            /\ Servies' = Servies \cup {[id |-> n + 1, msg |-> unexpected[z][j]]}
            /\ unexpected' = [unexpected EXCEPT ![z] = RemoveAt(@, j)]
            /\ Attendent' = Attendent
      BY <1>1, <1>8, <2>1, <2>2
    <2> QED BY <1>4, <1>6, <1>7, <1>8, <2>3, PasPoster
  <1> QED BY <1>9, <1>10
-----------------------------------------------------------------------------
(* The communicator takes up, of each source, messages that come one after  *)
(* the other.                                                               *)
LEMMA AjouteCommVu ==
    ASSUME Inv, Inv', EndroitsInv, EndroitsInv', AvantInv, AjouteComm
    PROVE  LAppariement!Pas
  <1>1. /\ UNCHANGED <<mode, envois, req>> /\ req = <<>> /\ unexpected = Vides
    BY DEF AjouteComm, AvantInv, Inv, RequetesInv
  <1>2. Attendent = {} /\ Servies = {} /\ Attendent' = {} /\ Servies' = {} /\ Recus = {} /\ Recus' = {}
    BY <1>1 DEF Attendent, Servies, Recus, Recues
  <1>3. ASSUME NEW s \in Sources
        PROVE  /\ Restent(s) = De(s)
               /\ ToSet(unexpected'[s]) \subseteq De(s)
               /\ Restent(s)' = De(s) \ ToSet(unexpected'[s])
               /\ IsInjective(unexpected'[s])
               /\ \/ mode.overtake
                  \/ /\ \A j, k \in 1 .. Len(unexpected'[s]) :
                          j < k => unexpected'[s][j].rang < unexpected'[s][k].rang
                     /\ \A m \in ToSet(unexpected'[s]), n \in Restent(s)' : m.rang < n.rang
    <2>1. PICK F, D, R : /\ Partagees(s, F, ToSet(unexpected[s]), ToSet(traites[s]), D, R)
                         /\ R = Recus
      BY DEF EndroitsInv, RangeeInv, Rangee, RangeeEn, LEtat
    <2>2. ToSet(unexpected[s]) = {}
      BY <1>1 DEF Vides, ToSet
    <2>3. Restent(s) = De(s)
      BY <1>2, <2>1, <2>2 DEF Partagees, Restent, De
    <2>4. RangeeEn(LEtat, s, Dehors, Recus)'
      BY DEF EndroitsInv, RangeeInv, Rangee
    <2>5. PICK u, t, x : u = unexpected'[s] /\ t = traites'[s] /\ x = expected'[s]
      OBVIOUS
    <2>6. PICK F2, D2, R2 : /\ Partagees(s, F2, ToSet(u), ToSet(t), D2, R2)'
                            /\ R2 = Recus'
      BY <2>4, <2>5 DEF RangeeEn, LEtat, Partagees, De
    <2>7. De(s)' = De(s)
      BY <1>1 DEF De
    <2>8. ToSet(u) \subseteq De(s) /\ \A m \in De(s) : m.rang \in ToSet(t) <=> m \in ToSet(u)
      BY <1>2, <2>6, <2>7 DEF Partagees
    <2>9. Restent(s)' = De(s) \ ToSet(u)
      BY <2>5, <2>7, <2>8 DEF Restent, De
    <2>10. IsInjective(u) /\ (mode.overtake \/ \A j, k \in 1 .. Len(u) : j < k => u[j].rang < u[k].rang)
      BY <1>1, <2>4, <2>5 DEF RangeeEn, LEtat, Croissante
    <2>11. ASSUME ~ mode.overtake, NEW m \in ToSet(u), NEW n \in De(s) \ ToSet(u) PROVE m.rang < n.rang
      <3>1. \A k \in 1 .. Len(t) : t[k] = k
        BY <1>1, <2>4, <2>5, <2>11 DEF RangeeEn, LEtat, EnOrdre
      <3>2. t \in Seq(Nat)
        BY <2>5 DEF Inv, TypesInv
      <3>3. ToSet(t) = 1 .. Len(t) /\ Len(t) \in Nat
        BY <3>1, <3>2 DEF ToSet
      <3>4. m.rang \in 1 .. Len(t) /\ n.rang \notin 1 .. Len(t)
        BY <2>8, <2>11, <3>3
      <3>5. n.rang \in Nat \ {0}
        BY <2>11, EnvoyeProprietes DEF EndroitsInv
      <3> QED BY <3>3, <3>4, <3>5
    <2> QED BY <2>3, <2>5, <2>8, <2>9, <2>10, <2>11
  <1>4. unexpected' \in [Sources -> Seq(Messages)]
    BY DEF Inv, TypesInv
  <1>5. [s \in Sources |-> Restent(s)]' = [s \in Sources |-> Restent(s) \ ToSet(unexpected'[s])]
    BY <1>3
  <1>6. ASSUME NEW s \in Sources, NEW j \in 1 .. Len(unexpected'[s]), NEW k \in 1 .. Len(unexpected'[s]), j < k
        PROVE  IF mode.overtake THEN unexpected'[s][j] # unexpected'[s][k]
               ELSE unexpected'[s][j].rang < unexpected'[s][k].rang
    <2>1. PICK u \in Seq(Messages) : u = unexpected'[s]
      BY <1>4
    <2>2. IsInjective(u) /\ j \in DOMAIN u /\ k \in DOMAIN u /\ j # k
      BY <1>3, <1>6, <2>1
    <2>3. u[j] # u[k]
      BY <2>2 DEF IsInjective
    <2> QED BY <1>3, <1>6, <2>1, <2>3
  <1>7. LAppariement!PrendreEnBloc
    <2>1. \A s \in Sources : LAppariement!ToSet(unexpected'[s]) = ToSet(unexpected'[s])
      BY DEF LAppariement!ToSet, ToSet
    <2>2. unexpected = [s \in Sources |-> <<>>] /\ mode' = mode
      BY <1>1 DEF Vides
    <2>3. \A s \in Sources :
            /\ ToSet(unexpected'[s]) \subseteq Restent(s)
            /\ mode.overtake \/ \A m \in ToSet(unexpected'[s]), n \in Restent(s)' : m.rang < n.rang
      BY <1>3
    <2> QED BY <1>2, <1>4, <1>5, <1>6, <2>1, <2>2, <2>3, VuesAbstraites, VuesAbstraitesApres
            DEF LAppariement!PrendreEnBloc, Messages
  <1> QED BY <1>7 DEF LAppariement!Pas

LEMMA StepVu ==
    ASSUME Inv, EndroitsInv, AvantInv, [Next]_vars, ~ Rompu',
           NumerosDistincts, EtiquettesDemandables, DemandesBornees
    PROVE  LAppariement!Pas \/ UNCHANGED LAppariement!etat
  <1>0. Inv' /\ EndroitsInv'
    BY StepInv, StepEndroits
  <1>1. CASE UNCHANGED vars
    BY <1>1, DemandesPasVues DEF vars, varsRecus
  <1>2. CASE Reception
    BY <1>2, RecoitVu DEF Reception
  <1>3. CASE Suite
    BY <1>3, GarderVu, ApresVu, VerifieVu, FinirVu DEF Suite
  <1>4. CASE AjouteComm
    BY <1>0, <1>4, AjouteCommVu
  <1>5. CASE \E q \in Demandes : Poste(q) \/ Trouve(q)
    BY <1>5, PosteVu, TrouveVu
  <1>6. CASE \E r \in DOMAIN req : MRecv(r) \/ Annule(r)
    BY <1>6, MRecvVu, AnnuleVu
  <1> QED BY <1>1, <1>2, <1>3, <1>4, <1>5, <1>6 DEF Next

(* The matching of ob1 is the one MPI promises: each message of a source is *)
(* taken up in the order of the sends, by the oldest request that accepts   *)
(* it, and each new request takes the oldest message that waits.  What      *)
(* frags_cant_match, non_existing_communicator_pending, the probes and the  *)
(* work that threads do once they have let go of matching_lock add to it    *)
(* does not show.                                                           *)
THEOREM AppariementTheorem ==
    ASSUME NumerosDistincts, EtiquettesDemandables, DemandesBornees
    PROVE  Spec => AppariementSpec
  <1>1. Init => AvantInv /\ OubliInv /\ LAppariement!Init
    BY InitOubli, InitVu DEF Init, AvantInv
  <1>2. Inv /\ EndroitsInv /\ OubliInv /\ AvantInv /\ [Next]_vars => (OubliInv /\ AvantInv)'
    BY StepOubli, StepAvant
  <1>3. Inv /\ MainsInv /\ [Next]_vars => (Rompu => Rompu')
    BY RompuReste
  <1>4. ASSUME Inv, MainsInv, ~ Rompu => EndroitsInv /\ AvantInv, [Next]_vars
        PROVE  [LAppariement!Next]_(LAppariement!vars)
    <2>1. CASE Rompu'
      BY <2>1 DEF LAppariement!Next, LAppariement!Rompre
    <2>2. CASE ~ Rompu'
      <3>1. ~ Rompu /\ EndroitsInv /\ AvantInv
        BY <1>3, <1>4, <2>2
      <3>2. Rompu' = Rompu
        BY <2>2, <3>1 DEF Rompu
      <3>3. LAppariement!Pas \/ UNCHANGED LAppariement!etat
        BY <1>4, <2>2, <3>1, StepVu
      <3> QED BY <3>1, <3>2, <3>3 DEF LAppariement!Next, LAppariement!vars
    <2> QED BY <2>1, <2>2
  <1> QED BY <1>1, <1>2, <1>3, <1>4, MainsTheorem, EndroitsTheorem, PTL
          DEF Spec, AppariementSpec, LAppariement!Spec
=============================================================================
