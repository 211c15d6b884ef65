--------------------------- MODULE OpalLifoProofs ---------------------------
(***************************************************************************)
(* The lifo implements the stack, for any items, any threads and any       *)
(* number of pops.  The inductive invariant adds to the chain what a       *)
(* thread in the middle of an operation may rely on: the item it pushes is *)
(* its own, and as long as the counter it read is still the head's, the    *)
(* item it read has not left the lifo and the next it read is still that   *)
(* item's.                                                                 *)
(***************************************************************************)
EXTENDS OpalLifo, SequenceTheorems, TLAPS

DansPush == {"push_lire", "push_lier", "push_cas"}

ItemAuThread ==
    \A t \in Threads : pc[t] \in DansPush \cup {"pop_detacher"} =>
        item[t] \in Items /\ proprio[item[t]] = t

SuivantLu ==
    \A t \in Threads :
        /\ pc[t] \in {"push_lier", "push_cas"} => suivant[t] \in Items \cup {Ghost}
        /\ pc[t] = "push_cas" => next[item[t]] = suivant[t]

TeteLue ==
    \A t \in Threads :
        /\ pc[t] \in {"pop_item", "pop_suivant", "pop_cas"} => counter[t] <= head_counter
        /\ pc[t] \in {"pop_suivant", "pop_cas"} =>
             /\ item[t] \in Items
             /\ counter[t] = head_counter => proprio[item[t]] = Lifo
        /\ pc[t] = "pop_cas" /\ counter[t] = head_counter => suivant[t] = next[item[t]]

Inv == TypeOK /\ Chaine /\ ItemAuThread /\ SuivantLu /\ TeteLue

-----------------------------------------------------------------------------
(* What a push does to the stack, index by index.                           *)
LEMMA Dessus ==
    ASSUME NEW S, NEW s \in Seq(S), NEW x \in S
    PROVE  /\ <<x>> \o s \in Seq(S)
           /\ Len(<<x>> \o s) = Len(s) + 1
           /\ (<<x>> \o s)[1] = x
           /\ \A k \in 1 .. Len(s) : (<<x>> \o s)[k + 1] = s[k]
           /\ \A k \in 2 .. Len(s) + 1 : (<<x>> \o s)[k] = s[k - 1]
           /\ <<x>> \o s # <<>>
  OBVIOUS

(* What a pop does to it.                                                   *)
LEMMA Dessous ==
    ASSUME NEW S, NEW s \in Seq(S)
    PROVE  /\ SansSommet(s) \in Seq(S)
           /\ s # <<>> => /\ Len(SansSommet(s)) = Len(s) - 1
                          /\ Len(s) \in Nat \ {0}
                          /\ SansSommet(s) = Tail(s)
           /\ \A k \in 1 .. Len(s) - 1 : SansSommet(s)[k] = s[k + 1]
  <1>1. CASE s = <<>>
    BY <1>1 DEF SansSommet
  <1>2. CASE s # <<>>
    <2>1. Len(s) \in Nat /\ Len(s) # 0
      BY <1>2
    <2>3. /\ Tail(s) \in Seq(S) /\ Len(Tail(s)) = Len(s) - 1
          /\ \A k \in 1 .. Len(Tail(s)) : Tail(s)[k] = s[k + 1]
      BY <1>2, HeadTailProperties
    <2>4. /\ \A k \in 1 .. Len(s) - 1 : SansSommet(s)[k] = s[k + 1]
          /\ SansSommet(s) \in Seq(S) /\ Len(SansSommet(s)) = Len(s) - 1
      BY <2>1 DEF SansSommet
    <2>2. SansSommet(s) = Tail(s)
      BY <2>3, <2>4, SeqEqual
    <2> QED BY <2>1, <2>2, <2>3, <2>4, <1>2
  <1> QED BY <1>1, <1>2

(* The head is the ghost exactly when the stack is empty, else its top.     *)
LEMMA TeteDePile ==
    ASSUME TypeOK, Chaine
    PROVE  /\ head_item = Ghost <=> pile = <<>>
           /\ head_item # Ghost => /\ Len(pile) \in Nat \ {0}
                                   /\ head_item \in Items
                                   /\ head_item = pile[1]
                                   /\ proprio[head_item] = Lifo
  <1>1. CASE pile = <<>>
    BY <1>1, GhostAssumption DEF Chaine, Sommet
  <1>2. CASE pile # <<>>
    <2>1. Len(pile) \in Nat \ {0} /\ pile[1] \in Items
      BY <1>2 DEF TypeOK
    <2>2. head_item = pile[1]
      BY <1>2 DEF Chaine, Sommet
    <2>3. proprio[pile[1]] = Lifo
      BY <2>1 DEF Chaine
    <2> QED BY <1>2, <2>1, <2>2, <2>3, GhostAssumption
  <1> QED BY <1>1, <1>2

LEMMA InitInv == Init => Inv
  <1> SUFFICES ASSUME Init PROVE Inv
    OBVIOUS
  <1>1. TypeOK
    BY DEF Init, TypeOK, Pointeurs
  <1>2. Chaine
    <2>1. Len(pile) = 0 /\ head_item = Sommet(pile)
      BY DEF Init, Sommet
    <2>2. \A x \in Items : proprio[x] # Lifo
      BY LifoAssumption DEF Init
    <2> QED BY <2>1, <2>2 DEF Chaine
  <1>3. ItemAuThread /\ SuivantLu /\ TeteLue
    BY DEF Init, ItemAuThread, SuivantLu, TeteLue, DansPush
  <1> QED BY <1>1, <1>2, <1>3 DEF Inv

-----------------------------------------------------------------------------
(* The steps of a push.                                                     *)
LEMMA PushCasInv ==
    ASSUME Inv, NEW t \in Threads, PushCas(t)
    PROVE  Inv'
  <1> USE DEF Inv
  <1>0. /\ pc[t] = "push_cas" /\ item[t] \in Items /\ proprio[item[t]] = t /\ t # Lifo
        /\ next[item[t]] = suivant[t] /\ suivant[t] \in Items \cup {Ghost}
    BY LifoAssumption DEF PushCas, ItemAuThread, SuivantLu, DansPush
  <1>1. CASE head_item # suivant[t]
    <2>1. /\ pc' = [pc EXCEPT ![t] = "push_lire"]
          /\ UNCHANGED <<head_item, head_counter, next, proprio, item, counter, suivant, pile>>
      BY <1>1 DEF PushCas, Aller, varsLocales
    <2>2. TypeOK'
      BY <2>1 DEF TypeOK, Pointeurs
    <2>3. Chaine'
      BY <2>1 DEF Chaine
    <2>4. ItemAuThread' /\ SuivantLu' /\ TeteLue'
      BY <2>1, <1>0 DEF TypeOK, ItemAuThread, SuivantLu, TeteLue, DansPush
    <2> QED BY <2>2, <2>3, <2>4
  <1>2. CASE head_item = suivant[t]
    <2> DEFINE x == item[t]
    <2>1. /\ head_item' = x /\ proprio' = [proprio EXCEPT ![x] = Lifo]
          /\ pile' = <<x>> \o pile
          /\ pc' = [pc EXCEPT ![t] = "repos"]
          /\ UNCHANGED <<head_counter, next, item, counter, suivant>>
      BY <1>2 DEF PushCas, Aller, varsLocales
    <2>2. pile \in Seq(Items) /\ Len(pile) \in Nat
      BY DEF TypeOK
    <2>3. /\ pile' \in Seq(Items) /\ Len(pile') = Len(pile) + 1 /\ pile' # <<>>
          /\ pile'[1] = x
          /\ \A k \in 2 .. Len(pile) + 1 : pile'[k] = pile[k - 1]
      BY <1>0, <2>1, <2>2, Dessus
    <2>4. TypeOK'
      BY <1>0, <2>1, <2>3 DEF TypeOK, Pointeurs
    <2>5. \A k \in 1 .. Len(pile) : pile[k] # x /\ pile[k] \in Items
      BY <1>0, <2>2 DEF Chaine
    <2>6. Chaine'
      <3>1. head_item' = Sommet(pile')
        BY <2>1, <2>3 DEF Sommet
      <3>2. ASSUME NEW k \in 1 .. Len(pile')
            PROVE  next'[pile'[k]] = IF k = Len(pile') THEN Ghost ELSE pile'[k + 1]
        <4>1. CASE k = 1 /\ pile = <<>>
          <5>1. next[x] = Ghost
            BY <1>0, <1>2, <4>1 DEF Chaine, Sommet
          <5> QED BY <5>1, <4>1, <2>1, <2>3
        <4>2. CASE k = 1 /\ pile # <<>>
          <5>1. next[x] = pile[1] /\ Len(pile) # 0
            BY <1>0, <1>2, <4>2, <2>2 DEF Chaine, Sommet
          <5>2. pile'[2] = pile[1]
            BY <5>1, <2>2, <2>3
          <5> QED BY <5>1, <5>2, <4>2, <2>1, <2>2, <2>3
        <4>3. CASE k # 1
          <5>1. k \in 2 .. Len(pile) + 1 /\ k - 1 \in 1 .. Len(pile)
            BY <4>3, <2>2, <2>3
          <5>2. next[pile[k - 1]] = IF k - 1 = Len(pile) THEN Ghost ELSE pile[(k - 1) + 1]
            BY <5>1 DEF Chaine
          <5>3. pile'[k] = pile[k - 1] /\ (k # Len(pile) + 1 => pile'[k + 1] = pile[k])
            BY <5>1, <2>2, <2>3
          <5> QED BY <5>1, <5>2, <5>3, <2>1, <2>2, <2>3
        <4> QED BY <4>1, <4>2, <4>3
      <3>3. ASSUME NEW k \in 1 .. Len(pile'), NEW l \in 1 .. Len(pile'), pile'[k] = pile'[l]
            PROVE  k = l
        <4>1. CASE k = 1 \/ l = 1
          BY <4>1, <3>3, <2>2, <2>3, <2>5
        <4>2. CASE k # 1 /\ l # 1
          <5>1. k - 1 \in 1 .. Len(pile) /\ l - 1 \in 1 .. Len(pile)
            BY <4>2, <2>2, <2>3
          <5>2. pile[k - 1] = pile[l - 1]
            BY <3>3, <4>2, <2>2, <2>3
          <5>3. k - 1 = l - 1
            BY <5>1, <5>2 DEF Chaine
          <5> QED BY <5>1, <5>3
        <4> QED BY <4>1, <4>2
      <3>4. ASSUME NEW y \in Items
            PROVE  proprio'[y] = Lifo <=> \E k \in 1 .. Len(pile') : pile'[k] = y
        <4>1. CASE y = x
          <5>1. proprio'[y] = Lifo
            BY <4>1, <2>1, <1>0 DEF TypeOK
          <5>2. 1 \in 1 .. Len(pile') /\ pile'[1] = y
            BY <4>1, <2>2, <2>3
          <5> QED BY <5>1, <5>2
        <4>2. CASE y # x
          <5>1. proprio'[y] = proprio[y]
            BY <4>2, <2>1 DEF TypeOK
          <5>2. ASSUME NEW k \in 1 .. Len(pile), pile[k] = y
                PROVE  \E l \in 1 .. Len(pile') : pile'[l] = y
            <6>1. k + 1 \in 1 .. Len(pile') /\ k + 1 \in 2 .. Len(pile) + 1 /\ (k + 1) - 1 = k
              BY <2>2, <2>3
            <6> QED BY <6>1, <5>2, <2>3
          <5>3. ASSUME NEW k \in 1 .. Len(pile'), pile'[k] = y
                PROVE  \E l \in 1 .. Len(pile) : pile[l] = y
            <6>1. k - 1 \in 1 .. Len(pile) /\ k \in 2 .. Len(pile) + 1
              BY <5>3, <4>2, <2>2, <2>3
            <6> QED BY <6>1, <5>3, <2>3
          <5> QED BY <5>1, <5>2, <5>3 DEF Chaine
        <4> QED BY <4>1, <4>2
      <3> QED BY <3>1, <3>2, <3>3, <3>4 DEF Chaine
    <2>7. ItemAuThread' /\ SuivantLu'
      BY <2>1, <1>0 DEF TypeOK, ItemAuThread, SuivantLu, DansPush
    <2>8. TeteLue'
      BY <2>1, <1>0 DEF TypeOK, TeteLue
    <2> QED BY <2>4, <2>6, <2>7, <2>8
  <1> QED BY <1>1, <1>2

(* The compare-and-swap of a pop: when it succeeds, the counter has not     *)
(* moved since the thread read the head, so that the next it read is that   *)
(* of the item on top.                                                      *)
LEMMA PopCasSommet ==
    ASSUME Inv, NEW t \in Threads, PopCas(t),
           head_item = item[t], head_counter = counter[t]
    PROVE  /\ pile # <<>> /\ Len(pile) \in Nat \ {0}
           /\ item[t] = pile[1] /\ item[t] \in Items
           /\ suivant[t] = IF Len(pile) = 1 THEN Ghost ELSE pile[2]
  <1>1. /\ pc[t] = "pop_cas" /\ item[t] \in Items
        /\ suivant[t] = next[item[t]]
    BY DEF PopCas, Inv, TeteLue
  <1>2. /\ pile # <<>> /\ Len(pile) \in Nat \ {0} /\ item[t] = pile[1]
    BY <1>1, GhostAssumption, TeteDePile DEF Inv
  <1>3. next[pile[1]] = IF Len(pile) = 1 THEN Ghost ELSE pile[2]
    <2>1. 1 \in 1 .. Len(pile) /\ 1 + 1 = 2
      BY <1>2
    <2>2. next[pile[1]] = IF 1 = Len(pile) THEN Ghost ELSE pile[1 + 1]
      BY <2>1 DEF Inv, Chaine
    <2> QED BY <2>1, <2>2
  <1> QED BY <1>1, <1>2, <1>3

LEMMA PopCasInv ==
    ASSUME Inv, NEW t \in Threads, PopCas(t)
    PROVE  Inv'
  <1> USE DEF Inv
  <1>0. pc[t] = "pop_cas" /\ item[t] \in Items /\ t # Lifo
    BY LifoAssumption DEF PopCas, TeteLue
  <1>1. CASE ~ (head_item = item[t] /\ head_counter = counter[t])
    <2>1. /\ pc' = [pc EXCEPT ![t] = "pop_compteur"]
          /\ UNCHANGED <<head_item, head_counter, next, proprio, item, counter, suivant, pile>>
      BY <1>1 DEF PopCas, Aller, varsLocales
    <2>2. TypeOK'
      BY <2>1 DEF TypeOK, Pointeurs
    <2>3. Chaine'
      BY <2>1 DEF Chaine
    <2>4. ItemAuThread' /\ SuivantLu' /\ TeteLue'
      BY <2>1 DEF TypeOK, ItemAuThread, SuivantLu, TeteLue, DansPush
    <2> QED BY <2>2, <2>3, <2>4
  <1>2. CASE head_item = item[t] /\ head_counter = counter[t]
    <2> DEFINE x == item[t]
    <2>1. /\ head_item' = suivant[t] /\ proprio' = [proprio EXCEPT ![x] = t]
          /\ head_counter' = head_counter + 1
          /\ pile' = SansSommet(pile)
          /\ pc' = [pc EXCEPT ![t] = "pop_detacher"]
          /\ UNCHANGED <<next, item, counter, suivant>>
      BY <1>2 DEF PopCas, Aller, varsLocales
    <2>2. pile \in Seq(Items) /\ head_counter \in Nat
      BY DEF TypeOK
    <2>3. /\ pile # <<>> /\ Len(pile) \in Nat \ {0} /\ x = pile[1]
          /\ suivant[t] = IF Len(pile) = 1 THEN Ghost ELSE pile[2]
      BY <1>2, PopCasSommet
    <2>4. /\ pile' \in Seq(Items) /\ Len(pile') = Len(pile) - 1
          /\ \A k \in 1 .. Len(pile) - 1 : pile'[k] = pile[k + 1]
      BY <2>1, <2>2, <2>3, Dessous
    <2>5. TypeOK'
      <3>1. suivant[t] \in Items \cup {Ghost}
        <4>0. \A n \in Nat \ {0} : n # 1 => 2 \in 1 .. n
          OBVIOUS
        <4>1. Len(pile) # 1 => 2 \in 1 .. Len(pile)
          BY <4>0, <2>3
        <4>2. Len(pile) # 1 => pile[2] \in Items
          BY <4>1, <2>2, ElementOfSeq
        <4> QED BY <4>2, <2>3
      <3> QED BY <1>0, <2>1, <2>4, <3>1 DEF TypeOK, Pointeurs
    <2>6. \A k \in 2 .. Len(pile) : pile[k] # x
      BY <2>3 DEF Chaine
    <2>7. Chaine'
      <3>1. head_item' = Sommet(pile')
        <4>1. CASE Len(pile) = 1
          <5>1. Len(pile') = 0
            BY <4>1, <2>4
          <5>2. pile' = <<>>
            BY <5>1, <2>4, EmptySeq
          <5> QED BY <5>2, <4>1, <2>1, <2>3 DEF Sommet
        <4>2. CASE Len(pile) # 1
          <5>1. Len(pile') # 0 /\ pile'[1] = pile[2]
            BY <4>2, <2>3, <2>4
          <5>2. pile' # <<>>
            BY <5>1
          <5> QED BY <5>1, <5>2, <4>2, <2>1, <2>3 DEF Sommet
        <4> QED BY <4>1, <4>2
      <3>2. ASSUME NEW k \in 1 .. Len(pile')
            PROVE  next'[pile'[k]] = IF k = Len(pile') THEN Ghost ELSE pile'[k + 1]
        <4>1. k + 1 \in 1 .. Len(pile) /\ pile'[k] = pile[k + 1]
          BY <2>3, <2>4
        <4>2. next[pile[k + 1]] = IF k + 1 = Len(pile) THEN Ghost ELSE pile[(k + 1) + 1]
          BY <4>1 DEF Chaine
        <4>3. k + 1 # Len(pile) => pile'[k + 1] = pile[(k + 1) + 1]
          BY <2>3, <2>4
        <4> QED BY <4>1, <4>2, <4>3, <2>1, <2>3, <2>4
      <3>3. ASSUME NEW k \in 1 .. Len(pile'), NEW l \in 1 .. Len(pile'), pile'[k] = pile'[l]
            PROVE  k = l
        <4>1. k + 1 \in 1 .. Len(pile) /\ l + 1 \in 1 .. Len(pile) /\ pile[k + 1] = pile[l + 1]
          BY <3>3, <2>3, <2>4
        <4>2. k + 1 = l + 1
          BY <4>1 DEF Chaine
        <4> QED BY <4>2, <4>1
      <3>4. ASSUME NEW y \in Items
            PROVE  proprio'[y] = Lifo <=> \E k \in 1 .. Len(pile') : pile'[k] = y
        <4>1. CASE y = x
          <5>1. proprio'[y] # Lifo
            BY <4>1, <1>0, <2>1 DEF TypeOK
          <5>2. \A k \in 1 .. Len(pile') : pile'[k] # y
            BY <4>1, <2>3, <2>4, <2>6
          <5> QED BY <5>1, <5>2
        <4>2. CASE y # x
          <5>1. proprio'[y] = proprio[y]
            BY <4>2, <2>1 DEF TypeOK
          <5>2. ASSUME NEW k \in 1 .. Len(pile), pile[k] = y
                PROVE  \E l \in 1 .. Len(pile') : pile'[l] = y
            <6>1. k - 1 \in 1 .. Len(pile') /\ pile'[k - 1] = pile[k]
              BY <5>2, <4>2, <2>3, <2>4
            <6> QED BY <6>1, <5>2
          <5>3. ASSUME NEW k \in 1 .. Len(pile'), pile'[k] = y
                PROVE  \E l \in 1 .. Len(pile) : pile[l] = y
            <6>1. k + 1 \in 1 .. Len(pile) /\ pile[k + 1] = y
              BY <5>3, <2>3, <2>4
            <6> QED BY <6>1
          <5> QED BY <5>1, <5>2, <5>3 DEF Chaine
        <4> QED BY <4>1, <4>2
      <3> QED BY <3>1, <3>2, <3>3, <3>4 DEF Chaine
    <2>8. ItemAuThread'
      <3>1. \A u \in Threads : pc[u] \in DansPush \cup {"pop_detacher"} => item[u] # x
        <4>1. proprio[x] = Lifo
          BY <1>0, <2>3 DEF Chaine
        <4> QED BY <4>1, LifoAssumption DEF ItemAuThread
      <3> QED BY <3>1, <2>1, <1>0 DEF TypeOK, ItemAuThread, DansPush
    <2>9. SuivantLu'
      BY <2>1, <1>0 DEF TypeOK, SuivantLu
    <2>10. TeteLue'
      <3>1. \A u \in Threads : pc'[u] \in {"pop_item", "pop_suivant", "pop_cas"} =>
                                 /\ pc[u] = pc'[u] /\ counter'[u] \in Nat
                                 /\ counter'[u] <= head_counter
        BY <2>1 DEF TypeOK, TeteLue
      <3>2. \A u \in Threads : pc'[u] \in {"pop_item", "pop_suivant", "pop_cas"} =>
                                 /\ counter'[u] <= head_counter' /\ counter'[u] # head_counter'
        BY <3>1, <2>1, <2>2
      <3> QED BY <3>1, <3>2, <2>1 DEF TeteLue
    <2> QED BY <2>5, <2>7, <2>8, <2>9, <2>10
  <1> QED BY <1>1, <1>2

-----------------------------------------------------------------------------
(* The steps that leave the head and the stack alone.                       *)
LEMMA ChaineStable ==
    ASSUME TypeOK, Chaine, head_item' = head_item, pile' = pile, proprio' = proprio,
           \A x \in Items : proprio[x] = Lifo => next'[x] = next[x]
    PROVE  Chaine'
  <1>1. \A k \in 1 .. Len(pile) : pile[k] \in Items /\ proprio[pile[k]] = Lifo
    <2>1. \A k \in 1 .. Len(pile) : pile[k] \in Items
      BY DEF TypeOK
    <2> QED BY <2>1 DEF Chaine
  <1>2. \A k \in 1 .. Len(pile) : next'[pile[k]] = next[pile[k]]
    BY <1>1
  <1> QED BY <1>2 DEF Chaine, Sommet

LEMMA AutresPasInv ==
    ASSUME Inv, NEW t \in Threads,
           \/ \E x \in Items : Empiler(t, x)
           \/ Depiler(t)
           \/ PushLire(t)
           \/ PushLier(t)
           \/ PopCompteur(t)
           \/ PopItem(t)
           \/ PopSuivant(t)
           \/ PopDetacher(t)
    PROVE  Inv'
  <1> USE DEF Inv, Aller, varsLocales
  <1>1. ASSUME NEW x \in Items, Empiler(t, x) PROVE Inv'
    <2>1. TypeOK'
      BY <1>1 DEF Empiler, TypeOK, Pointeurs
    <2>2. Chaine'
      BY <1>1, ChaineStable DEF Empiler
    <2>3. ItemAuThread' /\ SuivantLu' /\ TeteLue'
      BY <1>1 DEF Empiler, TypeOK, ItemAuThread, SuivantLu, TeteLue, DansPush
    <2> QED BY <2>1, <2>2, <2>3
  <1>2. CASE Depiler(t)
    <2>1. TypeOK'
      BY <1>2 DEF Depiler, TypeOK, Pointeurs
    <2>2. Chaine'
      BY <1>2, ChaineStable DEF Depiler
    <2>3. ItemAuThread' /\ SuivantLu' /\ TeteLue'
      BY <1>2 DEF Depiler, TypeOK, ItemAuThread, SuivantLu, TeteLue, DansPush
    <2> QED BY <2>1, <2>2, <2>3
  <1>3. CASE PushLire(t)
    <2>1. TypeOK'
      BY <1>3 DEF PushLire, TypeOK, Pointeurs
    <2>2. Chaine'
      BY <1>3, ChaineStable DEF PushLire
    <2>3. ItemAuThread' /\ SuivantLu' /\ TeteLue'
      BY <1>3 DEF PushLire, TypeOK, ItemAuThread, SuivantLu, TeteLue, DansPush
    <2> QED BY <2>1, <2>2, <2>3
  <1>4. CASE PushLier(t)
    <2>0. item[t] \in Items /\ proprio[item[t]] = t /\ t # Lifo
      BY <1>4, LifoAssumption DEF PushLier, ItemAuThread, DansPush
    <2>1. TypeOK'
      BY <1>4, <2>0 DEF PushLier, TypeOK, Pointeurs
    <2>2. Chaine'
      BY <1>4, <2>0, ChaineStable DEF PushLier, TypeOK
    <2>3. ItemAuThread' /\ SuivantLu'
      BY <1>4, <2>0 DEF PushLier, TypeOK, ItemAuThread, SuivantLu, DansPush
    <2>4. TeteLue'
      BY <1>4, <2>0 DEF PushLier, TypeOK, TeteLue
    <2> QED BY <2>1, <2>2, <2>3, <2>4
  <1>5. CASE PopCompteur(t)
    <2>1. TypeOK'
      BY <1>5 DEF PopCompteur, TypeOK, Pointeurs
    <2>2. Chaine'
      BY <1>5, ChaineStable DEF PopCompteur
    <2>3. ItemAuThread' /\ SuivantLu' /\ TeteLue'
      BY <1>5 DEF PopCompteur, TypeOK, ItemAuThread, SuivantLu, TeteLue, DansPush
    <2> QED BY <2>1, <2>2, <2>3
  <1>6. CASE PopItem(t)
    <2>0. head_item # Ghost => head_item \in Items /\ proprio[head_item] = Lifo
      BY TeteDePile
    <2>1. TypeOK'
      BY <1>6 DEF PopItem, TypeOK, Pointeurs
    <2>2. Chaine'
      BY <1>6, ChaineStable DEF PopItem
    <2>3. ItemAuThread' /\ SuivantLu' /\ TeteLue'
      BY <1>6, <2>0 DEF PopItem, TypeOK, ItemAuThread, SuivantLu, TeteLue, DansPush
    <2> QED BY <2>1, <2>2, <2>3
  <1>7. CASE PopSuivant(t)
    <2>0. item[t] \in Items
      BY <1>7 DEF PopSuivant, TeteLue
    <2>1. TypeOK'
      BY <1>7, <2>0 DEF PopSuivant, TypeOK, Pointeurs
    <2>2. Chaine'
      BY <1>7, ChaineStable DEF PopSuivant
    <2>3. ItemAuThread' /\ SuivantLu' /\ TeteLue'
      BY <1>7 DEF PopSuivant, TypeOK, ItemAuThread, SuivantLu, TeteLue, DansPush
    <2> QED BY <2>1, <2>2, <2>3
  <1>8. CASE PopDetacher(t)
    <2>0. item[t] \in Items /\ proprio[item[t]] = t /\ t # Lifo
      BY <1>8, LifoAssumption DEF PopDetacher, ItemAuThread, DansPush
    <2>1. TypeOK'
      BY <1>8, <2>0 DEF PopDetacher, TypeOK, Pointeurs
    <2>2. Chaine'
      BY <1>8, <2>0, ChaineStable DEF PopDetacher, TypeOK
    <2>3. ItemAuThread' /\ SuivantLu'
      BY <1>8, <2>0 DEF PopDetacher, TypeOK, ItemAuThread, SuivantLu, DansPush
    <2>4. TeteLue'
      BY <1>8, <2>0 DEF PopDetacher, TypeOK, TeteLue
    <2> QED BY <2>1, <2>2, <2>3, <2>4
  <1> QED BY <1>1, <1>2, <1>3, <1>4, <1>5, <1>6, <1>7, <1>8

LEMMA StepInv == Inv /\ [Next]_vars => Inv'
  <1> SUFFICES ASSUME Inv, [Next]_vars PROVE Inv'
    OBVIOUS
  <1>1. CASE Next
    <2> PICK t \in Threads : (\E x \in Items : Empiler(t, x)) \/ Depiler(t) \/ EnCours(t)
      BY <1>1 DEF Next
    <2>1. CASE PushCas(t)
      BY <2>1, PushCasInv
    <2>2. CASE PopCas(t)
      BY <2>2, PopCasInv
    <2>3. CASE ~ PushCas(t) /\ ~ PopCas(t)
      BY <2>3, AutresPasInv DEF EnCours
    <2> QED BY <2>1, <2>2, <2>3
  <1>2. CASE UNCHANGED vars
    <2> USE <1>2 DEF vars, varsLocales, Inv
    <2>1. TypeOK'
      BY DEF TypeOK
    <2>2. Chaine'
      BY ChaineStable
    <2>3. ItemAuThread' /\ SuivantLu' /\ TeteLue'
      BY DEF ItemAuThread, SuivantLu, TeteLue
    <2> QED BY <2>1, <2>2, <2>3
  <1> QED BY <1>1, <1>2

(* Inv is an invariant of the lifo.                                         *)
THEOREM InvTheorem == Spec => []Inv
  <1> QED BY InitInv, StepInv, PTL DEF Spec

(* opal_lifo.h keeps its types, for every Items, Threads and MaxPops: no    *)
(* head is ever NULL, so that no pop follows a null pointer.                *)
THEOREM TypeTheorem == Spec => []TypeOK
  <1>1. Inv => TypeOK
    BY DEF Inv
  <1> QED BY <1>1, InvTheorem, PTL

(* The chain from the head through opal_list_next is the stack of the items *)
(* pushed and not popped.                                                   *)
THEOREM ChaineTheorem == Spec => []Chaine
  <1>1. Inv => Chaine
    BY DEF Inv
  <1> QED BY <1>1, InvTheorem, PTL

-----------------------------------------------------------------------------
(* The lifo implements the abstract stack: opal_lifo_push_atomic and        *)
(* opal_lifo_pop_atomic take effect at their successful compare-and-swap.   *)
LEMMA StepPile == Inv /\ [Next]_vars => [LaPile!Next]_(LaPile!vars)
  <1> SUFFICES ASSUME Inv, [Next]_vars PROVE [LaPile!Next]_(LaPile!vars)
    OBVIOUS
  <1> USE DEF LaPile!vars
  <1>1. CASE UNCHANGED vars
    BY <1>1 DEF vars
  <1>2. CASE Next
    <2> PICK t \in Threads : (\E x \in Items : Empiler(t, x)) \/ Depiler(t) \/ EnCours(t)
      BY <1>2 DEF Next
    <2>1. CASE PushCas(t)
      <3>1. CASE head_item # suivant[t]
        BY <2>1, <3>1 DEF PushCas
      <3>2. CASE head_item = suivant[t]
        <4>1. item[t] \in Items /\ proprio[item[t]] = t
          BY <2>1 DEF PushCas, Inv, ItemAuThread, DansPush
        <4>2. LaPile!Empiler(t, item[t])
          BY <2>1, <3>2, <4>1 DEF PushCas, LaPile!Empiler
        <4> QED BY <4>1, <4>2 DEF LaPile!Next
      <3> QED BY <3>1, <3>2
    <2>2. CASE PopCas(t)
      <3>1. CASE ~ (head_item = item[t] /\ head_counter = counter[t])
        BY <2>2, <3>1 DEF PopCas
      <3>2. CASE head_item = item[t] /\ head_counter = counter[t]
        <4>1. pile # <<>> /\ item[t] = pile[1] /\ pile \in Seq(Items)
          BY <2>2, <3>2, PopCasSommet DEF Inv, TypeOK
        <4>2. item[t] = Head(pile)
          BY <4>1
        <4>3. SansSommet(pile) = Tail(pile)
          BY <4>1, Dessous
        <4>4. pile' = SansSommet(pile) /\ proprio' = [proprio EXCEPT ![item[t]] = t]
          BY <2>2, <3>2 DEF PopCas
        <4>5. LaPile!Depiler(t)
          BY <4>1, <4>2, <4>3, <4>4 DEF LaPile!Depiler
        <4> QED BY <4>5 DEF LaPile!Next
      <3> QED BY <3>1, <3>2
    <2>3. CASE ~ PushCas(t) /\ ~ PopCas(t)
      BY <2>3 DEF EnCours, Empiler, Depiler, PushLire, PushLier, PopCompteur, PopItem,
                  PopSuivant, PopDetacher
    <2> QED BY <2>1, <2>2, <2>3
  <1> QED BY <1>1, <1>2
(* The lock-free lifo of opal_lifo.h implements the stack: a push and a pop  *)
(* take effect at their successful compare-and-swap.                        *)
THEOREM PileTheorem == Spec => PileSpec
  <1>1. Init => LaPile!Init
    BY DEF Init, LaPile!Init
  <1> QED BY <1>1, StepPile, InvTheorem, PTL DEF Spec, PileSpec, LaPile!Spec

(* opal_lifo_pop_atomic returns NULL only when the lifo is empty.           *)
THEOREM NullSiVideTheorem == Spec => NullSiVide
  <1>1. ASSUME Inv, [Next]_vars
        PROVE  [\A t \in Threads : pc[t] = "pop_item" /\ pc'[t] = "repos" => pile = <<>>]_vars
    <2>1. CASE UNCHANGED vars
      BY <2>1
    <2>2. CASE Next
      <3> SUFFICES ASSUME NEW u \in Threads, pc[u] = "pop_item", pc'[u] = "repos"
                   PROVE  pile = <<>>
        OBVIOUS
      <3> PICK t \in Threads : (\E x \in Items : Empiler(t, x)) \/ Depiler(t) \/ EnCours(t)
        BY <2>2 DEF Next
      <3>1. t = u
        <4>1. \E l : pc' = [pc EXCEPT ![t] = l]
          BY Zenon DEF Empiler, Depiler, EnCours, PushLire, PushLier, PushCas, PopCompteur,
                       PopItem, PopSuivant, PopCas, PopDetacher, Aller
        <4>2. t # u => pc'[u] = pc[u]
          BY <1>1, <4>1 DEF Inv, TypeOK
        <4> QED BY <4>2
      <3>2. PopItem(u)
        BY <3>1 DEF Empiler, Depiler, EnCours, PushLire, PushLier, PushCas, PopCompteur,
                    PopSuivant, PopCas, PopDetacher
      <3>3. head_item = Ghost
        BY <1>1, <3>2 DEF PopItem, Aller, Inv, TypeOK
      <3> QED BY <1>1, <3>3, TeteDePile DEF Inv
    <2> QED BY <1>1, <2>1, <2>2
  <1> QED BY <1>1, InvTheorem, PTL DEF Spec, NullSiVide
=============================================================================
