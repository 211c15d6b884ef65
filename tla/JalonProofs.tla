---------------------------- MODULE JalonProofs ----------------------------
(***************************************************************************)
(* Theorems about Jalon, for every number of prg1, every hostfile and both *)
(* ways MPI_Send can complete.                                             *)
(***************************************************************************)
EXTENDS Jalon, TLAPS

(* The father's send to c has put its message in the channel.               *)
Envoye(c) ==
    /\ c \in Servis
    /\ \/ pere \in {"reception", "finalize", "fin"}
       \/ pere \in {"envoi", "tue"} /\ c < i
       \/ pere = "attente" /\ c <= i

(* The father's receive from c has returned.                                *)
Recu(c) ==
    /\ c \in Servis
    /\ \/ pere \in {"finalize", "fin"}
       \/ pere = "reception" /\ c < i

(* One direction of the dialogue: what was sent and not yet received is in  *)
(* the channel, once.                                                       *)
AvantTemperature(c) ==
    /\ temperature[c] = Indetermine
    /\ versFils[c] = IF Envoye(c) THEN <<TemperaturePour(c)>> ELSE <<>>
    /\ versPere[c] = <<>>
    /\ ~ Recu(c)

AvecTemperature(c) ==
    /\ Envoye(c)
    /\ temperature[c] = TemperaturePour(c)
    /\ versFils[c] = <<>>

Repondu(c) ==
    /\ AvecTemperature(c)
    /\ IF Recu(c) THEN versPere[c] = <<>>
                  ELSE \E m \in Retours : versPere[c] = <<m>>

DialogueInv(c) ==
    /\ fils[c] \in {"absent", "lance", "connecte", "reception"} => AvantTemperature(c)
    /\ fils[c] = "envoi" => AvecTemperature(c) /\ versPere[c] = <<>> /\ ~ Recu(c)
    /\ parent /\ fils[c] \in {"attente", "finalize", "fin"} => Repondu(c)
    /\ fils[c] = "tue" => job = "avorte"
    /\ parent /\ fils[c] = "fin" =>
         \A d \in Lances : Envoye(d) /\ temperature[d] = TemperaturePour(d)

(* Without a father nothing is ever sent.                                   *)
SansPereInv ==
    ~ parent =>
        /\ pere = "absent"
        /\ job = "ok"
        /\ \A c \in Lances :
             /\ fils[c] \in {"lance", "connecte", "finalize", "fin"}
             /\ versFils[c] = <<>>
             /\ versPere[c] = <<>>

PereInv ==
    /\ parent => pere # "absent"
    /\ job = "avorte" <=> pere = "tue"
    /\ pere = "envoi" => i <= nombreProg1 + 1
    /\ pere = "attente" => i <= nombreProg1
    /\ pere \in {"reception", "finalize", "fin"} => 3 <= nombreProg1
    /\ pere = "tue" => ~ SlotsSuffisants \/ nombreProg1 < 3
    /\ pere \in {"init", "spawn", "accept"} => i = 0
    /\ pere \in {"spawn", "accept", "envoi", "attente", "tue"} => nombre = 1

Inv ==
    /\ TypeOK
    /\ PereInv
    /\ SansPereInv
    /\ \A c \in Lances : DialogueInv(c)

-----------------------------------------------------------------------------
(* What the program was started with never changes.                         *)
LEMMA LancementFixe ==
  [Next]_vars => /\ nombreProg1' = nombreProg1
                 /\ slots' = slots
                 /\ parent' = parent
  BY DEF Next, PereNext, PereInit, LancerFils, SpawnEchoue, PereAvorte, AccepterFils,
     EnvoyerTemperature, FinEnvoiTemperature, EnvoyerRangInvalide, RecevoirChar,
     PereFinit, FilsNext, EntrerInit, SortirInit, RecevoirTemperature, EnvoyerRetour,
     FinEnvoiRetour, FilsFinit, Tuer, Termine, vars, varsLancement

LEMMA LancesFils == TypeOK => nombreProg1 \in Nat \ {0} /\ Lances \subseteq Fils
  BY MaxProg1Assumption DEF TypeOK, Lances, Fils

LEMMA TypeInit == Init => TypeOK
  BY DEF Init, TypeOK, EtatsPere, EtatsFils, Servis

LEMMA TemperaturePourType == \A c \in Fils : TemperaturePour(c) \in Temperatures
  BY DEF TemperaturePour, Temperatures

LEMMA TypeNext == TypeOK /\ [Next]_vars => TypeOK'
<1> SUFFICES ASSUME TypeOK, [Next]_vars PROVE TypeOK'
  OBVIOUS
<1> USE DEF TypeOK, EtatsPere, EtatsFils, varsPere, varsFils, varsLancement, PereAvorte
<1>1. CASE PereInit
  BY <1>1 DEF PereInit
<1>2. CASE LancerFils
  BY <1>2 DEF LancerFils
<1>3. CASE SpawnEchoue
  BY <1>3 DEF SpawnEchoue
<1>4. CASE AccepterFils
  BY <1>4 DEF AccepterFils, Servis
<1>a. ASSUME EnvoiSuivant PROVE pere' \in EtatsPere /\ i' \in Servis
  BY <1>a DEF EnvoiSuivant, Servis
<1>5. CASE EnvoyerTemperature
  <2>1. versFils' \in [Fils -> Seq(Temperatures)]
    BY <1>5, TemperaturePourType, LancesFils DEF EnvoyerTemperature
  <2> QED
    BY <1>5, <1>a, <2>1 DEF EnvoyerTemperature
<1>6. CASE FinEnvoiTemperature
  BY <1>6, <1>a DEF FinEnvoiTemperature
<1>7. CASE EnvoyerRangInvalide
  BY <1>7 DEF EnvoyerRangInvalide
<1>8. CASE RecevoirChar
  <2>1. i \in Fils
    BY <1>8, LancesFils DEF RecevoirChar
  <2>2. Head(versPere[i]) \in Retours /\ Tail(versPere[i]) \in Seq(Retours)
    BY <1>8, <2>1 DEF RecevoirChar
  <2>3. return_value' = 1 /\ nombre' \in {1, Indetermine} \cup Temperatures
    BY <1>8, <2>2 DEF RecevoirChar, Retours
  <2>4. pere' \in EtatsPere /\ i' \in Servis
    BY <1>8 DEF RecevoirChar, Servis
  <2> QED
    BY <1>8, <2>2, <2>3, <2>4 DEF RecevoirChar
<1>9. CASE PereFinit
  BY <1>9 DEF PereFinit
<1>10. ASSUME NEW c \in Fils, FilsNext(c) PROVE TypeOK'
  <2>1. CASE EntrerInit(c)
    BY <2>1 DEF EntrerInit
  <2>2. CASE SortirInit(c)
    BY <2>2 DEF SortirInit
  <2>3. CASE RecevoirTemperature(c)
    <3>1. Head(versFils[c]) \in Temperatures /\ Tail(versFils[c]) \in Seq(Temperatures)
      BY <2>3 DEF RecevoirTemperature
    <3> QED
      BY <2>3, <3>1 DEF RecevoirTemperature
  <2>4. CASE EnvoyerRetour(c)
    <3>1. PICK r \in Temperatures \cup {Indetermine} :
            versPere' = [versPere EXCEPT ![c] = Append(@, [octet |-> 1, reste |-> r])]
      BY <2>4 DEF EnvoyerRetour
    <3>2. [octet |-> 1, reste |-> r] \in Retours
      BY DEF Retours
    <3>3. versPere' \in [Fils -> Seq(Retours)]
      BY <3>1, <3>2
    <3> QED
      BY <2>4, <3>3 DEF EnvoyerRetour
  <2>5. CASE FinEnvoiRetour(c)
    BY <2>5 DEF FinEnvoiRetour
  <2>6. CASE FilsFinit(c)
    BY <2>6 DEF FilsFinit
  <2>7. CASE Tuer(c)
    BY <2>7 DEF Tuer
  <2> QED
    BY <1>10, <2>1, <2>2, <2>3, <2>4, <2>5, <2>6, <2>7 DEF FilsNext
<1>11. CASE Termine \/ UNCHANGED vars
  BY <1>11 DEF Termine, vars
<1> QED
  BY <1>1, <1>2, <1>3, <1>4, <1>5, <1>6, <1>7, <1>8, <1>9, <1>10, <1>11
  DEF Next, PereNext

-----------------------------------------------------------------------------
LEMMA InvInit == Init => Inv
<1> SUFFICES ASSUME Init PROVE Inv
  OBVIOUS
<1>1. TypeOK
  BY TypeInit
<1>2. PereInv /\ SansPereInv
  BY <1>1, LancesFils DEF Init, PereInv, SansPereInv
<1>3. \A c \in Lances : DialogueInv(c)
  BY <1>1, LancesFils DEF Init, DialogueInv, AvantTemperature, Envoye, Recu
<1> QED
  BY <1>1, <1>2, <1>3 DEF Inv

LEMMA PereInvNext == Inv /\ [Next]_vars => PereInv'
<1> SUFFICES ASSUME Inv, [Next]_vars PROVE PereInv'
  OBVIOUS
<1>l. nombreProg1 \in Nat \ {0}
  BY LancesFils DEF Inv
<1>f. nombreProg1' = nombreProg1 /\ slots' = slots /\ parent' = parent
  BY LancementFixe
<1> USE <1>l, <1>f DEF Inv, PereInv, SansPereInv, varsPere
<1>0. i \in 0 .. 3
  BY DEF TypeOK, Servis
<1>1. CASE PereInit
  BY <1>1 DEF PereInit
<1>2. CASE LancerFils
  BY <1>2 DEF LancerFils
<1>3. CASE SpawnEchoue
  BY <1>3 DEF SpawnEchoue, PereAvorte, SlotsSuffisants
<1>4. CASE AccepterFils
  BY <1>4 DEF AccepterFils
<1>5. CASE EnvoyerTemperature
  BY <1>0, <1>5 DEF EnvoyerTemperature, EnvoiSuivant, Lances
<1>6. CASE FinEnvoiTemperature
  BY <1>0, <1>6 DEF FinEnvoiTemperature, EnvoiSuivant
<1>7. CASE EnvoyerRangInvalide
  BY <1>0, <1>7 DEF EnvoyerRangInvalide, PereAvorte, Lances, SlotsSuffisants
<1>8. CASE RecevoirChar
  BY <1>8 DEF RecevoirChar
<1>9. CASE PereFinit
  BY <1>9 DEF PereFinit
<1>10. ASSUME NEW c \in Fils, FilsNext(c) PROVE PereInv'
  BY <1>10 DEF FilsNext, EntrerInit, SortirInit, RecevoirTemperature, EnvoyerRetour,
     FinEnvoiRetour, FilsFinit, Tuer, SlotsSuffisants
<1>11. CASE Termine \/ UNCHANGED vars
  BY <1>11 DEF Termine, vars, SlotsSuffisants
<1> QED
  BY <1>1, <1>2, <1>3, <1>4, <1>5, <1>6, <1>7, <1>8, <1>9, <1>10, <1>11
  DEF Next, PereNext

LEMMA SansPereInvNext == Inv /\ [Next]_vars => SansPereInv'
<1> SUFFICES ASSUME Inv, [Next]_vars, ~ parent' PROVE SansPereInv'
  BY DEF SansPereInv
<1>0. nombreProg1' = nombreProg1 /\ slots' = slots /\ parent' = parent
  BY LancementFixe
<1>l. Lances' = Lances /\ Lances \subseteq Fils
  BY <1>0, LancesFils DEF Inv, Lances
<1> USE <1>0, <1>l DEF Inv, SansPereInv
<1>1. ~ PereNext
  BY DEF PereNext, PereInit, LancerFils, SpawnEchoue, AccepterFils, EnvoyerTemperature,
     FinEnvoiTemperature, EnvoyerRangInvalide, RecevoirChar, PereFinit
<1>2. ASSUME NEW c \in Fils, FilsNext(c) PROVE SansPereInv'
  BY <1>2 DEF FilsNext, EntrerInit, SortirInit, RecevoirTemperature, EnvoyerRetour,
     FinEnvoiRetour, FilsFinit, Tuer, varsPere, TypeOK
<1>3. CASE Termine \/ UNCHANGED vars
  BY <1>3 DEF Termine, vars, varsPere, varsFils
<1> QED
  BY <1>1, <1>2, <1>3 DEF Next

-----------------------------------------------------------------------------
(* How the father's steps move its progress: only a send and a receive do,  *)
(* each for the rank it addresses.                                          *)
LEMMA Progression ==
  ASSUME TypeOK, PereInv, PereNext, ~ EnvoyerTemperature, ~ RecevoirChar, NEW c \in Lances
  PROVE  (Envoye(c)' <=> Envoye(c)) /\ (Recu(c)' <=> Recu(c))
<1>l. nombreProg1 \in Nat
  BY LancesFils
<1> USE <1>l DEF Envoye, Recu, Servis, Lances, PereInv
<1>0. i \in 0 .. 3
  BY DEF TypeOK
<1>1. CASE PereInit
  BY <1>1 DEF PereInit
<1>2. CASE LancerFils
  BY <1>2 DEF LancerFils
<1>3. CASE SpawnEchoue
  BY <1>3 DEF SpawnEchoue, PereAvorte
<1>4. CASE AccepterFils
  BY <1>4 DEF AccepterFils
<1>6. CASE FinEnvoiTemperature
  BY <1>0, <1>6 DEF FinEnvoiTemperature, EnvoiSuivant
<1>7. CASE EnvoyerRangInvalide
  BY <1>7 DEF EnvoyerRangInvalide, PereAvorte
<1>9. CASE PereFinit
  BY <1>9 DEF PereFinit
<1> QED
  BY <1>1, <1>2, <1>3, <1>4, <1>6, <1>7, <1>9 DEF PereNext

LEMMA ProgressionEnvoi ==
  ASSUME TypeOK, PereInv, EnvoyerTemperature, NEW c \in Lances
  PROVE  /\ Envoye(c)' <=> Envoye(c) \/ c = i
         /\ ~ Envoye(i)
         /\ Recu(c)' <=> Recu(c)
<1>0. i \in 0 .. 3
  BY DEF TypeOK, Servis
<1> QED
  BY <1>0, LancesFils
  DEF Envoye, Recu, Servis, Lances, PereInv, EnvoyerTemperature, EnvoiSuivant

LEMMA ProgressionReception ==
  ASSUME TypeOK, RecevoirChar, NEW c \in Lances
  PROVE  /\ Recu(c)' <=> Recu(c) \/ c = i
         /\ ~ Recu(i)
         /\ Envoye(c)' <=> Envoye(c)
<1>0. i \in 0 .. 3
  BY DEF TypeOK, Servis
<1> QED
  BY <1>0, LancesFils DEF Envoye, Recu, Servis, Lances, RecevoirChar

LEMMA DialogueInvNext ==
  Inv /\ [Next]_vars => \A c \in Lances : DialogueInv(c)'
<1> SUFFICES ASSUME Inv, [Next]_vars, NEW c \in Lances PROVE DialogueInv(c)'
  OBVIOUS
<1>l. Lances' = Lances /\ parent' = parent
  BY LancementFixe DEF Lances
<1>f. c \in Fils
  BY LancesFils DEF Inv
<1> USE <1>l, <1>f
<1> USE DEF DialogueInv, AvantTemperature, AvecTemperature, Repondu
<1>0. TypeOK /\ PereInv /\ SansPereInv /\ \A d \in Lances : DialogueInv(d)
  BY DEF Inv
<1>1. ASSUME PereNext, ~ EnvoyerTemperature, ~ RecevoirChar PROVE DialogueInv(c)'
  <2>1. \A d \in Lances : (Envoye(d)' <=> Envoye(d)) /\ (Recu(d)' <=> Recu(d))
    BY <1>0, <1>1, Progression
  <2>2. UNCHANGED <<temperature, versFils, versPere>>
    BY <1>1 DEF PereNext, PereInit, LancerFils, SpawnEchoue, PereAvorte, AccepterFils,
       FinEnvoiTemperature, EnvoyerRangInvalide, PereFinit, varsFils
  <2>3. CASE LancerFils
    <3>1. ~ Envoye(c) /\ ~ Recu(c)
      BY <2>3 DEF LancerFils, Envoye, Recu
    <3>2. fils'[c] = "lance"
      BY <2>3 DEF LancerFils
    <3>3. parent /\ job # "avorte"
      BY <1>0, <2>3 DEF LancerFils, SansPereInv, PereInv
    <3>4. fils[c] \notin {"envoi", "attente", "finalize", "fin", "tue"}
      BY <1>0, <3>1, <3>3
    <3>5. AvantTemperature(c)
      BY <1>0, <3>4 DEF TypeOK, EtatsFils
    <3> QED
      BY <2>1, <2>2, <3>2, <3>5
  <2>4. CASE ~ LancerFils
    <3>1. fils' = fils /\ (job = "avorte" => job' = "avorte")
      BY <1>1, <2>4 DEF PereNext, PereInit, SpawnEchoue, PereAvorte, AccepterFils,
         FinEnvoiTemperature, EnvoyerRangInvalide, PereFinit, varsFils
    <3> QED
      BY <1>0, <2>1, <2>2, <3>1
  <2> QED
    BY <2>3, <2>4
<1>2. CASE EnvoyerTemperature
  <2>1. \A d \in Lances : /\ Envoye(d)' <=> Envoye(d) \/ d = i
                          /\ Recu(d)' <=> Recu(d)
    BY <1>0, <1>2, ProgressionEnvoi
  <2>2. ~ Envoye(i) /\ i \in Lances
    BY <1>0, <1>2, ProgressionEnvoi DEF EnvoyerTemperature
  <2>3. UNCHANGED <<temperature, fils, versPere, job>>
    BY <1>2 DEF EnvoyerTemperature, varsFils
  <2>4. /\ c # i => versFils'[c] = versFils[c]
        /\ c = i => versFils'[c] = Append(versFils[c], TemperaturePour(c))
    BY <1>0, <1>2, <2>2 DEF EnvoyerTemperature, TypeOK
  <2> QED
    BY <1>0, <2>1, <2>2, <2>3, <2>4
<1>3. CASE RecevoirChar
  <2>1. \A d \in Lances : /\ Recu(d)' <=> Recu(d) \/ d = i
                          /\ Envoye(d)' <=> Envoye(d)
    BY <1>0, <1>3, ProgressionReception
  <2>2. ~ Recu(i) /\ i \in Lances /\ versPere[i] # <<>>
    BY <1>0, <1>3, ProgressionReception DEF RecevoirChar
  <2>3. UNCHANGED <<temperature, fils, versFils, job>>
    BY <1>3 DEF RecevoirChar, varsFils
  <2>4. /\ c # i => versPere'[c] = versPere[c]
        /\ c = i => versPere'[c] = Tail(versPere[c])
    BY <1>0, <1>3, <2>2 DEF RecevoirChar, TypeOK
  <2>5. CASE c # i
    BY <1>0, <2>1, <2>3, <2>4, <2>5
  <2>6. CASE c = i
    <3>1. parent
      BY <1>0, <1>3 DEF SansPereInv, RecevoirChar
    <3>2. fils[c] \in {"attente", "finalize", "fin", "tue"}
      BY <1>0, <2>2, <2>6 DEF TypeOK, EtatsFils
    <3>3. CASE fils[c] = "tue"
      BY <1>0, <2>3, <3>3
    <3>4. CASE fils[c] # "tue"
      <4>1. PICK m \in Retours : versPere[c] = <<m>>
        BY <1>0, <2>2, <2>6, <3>1, <3>2, <3>4
      <4>2. versPere'[c] = <<>>
        BY <2>4, <2>6, <4>1
      <4> QED
        BY <1>0, <2>1, <2>3, <2>6, <3>1, <3>2, <3>4, <4>2
    <3> QED
      BY <3>3, <3>4
  <2> QED
    BY <2>5, <2>6
<1>4. ASSUME NEW d \in Fils, FilsNext(d) PROVE DialogueInv(c)'
  <2>1. UNCHANGED job /\ \A e \in Lances : UNCHANGED <<Envoye(e), Recu(e)>>
    BY <1>4 DEF FilsNext, EntrerInit, SortirInit, RecevoirTemperature, EnvoyerRetour,
       FinEnvoiRetour, FilsFinit, Tuer, varsPere, Envoye, Recu
  <2>2. CASE EntrerInit(d)
    BY <1>0, <2>1, <2>2 DEF EntrerInit, TypeOK
  <2>3. CASE SortirInit(d)
    BY <1>0, <2>1, <2>3 DEF SortirInit, TypeOK
  <2>4. CASE RecevoirTemperature(d)
    <3>1. d \in Fils /\ Lances \subseteq Fils /\ TemperaturePour(d) # Indetermine
      BY <1>4, LancesFils, IndetermineAssumption
      DEF Inv, TemperaturePour, TemperatureAmbiante, TemperatureDepart
    <3>2. \A e \in Lances : e # d => temperature'[e] = temperature[e]
      BY <1>0, <2>4, <3>1 DEF RecevoirTemperature, TypeOK
    <3>3. CASE c # d
      <4>1. UNCHANGED <<fils[c], versFils[c], versPere[c], temperature[c]>>
        BY <1>0, <2>4, <3>1, <3>3 DEF RecevoirTemperature, TypeOK
      <4>2. parent /\ fils[c] = "fin" => \A e \in Lances : temperature'[e] = temperature[e]
        BY <1>0, <2>4, <3>1, <3>2 DEF RecevoirTemperature
      <4> QED
        BY <1>0, <2>1, <3>3, <4>1, <4>2
    <3>4. CASE c = d
      <4>1. AvantTemperature(c) /\ Envoye(c) /\ versFils[c] = <<TemperaturePour(c)>>
        BY <1>0, <2>4, <3>4 DEF RecevoirTemperature
      <4>2. /\ fils'[c] = "envoi"
            /\ temperature'[c] = TemperaturePour(c)
            /\ versFils'[c] = <<>>
            /\ versPere'[c] = <<>>
        BY <1>0, <2>4, <3>4, <4>1 DEF RecevoirTemperature, TypeOK
      <4> QED
        BY <2>1, <4>1, <4>2
    <3> QED
      BY <3>3, <3>4
  <2>5. CASE EnvoyerRetour(d)
    <3>1. PICK r \in {temperature[d], Indetermine} :
            versPere' = [versPere EXCEPT ![d] = Append(@, [octet |-> 1, reste |-> r])]
      BY <2>5 DEF EnvoyerRetour
    <3>2. [octet |-> 1, reste |-> r] \in Retours
      BY <1>0 DEF Retours, TypeOK
    <3>3. /\ c # d => versPere'[c] = versPere[c] /\ fils'[c] = fils[c]
          /\ c = d => /\ versPere'[c] = Append(versPere[c], [octet |-> 1, reste |-> r])
                      /\ fils'[c] \in {"attente", "finalize"}
      BY <1>0, <2>5, <3>1 DEF EnvoyerRetour, TypeOK
    <3>4. UNCHANGED <<versFils, temperature>> /\ fils[d] = "envoi"
      BY <2>5 DEF EnvoyerRetour
    <3>5. CASE c # d
      BY <1>0, <2>1, <3>3, <3>4, <3>5
    <3>6. CASE c = d
      <4>1. AvecTemperature(c) /\ ~ Recu(c) /\ versPere[c] = <<>>
        BY <1>0, <3>4, <3>6
      <4>2. versPere'[c] = <<[octet |-> 1, reste |-> r]>>
        BY <3>3, <3>6, <4>1
      <4> QED
        BY <2>1, <3>2, <3>3, <3>4, <3>6, <4>1, <4>2
    <3> QED
      BY <3>5, <3>6
  <2>6. CASE FinEnvoiRetour(d)
    BY <1>0, <2>1, <2>6 DEF FinEnvoiRetour, TypeOK
  <2>7. CASE FilsFinit(d)
    BY <1>0, <2>1, <2>7 DEF FilsFinit, TypeOK
  <2>8. CASE Tuer(d)
    BY <1>0, <2>1, <2>8 DEF Tuer, TypeOK
  <2> QED
    BY <1>4, <2>2, <2>3, <2>4, <2>5, <2>6, <2>7, <2>8 DEF FilsNext
<1>5. CASE Termine \/ UNCHANGED vars
  BY <1>0, <1>5 DEF Termine, vars, varsPere, varsFils, Envoye, Recu
<1> QED
  BY <1>1, <1>2, <1>3, <1>4, <1>5 DEF Next

-----------------------------------------------------------------------------
(* Inv is inductive and holds of every reachable state.                     *)
THEOREM InvTheorem == Spec => []Inv
<1>1. Inv /\ [Next]_vars => Inv'
  BY TypeNext, PereInvNext, SansPereInvNext, DialogueInvNext, LancementFixe DEF Inv, Lances
<1> QED
  BY InvInit, <1>1, PTL DEF Spec

(* The variables of the father and of the children keep their types.        *)
THEOREM TypeTheorem == Spec => []TypeOK
<1>1. Inv => TypeOK
  BY DEF Inv
<1> QED
  BY <1>1, InvTheorem, PTL

(* "Tous les chars ont été recus" is said when nothing is left between the  *)
(* father and the ranks it serves (jalon1.c:58-62).                         *)
THEOREM ToutRecuTheorem == Spec => []ToutRecuAvantFin
<1>1. ASSUME Inv, pere \in {"finalize", "fin"}, NEW c \in Servis
      PROVE  /\ c \in Lances
             /\ fils[c] \in {"attente", "finalize", "fin"}
             /\ temperature[c] = TemperaturePour(c)
             /\ versFils[c] = <<>>
             /\ versPere[c] = <<>>
  <2>1. c \in Lances
    BY <1>1, LancesFils DEF Inv, PereInv, Servis, Lances
  <2>2. Recu(c) /\ DialogueInv(c) /\ parent /\ job # "avorte" /\ fils[c] \in EtatsFils
    BY <1>1, <2>1, LancesFils DEF Inv, TypeOK, PereInv, SansPereInv, Recu
  <2>3. fils[c] \in {"attente", "finalize", "fin"}
    BY <2>2 DEF DialogueInv, AvantTemperature, EtatsFils
  <2> QED
    BY <2>1, <2>2, <2>3 DEF DialogueInv, Repondu, AvecTemperature
<1>2. Inv => ToutRecuAvantFin
  BY <1>1 DEF ToutRecuAvantFin
<1> QED
  BY <1>2, InvTheorem, PTL

(* The fence of MPI_Finalize holds every spawned child until each has had   *)
(* its temperature, so with more than three prg1 no child ever leaves it.   *)
THEOREM SortieGroupeeTheorem == Spec => []SortieGroupee
<1>1. ASSUME Inv, NEW c \in Lances, parent, fils[c] = "fin"
      PROVE  nombreProg1 <= 3 /\ \A d \in Lances : temperature[d] = TemperaturePour(d)
  <2>1. \A d \in Lances : Envoye(d) /\ temperature[d] = TemperaturePour(d)
    BY <1>1 DEF Inv, DialogueInv
  <2>2. nombreProg1 \in Servis
    BY <1>1, <2>1, LancesFils DEF Inv, Envoye, Lances
  <2> QED
    BY <2>1, <2>2 DEF Servis
<1>2. Inv => SortieGroupee
  BY <1>1 DEF SortieGroupee
<1> QED
  BY <1>2, InvTheorem, PTL

(* An abort is one of the two errors the arguments allow.                   *)
THEOREM AvortExpliqueTheorem == Spec => []AvortExplique
<1>1. Inv => AvortExplique
  BY DEF Inv, PereInv, AvortExplique
<1> QED
  BY <1>1, InvTheorem, PTL

=============================================================================
