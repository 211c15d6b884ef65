------------------------------- MODULE Jalon -------------------------------
(***************************************************************************)
(* The program of example/: the father (jalon1.c) spawns one coordinateur  *)
(* and argv[1] prg1 processes in one intercommunicator, sends each rank it *)
(* knows of a temperature, waits for a char of each, and ends.             *)
(* A child (coordinateur.c, prg1.c) receives its temperature, answers and  *)
(* ends; started without a father (also prg2.c) it goes straight to the    *)
(* end.  What MPI contributes is what Open MPI 3.1.2 (openmpi-3.1.2/)      *)
(* does in the calls the program makes: the collective connect inside      *)
(* MPI_Init, the rank check and the fatal error handler of MPI_Send, the   *)
(* fence of MPI_Finalize.                                                  *)
(***************************************************************************)
EXTENDS Integers, Sequences

CONSTANTS
    MaxProg1,      \* bound: the largest argv[1]
    Slots,         \* the numbers of slots a hostfile may give the job
    Indetermine    \* the value of bytes nobody wrote

ASSUME MaxProg1Assumption == MaxProg1 \in Nat \ {0}
ASSUME SlotsAssumption == Slots \subseteq Nat
ASSUME IndetermineAssumption == Indetermine \notin Int

Fils == 0 .. MaxProg1          \* the ranks children may have
Servis == 0 .. 3               \* the ranks the loops of jalon1.c go through

TemperatureAmbiante == 20
TemperatureDepart == 18
TemperaturePour(c) == IF c = 0 THEN TemperatureAmbiante ELSE TemperatureDepart

VARIABLES
    nombreProg1,   \* argv[1] of jalon1: how many prg1 are spawned
    slots,         \* the slots of the hostfile
    pere,          \* where the father is
    i,             \* the rank its current loop is at
    nombre,        \* its variable nombre
    return_value,  \* its variable return_value
    parent,        \* TRUE when the children were spawned, FALSE under mpirun
    fils,          \* where each child is
    temperature,   \* each child's variable temperature
    versFils,      \* the messages on their way to each child
    versPere,      \* the messages on their way to the father, by source rank
    job            \* "ok", or "avorte" once MPI_ERRORS_ARE_FATAL has struck

varsLancement == <<nombreProg1, slots, parent>>
varsPere == <<pere, i, nombre, return_value>>
varsFils == <<fils, temperature>>
vars == <<varsLancement, varsPere, varsFils, versFils, versPere, job>>

Lances == 0 .. nombreProg1     \* the ranks of the remote group of intercomm

Temperatures == {TemperatureAmbiante, TemperatureDepart}

(* MPI_Send(&return_value, 1, MPI_INT, ...) reads the char and three more   *)
(* bytes.                                                                   *)
Retours == [octet : {1}, reste : Temperatures \cup {Indetermine}]

EtatsPere == {"absent", "init", "spawn", "accept", "envoi", "attente",
              "reception", "finalize", "fin", "tue"}
EtatsFils == {"absent", "lance", "connecte", "reception", "envoi", "attente",
              "finalize", "fin", "tue"}

-----------------------------------------------------------------------------
(* make.sh starts the father alone, and the children wait for its spawn; or *)
(* mpirun starts the children themselves, and there is no father.           *)
Init ==
    /\ nombreProg1 \in 1 .. MaxProg1
    /\ slots \in Slots
    /\ parent \in BOOLEAN
    /\ pere = IF parent THEN "init" ELSE "absent"
    /\ fils = [c \in Fils |-> IF ~ parent /\ c \in Lances THEN "lance" ELSE "absent"]
    /\ i = 0
    /\ nombre = Indetermine
    /\ return_value = 1
    /\ temperature = [c \in Fils |-> Indetermine]
    /\ versFils = [c \in Fils |-> <<>>]
    /\ versPere = [c \in Fils |-> <<>>]
    /\ job = "ok"

(* An error MPI_ERRORS_ARE_FATAL handles: the caller is gone at once, the   *)
(* others as soon as the daemons reach them.                                *)
PereAvorte ==
    /\ job' = "avorte"
    /\ pere' = "tue"
    /\ UNCHANGED <<i, nombre, return_value, varsLancement, varsFils, versFils, versPere>>

-----------------------------------------------------------------------------
PereInit ==
    /\ pere = "init"
    /\ pere' = "spawn"
    /\ nombre' = 1
    /\ UNCHANGED <<i, return_value, varsLancement, varsFils, versFils, versPere, job>>

(* The mapper needs a slot for the father and for each child.               *)
SlotsSuffisants == nombreProg1 + 2 <= slots

LancerFils ==
    /\ pere = "spawn"
    /\ SlotsSuffisants
    /\ pere' = "accept"
    /\ fils' = [c \in Fils |-> IF c \in Lances THEN "lance" ELSE "absent"]
    /\ UNCHANGED <<i, nombre, return_value, varsLancement, temperature, versFils, versPere, job>>

SpawnEchoue ==
    /\ pere = "spawn"
    /\ ~ SlotsSuffisants
    /\ PereAvorte

(* MPI_Init is collective over the children, and with a father over the     *)
(* children and MPI_Comm_spawn_multiple.                                    *)
TousConnectes == \A c \in Lances : fils[c] \notin {"absent", "lance"}

AccepterFils ==
    /\ pere = "accept"
    /\ TousConnectes
    /\ pere' = "envoi"
    /\ i' = 0
    /\ UNCHANGED <<nombre, return_value, varsLancement, varsFils, versFils, versPere, job>>

(* Variants of definitions whose names end in a quality, such as DepuisUn,  *)
(* are the ones with a plausible slip, which the properties must tell apart *)
(* from the code; no specification uses them.                               *)
EnvoiSuivantDepuisUn ==
    IF i = 3 THEN pere' = "reception" /\ i' = 1
             ELSE pere' = "envoi" /\ i' = i + 1

(* The next turn of the sending loop, or the start of the receiving one.    *)
EnvoiSuivant ==
    IF i = 3 THEN pere' = "reception" /\ i' = 0
             ELSE pere' = "envoi" /\ i' = i + 1

(* A standard-mode send may return at once or when it is matched: the       *)
(* library chooses, for each send.                                          *)
EnvoyerTemperature ==
    /\ pere = "envoi"
    /\ i \in Lances
    /\ versFils' = [versFils EXCEPT ![i] = Append(@, TemperaturePour(i))]
    /\ EnvoiSuivant \/ (pere' = "attente" /\ i' = i)
    /\ UNCHANGED <<nombre, return_value, varsLancement, varsFils, versPere, job>>

FinEnvoiTemperature ==
    /\ pere = "attente"
    /\ versFils[i] = <<>>
    /\ EnvoiSuivant
    /\ UNCHANGED <<nombre, return_value, varsLancement, varsFils, versFils, versPere, job>>

EnvoyerRangInvalideSansCoordinateur ==
    /\ pere = "envoi"
    /\ i >= nombreProg1
    /\ PereAvorte

(* ompi_comm_peer_invalid: MPI_ERR_RANK.                                    *)
EnvoyerRangInvalide ==
    /\ pere = "envoi"
    /\ i \notin Lances
    /\ PereAvorte

(* MPI_Recv of one MPI_INT into the char return_value: the bytes after it   *)
(* are those of nombre when the compiler puts nombre there (as in the       *)
(* shipped jalon1), or padding.  MPI_Recv checks the rank as MPI_Send does; *)
(* the sends have gone through the same ranks before, so it never fails.    *)
RecevoirChar ==
    /\ pere = "reception"
    /\ i \in Lances
    /\ versPere[i] # <<>>
    /\ return_value' = Head(versPere[i]).octet
    /\ nombre' \in {nombre, Head(versPere[i]).reste}
    /\ versPere' = [versPere EXCEPT ![i] = Tail(@)]
    /\ IF i = 3 THEN pere' = "finalize" /\ i' = i
                ELSE pere' = "reception" /\ i' = i + 1
    /\ UNCHANGED <<varsLancement, varsFils, versFils, job>>

(* The fence of MPI_Finalize spans the caller's own MPI_COMM_WORLD: the     *)
(* father is alone in its own.                                              *)
PereFinit ==
    /\ pere = "finalize"
    /\ pere' = "fin"
    /\ UNCHANGED <<i, nombre, return_value, varsLancement, varsFils, versFils, versPere, job>>

-----------------------------------------------------------------------------
EntrerInit(c) ==
    /\ fils[c] = "lance"
    /\ fils' = [fils EXCEPT ![c] = "connecte"]
    /\ UNCHANGED <<varsPere, varsLancement, temperature, versFils, versPere, job>>

SortirInit(c) ==
    /\ fils[c] = "connecte"
    /\ TousConnectes
    /\ fils' = [fils EXCEPT ![c] = IF parent THEN "reception" ELSE "finalize"]
    /\ UNCHANGED <<varsPere, varsLancement, temperature, versFils, versPere, job>>

RecevoirTemperature(c) ==
    /\ fils[c] = "reception"
    /\ versFils[c] # <<>>
    /\ temperature' = [temperature EXCEPT ![c] = Head(versFils[c])]
    /\ versFils' = [versFils EXCEPT ![c] = Tail(@)]
    /\ fils' = [fils EXCEPT ![c] = "envoi"]
    /\ UNCHANGED <<varsPere, varsLancement, versPere, job>>

EnvoyerRetourCompteur(c) ==
    /\ fils[c] = "envoi"
    /\ versPere' = [versPere EXCEPT ![c] = Append(@, [octet |-> temperature[c], reste |-> 0])]
    /\ \E suite \in {"finalize", "attente"} : fils' = [fils EXCEPT ![c] = suite]
    /\ UNCHANGED <<varsPere, varsLancement, temperature, versFils, job>>

(* One MPI_INT read from the char return_value: the three bytes after it    *)
(* are those of temperature in the shipped programs, or padding.  As above, *)
(* the send may return at once or wait.                                     *)
EnvoyerRetour(c) ==
    /\ fils[c] = "envoi"
    /\ \E r \in {temperature[c], Indetermine} :
         versPere' = [versPere EXCEPT ![c] = Append(@, [octet |-> 1, reste |-> r])]
    /\ \E suite \in {"finalize", "attente"} : fils' = [fils EXCEPT ![c] = suite]
    /\ UNCHANGED <<varsPere, varsLancement, temperature, versFils, job>>

FinEnvoiRetour(c) ==
    /\ fils[c] = "attente"
    /\ versPere[c] = <<>>
    /\ fils' = [fils EXCEPT ![c] = "finalize"]
    /\ UNCHANGED <<varsPere, varsLancement, temperature, versFils, versPere, job>>

FilsFinitSeul(c) ==
    /\ fils[c] = "finalize"
    /\ fils' = [fils EXCEPT ![c] = "fin"]
    /\ UNCHANGED <<varsPere, varsLancement, temperature, versFils, versPere, job>>

(* The fence of MPI_Finalize over the children's MPI_COMM_WORLD.            *)
FilsFinit(c) ==
    /\ fils[c] = "finalize"
    /\ \A d \in Lances : fils[d] \in {"finalize", "fin"}
    /\ fils' = [fils EXCEPT ![c] = "fin"]
    /\ UNCHANGED <<varsPere, varsLancement, temperature, versFils, versPere, job>>

TuerSaufEnAttente(c) ==
    /\ job = "avorte"
    /\ fils[c] \notin {"absent", "attente", "fin", "tue"}
    /\ fils' = [fils EXCEPT ![c] = "tue"]
    /\ UNCHANGED <<varsPere, varsLancement, temperature, versFils, versPere, job>>

(* The daemons kill what is left of an aborted job.                         *)
Tuer(c) ==
    /\ job = "avorte"
    /\ fils[c] \notin {"absent", "fin", "tue"}
    /\ fils' = [fils EXCEPT ![c] = "tue"]
    /\ UNCHANGED <<varsPere, varsLancement, temperature, versFils, versPere, job>>

-----------------------------------------------------------------------------
PereNext ==
    \/ PereInit
    \/ LancerFils
    \/ SpawnEchoue
    \/ AccepterFils
    \/ EnvoyerTemperature
    \/ FinEnvoiTemperature
    \/ EnvoyerRangInvalide
    \/ RecevoirChar
    \/ PereFinit

FilsNext(c) ==
    \/ EntrerInit(c)
    \/ SortirInit(c)
    \/ RecevoirTemperature(c)
    \/ EnvoyerRetour(c)
    \/ FinEnvoiRetour(c)
    \/ FilsFinit(c)
    \/ Tuer(c)

PereParti == pere \in {"absent", "fin", "tue"}
FilsParti(c) == fils[c] \in {"absent", "fin", "tue"}
ToutLeMondeParti == PereParti /\ \A c \in Lances : FilsParti(c)

Termine == ToutLeMondeParti /\ UNCHANGED vars

Next == PereNext \/ (\E c \in Fils : FilsNext(c)) \/ Termine

Spec == Init /\ [][Next]_vars

(* The operating system runs every process, a blocking MPI call makes       *)
(* progress while it waits, and the daemons of an aborted job finish it.    *)
FairSpec == Spec /\ WF_vars(PereNext) /\ \A c \in Fils : WF_vars(FilsNext(c))

-----------------------------------------------------------------------------
(* The variables' types; return_value never holds anything but the char 1   *)
(* although four bytes are received into it.                                *)
TypeOK ==
    /\ nombreProg1 \in 1 .. MaxProg1
    /\ slots \in Slots
    /\ pere \in EtatsPere
    /\ i \in Servis
    /\ nombre \in {1, Indetermine} \cup Temperatures
    /\ return_value = 1
    /\ parent \in BOOLEAN
    /\ fils \in [Fils -> EtatsFils]
    /\ temperature \in [Fils -> Temperatures \cup {Indetermine}]
    /\ versFils \in [Fils -> Seq(Temperatures)]
    /\ versPere \in [Fils -> Seq(Retours)]
    /\ job \in {"ok", "avorte"}

(* When the father says "Tous les chars ont été recus" (jalon1.c:62) every  *)
(* rank of its loops exists, has received its own temperature and has its   *)
(* answer behind it, and nothing between them is still under way.           *)
ToutRecuAvantFin ==
    pere \in {"finalize", "fin"} =>
        \A c \in Servis :
            /\ c \in Lances
            /\ fils[c] \in {"attente", "finalize", "fin"}
            /\ temperature[c] = TemperaturePour(c)
            /\ versFils[c] = <<>>
            /\ versPere[c] = <<>>

(* A spawned child leaves MPI_Finalize only when each of the children has   *)
(* had its temperature: with more children than jalon1.c serves, none does. *)
SortieGroupee ==
    \A c \in Lances : parent /\ fils[c] = "fin" =>
        /\ nombreProg1 <= 3
        /\ \A d \in Lances : temperature[d] = TemperaturePour(d)

(* The job is aborted only for the two errors the call sequence can make:   *)
(* too few slots, or a loop of jalon1.c going past the last rank; and then  *)
(* before the father has received anything.                                 *)
AvortExplique ==
    job = "avorte" =>
        /\ nombreProg1 < 3 \/ ~ SlotsSuffisants
        /\ nombre = 1
        /\ pere = "tue"

(* Every process of the job ends, aborted or not, unless the father leaves  *)
(* children unserved (jalon1.c:47-58); and he ends in any case: the fence   *)
(* of his MPI_Finalize (jalon1.c:63) does not wait for the children.        *)
Terminaison ==
    /\ (nombreProg1 <= 3 \/ ~ SlotsSuffisants) => <>ToutLeMondeParti
    /\ <>PereParti
=============================================================================
