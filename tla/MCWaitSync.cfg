SPECIFICATION FairSpec
CONSTANTS
    Threads = {t1, t2, t3}
    Externes = {e1}
    Personne = Personne
INVARIANT ProgresEnTete
INVARIANT PasDeReveilPerdu
INVARIANT SyncVivant
PROPERTY Retour
