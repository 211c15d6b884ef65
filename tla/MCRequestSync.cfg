SPECIFICATION FairSpec
CONSTANTS
    N = 3
    Erreurs = TRUE
INVARIANT PasDePointeurMort
INVARIANT RenduComplet
INVARIANT SyncVivantAll
PROPERTY RetourSansErreur
CHECK_DEADLOCK FALSE
