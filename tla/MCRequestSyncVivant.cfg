SPECIFICATION Spec
CONSTANTS
    N = 3
    Erreurs = FALSE
INVARIANT SyncVivant
