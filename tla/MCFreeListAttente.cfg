CONSTANTS
    Threads = {t1, t2}
    Personne = Personne
    MaxToAlloc = 1
    NumPerAlloc = 1
    TailleElem = 0
    TaillePage = 8
    SizeMod = 64
    Echecs = FALSE
    MaxAppels = 4
SPECIFICATION FairSpec
PROPERTIES AttenteFinie
CHECK_DEADLOCK FALSE
