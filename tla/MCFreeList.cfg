CONSTANTS
    Threads = {t1, t2, t3}
    Personne = Personne
    MaxToAlloc = 3
    NumPerAlloc = 2
    TailleElem = 3
    TaillePage = 8
    SizeMod = 64
    Echecs = TRUE
    MaxAppels = 3
SPECIFICATION FairSpec
INVARIANT BorneAllocation
PROPERTIES PasDeBlocage
CHECK_DEADLOCK FALSE
