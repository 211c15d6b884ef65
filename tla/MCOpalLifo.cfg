CONSTANTS
    Items = {x1, x2, x3}
    Threads = {t1, t2}
    Lifo = Lifo
    Ghost = Ghost
    NULL = NULL
    MaxPops = 3
SPECIFICATION FairSpec
INVARIANTS TypeOK Chaine
PROPERTIES PileSpec NullSiVide OperationsFinies
CHECK_DEADLOCK FALSE
