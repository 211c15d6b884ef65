SPECIFICATION FairSpec
CONSTANTS
    MaxProg1 = 4
    Slots = {5, 8}
    Indetermine = Indetermine
INVARIANT TypeOK
INVARIANT ToutRecuAvantFin
INVARIANT SortieGroupee
INVARIANT AvortExplique
PROPERTY Terminaison
CHECK_DEADLOCK FALSE
