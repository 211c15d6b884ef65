CONSTANTS
    p1 = p1
    p2 = p2
    p3 = p3
    r1 = r1
    r2 = r2
    r3 = r3
    Procs = {p1, p2, p3}
    Reqs = {r1, r2, r3}
    MaxCid = 10
    Infini = 99
    Modes <- ModesSuivis
SPECIFICATION FairSpec
INVARIANTS Accord PasDeFuite
PROPERTIES AttributionSpec Terminaison
CHECK_DEADLOCK FALSE
