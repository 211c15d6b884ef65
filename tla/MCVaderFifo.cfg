CONSTANTS
    p1 = p1
    p2 = p2
    p3 = p3
    f1 = f1
    f2 = f2
    f3 = f3
    Procs = {p1, p2, p3}
    Frags = {f1, f2, f3}
    Owner <- OwnerDeux
    Fifo = Fifo
    FREE = FREE
SPECIFICATION FairSpec
INVARIANTS Chaine UnSeulEndroit
PROPERTIES BoitesSpec FragmentRevient
