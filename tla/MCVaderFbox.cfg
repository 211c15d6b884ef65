CONSTANTS
    a = a
    b = b
    progres = progres
    Fils = {a, b}
    Taille = 8
    Modulo = 8
    PollCount = 2
    Modes <- ModesSuivis
SPECIFICATION FairSpecFbox
INVARIANTS Integrite DesordreAuMontage AttenteInscrite
PROPERTIES CanalSpec LeurreDansLaFenetre ToutRecu
CHECK_DEADLOCK FALSE
