CONSTANTS
    Modulo = 8
    NbSources = 2
    Tags <- TagsEnvoyes
    TagsDemandes <- TagsVoulus
    AnySource <- RienDePrecis
    AnyTag <- RienDePrecis
    Modes <- ModesSuivis
SPECIFICATION Spec
INVARIANTS SansCroisement PasDeCoupleManque AucunOubli UnSeulEndroit
PROPERTIES  AppariementSpec
CHECK_DEADLOCK FALSE
