CONSTANTS
    Modulo = 8
    NbSources = 2
    Tags <- TagsEnvoyes
    TagsDemandes <- TagsVoulus
    AnySource <- RienDePrecis
    AnyTag <- RienDePrecis
    Modes <- ModesRoulement
SPECIFICATION Spec
INVARIANT AucunOubli
CHECK_DEADLOCK FALSE
