SPECIFICATION AuditSpec
CONSTANTS
    Netlists <- MCNetlists
    Ports = {0, 1}
    NGadgets = 2
    NCycles = 4
    ControlValues = {0, 1}
    DataValues <- Unknown
    GadgetValues <- Unknown
    NoCheckTransitions = FALSE
INVARIANTS
    TypeOK
    RandomsTracked
    FreshRandomness
    BubbleSound
    DepsExact
    ConsistentStates
    GlitchConeExact
    NoShareMixing
    AnnotationsCover
CHECK_DEADLOCK FALSE
