SPECIFICATION TwinSpec
CONSTANTS
    Netlists <- MCTwinNets
    Ports = {0}
    NGadgets = 0
    NCycles = 2
    ControlValues <- Traced
    DataValues <- Partly
    GadgetValues = {}
    NoCheckTransitions = FALSE
INVARIANTS
    TwinTypeOK
    ValueSound
    DeterministicSound
    SensitivitySound
    RandomExact
CHECK_DEADLOCK FALSE
