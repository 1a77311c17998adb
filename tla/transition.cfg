SPECIFICATION AuditSpec
CONSTANTS
    Netlists <- MCSelectShare
    Ports = {0}
    NGadgets = 1
    NCycles = 4
    ControlValues = {0, 1}
    DataValues <- Unknown
    GadgetValues <- Unknown
    NoCheckTransitions = FALSE
INVARIANT
    TransitionChecked
CHECK_DEADLOCK FALSE
