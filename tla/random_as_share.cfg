SPECIFICATION AuditSpec
CONSTANTS
    Netlists <- MCRandomAsShare
    Ports = {0}
    NGadgets = 2
    NCycles = 4
    ControlValues = {0, 1}
    DataValues <- Unknown
    GadgetValues <- Unknown
    NoCheckTransitions = FALSE
INVARIANT
    FreshForOneOnly
CHECK_DEADLOCK FALSE
