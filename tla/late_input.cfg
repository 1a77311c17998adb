SPECIFICATION AuditSpec
CONSTANTS
    Netlists <- MCLateInput
    Ports = {0}
    NGadgets = 1
    NCycles = 4
    ControlValues = {0, 1}
    DataValues <- Unknown
    GadgetValues <- Unknown
    NoCheckTransitions = FALSE
INVARIANT
    InputsSetFirst
CHECK_DEADLOCK FALSE
