SPECIFICATION AuditSpec
CONSTANTS
    Netlists <- MCFeedback
    Ports = {0}
    NGadgets = 1
    NCycles = 4
    ControlValues = {0, 1}
    DataValues <- Unknown
    GadgetValues <- Unknown
    NoCheckTransitions = FALSE
PROPERTY
    BubbleReported
CHECK_DEADLOCK FALSE
