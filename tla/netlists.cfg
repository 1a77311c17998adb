SPECIFICATION EvalSpec
CONSTANT Designs <- MCAllDesigns
INVARIANTS
    TypeOK
    DepsAreReachability
    LoopsExact
    OneClock
    SharingsComplete
    RandomsNumbered
    EvalTypeOK
    NoOtherPanic
    EverythingEvaluated
    CheckedOnce
    IdsNameInstances
PROPERTIES
    ImplementsFlat
    Completes
CHECK_DEADLOCK FALSE
