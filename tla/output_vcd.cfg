SPECIFICATION Spec
CONSTANTS
    NGadgets = 0
    nshares = 2
    Netnames <- MCNetnames
    Cells <- MCCells
    TopModule = "Top"
    ModuleStates <- MCModuleStates
    NCycles = 3
    CountBits = 3
INVARIANTS
    TypeOK
    RoundTrip
PROPERTIES
    Terminates
CHECK_DEADLOCK FALSE
