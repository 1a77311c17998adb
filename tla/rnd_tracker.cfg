SPECIFICATION TrackerSpec
CONSTANTS
    NCycles = 4
    MaxFreshUses = 1
    MaxLeaks = 2
INVARIANTS
    TypeOK
    HeldIsTracked
    WindowFaithful
    NoBadForgotten
PROPERTIES
    FrontIsHeld
    ImplementsLedger
CHECK_DEADLOCK FALSE
