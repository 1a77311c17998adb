SPECIFICATION Spec
CONSTANTS
    Clock = "clk"
    Sizes <- MCSizes
    used_vars <- MCVars
    Written <- MCWritten
    MaxCommands = 6
INVARIANTS
    TypeOK
    SampledBeforeEdge
CHECK_DEADLOCK FALSE
