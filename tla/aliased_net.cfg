SPECIFICATION Spec
CONSTANTS
    Clock = "clk"
    Sizes <- MCSmallSizes
    used_vars <- MCAliased
    Written <- MCWritten
    MaxCommands = 4
INVARIANTS
    EveryNetHasItsValue
CHECK_DEADLOCK FALSE
