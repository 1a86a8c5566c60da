CONSTANTS
    Calls = {c1, c2}
    Procs = {1, 2}
    Configs = {1, 2}
    MaxTurns = 2
    MaxCalls = 4
    MaxFaults = 2
SYMMETRY Symmetry
SPECIFICATION Spec
INVARIANT PromptFindsItsThread
CHECK_DEADLOCK FALSE
