SPECIFICATION CodexSpec
CONSTANTS
    Calls = {x1, x2}
    Procs = {1, 2}
    Configs = {1, 2}
    MaxTurns = 2
    MaxCalls = 3
    MaxFaults = 2
    Runs = {r1, r2}
    Threads = {t1, t2}
    Hosts = {h1, h2}
    Null = Null
SYMMETRY Symmetry
INVARIANTS
    TurnOwnsItsThread
    StoreConverges
    NobodyWaitsInVain
    TurnIsAsAsked
CHECK_DEADLOCK FALSE
