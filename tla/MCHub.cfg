SPECIFICATION HubSpec
CONSTANTS
    Calls = {"c1", "c2"}
    Tokens = {"t1", "t2"}
    MaxCalls = 3
    MaxFaults = 1
    Null = Null
INVARIANTS
    RegistryIsFollowed
    TurnsGetSafeSkills
    ChallengeIsKept
    RouteIsAccounted
CHECK_DEADLOCK FALSE
