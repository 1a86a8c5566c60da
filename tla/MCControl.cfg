SPECIFICATION ControlSpec
CONSTANTS
    Workspaces = {u1, u2}
    MaxHead = 2
    MaxLoads = 2
    MaxActs = 2
    MaxFaults = 0
SYMMETRY Symmetry
INVARIANTS
    ControlFollowsChoice
    RepliesBelong
    SubmittedOnce
    PullsAsConfirmed
CHECK_DEADLOCK FALSE
