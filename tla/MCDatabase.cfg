SPECIFICATION MCSpec
CONSTANTS
    p = p
    q = q
    Instances <- TwoProcesses
    LeaseIds = {l1, l2, l3}
    NoOne = NoOne
    NoLease = NoLease
    TTL = 3
    Renewal = 1
    Timely = FALSE
    NumEvents = 2
    MaxAttempts = 2
    BaseDelay = 2
    MaxDelay = 3
    Configured = {"on", "off"}
    MaxStarts = 3
    MaxRetries = 0
    DbErrors = TRUE
INVARIANTS
    LeaseSafety
    TimelyLeaseSafety
    OutboxSafety
    AloneSafety
PROPERTIES
    LeaseActions
    AbandonedBecomesFree
    EndsForGood
CHECK_DEADLOCK FALSE
