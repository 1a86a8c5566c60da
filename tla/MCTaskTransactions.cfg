SPECIFICATION MCSpec
CONSTANTS
    i1 = i1
    i2 = i2
    p1 = p1
    p2 = p2
    f1 = f1
    f2 = f2
    h1 = h1
    h2 = h2
    Instances <- TwoProcesses
    LeaseIds = {l1, l2}
    NoOne = NoOne
    NoLease = NoLease
    TTL = 2
    Renewal = 1
    Timely = FALSE
    Tasks = {t1}
    Proposals <- TwoProposals
    Paths <- TwoFiles
    PathOf <- SamePath
    Heads = {h1}
    FirstHead = h1
    NoTask = NoTask
    NoProposal = NoProposal
    MaxEdits = 1
INVARIANTS
    TasksAgree
    OneAgrees
    LeaseGivenBack
PROPERTIES
    ReviewedContentOnly
CHECK_DEADLOCK FALSE
