CONSTANTS
    Clients = {c1, c2}
    Main = main
    Branches = {f1, f2}
    IssueNumbers = {n1, n2}
    Nobody = Nobody
    MaxEdits = 1
    MaxCuts = 1
SPECIFICATION Spec
SYMMETRY Symmetric
INVARIANT
    DeliveryClaims
CHECK_DEADLOCK FALSE
