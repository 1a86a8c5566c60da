CONSTANTS
    Clients = {c1}
    Main = main
    Branches = {f1}
    IssueNumbers = {n1, n2, n3}
    Nobody = Nobody
    MaxEdits = 2
    MaxCuts = 2
SPECIFICATION FairSpec
PROPERTIES DeliverySteps Completes
CHECK_DEADLOCK FALSE
