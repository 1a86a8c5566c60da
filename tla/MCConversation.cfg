SPECIFICATION Spec
CONSTANTS
    w1 = w1
    w2 = w2
    Null = Null
SYMMETRY Symmetry
INVARIANTS
    TimelineIsKept
    PromptsRunAsAsked
    WorkspacesStayApart
    ShellIsTruthful
CHECK_DEADLOCK FALSE
