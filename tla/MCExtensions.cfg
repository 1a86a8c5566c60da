SPECIFICATION Spec
CONSTANTS
    x1 = x1
    x2 = x2
    w1 = w1
    w2 = w2
    Boot = Boot
    Null = Null
SYMMETRY Symmetry
INVARIANTS
    OnlyGovernedRuns
    NothingHalfDone
    ScreensAreTruthful
    SkillsAreAsChosen
CHECK_DEADLOCK FALSE
