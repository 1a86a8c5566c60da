SPECIFICATION QuitSpec
CONSTANTS
    c1 = c1
    c2 = c2
    c3 = c3
    NoProcess = NoProcess
    NoFile = NoFile
INVARIANT
    QuitStopsManagedChild
CHECK_DEADLOCK FALSE
