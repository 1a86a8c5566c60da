SPECIFICATION Spec
CONSTANTS
    c1 = c1
    c2 = c2
    c3 = c3
    NoProcess = NoProcess
    NoFile = NoFile
SYMMETRY Symmetry
INVARIANTS
    DaemonIsAccounted
    RegistryIsServed
    SettingsTakeEffect
    SupportDataKept
    RunsAreAccounted
    BegunOnceShownOnce
CHECK_DEADLOCK FALSE
