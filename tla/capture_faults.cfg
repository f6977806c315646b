SPECIFICATION FairSpec
CONSTANTS
    m = m
    d1 = d1
    d2 = d2
    Procs <- Tree2
    Main = m
    InputLen = 0
    Cap <- None
    MaxEmit <- None
    PipeCap = 1
    TermRounds = 1
    KillRounds = 1
    MaxFaults = 1
INVARIANTS
    CleanUpTellsTheTruth
PROPERTIES
    CaptureReturns
