SPECIFICATION Spec
CONSTANTS
    m = m
    d1 = d1
    d2 = d2
    Procs <- Tree3
    Main = m
    InputLen = 0
    Cap <- None
    MaxEmit <- None
    PipeCap = 1
    TermRounds = 1
    KillRounds = 1
    MaxFaults = 0
SYMMETRY Descendants
INVARIANT FailureIsContained
