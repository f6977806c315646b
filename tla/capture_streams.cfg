SPECIFICATION Spec
CONSTANTS
    m = m
    d1 = d1
    d2 = d2
    Procs <- Tree2
    Main = m
    InputLen = 1
    Cap <- OneOut
    MaxEmit <- TwoOut
    PipeCap = 1
    TermRounds = 1
    KillRounds = 1
    MaxFaults = 0
INVARIANT SuccessIsComplete
INVARIANT StrongestFailureWins
