SPECIFICATION FaultSpec
CONSTANTS
    Process = {p1, p2}
    NoProcess = NoProcess
    TableSeq <- OneTable
    MaxBody = 3
    MaxBatch = 1
    InitialKinds = {"legacy", "anchored"}
    InitialRows = 2
    FirstBody = 3
    InitialDbs <- Files
    Limit = 2
    Ops = {"record", "verify"}
    MaxFaults = 1
INVARIANT
    DamageReported
