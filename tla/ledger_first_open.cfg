SPECIFICATION Spec
CONSTANTS
    Process = {p1, p2}
    NoProcess = NoProcess
    TableSeq <- OneTable
    MaxBody = 2
    MaxBatch = 1
    InitialKinds = {"fresh"}
    InitialRows = 0
    FirstBody = 1
    InitialDbs <- Files
    Limit = 2
    Ops = {"record", "verify"}
INVARIANT
    NoFalseBreak
