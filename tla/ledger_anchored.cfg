SPECIFICATION Spec
CONSTANTS
    Process = {p1, p2}
    NoProcess = NoProcess
    TableSeq <- TwoTables
    MaxBody = 3
    MaxBatch = 1
    InitialKinds = {"legacy", "anchored"}
    InitialRows = 1
    FirstBody = 2
    InitialDbs <- Files
    Limit = 2
    Ops = {"record", "audit", "verify"}
INVARIANTS
    NoFalseBreak
    RecordedOnce
PROPERTY
    ImplementsAuditLog
