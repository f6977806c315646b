SPECIFICATION FairSpec
CONSTANTS
    Process = {p1, p2}
    NoProcess = NoProcess
    TableSeq <- SacrificeTable
    MaxBody = 4
    MaxBatch = 2
    InitialKinds = {"fresh", "unchained", "unanchored"}
    InitialRows = 2
    FirstBody = 3
    InitialDbs <- Files
    Limit = 2
    Ops = {"open", "record", "verify"}
INVARIANTS
    TypeOK
    ChainSound
    SacrificesAllOrNothing
PROPERTIES
    AppendOnly
    CommitAnchors
    CallsReturn
