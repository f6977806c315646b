SPECIFICATION Spec
CONSTANTS
    BitsetLimit = 3
    ConsistencyGate = 3
    MaskBits = 4
    Requests <- MCRequests
    Consecutive <- MCConsecutive
    DriftEvents <- MCDriftEvents
    HostRequests <- MCHostRequests
    MaxRequests = 4
    EventLimit = 3
    GrantLimit = 8
    MaxEdited = 2
    MaxCommands = 2
    MaxFaults = 1
    MaxPieces = 3
    Properties <- MCProperties
    Graphs <- MCGraphs
    SacrificeLists <- MCSacrificeLists
    Claims <- MCClaims
    Batches <- MCBatches
    Synthetic <- MCSynthetic
    Violations <- MCViolations
    Reports <- MCReports
    NodeIds <- MCNodeIds
    RerouteIds <- MCRerouteIds
    MaxDecisions = 3
    f1 = f1
    f2 = f2
    Foreign <- Strangers
    Absent = Absent
    OwnDir = OwnDir
    Ops = {"single", "pair", "set", "directory"}
    NMembers = 2
    MaxChanges = 3
    Rounds = 3
INVARIANTS
    SessionIsWellFormed
    SacrificesAreExact
    DriftIsReported
    SupervisionIsSafe
    NothingForeignIsLost
    ResultTellsTheTruth
    ChecksAreExact
    RowsAreGrounded
    DriftsAreReported
    VerdictsAreSound
PROPERTIES
    MonitorKeepsUp
    SessionOnlyGrows
