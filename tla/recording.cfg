SPECIFICATION Spec
CONSTANTS
    MaxJsonKeysPerObject = 2
    MaxJsonKeyBytesPerObject = 2
    KeyBytes <- MCKeyBytes
    ScanLimits <- MCScanLimits
    ValidNames <- MCValidNames
    ValidVersions = {"v0"}
    IsIdentifier <- MCIsIdentifier
    LocatedBytes <- MCLocatedBytes
    Limits <- MCLimits
    TraceSchema <- MCSchema
    CodexLimits <- MCCodexLimits
    Adapter <- MCAdapter
    ReservedNames = {"adapter"}
    ArgvLimits <- MCArgvLimits
    MaxManifest = 2
    ChunkBytes = 2
    Patterns <- MCPatterns
    MaxPattern = 3
    PrivateNames = {"private-policy"}
    ProjectedBytes <- MCProjectedBytes
    LineBytes <- MCLineBytes
    Files <- MCFiles
    Contents <- MCContents
    Links <- MCLinks
    MaxEdits = 1
    SizeOf <- MCSizeOf
    Caps <- MCCaps
    Draws <- MCDraws
    OutputModes = {"set", "aliased", "mixed"}
    Held <- MCHeld
    InitialFiles <- MCInitialFiles
    MaxCommands = 1
    Records <- MCRecords
    MaxStream = 7
    Bytes = {"p", "P", "q", "x", "ctl"}
    MaxSurface = 6
    StreamPolicy <- MCPolicy
    Alias <- MCAlias
    ObservableNodeLimit = 10
    ObservableOrderLimit = 5
    CycleIterations = 3
    NodeTemplates <- MCNodeTemplates
    Transforms <- MCTransforms
    Corpora <- MCCorpora
    SelfMatching = {"ok"}
    MaxNodes = 3
    MaxEdges = 3
    Kills = TRUE
INVARIANTS
    HandshakeIsSafe
    StreamsAreExact
    NothingPrivateLeaks
    EvaluatedIsGenuine
    TraversalIsExact
    AuditIsSound
PROPERTIES
    HandshakeEnds
