SPECIFICATION Spec
CONSTANTS
    MaxJsonKeysPerObject = 2
    MaxJsonKeyBytesPerObject = 2
    KeyBytes <- MCKeyBytes
    ScanLimits <- MCScanLimits
    Tokens <- MCTokens
    MaxTokens = 6
    ValidNames = {"schema", "adapter", "policy", "rule", "p", "issuer", "key"}
    ValidVersions = {"v0"}
    IsIdentifier <- MCIsIdentifier
    LocatedBytes <- MCLocatedBytes
    Limits <- MCLimits
    TraceSchema <- MCSchema
    Files <- MCFiles
    Contents <- MCContents
    Links <- MCLinks
    MaxEdits = 1
    SizeOf <- MCSizeOf
    Caps <- MCCaps
    IssueArgs <- MCIssueArgs
    InitialFiles <- MCInitialFiles
    EarlierReceipts <- MCEarlier
    EarlierBuilt <- MCBuilt
    MaxCommands = 2
CHECK_DEADLOCK FALSE
INVARIANTS
    AcceptedIsUnambiguous
    ReplayIsGenuine
