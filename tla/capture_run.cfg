SPECIFICATION RunSpec
CONSTANTS
    Publishers = {c1, c2}
    This = c1
    Inputs = {native}
    Executable = native
    MaxChanges = 2
    NFiles = 2
INVARIANT AcceptedIsDurable
INVARIANT FailureLeavesNothing
INVARIANT PublishedIsAttested
INVARIANT WorkspaceHandedBack
