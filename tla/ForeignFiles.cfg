\* A retry goes out with files that another account uploaded.
SPECIFICATION Spec
CONSTANTS
    None = None
    Accounts = {a1, a2}
    Clients <- MCClients
    ToolSets <- MCToolSets
    CallNames <- MCCallNames
    MaxTurns = 5
    MaxAttempts = 2
    DepthLimit = 1
    MaxInline = 6
    Gap = 1
    LargeText = 7
SYMMETRY MCSymmetry
INVARIANTS FilesShareAccount
