\* Conversations of five turns at most, so that the calls of two answers and their
\* results are in one, and some that have lost their oldest turns.
SPECIFICATION Spec
CONSTANTS
    None = None
    Accounts = {a1, a2}
    Clients <- MCClients
    ToolSets <- MCToolSets
    CallNames <- MCCallNames
    MaxTurns = 5
    MaxAttempts = 2
    DepthLimit = 1
    MaxInline = 6
    Gap = 1
    LargeText = 7
SYMMETRY MCSymmetry
INVARIANTS HistoryInLockstep NothingLost
