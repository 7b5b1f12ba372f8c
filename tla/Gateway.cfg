\* One log entry, two records and one of overshoot, and a bucket of two tokens
\* that fills in two ticks: eviction, trim, refusal and clean-up all happen.
SPECIFICATION FairSpec
CONSTANTS
    Clients = {c1, c2}
    MaxTokens = 2
    TokensPerTick = 1
    TokensPerRequest = 2
    MaxIdle = 2
    MaxTime = 3
    Requests = {r1, r2}
    MaxLogs = 1
    MaxEntries = 2
    TrimBatch = 1
    MaxTries = 2
    MaxStarts = 2
INVARIANT NoFailureHidden
PROPERTIES ImplementsMeter DrainedExit HistoryKept ShutdownEnds
CHECK_DEADLOCK FALSE
