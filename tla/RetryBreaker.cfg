\* Two calls through createQwenStream, and one of withRetry as retry.ts exports it.
SPECIFICATION FairCallSpec
CONSTANTS
    Calls = {c1, c2, c3}
    FailureThreshold = 2
    ResetTimeout = 2
    HalfOpenMaxAttempts = 2
    MaxRetries = 1
    Checked = {c1, c2}
INVARIANTS CountersBelow WaitersQueued
PROPERTIES CallsEnd OpenProbes
