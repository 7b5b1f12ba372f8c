\* Two calls of an answer at most: a third is one too many, or spam.
SPECIFICATION Spec
CONSTANTS
    Texts <- MCTexts
    Resends = {TRUE, FALSE}
    MaxRepeats <- MCRepeats
    LocalCalls <- MCLocals
    MaxLocals = 2
    MaxToolCalls = 2
    SpamWindow = 3
    SpamThreshold = 2
    LoopLength = 3
INVARIANTS TextOnce CallsKept MessageWellFormed EndsOnce RejectionTold
CONSTRAINT LongUnstreamed
CHECK_DEADLOCK FALSE
