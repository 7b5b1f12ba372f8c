\* Every fault, and fairness for the handler and the writes only.
SPECIFICATION FairSpec
CONSTANTS
    MaxBufferChars = 4
    Texts <- CleanTexts
    Resends = {TRUE, FALSE}
    MaxAsides = 2
    Faults = {"error", "broken", "payload"}
    MaxQueue = 2
INVARIANTS
    NoToolTextShown
    DeliveredIsFiltered
    CallsAreReported
    SilenceIsTrue
    EndIsTold
    ReleasedOnce
PROPERTY StreamEnds
CHECK_DEADLOCK FALSE
