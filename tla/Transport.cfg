\* Two requests and the periodic refresh over one worker; all that is begun ends,
\* so the instance stops.
SPECIFICATION Spec
CONSTANTS
    a1 = a1
    Callers = {f1, f2, t}
    Fetches = {f1, f2}
    Timer = t
    PlainFetches = {f1}
    SignalFetches = {f1}
    Accounts = {a1}
    Account <- MCAccount
    Procs = {p1, p2, p3}
    NoProc = NoProc
    Replies = {"answer", "denied", "challenge"}
    MaxCrashes = 1
    MaxFetches = 1
CHECK_DEADLOCK FALSE
SYMMETRY MCSymmetry
INVARIANTS BaseIsAlive BrowserShared NoChallengeReturned
