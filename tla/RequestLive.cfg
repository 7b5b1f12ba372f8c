\* Under fairness, with sessions that may outlive the sweeper's timeout while their
\* streams run, and without the faults that strand a slot.
SPECIFICATION FairSpec
CONSTANTS
    Accounts = {a1}
    None = None
    Cooldown <- MCShortCooldown
    Chats = {c1, c2}
    PoolTarget = 0
    SlotTtl = 1
    ActiveTimeout = 1
    MaxAge = 2
    DeletesFail = FALSE
    Requests = {r1, r2}
    ImageRequests = {}
    AnthropicRequests = {}
    MaxAttempts = 2
    UploadsFail = FALSE
    LateCreates = FALSE
    Replies = {"ok", "timeout", "missing", "rateLimited"}
INVARIANTS ChatsAccounted
PROPERTIES SetupEnds SlotsComeBack SessionsReclaimed ImplementsLease
