\* A rate-limited reply leaves another account's slot taken for good.
SPECIFICATION Spec
CONSTANTS
    Accounts = {a1, a2}
    None = None
    Cooldown <- MCShortCooldown
    Chats = {c1, c2}
    PoolTarget = 0
    SlotTtl = 1
    ActiveTimeout = 1
    MaxAge = 0
    DeletesFail = FALSE
    Requests = {r1, r2}
    ImageRequests = {}
    AnthropicRequests = {}
    MaxAttempts = 2
    UploadsFail = FALSE
    LateCreates = FALSE
    Replies = {"ok", "rateLimited"}
INVARIANTS NoStrandedSlot
