\* Every error reply and every fault, and a pool of one ready chat; no stream
\* outlives the sweeper's timeout.
SPECIFICATION Spec
CONSTANTS
    Accounts = {a1, a2}
    None = None
    Cooldown <- MCCooldown
    Chats = {c1, c2, c3}
    PoolTarget = 1
    SlotTtl = 1
    ActiveTimeout = 2
    MaxAge = 1
    DeletesFail = TRUE
    Requests = {r1, r2}
    ImageRequests = {r1}
    AnthropicRequests = {r2}
    MaxAttempts = 2
    UploadsFail = TRUE
    LateCreates = TRUE
    Replies = {"ok", "rateLimited", "busy", "captcha", "missing", "timeout", "other"}
SYMMETRY MCSymmetry
INVARIANTS OneConversationPerAccount SlotInvariant CountsExact
PROPERTIES CooldownsRunOut
