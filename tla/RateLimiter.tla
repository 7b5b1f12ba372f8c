----------------------------- MODULE RateLimiter ----------------------------
(***************************************************************************)
(* The token buckets of src/middleware/rateLimit.ts: one per client,       *)
(* refilled when it is used, by the time since it was last refilled, and   *)
(* removed when it has been idle for long.  A client without a bucket gets *)
(* a full one.  The elapsed time is counted in ticks and tokens are whole; *)
(* the code's numbers are fractions of a minute.                           *)
(***************************************************************************)
EXTENDS Integers

CONSTANTS
    Clients,            \* client addresses
    MaxTokens,          \* requests_per_minute + burst_allowance
    TokensPerTick,      \* requests_per_minute, by the tick
    TokensPerRequest,   \* tokens_per_request
    MaxIdle,            \* cleanupIdleBuckets: ticks a bucket may be idle
    MaxTime             \* bound: ticks of a run

\* A bucket that is removed would be full if it were used (an hour's tokens
\* against a minute's and the burst).
ASSUME LimiterAssumption ==
    /\ MaxTokens \in Nat /\ TokensPerTick \in Nat \ {0}
    /\ TokensPerRequest \in Nat \ {0} /\ TokensPerRequest <= MaxTokens
    /\ MaxIdle \in Nat /\ MaxTime \in Nat
    /\ MaxIdle * TokensPerTick >= MaxTokens

VARIABLES
    now,        \* Date.now
    buckets,    \* per client: in the map, tokens, lastRefill
    answer      \* the last answer to each client: "none", "admitted", "refused"

limiterVars == <<now, buckets, answer>>

NoBucket == [kept |-> FALSE, tokens |-> 0, lastRefill |-> 0]

LimiterTypeOK ==
    /\ now \in 0..MaxTime
    /\ buckets \in [Clients -> [kept : BOOLEAN, tokens : 0..MaxTokens, lastRefill : 0..MaxTime]]
    /\ \A c \in Clients : buckets[c].lastRefill <= now
    /\ answer \in [Clients -> {"none", "admitted", "refused"}]

LimiterInit ==
    /\ now = 0
    /\ buckets = [c \in Clients |-> NoBucket]
    /\ answer = [c \in Clients |-> "none"]

Capped(n) == IF n > MaxTokens THEN MaxTokens ELSE n

\* getBucket, then refill.
Refilled(c) ==
    [kept |-> TRUE, lastRefill |-> now,
     tokens |-> IF buckets[c].kept
                THEN Capped(buckets[c].tokens + (now - buckets[c].lastRefill) * TokensPerTick)
                ELSE MaxTokens]

\* tryConsume succeeds, the request goes on.
Admit(c) ==
    /\ Refilled(c).tokens >= TokensPerRequest
    /\ buckets' = [buckets EXCEPT ![c] = [Refilled(c) EXCEPT !.tokens = @ - TokensPerRequest]]
    /\ answer' = [answer EXCEPT ![c] = "admitted"]
    /\ UNCHANGED now

\* tryConsume fails, the request is answered with 429.
Refuse(c) ==
    /\ Refilled(c).tokens < TokensPerRequest
    /\ buckets' = [buckets EXCEPT ![c] = Refilled(c)]
    /\ answer' = [answer EXCEPT ![c] = "refused"]
    /\ UNCHANGED now

\* Mutant of Idle: the bucket's age is not looked at.
IdleAny(c) == TRUE
Idle(c) == now - buckets[c].lastRefill > MaxIdle

\* cleanupIdleBuckets, every 15 minutes; an interval that stopAutoCleanup ends.
CleanupIdleBuckets ==
    /\ \E c \in Clients : buckets[c].kept /\ Idle(c)
    /\ buckets' = [c \in Clients |-> IF buckets[c].kept /\ Idle(c) THEN NoBucket ELSE buckets[c]]
    /\ UNCHANGED <<now, answer>>

\* calculateRetryAfter, rounded up to ticks: the Retry-After header of a 429.
RetryAfter(c) ==
    LET needed == TokensPerRequest - buckets[c].tokens
    IN (needed + TokensPerTick - 1) \div TokensPerTick

Elapse ==
    /\ now < MaxTime
    /\ now' = now + 1
    /\ UNCHANGED <<buckets, answer>>

-----------------------------------------------------------------------------
\* What a client could spend now.
Level(c) == Refilled(c).tokens

\* A refused client that waits as long as Retry-After says is admitted
\* (rateLimit.ts:56-64).
RetryAfterSuffices ==
    \A c \in Clients :
        answer[c] = "refused" /\ buckets[c].kept
            /\ now - buckets[c].lastRefill >= RetryAfter(c)
        => Level(c) >= TokensPerRequest
=============================================================================
