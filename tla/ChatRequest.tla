----------------------------- MODULE ChatRequest -----------------------------
(***************************************************************************)
(* A chat request from its arrival to the end of its stream: setupSession  *)
(* in src/routes/chat.ts (and its twin in src/routes/anthropic.ts), the    *)
(* acquire() it calls in the session pool, the upstream call of            *)
(* src/services/qwen.ts with handleErrorResponse, and the release of the   *)
(* session when the stream is over.  One action per stretch of code between*)
(* two awaits; any number of requests run side by side on the event loop.  *)
(***************************************************************************)
EXTENDS SessionPool

CONSTANTS
    Requests,           \* connections, each carrying one request after another
    ImageRequests,      \* those whose last message has images to upload
    AnthropicRequests,  \* those that came through /v1/messages
    MaxAttempts,        \* MAX_ACCOUNT_RETRIES
    UploadsFail,        \* whether every image of a request may fail to upload
    LateCreates,        \* whether chats/new may succeed after its timeout
    Replies             \* the ways an upstream call may end

ReplyKinds == {"ok", "rateLimited", "busy", "captcha", "missing", "timeout", "other"}

ASSUME RequestAssumption ==
    /\ None \notin Requests
    /\ ImageRequests \subseteq Requests
    /\ AnthropicRequests \subseteq Requests
    /\ MaxAttempts \in Nat \ {0}
    /\ UploadsFail \in BOOLEAN
    /\ LateCreates \in BOOLEAN
    /\ Replies \subseteq ReplyKinds

VARIABLES
    pc,         \* where the request is
    attempt,    \* the index of setupSession's loop
    lastFailed, \* lastFailedEmail
    acct,       \* accountEmail, then resolvedEmail
    given,      \* whether acquire() was called with an email
    tries,      \* the index of acquire()'s loop
    chat,       \* the chat in hand
    err         \* the error createQwenStream threw

requestVars == <<pc, attempt, lastFailed, acct, given, tries, chat, err>>
vars == <<accountVars, poolVars, requestVars>>

\* The request has an account and no session yet.
PickedPcs == {"upload", "pop", "headers", "create"}

\* The request has a session.
SessionPcs == {"fetch", "rejected", "firstChunk", "stream", "closing"}

\* Inside setupSession: everything up to the first chunk is bounded by timeouts.
SetupPcs == {"pick", "acquire", "fetch", "rejected", "firstChunk"} \cup PickedPcs

Pcs == {"idle", "pick", "acquire"} \cup PickedPcs \cup SessionPcs

RequestTypeOK ==
    /\ pc \in [Requests -> Pcs]
    /\ attempt \in [Requests -> 0..(MaxAttempts - 1)]
    /\ lastFailed \in [Requests -> Accounts \cup {None}]
    /\ acct \in [Requests -> Accounts \cup {None}]
    /\ given \in [Requests -> BOOLEAN]
    /\ tries \in [Requests -> Nat]
    /\ chat \in [Requests -> Chats \cup {None}]
    /\ err \in [Requests -> ReplyKinds]

TypeOK == AccountTypeOK /\ PoolTypeOK /\ RequestTypeOK

Init ==
    /\ AccountInit
    /\ PoolInit
    /\ pc = [r \in Requests |-> "idle"]
    /\ attempt = [r \in Requests |-> 0]
    /\ lastFailed = [r \in Requests |-> None]
    /\ acct = [r \in Requests |-> None]
    /\ given = [r \in Requests |-> FALSE]
    /\ tries = [r \in Requests |-> 0]
    /\ chat = [r \in Requests |-> None]
    /\ err = [r \in Requests |-> "ok"]

\* Chat ids stand for ever new ones: an id nothing refers to may be given again.
UnusedChats == Chats \ (upstream \cup {chat[r] : r \in Requests})

-----------------------------------------------------------------------------
(* Leaving an attempt *)

\* The request's variables start afresh, at a given attempt.
Restart(r, label, n, failed) ==
    /\ pc' = [pc EXCEPT ![r] = label]
    /\ attempt' = [attempt EXCEPT ![r] = n]
    /\ lastFailed' = [lastFailed EXCEPT ![r] = failed]
    /\ acct' = [acct EXCEPT ![r] = None]
    /\ given' = [given EXCEPT ![r] = FALSE]
    /\ tries' = [tries EXCEPT ![r] = 0]
    /\ chat' = [chat EXCEPT ![r] = None]
    /\ err' = [err EXCEPT ![r] = "ok"]

\* The request is over: an exception reached the client, or its stream ended.
End(r) == Restart(r, "idle", 0, None)

AttemptsLeft(r) == attempt[r] + 1 < MaxAttempts

\* Mutant of Retry: attempts are not counted.
RetryUncounted(r, failed) == Restart(r, "pick", attempt[r], failed)

\* `continue`: the loop starts over with the failed account excluded ...
Retry(r, failed) == Restart(r, "pick", attempt[r] + 1, failed)

\* ... unless it was the last attempt.
NextAttempt(r, failed) ==
    IF AttemptsLeft(r) THEN Retry(r, failed) ELSE End(r)

GoTo(r, label) ==
    /\ pc' = [pc EXCEPT ![r] = label]
    /\ UNCHANGED <<attempt, lastFailed, acct, given, tries, chat, err>>

-----------------------------------------------------------------------------
(* setupSession: choosing an account *)

Arrive(r) ==
    /\ pc[r] = "idle"
    /\ GoTo(r, "pick")
    /\ UNCHANGED <<accountVars, poolVars>>

\* pickAccount(lastFailedEmail) finds an account.
Pick(r) ==
    /\ pc[r] = "pick"
    /\ \E a \in Accounts :
         /\ PickAccount(lastFailed[r], a)
         /\ acct' = [acct EXCEPT ![r] = a]
    /\ given' = [given EXCEPT ![r] = TRUE]
    /\ pc' = [pc EXCEPT ![r] = IF r \in ImageRequests THEN "upload" ELSE "pop"]
    /\ UNCHANGED <<cooldown, disabled, poolVars, attempt, lastFailed, tries, chat, err>>

\* It finds none: the first attempt leaves the choice to acquire(), a later one
\* gives up.
PickNone(r) ==
    /\ pc[r] = "pick"
    /\ Candidates(lastFailed[r]) = {}
    /\ IF attempt[r] = 0 THEN GoTo(r, "acquire") ELSE End(r)
    /\ UNCHANGED <<accountVars, poolVars>>

\* The images of the request are uploaded on the account's behalf.
Upload(r) ==
    /\ pc[r] = "upload"
    /\ GoTo(r, "pop")
    /\ UNCHANGED <<accountVars, poolVars>>

\* None of them could be: setupSession throws outside every try.
UploadFails(r) ==
    /\ UploadsFail
    /\ pc[r] = "upload"
    /\ End(r)
    /\ UNCHANGED <<accountVars, poolVars>>

-----------------------------------------------------------------------------
(* SessionPool.acquire *)

\* acquire(undefined) picks an account itself.
AcquirePick(r) ==
    /\ pc[r] = "acquire"
    /\ \E a \in Accounts :
         /\ PickAccount(None, a)
         /\ acct' = [acct EXCEPT ![r] = a]
    /\ pc' = [pc EXCEPT ![r] = "pop"]
    /\ UNCHANGED <<cooldown, disabled, poolVars, attempt, lastFailed, given, tries, chat, err>>

\* There is none: it throws, and setupSession tries again.
AcquireNone(r) ==
    /\ pc[r] = "acquire"
    /\ Candidates(None) = {}
    /\ NextAttempt(r, None)
    /\ UNCHANGED <<accountVars, poolVars>>

\* A ready chat is taken out of the pool; the headers are fetched next.
PopReady(r) ==
    /\ pc[r] = "pop"
    /\ \E c \in Chats :
         /\ PopPooledChat(acct[r], c)
         /\ chat' = [chat EXCEPT ![r] = c]
    /\ pc' = [pc EXCEPT ![r] = "headers"]
    /\ UNCHANGED <<accountVars, activeSessions, activeCount, owner, upstream,
                   attempt, lastFailed, acct, given, tries, err>>

PopEmpty(r) ==
    /\ pc[r] = "pop"
    /\ NoPooledChat(acct[r])
    /\ GoTo(r, "create")
    /\ UNCHANGED <<accountVars, activeSessions, activeCount, owner, toppingUp, upstream>>

Headers(r) ==
    /\ pc[r] = "headers"
    /\ Register(chat[r], acct[r])
    /\ GoTo(r, "fetch")
    /\ UNCHANGED <<accountVars, slots, toppingUp, deleting, upstream>>

\* chats/new answers in time: the session is registered, the pool refilled.
CreateChat(r) ==
    /\ pc[r] = "create"
    /\ \E c \in UnusedChats :
         /\ upstream' = upstream \cup {c}
         /\ Register(c, acct[r])
         /\ chat' = [chat EXCEPT ![r] = c]
    /\ StartTopUp(acct[r], slots[acct[r]])
    /\ pc' = [pc EXCEPT ![r] = "fetch"]
    /\ UNCHANGED <<accountVars, slots, deleting, attempt, lastFailed, acct, given, tries, err>>

\* acquire()'s catch gives the slot back and throws ...
CreateFails(r) ==
    /\ pc[r] = "create"
    /\ DecrementInFlight(acct[r])
    /\ NextAttempt(r, IF given[r] THEN acct[r] ELSE None)
    /\ UNCHANGED <<cooldown, disabled, poolVars>>

\* ... on a timeout too, when the chat may still be created, unknown to all.
CreateTimesOut(r) ==
    /\ pc[r] = "create"
    /\ LateCreates
    /\ \E c \in UnusedChats : upstream' = upstream \cup {c}
    /\ DecrementInFlight(acct[r])
    /\ NextAttempt(r, IF given[r] THEN acct[r] ELSE None)
    /\ UNCHANGED <<cooldown, disabled, activeSessions, activeCount, owner, age, slots,
                   toppingUp, deleting>>

\* An account pending activation, picked by acquire() itself, is throttled, and
\* the loop goes on while there are accounts left to try.
SkipAccount(r) ==
    /\ pc[r] = "create"
    /\ ~given[r]
    /\ DecrementInFlight(acct[r])
    /\ ThrottleAccount(acct[r], "activation")
    /\ IF tries[r] + 1 < Cardinality(Accounts)
       THEN /\ pc' = [pc EXCEPT ![r] = "acquire"]
            /\ acct' = [acct EXCEPT ![r] = None]
            /\ tries' = [tries EXCEPT ![r] = @ + 1]
            /\ UNCHANGED <<attempt, lastFailed, given, chat, err>>
       ELSE NextAttempt(r, None)
    /\ UNCHANGED <<disabled, poolVars>>

-----------------------------------------------------------------------------
(* The upstream call *)

FetchSucceeds(r) ==
    /\ pc[r] = "fetch"
    /\ "ok" \in Replies
    /\ GoTo(r, "firstChunk")
    /\ UNCHANGED <<accountVars, poolVars>>

Throw(r, kind) ==
    /\ kind \in Replies
    /\ pc' = [pc EXCEPT ![r] = "rejected"]
    /\ err' = [err EXCEPT ![r] = kind]
    /\ UNCHANGED <<attempt, lastFailed, acct, given, tries, chat>>

\* handleErrorResponse, RateLimited: the account is throttled for hours, and
\* disabled when its daily limit is reached.  Another one is then picked to
\* carry on with, but the error is thrown all the same.
RateLimited(r) ==
    /\ pc[r] = "fetch"
    /\ Throw(r, "rateLimited")
    /\ ThrottleAccount(acct[r], "rateLimit")
    /\ \/ SetAccountDisabled(acct[r], TRUE)
       \/ UNCHANGED disabled
    /\ \/ \E next \in Accounts : PickAccount(acct[r], next)
       \/ Candidates(acct[r]) = {} /\ UNCHANGED inFlight
    /\ UNCHANGED poolVars

\* handleErrorResponse, "chat is in progress" and the WAF's CAPTCHA.
Refused(r) ==
    /\ pc[r] = "fetch"
    /\ \E kind \in {"busy", "captcha"} :
         /\ Throw(r, kind)
         /\ ThrottleAccount(acct[r], kind)
    /\ UNCHANGED <<inFlight, disabled, poolVars>>

\* The chat does not exist, an attempt timed out, or anything else went wrong
\* (network, an open circuit breaker): no account is touched.
CallFails(r) ==
    /\ pc[r] = "fetch"
    /\ \E kind \in {"missing", "timeout", "other"} : Throw(r, kind)
    /\ UNCHANGED <<accountVars, poolVars>>

\* setupSession's catch: the session is released, then the error decides.
RetryableErrors == {"rateLimited", "missing", "timeout"}

\* Mutant of CatchRetryable: every failed account is throttled alike.
CatchThrottlesAll(r) ==
    /\ pc[r] = "rejected"
    /\ err[r] \in RetryableErrors
    /\ Release(chat[r], acct[r])
    /\ ThrottleAccount(acct[r], "captcha")
    /\ NextAttempt(r, acct[r])
    /\ UNCHANGED <<disabled, slots, toppingUp, upstream>>

CatchRetryable(r) ==
    /\ pc[r] = "rejected"
    /\ err[r] \in RetryableErrors
    /\ Release(chat[r], acct[r])
    /\ IF err[r] = "missing" THEN ThrottleAccount(acct[r], "captcha") ELSE UNCHANGED cooldown
    /\ NextAttempt(r, acct[r])
    /\ UNCHANGED <<disabled, slots, toppingUp, upstream>>

\* Every other error ends the request.  chat.ts also deletes the chat of a busy
\* account at once; release() has it deleted anyway.
CatchFatal(r) ==
    /\ pc[r] = "rejected"
    /\ err[r] \notin RetryableErrors
    /\ Release(chat[r], acct[r])
    /\ End(r)
    /\ UNCHANGED <<cooldown, disabled, slots, toppingUp, upstream>>

-----------------------------------------------------------------------------
(* The stream *)

FirstChunk(r) ==
    /\ pc[r] = "firstChunk"
    /\ GoTo(r, "stream")
    /\ UNCHANGED <<accountVars, poolVars>>

FirstChunkTimeout(r) ==
    /\ pc[r] = "firstChunk"
    /\ Release(chat[r], acct[r])
    /\ NextAttempt(r, acct[r])
    /\ UNCHANGED <<cooldown, disabled, slots, toppingUp, upstream>>

\* anthropic.ts looks into the first chunk for a CAPTCHA page.
FirstChunkRejected(r) ==
    /\ pc[r] = "firstChunk"
    /\ r \in AnthropicRequests
    /\ Release(chat[r], acct[r])
    /\ ThrottleAccount(acct[r], "captcha")
    /\ NextAttempt(r, acct[r])
    /\ UNCHANGED <<disabled, slots, toppingUp, upstream>>

\* A finished chat.ts stream leaves its release to a timer (scheduleCleanup) ...
StreamEnds(r) ==
    /\ pc[r] = "stream"
    /\ r \notin AnthropicRequests
    /\ GoTo(r, "closing")
    /\ UNCHANGED <<accountVars, poolVars>>

\* ... and every other ending releases at once: a failed or interrupted stream
\* (cleanupImmediately), a non-streaming answer, /v1/messages.
ReleaseSession(r) ==
    /\ pc[r] \in {"stream", "closing"}
    /\ Release(chat[r], acct[r])
    /\ End(r)
    /\ UNCHANGED <<cooldown, disabled, slots, toppingUp, upstream>>

-----------------------------------------------------------------------------

SetupStep(r) ==
    \/ Pick(r) \/ PickNone(r) \/ Upload(r) \/ UploadFails(r)
    \/ AcquirePick(r) \/ AcquireNone(r) \/ PopReady(r) \/ PopEmpty(r) \/ Headers(r)
    \/ CreateChat(r) \/ CreateFails(r) \/ CreateTimesOut(r) \/ SkipAccount(r)
    \/ FetchSucceeds(r) \/ RateLimited(r) \/ Refused(r) \/ CallFails(r)
    \/ CatchRetryable(r) \/ CatchFatal(r)
    \/ FirstChunk(r) \/ FirstChunkTimeout(r) \/ FirstChunkRejected(r)

StreamStep(r) == StreamEnds(r) \/ ReleaseSession(r)

PoolStep ==
    \/ SweepStuckSessions
    \/ \E a \in Accounts : TopUpStops(a)
    \/ \E a \in Accounts, c \in UnusedChats : TopUpCreates(a, c)
    \/ \E c \in Chats : DeleteSession(c)

AccountStep ==
    \E a \in Accounts :
        \/ SaveCookies(a) /\ UNCHANGED <<poolVars, requestVars>>
        \/ ToggleDisabled(a) /\ UNCHANGED <<poolVars, requestVars>>

Next ==
    \/ \E r \in Requests : Arrive(r) \/ SetupStep(r) \/ StreamStep(r)
    \/ PoolStep /\ UNCHANGED requestVars
    \/ Tick /\ UNCHANGED requestVars
    \/ AccountStep

Spec == Init /\ [][Next]_vars

(***************************************************************************)
(* Fairness.  Every await of setupSession ends: the calls it makes carry   *)
(* timeouts.  Time passes, the sweeper's interval fires, and a DELETE is   *)
(* answered or fails.  Nothing is assumed of a stream: its client may stop *)
(* reading and leave the handler in a write for ever.                      *)
(***************************************************************************)
Fairness ==
    /\ \A r \in Requests : WF_vars(SetupStep(r))
    /\ WF_vars(Tick /\ UNCHANGED requestVars)
    /\ WF_vars(SweepStuckSessions /\ UNCHANGED requestVars)
    /\ \A c \in Chats : WF_vars(DeleteSession(c) /\ UNCHANGED requestVars)

FairSpec == Spec /\ Fairness

-----------------------------------------------------------------------------
(* Who holds what *)

\* A request holds the slot of its account from the pick until its session is
\* released; a session the sweeper took away no longer counts.
HoldsSlot(r) ==
    \/ pc[r] \in PickedPcs
    \/ pc[r] \in SessionPcs /\ chat[r] \in activeSessions

\* An account's slot is taken as long as a request holds it: no other path
\* (a second release, the sweeper, a failed acquire) gives it back early.
SlotsHeld ==
    \A r \in Requests : HoldsSlot(r) => inFlight[acct[r]] > 0

\* "An account handles at most one request" (accountManager.ts:472), as far as
\* the sweeper leaves the requests their slots.
OneHolderPerAccount ==
    \A r, q \in Requests :
        r # q /\ HoldsSlot(r) /\ HoldsSlot(q) => acct[r] # acct[q]

\* The counter of an account is never above one: pickAccount only takes an
\* account nobody has, so a decrement always leaves zero.
SlotsCounted == \A a \in Accounts : inFlight[a] <= 1

\* The same claim without the allowance for the sweeper: two requests never
\* talk to the upstream on one account.
OneConversationPerAccount ==
    \A r, q \in Requests :
        /\ r # q
        /\ pc[r] \in {"fetch", "firstChunk", "stream"}
        /\ pc[q] \in {"fetch", "firstChunk", "stream"}
        => acct[r] # acct[q]

\* A taken slot has a request behind it that will give it back
\* (qwen.ts:289: "The slot is released by the normal request-end release path").
NoStrandedSlot ==
    \A a \in Accounts :
        inFlight[a] > 0 => \E r \in Requests : HoldsSlot(r) /\ acct[r] = a

\* Every active session is the chat of a request that runs, on the account it
\* was opened with, and no two requests share a chat.
SessionsOwned ==
    /\ \A c \in activeSessions :
         \E r \in Requests :
            pc[r] \in SessionPcs /\ chat[r] = c /\ owner[c] = acct[r]
    /\ \A r, q \in Requests :
         r # q /\ chat[r] # None => chat[r] # chat[q]

\* getStats never reports idle sessions: the separate counter follows the set
\* through repeated releases and sweeps.
ActiveCountExact == activeCount = Cardinality(activeSessions)

-----------------------------------------------------------------------------
(* The chats *)

\* A chat ready in a pool exists, is ready for one account, and no request has
\* used it: it is neither active, nor in a request's hands, nor being deleted.
PooledChatsUnused ==
    /\ Pooled \subseteq upstream \ (activeSessions \cup deleting)
    /\ \A r \in Requests : chat[r] \notin Pooled
    /\ \A a, b \in Accounts : a # b => slots[a] \cap slots[b] = {}

\* The upstream is never asked to delete a chat whose session is active.
NoDeleteWhileActive == activeSessions \subseteq upstream \ deleting

\* An account never has more ready chats than the target, whatever the order
\* of acquires and refills: one refill runs at a time, and it stops when full.
PoolBounded ==
    \A a \in Accounts :
        /\ Cardinality(slots[a]) <= PoolTarget
        /\ toppingUp[a] => Cardinality(slots[a]) < PoolTarget

\* The two counts of a pool, under every fault.
CountsExact == ActiveCountExact /\ PoolBounded

\* Every chat that exists at the upstream is one the gateway can still delete.
NoOrphanChat ==
    upstream \subseteq Pooled \cup activeSessions \cup deleting
                      \cup {chat[r] : r \in {q \in Requests : pc[q] = "headers"}}

\* The two hold together: what the pool counts as active is, and every chat is
\* counted somewhere.
ChatsAccounted == ActiveCountExact /\ NoOrphanChat

\* What a request has in hand: an account from the pick on, a chat as long as it
\* has taken or opened one; a chat taken out of the pool stays alive while the
\* headers for it are fetched.
ChatsInHand ==
    \A r \in Requests :
        /\ pc[r] \in PickedPcs \cup SessionPcs => acct[r] \in Accounts
        /\ IF pc[r] \in SessionPcs \cup {"headers"} THEN chat[r] \in Chats ELSE chat[r] = None
        /\ pc[r] = "headers" => chat[r] \in upstream \ (activeSessions \cup deleting)

\* What is still to be deleted exists.
DeletesExist == deleting \subseteq upstream

\* The parts depend on one another: a pick is exclusive because held slots are
\* counted, a release touches one slot because sessions are owned by one
\* request, and they are because chats are handed out once.
SlotInvariant ==
    /\ SlotsCounted
    /\ SlotsHeld
    /\ OneHolderPerAccount
    /\ SessionsOwned
    /\ PooledChatsUnused
    /\ NoDeleteWhileActive
    /\ ChatsInHand
    /\ DeletesExist

-----------------------------------------------------------------------------
(* Steps and progress *)

\* A cooldown ends by time or by a new login only: although throttleAccount
\* overwrites what is there, no refusal cuts a longer cooldown short.
CooldownsRunOut ==
    [][(\E a \in Accounts : cooldown'[a] < cooldown[a])
         => Tick \/ \E a \in Accounts : SaveCookies(a)]_vars

\* setupSession always ends, with a stream or an error.
SetupEnds ==
    \A r \in Requests : pc[r] \in SetupPcs ~> pc[r] \in {"stream", "idle"}

\* A taken slot comes back, even under a stream that never ends.
SlotsComeBack ==
    \A a \in Accounts : inFlight[a] > 0 ~> inFlight[a] = 0

\* Every session is released in the end, and its chat deleted upstream.
SessionsReclaimed ==
    \A c \in Chats : c \in activeSessions ~> c \notin upstream

\* The leases the slots stand for.
Holder == [a \in Accounts |->
             IF \E r \in Requests : HoldsSlot(r) /\ acct[r] = a
             THEN CHOOSE r \in Requests : HoldsSlot(r) /\ acct[r] = a
             ELSE None]

Lease == INSTANCE AccountLease WITH holder <- Holder

\* Picks, releases, retries and sweeps implement the exclusive lease.
ImplementsLease == Lease!Spec
=============================================================================
