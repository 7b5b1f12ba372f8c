----------------------------- MODULE SessionPool -----------------------------
(***************************************************************************)
(* src/services/sessionPool.ts: the upstream chats in use (the active      *)
(* sessions), the empty chats kept ready for each account, their background*)
(* refill, the deletion of chats no longer wanted and the sweeper that     *)
(* frees sessions held for too long.                                       *)
(*                                                                         *)
(* acquire() is spread over several steps because it awaits; those steps   *)
(* belong to the request that runs it and are in ChatRequest, built from   *)
(* the operators here.                                                     *)
(***************************************************************************)
EXTENDS AccountManager, FiniteSets

CONSTANTS
    Chats,          \* upstream chat ids
    PoolTarget,     \* SESSION_POOL_SIZE
    SlotTtl,        \* SESSION_POOL_IDLE_TTL_MS, in ticks
    ActiveTimeout,  \* SESSION_ACTIVE_TIMEOUT_MS, in ticks
    MaxAge,         \* ages saturate here
    DeletesFail     \* whether the upstream may refuse a DELETE

ASSUME PoolAssumption ==
    /\ None \notin Chats
    /\ IsFiniteSet(Chats)
    /\ PoolTarget \in Nat
    /\ SlotTtl \in Nat \ {0}
    /\ ActiveTimeout \in Nat \ {0}
    /\ MaxAge \in Nat
    /\ DeletesFail \in BOOLEAN

VARIABLES
    activeSessions, \* chats handed to a request and not released
    activeCount,    \* the separate counter getStats reports as inUse
    owner,          \* cachedByChat: the account each chat was opened with
    age,            \* ticks since acquiredAt, or createdAt for a pooled chat
    slots,          \* the empty chats ready for each account
    toppingUp,      \* a background refill is running for the account
    deleting,       \* DELETE scheduled or sent, not answered
    upstream        \* chats that exist at the upstream

poolVars == <<activeSessions, activeCount, owner, age, slots, toppingUp, deleting, upstream>>

PoolTypeOK ==
    /\ activeSessions \in SUBSET Chats
    /\ activeCount \in Nat
    /\ owner \in [Chats -> Accounts \cup {None}]
    /\ age \in [Chats -> Nat]
    /\ slots \in [Accounts -> SUBSET Chats]
    /\ toppingUp \in [Accounts -> BOOLEAN]
    /\ deleting \in SUBSET Chats
    /\ upstream \in SUBSET Chats

\* initialize() starts a refill for every account when the pool is enabled.
PoolInit ==
    /\ activeSessions = {}
    /\ activeCount = 0
    /\ owner = [c \in Chats |-> None]
    /\ age = [c \in Chats |-> 0]
    /\ slots = [a \in Accounts |-> {}]
    /\ toppingUp = [a \in Accounts |-> PoolTarget > 0]
    /\ deleting = {}
    /\ upstream = {}

Pooled == UNION {slots[a] : a \in Accounts}

-----------------------------------------------------------------------------

\* popPooledChat: slots older than the TTL are dropped, the oldest other wins.
Stale(a) == {c \in slots[a] : age[c] >= SlotTtl}
Fresh(a) == slots[a] \ Stale(a)

\* Mutant of OldestFresh: a slot past its TTL may be handed out.
OldestSlot(a) == {c \in slots[a] : \A d \in slots[a] : age[d] <= age[c]}

OldestFresh(a) == {c \in Fresh(a) : \A d \in Fresh(a) : age[d] <= age[c]}

\* The pool keeps no date for a chat it does not hold.
Untracked(S) == [c \in Chats |-> IF c \in S THEN 0 ELSE age[c]]

\* Mutant of StartTopUp: a refill is started without looking at the pool.
StartTopUpBlindly(a, held) ==
    toppingUp' = [toppingUp EXCEPT ![a] = TRUE]

\* Mutant of Delete: the chat is forgotten without a DELETE.
Forget(S) == UNCHANGED deleting

\* deleteSession, handed to a timer or sent in the background.
Delete(S) == deleting' = deleting \cup S

\* topUp(a), up to its first await: single-flight, nothing to do when full.
StartTopUp(a, held) ==
    toppingUp' = [toppingUp EXCEPT ![a] = @ \/ Cardinality(held) < PoolTarget]

\* A pooled chat was ready: take it, delete the stale ones, start a refill.
PopPooledChat(a, c) ==
    /\ c \in OldestFresh(a)
    /\ slots' = [slots EXCEPT ![a] = Fresh(a) \ {c}]
    /\ Delete(Stale(a))
    /\ age' = Untracked(Stale(a) \cup {c})
    /\ StartTopUp(a, Fresh(a) \ {c})

\* None was: the stale ones are deleted and no refill is started.
NoPooledChat(a) ==
    /\ Fresh(a) = {}
    /\ slots' = [slots EXCEPT ![a] = {}]
    /\ Delete(Stale(a))
    /\ age' = Untracked(Stale(a))

\* The bookkeeping acquire() does once it has a chat.
Register(c, a) ==
    /\ activeSessions' = activeSessions \cup {c}
    /\ activeCount' = activeCount + 1
    /\ owner' = [owner EXCEPT ![c] = a]
    /\ age' = [age EXCEPT ![c] = 0]

IsActive(c) == c \in activeSessions

\* release(): only the first call for a session has an effect.
Release(c, a) ==
    IF IsActive(c)
    THEN /\ DecrementInFlight(a)
         /\ activeSessions' = activeSessions \ {c}
         /\ activeCount' = Decremented(activeCount)
         /\ owner' = [owner EXCEPT ![c] = None]
         /\ age' = Untracked({c})
         /\ Delete({c})
    ELSE UNCHANGED <<inFlight, activeSessions, activeCount, owner, age, deleting>>

-----------------------------------------------------------------------------

\* The sessions in use for longer than the timeout.
StuckSessions == {c \in activeSessions : age[c] > ActiveTimeout}

\* Mutant of SlotsSwept: no slot is given back.
SlotsKept == inFlight

\* What one run leaves of the slots, the sessions and the counter.
SlotsSwept ==
    [a \in Accounts |->
        IF \E c \in StuckSessions : owner[c] = a
        THEN Decremented(inFlight[a])
        ELSE inFlight[a]]
SessionsLeft == activeSessions \ StuckSessions
CountLeft ==
    IF activeCount >= Cardinality(StuckSessions)
    THEN activeCount - Cardinality(StuckSessions)
    ELSE 0

\* sweepStuckSessions: one run of the timer releases them all, through
\* release().  A session's account holds one slot (SlotsCounted), so an account
\* is decremented once per run.
SweepStuckSessions ==
    /\ StuckSessions # {}
    /\ inFlight' = SlotsSwept
    /\ activeSessions' = SessionsLeft
    /\ activeCount' = CountLeft
    /\ owner' = [c \in Chats |-> IF c \in StuckSessions THEN None ELSE owner[c]]
    /\ age' = Untracked(StuckSessions)
    /\ Delete(StuckSessions)
    /\ UNCHANGED <<cooldown, disabled, slots, toppingUp, upstream>>

\* topUp(a), one turn of its loop: a chat is created and added; the loop goes
\* on while the account has fewer than the target.  The caller of this action
\* gives a chat id that nothing refers to.
TopUpCreates(a, c) ==
    /\ toppingUp[a]
    /\ upstream' = upstream \cup {c}
    /\ slots' = [slots EXCEPT ![a] = @ \cup {c}]
    /\ age' = [age EXCEPT ![c] = 0]
    /\ toppingUp' = [toppingUp EXCEPT ![a] = Cardinality(slots'[a]) < PoolTarget]
    /\ UNCHANGED <<accountVars, activeSessions, activeCount, owner, deleting>>

\* ... or the creation fails, or its 20 turns are used up: the refill ends.
TopUpStops(a) ==
    /\ toppingUp[a]
    /\ toppingUp' = [toppingUp EXCEPT ![a] = FALSE]
    /\ UNCHANGED <<accountVars, activeSessions, activeCount, owner, age, slots, deleting, upstream>>

\* deleteSession ends.  A refused or failed DELETE is logged and not repeated.
DeleteSession(c) ==
    /\ c \in deleting
    /\ deleting' = deleting \ {c}
    /\ upstream' \in {upstream \ {c}} \cup (IF DeletesFail THEN {upstream} ELSE {})
    /\ UNCHANGED <<accountVars, activeSessions, activeCount, owner, age, slots, toppingUp>>

\* Time passes for every cooldown and every tracked chat alike.
Tick ==
    /\ \/ \E a \in Accounts : cooldown[a] > 0
       \/ \E c \in activeSessions \cup Pooled : age[c] < MaxAge
    /\ cooldown' = [a \in Accounts |-> Decremented(cooldown[a])]
    /\ age' = [c \in Chats |->
                 IF c \in activeSessions \cup Pooled /\ age[c] < MaxAge
                 THEN age[c] + 1
                 ELSE age[c]]
    /\ UNCHANGED <<inFlight, disabled, activeSessions, activeCount, owner, slots,
                   toppingUp, deleting, upstream>>
=============================================================================
