---------------------------- MODULE GatewayProofs ----------------------------
(***************************************************************************)
(* Theorems about Gateway: its token buckets implement RateMeter for every *)
(* rate and limit, and its counter of requests in flight is exact, so that *)
(* a shutdown that waits for zero has waited for every handler.  The log   *)
(* and the monitor hide no failure and lose no saved record.               *)
(***************************************************************************)
EXTENDS Gateway, FiniteSetTheorems, SequenceTheorems, TLAPS

(* The token buckets.                                                      *)

\* A tick more is a tick's tokens more.
LEMMA OneTickMore ==
  ASSUME NEW m \in Nat, NEW k \in Nat
  PROVE  (m + 1) * k = m * k + k /\ m * k \in Nat
  OBVIOUS

\* More ticks are not fewer tokens.
LEMMA MoreTicks ==
  ASSUME NEW m \in Nat, NEW n \in Nat, NEW k \in Nat, m >= n
  PROVE  m * k >= n * k
  OBVIOUS

\* What a bucket has gained since it was last refilled.
Gain(c) == (now - buckets[c].lastRefill) * TokensPerTick

LEMMA GainType ==
  ASSUME LimiterTypeOK, NEW c \in Clients
  PROVE  /\ now - buckets[c].lastRefill \in Nat
         /\ Gain(c) \in Nat
  <1>1. now - buckets[c].lastRefill \in Nat
    BY LimiterAssumption DEF LimiterTypeOK
  <1>2. QED
    BY <1>1, OneTickMore, LimiterAssumption DEF Gain

LEMMA LevelIs ==
  ASSUME LimiterTypeOK, NEW c \in Clients
  PROVE  /\ Level(c) = IF buckets[c].kept THEN Capped(buckets[c].tokens + Gain(c)) ELSE MaxTokens
         /\ Level(c) \in 0..MaxTokens
  <1>1. Level(c) = IF buckets[c].kept THEN Capped(buckets[c].tokens + Gain(c)) ELSE MaxTokens
    BY DEF Level, Refilled, Gain
  <1>2. buckets[c].tokens \in Nat
    BY LimiterAssumption DEF LimiterTypeOK
  <1>3. QED
    BY <1>1, <1>2, GainType, LimiterAssumption DEF Capped

\* A bucket that was refilled now holds what it held.
FreshLevels ==
    \A c \in Clients :
        buckets[c].kept /\ buckets[c].lastRefill = now => Level(c) = buckets[c].tokens

LEMMA JustRefilled == LimiterTypeOK => FreshLevels
  <1> SUFFICES ASSUME LimiterTypeOK, NEW c \in Clients, buckets[c].kept, buckets[c].lastRefill = now
               PROVE  Level(c) = buckets[c].tokens
    BY DEF FreshLevels
  <1>1. buckets[c].tokens \in 0..MaxTokens /\ now \in Nat
    BY LimiterAssumption DEF LimiterTypeOK
  <1>2. (now - buckets[c].lastRefill) * TokensPerTick = 0
    BY <1>1, LimiterAssumption
  <1>3. QED
    BY <1>1, <1>2, LimiterAssumption DEF Level, Refilled, Capped

LEMMA JustRefilledNext == LimiterTypeOK' => FreshLevels'
  BY JustRefilled, PTL

\* A bucket with n tokens, refilled now, takes the place of another.
LEMMA TypesStay ==
  ASSUME LimiterTypeOK, NEW c \in Clients, NEW n \in 0..MaxTokens,
         NEW told \in {"none", "admitted", "refused"},
         buckets' = [buckets EXCEPT ![c] = [kept |-> TRUE, lastRefill |-> now, tokens |-> n]],
         answer' = [answer EXCEPT ![c] = told], now' = now
  PROVE  LimiterTypeOK'
  <1>1. now \in 0..MaxTime
    BY DEF LimiterTypeOK
  <1>2. [kept |-> TRUE, lastRefill |-> now, tokens |-> n]
          \in [kept : BOOLEAN, tokens : 0..MaxTokens, lastRefill : 0..MaxTime]
    BY <1>1
  <1>3. buckets' \in [Clients -> [kept : BOOLEAN, tokens : 0..MaxTokens, lastRefill : 0..MaxTime]]
    BY <1>2 DEF LimiterTypeOK
  <1>4. \A d \in Clients : buckets'[d].lastRefill <= now'
    BY <1>1, LimiterAssumption DEF LimiterTypeOK
  <1>5. QED
    BY <1>1, <1>3, <1>4 DEF LimiterTypeOK

\* What the actions of the limiter do to a client's level, and to the types.
LEMMA AdmitStep ==
  ASSUME LimiterTypeOK, NEW c \in Clients, Admit(c)
  PROVE  /\ LimiterTypeOK'
         /\ Level(c) >= TokensPerRequest
         /\ Level(c)' = Level(c) - TokensPerRequest
         /\ \A d \in Clients \ {c} : Level(d)' = Level(d)
  <1>1. Level(c) \in 0..MaxTokens /\ Level(c) >= TokensPerRequest
    BY LevelIs DEF Admit, Level
  <1>2. buckets'[c] = [kept |-> TRUE, tokens |-> Level(c) - TokensPerRequest, lastRefill |-> now]
    BY DEF Admit, Level, Refilled, LimiterTypeOK
  <1>3. /\ buckets' = [buckets EXCEPT ![c] = buckets'[c]]
        /\ now' = now /\ answer' = [answer EXCEPT ![c] = "admitted"]
    BY <1>2 DEF Admit, LimiterTypeOK
  <1>4. Level(c) - TokensPerRequest \in 0..MaxTokens /\ now \in Nat
    BY <1>1, LimiterAssumption DEF LimiterTypeOK
  <1>5. LimiterTypeOK'
    BY <1>2, <1>3, <1>4, TypesStay
  <1>6. Level(c)' = Level(c) - TokensPerRequest
    BY <1>2, <1>5, <1>3, JustRefilledNext DEF FreshLevels
  <1>7. \A d \in Clients \ {c} : Level(d)' = Level(d)
    BY <1>3 DEF Level, Refilled, LimiterTypeOK
  <1>8. QED
    BY <1>1, <1>5, <1>6, <1>7

LEMMA RefuseStep ==
  ASSUME LimiterTypeOK, NEW c \in Clients, Refuse(c)
  PROVE  /\ LimiterTypeOK'
         /\ Level(c) < TokensPerRequest
         /\ \A d \in Clients : Level(d)' = Level(d)
  <1>1. Level(c) \in 0..MaxTokens /\ Level(c) < TokensPerRequest
    BY LevelIs DEF Refuse, Level
  <1>2. buckets'[c] = [kept |-> TRUE, tokens |-> Level(c), lastRefill |-> now]
    BY DEF Refuse, Level, Refilled, LimiterTypeOK
  <1>3. /\ buckets' = [buckets EXCEPT ![c] = buckets'[c]]
        /\ now' = now /\ answer' = [answer EXCEPT ![c] = "refused"]
    BY <1>2 DEF Refuse, LimiterTypeOK
  <1>4. now \in Nat
    BY LimiterAssumption DEF LimiterTypeOK
  <1>5. LimiterTypeOK'
    BY <1>1, <1>2, <1>3, TypesStay
  <1>6. Level(c)' = Level(c)
    BY <1>1, <1>2, <1>3, <1>5, JustRefilledNext DEF FreshLevels
  <1>7. \A d \in Clients \ {c} : Level(d)' = Level(d)
    BY <1>3 DEF Level, Refilled, LimiterTypeOK
  <1>8. QED
    BY <1>1, <1>5, <1>6, <1>7

\* A bucket is removed only when it would be full.
LEMMA CleanupStep ==
  ASSUME LimiterTypeOK, CleanupIdleBuckets
  PROVE  /\ LimiterTypeOK'
         /\ \A c \in Clients : Level(c)' = Level(c)
  <1>1. LimiterTypeOK'
    BY LimiterAssumption DEF LimiterTypeOK, CleanupIdleBuckets, NoBucket
  <1>2. ASSUME NEW c \in Clients, buckets[c].kept, Idle(c)
        PROVE  Level(c) = MaxTokens /\ Level(c)' = MaxTokens
    <2>1. now - buckets[c].lastRefill >= MaxIdle
      BY <1>2, LimiterAssumption DEF Idle, LimiterTypeOK
    <2>2. Gain(c) >= MaxIdle * TokensPerTick
      BY <2>1, GainType, MoreTicks, LimiterAssumption DEF Gain
    <2>3. Gain(c) >= MaxTokens
      BY <2>2, GainType, OneTickMore, LimiterAssumption
    <2>4. buckets[c].tokens \in Nat
      BY LimiterAssumption DEF LimiterTypeOK
    <2>5. Level(c) = MaxTokens
      BY <1>2, <2>3, <2>4, LevelIs, GainType, LimiterAssumption DEF Capped
    <2>6. Level(c)' = MaxTokens
      BY <1>2 DEF CleanupIdleBuckets, Level, Refilled, NoBucket
    <2>7. QED
      BY <2>5, <2>6
  <1>3. ASSUME NEW c \in Clients, ~(buckets[c].kept /\ Idle(c))
        PROVE  Level(c)' = Level(c)
    BY <1>3 DEF CleanupIdleBuckets, Level, Refilled
  <1>4. QED
    BY <1>1, <1>2, <1>3

LEMMA ElapseStep ==
  ASSUME LimiterTypeOK, Elapse
  PROVE  /\ LimiterTypeOK'
         /\ \A c \in Clients : Level(c)' = IF Level(c) + TokensPerTick > MaxTokens
                                           THEN MaxTokens ELSE Level(c) + TokensPerTick
  <1>1. LimiterTypeOK'
    BY LimiterAssumption DEF LimiterTypeOK, Elapse
  <1>2. ASSUME NEW c \in Clients
        PROVE  Level(c)' = IF Level(c) + TokensPerTick > MaxTokens
                           THEN MaxTokens ELSE Level(c) + TokensPerTick
    <2>1. Gain(c)' = Gain(c) + TokensPerTick
      <3>1. now' - buckets'[c].lastRefill = (now - buckets[c].lastRefill) + 1
        BY LimiterAssumption DEF Elapse, LimiterTypeOK
      <3>2. QED
        BY <3>1, GainType, OneTickMore, LimiterAssumption DEF Gain
    <2>2. /\ buckets' = buckets /\ buckets[c].tokens \in Nat
          /\ Level(c)' = IF buckets'[c].kept THEN Capped(buckets'[c].tokens + Gain(c)') ELSE MaxTokens
      BY LimiterAssumption DEF LimiterTypeOK, Elapse, Level, Refilled, Gain, Capped
    <2>3. QED
      BY <2>1, <2>2, LevelIs, GainType, LimiterAssumption DEF Capped
  <1>3. QED
    BY <1>1, <1>2

\* A new process has no buckets.
LEMMA StartStep ==
  ASSUME LimiterTypeOK, StartServer
  PROVE  /\ LimiterTypeOK'
         /\ \A c \in Clients : Level(c)' = MaxTokens
  <1>1. LimiterTypeOK'
    BY LimiterAssumption DEF LimiterTypeOK, StartServer, NoBucket
  <1>2. QED
    BY <1>1 DEF StartServer, Level, Refilled, NoBucket

\* The rest of the server does not touch the buckets.
LimiterRests == UNCHANGED <<limiterVars, starts>>

LEMMA OthersRest ==
  ASSUME NEW r \in Requests,
         Arrive(r) \/ RequestStep(r), ~PassLimit(r), ~ExceedLimit(r)
  PROVE  LimiterRests
  BY DEF LimiterRests, Arrive, RequestStep, BadBody, Parse, Acquire, TriesAgain, SetUpFails,
         Answers, ReadFails, Rejects, ErrorDocument, StreamStarts, StreamEnds, StreamFails,
         Handler, serverVars

LEMMA ProcessRests ==
  ASSUME Signal \/ Stopped \/ Drained \/ DrainTimeout \/ Killed \/ SaveTimer
  PROVE  LimiterRests
  BY DEF LimiterRests, Signal, Stopped, Drained, DrainTimeout, Killed, SaveTimer, Ends, serverVars

LEMMA LevelsAre ==
  /\ \A c \in Clients : Levels[c] = Level(c)
  /\ Levels = [c \in Clients |-> Levels[c]]
  BY DEF Levels

LEMMA LevelsAreNext ==
  /\ \A c \in Clients : Levels'[c] = Level(c)'
  /\ Levels' = [c \in Clients |-> Levels'[c]]
  BY DEF Levels

\* Every step is one of the meter's, or leaves the meters alone.
LEMMA MeterStep ==
  ASSUME LimiterTypeOK, client \in [Requests -> Clients], [Next]_vars
  PROVE  /\ LimiterTypeOK'
         /\ [Meter!MeterNext]_(Meter!meterVars)
  <1> USE LevelsAre, LevelsAreNext
  <1>1. ASSUME NEW r \in Requests, PassLimit(r), client[r] \in Clients
        PROVE  LimiterTypeOK' /\ Meter!Admit(client[r])
    <2>1. Admit(client[r]) /\ UNCHANGED starts
      BY <1>1 DEF PassLimit, serverVars
    <2>2. /\ LimiterTypeOK'
          /\ Levels[client[r]] >= TokensPerRequest
          /\ Levels'[client[r]] = Levels[client[r]] - TokensPerRequest
          /\ \A d \in Clients \ {client[r]} : Levels'[d] = Levels[d]
      BY <1>1, <2>1, AdmitStep
    <2>3. Levels' = [Levels EXCEPT ![client[r]] = @ - TokensPerRequest]
      BY <2>2
    <2>4. QED
      BY <2>1, <2>2, <2>3 DEF Meter!Admit, Admit
  <1>2. ASSUME NEW r \in Requests, ExceedLimit(r), client[r] \in Clients
        PROVE  LimiterTypeOK' /\ Meter!Refuse(client[r])
    <2>1. Refuse(client[r]) /\ UNCHANGED starts
      BY <1>2 DEF ExceedLimit, serverVars
    <2>2. /\ LimiterTypeOK'
          /\ Levels[client[r]] < TokensPerRequest
          /\ \A d \in Clients : Levels'[d] = Levels[d]
      BY <1>2, <2>1, RefuseStep
    <2>3. Levels' = Levels
      BY <2>2
    <2>4. QED
      BY <2>1, <2>2, <2>3 DEF Meter!Refuse, Refuse
  <1>3. ASSUME Tick PROVE LimiterTypeOK' /\ Meter!Elapse
    <2>1. Elapse /\ UNCHANGED <<answer, starts>>
      BY <1>3 DEF Tick, Elapse, serverVars
    <2>2. /\ LimiterTypeOK'
          /\ \A c \in Clients : Levels'[c] = IF Levels[c] + TokensPerTick > MaxTokens
                                             THEN MaxTokens ELSE Levels[c] + TokensPerTick
      BY <2>1, ElapseStep
    <2>3. QED
      BY <2>1, <2>2 DEF Meter!Elapse
  <1>4. ASSUME StartServer PROVE LimiterTypeOK' /\ Meter!StartAnew
    <2>1. /\ LimiterTypeOK'
          /\ \A c \in Clients : Levels'[c] = MaxTokens
      BY <1>4, StartStep
    <2>2. QED
      BY <1>4, <2>1 DEF StartServer, Meter!StartAnew
  <1>5. ASSUME Cleanup PROVE LimiterTypeOK' /\ UNCHANGED Meter!meterVars
    <2>1. CleanupIdleBuckets /\ UNCHANGED <<answer, starts>>
      BY <1>5 DEF Cleanup, CleanupIdleBuckets, serverVars
    <2>2. LimiterTypeOK' /\ \A c \in Clients : Levels'[c] = Levels[c]
      BY <2>1, CleanupStep
    <2>3. QED
      BY <2>1, <2>2 DEF Meter!meterVars
  <1>6. ASSUME LimiterRests PROVE LimiterTypeOK' /\ UNCHANGED Meter!meterVars
    <2>1. LimiterTypeOK'
      BY <1>6 DEF LimiterRests, limiterVars, LimiterTypeOK
    <2>2. Levels' = Levels
      BY <1>6 DEF LimiterRests, limiterVars, Levels, Level, Refilled
    <2>3. QED
      BY <1>6, <2>1, <2>2 DEF LimiterRests, limiterVars, Meter!meterVars
  <1>7. CASE UNCHANGED vars
    BY <1>6, <1>7 DEF vars, LimiterRests, serverVars
  <1>8. QED
    BY <1>1, <1>2, <1>3, <1>4, <1>5, <1>6, <1>7, OthersRest, ProcessRests
    DEF Next, Meter!MeterNext

\* Nobody changes whose a request is.
LEMMA ClientsStay == [Next]_vars => client' = client
  BY DEF Next, vars, StartServer, Signal, Stopped, Drained, DrainTimeout, Killed, Ends,
         SaveTimer, Cleanup, Tick, Arrive, RequestStep, PassLimit, ExceedLimit, BadBody, Parse,
         Acquire, TriesAgain, SetUpFails, Answers, ReadFails, Rejects, ErrorDocument,
         StreamStarts, StreamEnds, StreamFails, Handler

\* The types of the buckets, and whose each request is.
LEMMA LimiterTyped == Spec => [](LimiterTypeOK /\ client \in [Requests -> Clients])
  <1>1. Init => LimiterTypeOK /\ client \in [Requests -> Clients]
    BY LimiterAssumption DEF Init, LimiterInit, NoBucket, LimiterTypeOK
  <1>2. LimiterTypeOK /\ client \in [Requests -> Clients] /\ [Next]_vars
          => (LimiterTypeOK /\ client \in [Requests -> Clients])'
    BY MeterStep, ClientsStay
  <1>3. QED
    BY <1>1, <1>2, PTL DEF Spec

\* The token buckets of the gateway are exact meters: refilling a bucket only
\* when it is used, keeping the time of the last refill and forgetting buckets
\* that were idle for long is never seen by a client, whatever the limits are.
THEOREM MeterImplemented == Spec => ImplementsMeter
  <1>1. Init => Meter!MeterInit
    <2> SUFFICES ASSUME Init PROVE Meter!MeterInit
      OBVIOUS
    <2>1. ASSUME NEW c \in Clients PROVE Levels[c] = MaxTokens
      BY LevelsAre DEF Init, LimiterInit, NoBucket, Level, Refilled
    <2>2. Levels = [c \in Clients |-> MaxTokens]
      BY <2>1, LevelsAre
    <2>3. QED
      BY <2>2 DEF Init, LimiterInit, Meter!MeterInit
  <1>2. LimiterTypeOK /\ client \in [Requests -> Clients] /\ [Next]_vars
          => [Meter!MeterNext]_(Meter!meterVars)
    BY MeterStep
  <1>3. QED
    BY <1>1, <1>2, LimiterTyped, PTL DEF Spec, ImplementsMeter, Meter!MeterSpec

\* Division by t, rounded up, is enough.
LEMMA RoundedUp ==
  ASSUME NEW n \in Int, NEW t \in Nat \ {0}
  PROVE  /\ (n + t - 1) \div t \in Int
         /\ ((n + t - 1) \div t) * t >= n
  <1> DEFINE q == (n + t - 1) \div t
             m == (n + t - 1) % t
  <1>1. q \in Int /\ m \in 0..(t - 1) /\ n + t - 1 = t * q + m
    BY Z3
  <1> HIDE DEF q, m
  <1>2. QED
    BY <1>1 DEF q

\* A client that is told to wait and does is served: the Retry-After of a refusal
\* is long enough, for every rate, limit and price (rateLimit.ts:56-64).
THEOREM WaitingHelps == Spec => []RetryAfterSuffices
  <1>1. LimiterTypeOK => RetryAfterSuffices
    <2> SUFFICES ASSUME LimiterTypeOK, NEW c \in Clients, buckets[c].kept,
                        now - buckets[c].lastRefill >= RetryAfter(c)
                 PROVE  Level(c) >= TokensPerRequest
      BY DEF RetryAfterSuffices
    <2> DEFINE needed == TokensPerRequest - buckets[c].tokens
    <2>1. needed \in Int /\ buckets[c].tokens \in Nat
      BY LimiterAssumption DEF LimiterTypeOK
    <2>2. RetryAfter(c) \in Int /\ RetryAfter(c) * TokensPerTick >= needed
      BY <2>1, RoundedUp, LimiterAssumption DEF RetryAfter
    <2>3. Gain(c) >= RetryAfter(c) * TokensPerTick
      BY <2>2, GainType, LimiterAssumption DEF Gain
    <2>4. Gain(c) >= needed
      BY <2>1, <2>2, <2>3, GainType, LimiterAssumption
    <2>5. buckets[c].tokens + Gain(c) >= TokensPerRequest
      BY <2>1, <2>4, GainType, LimiterAssumption
    <2>6. QED
      BY <2>1, <2>5, LevelIs, GainType, LimiterAssumption DEF Capped
  <1>2. QED
    BY <1>1, LimiterTyped, PTL

-----------------------------------------------------------------------------
(* The counter of requests in flight.                                      *)

\* The requests whose handler has not returned.
Open == {r \in Requests : req[r] \in Handled}

\* inFlightRequests counts them.
InFlightExact == req \in [Requests -> {"none", "streaming"} \cup Handled \cup Outcomes]
                 /\ inFlight = Cardinality(Open)

LEMMA OpenFinite == IsFiniteSet(Open) /\ IsFiniteSet(Open') /\ Cardinality(Open) \in Nat
  <1>1. Open \in SUBSET Requests /\ Open' \in SUBSET Requests
    BY DEF Open
  <1>2. QED
    BY <1>1, GatewayAssumption, FS_Subset, FS_CardinalityType

\* A handler that only moves on stays open.
LEMMA MovesOn ==
  ASSUME InFlightExact, NEW r \in Requests, NEW at \in Handled, req[r] \in Handled,
         To(r, at), inFlight' = inFlight
  PROVE  InFlightExact'
  <1>1. Open' = Open
    BY DEF Open, To, InFlightExact
  <1>2. QED
    BY <1>1 DEF InFlightExact, To

\* A request that is not handled stays so.
LEMMA StaysOut ==
  ASSUME InFlightExact, NEW r \in Requests, NEW at \in Outcomes,
         req[r] \in {"none", "streaming"}, To(r, at), inFlight' = inFlight
  PROVE  InFlightExact'
  <1>1. Open' = Open
    BY DEF Open, To, InFlightExact, Handled, Outcomes
  <1>2. QED
    BY <1>1 DEF InFlightExact, To

\* A handler that returns is counted down, once.
LEMMA ReturnCounts ==
  ASSUME InFlightExact, NEW r \in Requests, NEW at \in {"streaming"} \cup Outcomes,
         req[r] \in Handled, Returns(r, at)
  PROVE  InFlightExact'
  <1>1. /\ Open' = Open \ {r} /\ r \in Open
        /\ req' \in [Requests -> {"none", "streaming"} \cup Handled \cup Outcomes]
    BY DEF Open, Returns, To, InFlightExact, Handled, Outcomes
  <1>2. Cardinality(Open') = Cardinality(Open) - 1
    BY <1>1, OpenFinite, FS_RemoveElement
  <1>3. QED
    BY <1>1, <1>2 DEF Returns, InFlightExact

\* One that starts is counted up.
LEMMA EntryCounts ==
  ASSUME InFlightExact, NEW r \in Requests, req[r] = "none", To(r, "entered"),
         inFlight' = inFlight + 1
  PROVE  InFlightExact'
  <1>1. /\ Open' = Open \cup {r} /\ r \notin Open
        /\ req' \in [Requests -> {"none", "streaming"} \cup Handled \cup Outcomes]
    BY DEF Open, To, InFlightExact, Handled
  <1>2. Cardinality(Open') = Cardinality(Open) + 1
    BY <1>1, OpenFinite, FS_AddElement
  <1>3. QED
    BY <1>1, <1>2 DEF InFlightExact

\* The end of the process closes them all.
LEMMA EndCounts ==
  ASSUME InFlightExact, NEW how, Ends(how)
  PROVE  InFlightExact'
  <1>1. /\ Open' = {}
        /\ req' \in [Requests -> {"none", "streaming"} \cup Handled \cup Outcomes]
    BY DEF Open, Ends, Active, InFlightExact, Handled, Outcomes
  <1>2. QED
    BY <1>1, FS_EmptySet DEF Ends, InFlightExact

LEMMA NothingCounts ==
  ASSUME InFlightExact, UNCHANGED <<req, inFlight>>
  PROVE  InFlightExact'
  BY DEF InFlightExact, Open

LEMMA RequestCounts ==
  ASSUME InFlightExact, NEW r \in Requests, Arrive(r) \/ RequestStep(r)
  PROVE  InFlightExact'
  <1> USE DEF Handled, Outcomes, Handler
  <1>1. CASE Arrive(r)
    BY <1>1, EntryCounts, StaysOut DEF Arrive
  <1>2. CASE PassLimit(r) \/ Acquire(r) \/ TriesAgain(r)
    BY <1>2, MovesOn DEF PassLimit, Acquire, TriesAgain
  <1>3. CASE ExceedLimit(r) \/ BadBody(r) \/ SetUpFails(r) \/ Answers(r) \/ ReadFails(r)
             \/ Rejects(r) \/ ErrorDocument(r) \/ StreamStarts(r)
    BY <1>3, ReturnCounts
    DEF ExceedLimit, BadBody, SetUpFails, Answers, ReadFails, Rejects, ErrorDocument, StreamStarts
  <1>4. CASE Parse(r)
    BY <1>4, MovesOn, ReturnCounts DEF Parse
  <1>5. CASE StreamEnds(r) \/ StreamFails(r)
    BY <1>5, StaysOut DEF StreamEnds, StreamFails
  <1>6. QED
    BY <1>1, <1>2, <1>3, <1>4, <1>5 DEF RequestStep

\* The counter of requests in flight is the number of handlers that have not
\* returned, on whatever way they go (index.tsx:72-79).
THEOREM InFlightCounted == Spec => []InFlightExact
  <1>1. Init => InFlightExact
    <2> SUFFICES ASSUME Init PROVE InFlightExact
      OBVIOUS
    <2>1. Open = {}
      BY DEF Init, Open, Handled
    <2>2. QED
      BY <2>1, FS_EmptySet DEF Init, InFlightExact
  <1>2. InFlightExact /\ [Next]_vars => InFlightExact'
    <2> SUFFICES ASSUME InFlightExact, [Next]_vars PROVE InFlightExact'
      OBVIOUS
    <2>1. CASE \E r \in Requests : Arrive(r) \/ RequestStep(r)
      BY <2>1, RequestCounts
    <2>2. CASE Drained \/ DrainTimeout \/ Killed
      BY <2>2, EndCounts DEF Drained, DrainTimeout, Killed
    <2>3. CASE Signal
      BY <2>3, EndCounts, NothingCounts DEF Signal
    <2>4. CASE StartServer \/ Stopped \/ SaveTimer \/ Cleanup \/ Tick \/ UNCHANGED vars
      BY <2>4, NothingCounts DEF StartServer, Stopped, SaveTimer, Cleanup, Tick, vars
    <2>5. QED
      BY <2>1, <2>2, <2>3, <2>4 DEF Next
  <1>3. QED
    BY <1>1, <1>2, PTL DEF Spec

\* A shutdown that ends because nothing is in flight leaves no handler behind.
THEOREM DrainIsClean == Spec => DrainedExit
  <1>1. InFlightExact /\ [Next]_vars
          => [exit' = "drained" /\ exit # "drained" =>
                \A r \in Requests : req[r] \notin Handled]_vars
    <2> SUFFICES ASSUME InFlightExact, Next, exit' = "drained", exit # "drained",
                        NEW r \in Requests
                 PROVE  req[r] \notin Handled
      OBVIOUS
    <2>1. Drained
      BY DEF Next, Arrive, RequestStep, PassLimit, ExceedLimit, BadBody, Parse, Acquire, TriesAgain,
             SetUpFails, Answers, ReadFails, Rejects, ErrorDocument, StreamStarts, StreamEnds,
             StreamFails, Handler, serverVars, StartServer, Signal, Stopped, DrainTimeout, Killed,
             Ends, SaveTimer, Cleanup, Tick
    <2>2. Open = {}
      BY <2>1, OpenFinite, FS_EmptySet DEF Drained, InFlightExact
    <2>3. QED
      BY <2>2 DEF Open
  <1>2. QED
    BY <1>1, InFlightCounted, PTL DEF Spec, DrainedExit

-----------------------------------------------------------------------------
(* The request log and the monitor.                                        *)

Entries == [id : Requests, account : BOOLEAN, failed : BOOLEAN]
Records == [id : Requests, success : BOOLEAN]

\* An update of an entry leaves a list of as many; after an error is noted, the
\* entries of the request tell it.
LEMMA UpdatedEntries ==
  ASSUME LogTypeOK, NEW r \in Requests
  PROVE  /\ WithAccount(r) \in Seq(Entries) /\ Len(WithAccount(r)) <= MaxLogs
         /\ WithError(r) \in Seq(Entries) /\ Len(WithError(r)) <= MaxLogs
         /\ \A e \in Range(WithError(r)) : e.id = r => e.failed
  <1>1. /\ log \in [1..Len(log) -> Entries] /\ Len(log) \in Nat /\ DOMAIN log = 1..Len(log)
        /\ Len(log) <= MaxLogs
    BY LenProperties DEF LogTypeOK, Entries
  <1> DEFINE A == WithAccount(r)
             E == WithError(r)
  <1>2. A \in [1..Len(log) -> Entries] /\ E \in [1..Len(log) -> Entries]
    BY <1>1 DEF WithAccount, WithError, Updated, Entries
  <1>3. \A i \in 1..Len(log) : E[i].id = r => E[i].failed
    BY <1>1 DEF WithError, Updated, Entries
  <1>4. \A e \in Range(E) : e.id = r => e.failed
    BY <1>2, <1>3 DEF Range
  <1> HIDE DEF A, E
  <1>5. A \in Seq(Entries) /\ E \in Seq(Entries)
    BY <1>1, <1>2, SeqDef
  <1>6. DOMAIN A = 1..Len(log) /\ DOMAIN E = 1..Len(log)
    BY <1>2
  <1>7. Len(A) = Len(log) /\ Len(E) = Len(log)
    BY <1>1, <1>5, <1>6, LenProperties
  <1>8. QED
    BY <1>1, <1>4, <1>5, <1>7 DEF A, E

LEMMA CreatedEntries ==
  ASSUME LogTypeOK, NEW r \in Requests
  PROVE  Created(r) \in Seq(Entries) /\ Len(Created(r)) <= MaxLogs
  <1> DEFINE e == [id |-> r, account |-> FALSE, failed |-> FALSE]
             all == Append(log, e)
  <1>1. e \in Entries /\ log \in Seq(Entries) /\ Len(log) \in Nat /\ Len(log) <= MaxLogs
    BY LenProperties DEF LogTypeOK, Entries
  <1>2. all \in Seq(Entries) /\ all # <<>> /\ Len(all) = Len(log) + 1
    BY <1>1, AppendProperties
  <1>3. Tail(all) \in Seq(Entries) /\ Len(Tail(all)) = Len(log)
    BY <1>1, <1>2, HeadTailProperties
  <1>4. Created(r) = IF Len(all) > MaxLogs THEN Tail(all) ELSE all
    BY DEF Created
  <1> HIDE DEF all
  <1>5. QED
    BY <1>1, <1>2, <1>3, <1>4, LogAssumption

\* The last MaxEntries of a longer list of records.
LEMMA LastOfIs ==
  ASSUME NEW records \in Seq(Records), Len(records) > MaxEntries
  PROVE  /\ LastOf(records) \in Seq(Records)
         /\ Len(LastOf(records)) = MaxEntries
         /\ \A i \in 1..MaxEntries :
              LastOf(records)[i] = records[Len(records) - MaxEntries + i]
  <1> DEFINE m == Len(records) - MaxEntries + 1
             n == Len(records)
  <1>1. n \in Nat /\ m \in Int /\ m >= 1 /\ m <= n /\ n - m + 1 = MaxEntries
    BY LenProperties, LogAssumption
  <1>2. \A i \in m..n : records[i] \in Records
    BY <1>1, ElementOfSeq
  <1>3. LastOf(records) = SubSeq(records, m, n)
    BY DEF LastOf
  <1> HIDE DEF m, n
  <1>4. /\ SubSeq(records, m, n) \in Seq(Records)
        /\ Len(SubSeq(records, m, n)) = n - m + 1
        /\ \A i \in 1..(n - m + 1) : SubSeq(records, m, n)[i] = records[m + i - 1]
    BY <1>1, <1>2, SubSeqProperties
  <1>5. \A i \in 1..MaxEntries : records[m + i - 1] = records[Len(records) - MaxEntries + i]
    BY <1>1, LogAssumption DEF m
  <1>6. QED
    BY <1>1, <1>3, <1>4, <1>5

\* new goes on where old was: the oldest records may be missing, if it is full.
Continues(old, new) ==
    \E n \in 0..Len(old) :
       /\ Len(old) - n <= Len(new)
       /\ \A i \in 1..(Len(old) - n) : new[i] = old[n + i]
       /\ n > 0 => Len(new) >= MaxEntries

LEMMA ContinuesItself ==
  ASSUME NEW records \in Seq(Records)
  PROVE  Continues(records, records)
  <1>1. Len(records) \in Nat
    BY LenProperties
  <1>2. QED
    BY <1>1 DEF Continues

\* A trim drops records that a later one has made superfluous.
LEMMA LastOfContinues ==
  ASSUME NEW old \in Seq(Records), NEW new \in Seq(Records), Continues(old, new),
         Len(new) > MaxEntries
  PROVE  Continues(old, LastOf(new))
  <1>1. PICK n \in 0..Len(old) : /\ Len(old) - n <= Len(new)
                                 /\ \A i \in 1..(Len(old) - n) : new[i] = old[n + i]
    BY DEF Continues
  <1> DEFINE d == Len(new) - MaxEntries
  <1>2. Len(old) \in Nat /\ Len(new) \in Nat /\ MaxEntries \in Nat /\ d \in Nat
    BY LenProperties, LogAssumption
  <1>3. CASE n + d <= Len(old)
    <2>1. Len(old) - (n + d) <= MaxEntries /\ n + d \in 0..Len(old)
      BY <1>1, <1>2, <1>3
    <2>2. ASSUME NEW i \in 1..(Len(old) - (n + d))
          PROVE  LastOf(new)[i] = old[(n + d) + i]
      <3>1. i \in 1..MaxEntries /\ d + i \in 1..(Len(old) - n) /\ n + (d + i) = (n + d) + i
        BY <1>1, <1>2, <1>3, <2>1
      <3>2. LastOf(new)[i] = new[d + i]
        BY <3>1, LastOfIs
      <3>3. QED
        BY <1>1, <3>1, <3>2
    <2>3. Len(LastOf(new)) = MaxEntries
      BY LastOfIs
    <2> DEFINE k == n + d
    <2>4. /\ k \in 0..Len(old)
          /\ Len(old) - k <= Len(LastOf(new))
          /\ \A i \in 1..(Len(old) - k) : LastOf(new)[i] = old[k + i]
          /\ Len(LastOf(new)) >= MaxEntries
      BY <1>2, <2>1, <2>2, <2>3
    <2> HIDE DEF k
    <2>5. QED
      BY <2>4 DEF Continues
  <1>4. CASE ~(n + d <= Len(old))
    <2>1. Len(LastOf(new)) = MaxEntries
      BY LastOfIs
    <2> DEFINE k == Len(old)
    <2>2. /\ k \in 0..Len(old)
          /\ Len(old) - k <= Len(LastOf(new))
          /\ 1..(Len(old) - k) = {}
          /\ Len(LastOf(new)) >= MaxEntries
      BY <1>2, <2>1
    <2> HIDE DEF k
    <2>3. QED
      BY <2>2 DEF Continues
  <1>5. QED
    BY <1>3, <1>4

LEMMA AppendContinues ==
  ASSUME NEW old \in Seq(Records), NEW new \in Seq(Records), NEW m \in Records,
         Continues(old, new)
  PROVE  Continues(old, Append(new, m))
  <1>1. PICK n \in 0..Len(old) : /\ Len(old) - n <= Len(new)
                                 /\ \A i \in 1..(Len(old) - n) : new[i] = old[n + i]
                                 /\ n > 0 => Len(new) >= MaxEntries
    BY DEF Continues
  <1>2. Len(old) \in Nat /\ Len(new) \in Nat /\ MaxEntries \in Nat
    BY LenProperties, LogAssumption
  <1>3. Len(Append(new, m)) = Len(new) + 1 /\ \A i \in 1..Len(new) : Append(new, m)[i] = new[i]
    BY AppendProperties
  <1>4. \A i \in 1..(Len(old) - n) : i \in 1..Len(new)
    BY <1>1, <1>2
  <1>5. QED
    BY <1>1, <1>2, <1>3, <1>4 DEF Continues

\* record(): the list stays within its bounds, nothing but the record is added, and
\* it goes on from whatever it went on from.
LEMMA RecordedIs ==
  ASSUME NEW records \in Seq(Records), Len(records) <= MaxEntries + TrimBatch,
         NEW m \in Records
  PROVE  /\ Recorded(records, m) \in Seq(Records)
         /\ Len(Recorded(records, m)) <= MaxEntries + TrimBatch
         /\ Range(Recorded(records, m)) \subseteq Range(records) \cup {m}
         /\ \A old \in Seq(Records) :
              Continues(old, records) => Continues(old, Recorded(records, m))
  <1> DEFINE all == Append(records, m)
  <1>1. /\ all \in Seq(Records) /\ Len(all) = Len(records) + 1 /\ Len(records) \in Nat
        /\ \A i \in 1..Len(records) : all[i] = records[i]
        /\ all[Len(records) + 1] = m
    BY AppendProperties, LenProperties
  <1>2. \A i \in 1..Len(all) : all[i] \in Range(records) \cup {m}
    <2>1. DOMAIN records = 1..Len(records)
      BY LenProperties
    <2>2. \A i \in 1..Len(all) : i \in 1..Len(records) \/ i = Len(records) + 1
      BY <1>1
    <2>3. QED
      BY <1>1, <2>1, <2>2 DEF Range
  <1>3. \A old \in Seq(Records) : Continues(old, records) => Continues(old, all)
    BY AppendContinues
  <1>4. Recorded(records, m) = IF Len(all) > MaxEntries + TrimBatch THEN LastOf(all) ELSE all
    BY DEF Recorded, Trimmed
  <1> HIDE DEF all
  <1>5. CASE Len(all) > MaxEntries + TrimBatch
    <2>1. Len(all) > MaxEntries
      BY <1>1, <1>5, LogAssumption
    <2>2. /\ LastOf(all) \in Seq(Records) /\ Len(LastOf(all)) = MaxEntries
          /\ \A i \in 1..MaxEntries : LastOf(all)[i] = all[Len(all) - MaxEntries + i]
      BY <1>1, <2>1, LastOfIs
    <2>3. Range(LastOf(all)) \subseteq Range(records) \cup {m}
      <3>1. DOMAIN LastOf(all) = 1..MaxEntries
        BY <2>2, LenProperties
      <3>2. \A i \in 1..MaxEntries : Len(all) - MaxEntries + i \in 1..Len(all)
        BY <1>1, <2>1, LogAssumption
      <3>3. \A i \in 1..MaxEntries : LastOf(all)[i] \in Range(records) \cup {m}
        BY <1>2, <2>2, <3>2
      <3>4. QED
        BY <3>1, <3>3 DEF Range
    <2>4. \A old \in Seq(Records) : Continues(old, records) => Continues(old, LastOf(all))
      BY <1>1, <1>3, <2>1, LastOfContinues
    <2>5. QED
      BY <1>4, <1>5, <2>2, <2>3, <2>4, LogAssumption
  <1>6. CASE ~(Len(all) > MaxEntries + TrimBatch)
    <2>1. DOMAIN all = 1..Len(all)
      BY <1>1, LenProperties
    <2>2. Range(all) \subseteq Range(records) \cup {m}
      BY <1>2, <2>1 DEF Range
    <2>3. QED
      BY <1>1, <1>3, <1>4, <1>6, <2>2, LogAssumption
  <1>7. QED
    BY <1>5, <1>6

\* finalizeRequest records a success only if no error was noted in the entry.
LEMMA FinalizeRecords ==
  ASSUME LogTypeOK, NEW r \in Requests, NEW entries \in Seq(Entries), Len(entries) <= MaxLogs,
         NEW twice \in BOOLEAN, Finalize(r, entries, twice)
  PROVE  /\ LogTypeOK'
         /\ file' = file
         /\ Continues(file, monitor) => Continues(file, monitor')
         /\ \A m \in Range(monitor') :
              \/ m \in Range(monitor)
              \/ /\ m.id = r
                 /\ m.success => \E e \in Range(entries) : e.id = r /\ ~e.failed
  <1> DEFINE mine == {e \in Range(entries) : e.id = r /\ e.account}
             rec == [id |-> r, success |-> \A e \in mine : ~e.failed]
             once == Recorded(monitor, rec)
             both == Recorded(once, rec)
  <1>1. /\ log' = entries /\ file' = file
        /\ IF mine = {}
           THEN UNCHANGED <<monitor, dirty, saveTimer>>
           ELSE /\ monitor' = IF twice THEN both ELSE once
                /\ dirty' = TRUE /\ saveTimer' = TRUE
    BY DEF Finalize
  <1>2. rec \in Records /\ rec.id = r /\ rec.success = (\A e \in mine : ~e.failed)
    BY DEF Records
  <1>3. /\ mine \subseteq Range(entries)
        /\ \A e \in mine : e.id = r
    OBVIOUS
  <1> HIDE DEF mine, rec
  <1>4. /\ monitor \in Seq(Records) /\ file \in Seq(Records)
        /\ Len(monitor) <= MaxEntries + TrimBatch
    BY DEF LogTypeOK, Records
  <1>5. /\ once \in Seq(Records) /\ Len(once) <= MaxEntries + TrimBatch
        /\ Range(once) \subseteq Range(monitor) \cup {rec}
        /\ Continues(file, monitor) => Continues(file, once)
    BY <1>2, <1>4, RecordedIs
  <1> HIDE DEF once
  <1>6. /\ both \in Seq(Records) /\ Len(both) <= MaxEntries + TrimBatch
        /\ Range(both) \subseteq Range(monitor) \cup {rec}
        /\ Continues(file, monitor) => Continues(file, both)
    BY <1>2, <1>4, <1>5, RecordedIs
  <1> HIDE DEF both
  <1>7. CASE mine = {}
    BY <1>1, <1>7 DEF LogTypeOK, Entries
  <1>8. CASE mine # {}
    <2>1. /\ monitor' \in Seq(Records) /\ Len(monitor') <= MaxEntries + TrimBatch
          /\ Range(monitor') \subseteq Range(monitor) \cup {rec}
          /\ Continues(file, monitor) => Continues(file, monitor')
      BY <1>1, <1>5, <1>6, <1>8
    <2>2. LogTypeOK'
      BY <1>1, <1>4, <1>8, <2>1 DEF LogTypeOK, Entries, Records
    <2>3. rec.success => \E e \in Range(entries) : e.id = r /\ ~e.failed
      BY <1>2, <1>3, <1>8
    <2>4. QED
      BY <1>1, <1>2, <2>1, <2>2, <2>3
  <1>9. QED
    BY <1>7, <1>8

ReqTypeOK == req \in [Requests -> {"none", "streaming"} \cup Handled \cup Outcomes]

LEMMA RecordsNamed ==
  ASSUME NEW records \in Seq(Records)
  PROVE  \A m \in Range(records) : m.id \in Requests
  <1>1. Range(records) \subseteq Records
    BY RangeOfSeq
  <1>2. QED
    BY <1>1 DEF Records

\* A process that starts has nothing in memory, and owes no save.
LEMMA EmptyLog ==
  ASSUME log = <<>>, monitor = <<>>, dirty = FALSE, saveTimer \in BOOLEAN, file \in Seq(Records)
  PROVE  LogTypeOK
  <1>1. /\ <<>> \in Seq(Entries) /\ <<>> \in Seq(Records) /\ Len(<<>>) = 0
        /\ 0 <= MaxLogs /\ 0 <= MaxEntries + TrimBatch
    BY EmptySeq, LogAssumption
  <1>2. QED
    BY <1>1 DEF LogTypeOK, Entries, Records

\* No success in the records of a request that did not end well.
Honest(records) == \A m \in Range(records) : m.success => req[m.id] \in {"ok", "document"}

HistoryInv ==
    /\ LogTypeOK /\ ReqTypeOK
    /\ server # "down" => Continues(file, monitor)
    /\ Honest(monitor) /\ Honest(file)

\* What a step of request r may do to the records.
RecordsOnly(r) ==
    /\ LogTypeOK'
    /\ file' = file
    /\ Continues(file, monitor) => Continues(file, monitor')
    /\ \A m \in Range(monitor') :
         \/ m \in Range(monitor)
         \/ m.id = r /\ (m.success => req'[r] \in {"ok", "document"})

LEMMA LogRests ==
  ASSUME LogTypeOK, NEW r \in Requests, UNCHANGED <<monitor, dirty, saveTimer, file>>,
         log' \in Seq(Entries), Len(log') <= MaxLogs
  PROVE  RecordsOnly(r)
  BY DEF RecordsOnly, LogTypeOK, Entries

\* A request that ends notes its error first, or ends well.
LEMMA EndRecords ==
  ASSUME LogTypeOK, NEW r \in Requests, NEW twice \in BOOLEAN,
         \/ Finalize(r, WithError(r), twice)
         \/ Finalize(r, log, twice) /\ req'[r] \in {"ok", "document"}
  PROVE  RecordsOnly(r)
  <1>1. CASE Finalize(r, WithError(r), twice)
    BY <1>1, UpdatedEntries, FinalizeRecords DEF RecordsOnly
  <1>2. CASE Finalize(r, log, twice) /\ req'[r] \in {"ok", "document"}
    <2>1. log \in Seq(Entries) /\ Len(log) <= MaxLogs
      BY DEF LogTypeOK, Entries
    <2>2. QED
      BY <1>2, <2>1, FinalizeRecords DEF RecordsOnly
  <1>3. QED
    BY <1>1, <1>2

LEMMA RequestRecords ==
  ASSUME LogTypeOK, ReqTypeOK, NEW r \in Requests, Arrive(r) \/ RequestStep(r)
  PROVE  /\ RecordsOnly(r)
         /\ req[r] \notin Outcomes
         /\ ReqTypeOK' /\ \A q \in Requests \ {r} : req'[q] = req[q]
         /\ server' = server
  <1>1. \E at : To(r, at)
    BY DEF Arrive, RequestStep, PassLimit, ExceedLimit, BadBody, Parse, Acquire, TriesAgain,
           SetUpFails, Answers, ReadFails, Rejects, ErrorDocument, StreamStarts, StreamEnds,
           StreamFails, Returns
  <1>2. req[r] \notin Outcomes /\ server' = server
    BY DEF Arrive, RequestStep, PassLimit, ExceedLimit, BadBody, Parse, Acquire, TriesAgain,
           SetUpFails, Answers, ReadFails, Rejects, ErrorDocument, StreamStarts, StreamEnds,
           StreamFails, Handler, serverVars, Outcomes
  <1>3. \A q \in Requests \ {r} : req'[q] = req[q]
    BY <1>1 DEF To, ReqTypeOK
  <1>4. ReqTypeOK'
    BY DEF Arrive, RequestStep, PassLimit, ExceedLimit, BadBody, Parse, Acquire, TriesAgain,
           SetUpFails, Answers, ReadFails, Rejects, ErrorDocument, StreamStarts, StreamEnds,
           StreamFails, Returns, To, ReqTypeOK, Handled, Outcomes
  <1>5. RecordsOnly(r)
    <2>0. log \in Seq(Entries) /\ Len(log) <= MaxLogs
      BY DEF LogTypeOK, Entries
    <2>1. CASE \/ Arrive(r) \/ PassLimit(r) \/ ExceedLimit(r) \/ BadBody(r)
               \/ StreamStarts(r)
      BY <2>0, <2>1, LogRests DEF Arrive, PassLimit, ExceedLimit, BadBody, StreamStarts, logVars
    <2>2. CASE Parse(r)
      BY <2>2, CreatedEntries, LogRests DEF Parse
    <2>3. CASE Acquire(r) \/ TriesAgain(r)
      BY <2>3, UpdatedEntries, LogRests DEF Acquire, TriesAgain
    <2>4. CASE SetUpFails(r) \/ ReadFails(r) \/ Rejects(r) \/ StreamFails(r)
      BY <2>4, EndRecords DEF SetUpFails, ReadFails, Rejects, StreamFails
    <2>5. CASE Answers(r) \/ ErrorDocument(r) \/ StreamEnds(r)
      <3>1. req'[r] \in {"ok", "document"}
        BY <2>5 DEF Answers, ErrorDocument, StreamEnds, Returns, To, ReqTypeOK
      <3>2. Finalize(r, log, FALSE)
        BY <2>5 DEF Answers, ErrorDocument, StreamEnds
      <3>3. QED
        BY <3>1, <3>2, EndRecords
    <2>6. QED
      BY <2>1, <2>2, <2>3, <2>4, <2>5 DEF RequestStep
  <1>6. QED
    BY <1>2, <1>3, <1>4, <1>5

LEMMA RequestKeepsHistory ==
  ASSUME HistoryInv, NEW r \in Requests, Arrive(r) \/ RequestStep(r)
  PROVE  HistoryInv' /\ file' = file
  <1>1. /\ RecordsOnly(r) /\ ReqTypeOK' /\ server' = server
        /\ \A q \in Requests \ {r} : req'[q] = req[q]
        /\ req[r] \notin {"ok", "document"}
    BY RequestRecords DEF HistoryInv, Outcomes
  <1>2. \A q \in Requests : req[q] \in {"ok", "document"} => req'[q] = req[q]
    BY <1>1
  <1>3. \A m \in Range(monitor) \cup Range(file) : m.id \in Requests
    BY RecordsNamed DEF HistoryInv, LogTypeOK, Records
  <1>4. Honest(file)' /\ Honest(monitor)'
    BY <1>1, <1>2, <1>3 DEF RecordsOnly, Honest, HistoryInv
  <1>5. QED
    BY <1>1, <1>4 DEF RecordsOnly, HistoryInv

\* The end of the process loses what is in memory, and keeps the file unless it
\* is killed.
LEMMA EndKeepsHistory ==
  ASSUME HistoryInv, NEW how, Ends(how), file' \in {file, <<>>}
  PROVE  HistoryInv'
  <1>1. LogTypeOK'
    <2>1. /\ log' = <<>> /\ monitor' = <<>> /\ dirty' = FALSE /\ saveTimer' = FALSE
          /\ file' \in Seq(Records)
      BY EmptySeq DEF HistoryInv, LogTypeOK, Records, Ends, LogLost
    <2>2. /\ <<>> \in Seq(Entries) /\ <<>> \in Seq(Records) /\ Len(<<>>) = 0
          /\ 0 <= MaxLogs /\ 0 <= MaxEntries + TrimBatch
      BY EmptySeq, LogAssumption
    <2>3. QED
      BY <2>1, <2>2 DEF LogTypeOK, Entries, Records
  <1>2. ReqTypeOK' /\ \A q \in Requests : req[q] \in {"ok", "document"} => req'[q] = req[q]
    BY DEF HistoryInv, ReqTypeOK, Ends, Active, Handled, Outcomes
  <1>3. Range(monitor') = {} /\ Range(file') \subseteq Range(file)
    BY DEF Ends, LogLost, Range
  <1>4. \A m \in Range(file) : m.id \in Requests
    BY RecordsNamed DEF HistoryInv, LogTypeOK, Records
  <1>5. Honest(file)' /\ Honest(monitor)'
    BY <1>2, <1>3, <1>4 DEF HistoryInv, Honest
  <1>6. QED
    BY <1>1, <1>2, <1>5 DEF HistoryInv, Ends

\* A new process goes on with what the last one saved.
LEMMA StartKeepsHistory ==
  ASSUME HistoryInv, StartServer
  PROVE  HistoryInv' /\ file' = file
  <1>1. /\ monitor' = Loaded /\ file' = file /\ req' = req
        /\ UNCHANGED <<log, dirty, saveTimer>>
        /\ file \in Seq(Records) /\ Len(file) \in Nat
    BY LenProperties DEF StartServer, StartLog, HistoryInv, LogTypeOK, Records
  <1>2. /\ Loaded \in Seq(Records) /\ Len(Loaded) <= MaxEntries
        /\ Continues(file, Loaded) /\ Range(Loaded) \subseteq Range(file)
    <2>1. CASE Len(file) > MaxEntries
      <3>1. /\ LastOf(file) \in Seq(Records) /\ Len(LastOf(file)) = MaxEntries
            /\ \A i \in 1..MaxEntries : LastOf(file)[i] = file[Len(file) - MaxEntries + i]
        BY <1>1, <2>1, LastOfIs
      <3>2. Continues(file, LastOf(file))
        BY <1>1, <2>1, ContinuesItself, LastOfContinues
      <3>3. Range(LastOf(file)) \subseteq Range(file)
        <4>1. DOMAIN LastOf(file) = 1..MaxEntries /\ DOMAIN file = 1..Len(file)
          BY <1>1, <3>1, LenProperties
        <4>2. \A i \in 1..MaxEntries : Len(file) - MaxEntries + i \in 1..Len(file)
          BY <1>1, <2>1, LogAssumption
        <4>3. \A i \in 1..MaxEntries : LastOf(file)[i] \in Range(file)
          BY <3>1, <4>1, <4>2 DEF Range
        <4>4. QED
          BY <4>1, <4>3 DEF Range
      <3>4. QED
        BY <2>1, <3>1, <3>2, <3>3, LogAssumption DEF Loaded
    <2>2. CASE ~(Len(file) > MaxEntries)
      BY <1>1, <2>2, ContinuesItself, LogAssumption DEF Loaded
    <2>3. QED
      BY <2>1, <2>2
  <1>3. LogTypeOK'
    <2>1. Len(monitor') <= MaxEntries + TrimBatch
      <3>1. Len(Loaded) \in Nat
        BY <1>2, LenProperties
      <3>2. QED
        BY <1>1, <1>2, <3>1, LogAssumption
    <2>2. QED
      BY <1>1, <1>2, <2>1 DEF HistoryInv, LogTypeOK, Records
  <1>4. Honest(file)' /\ Honest(monitor)'
    BY <1>1, <1>2 DEF HistoryInv, Honest
  <1>5. QED
    BY <1>1, <1>2, <1>3, <1>4 DEF HistoryInv, ReqTypeOK

\* A save writes what went on from the file.
LEMMA SaveKeepsHistory ==
  ASSUME HistoryInv, SaveTimer
  PROVE  HistoryInv' /\ Continues(file, file')
  <1>1. /\ monitor' = monitor /\ log' = log /\ req' = req /\ server' = server
        /\ file' \in {monitor, file} /\ server # "down"
        /\ dirty' = FALSE /\ saveTimer' = FALSE
    BY DEF SaveTimer, Save, serverVars
  <1>2. monitor \in Seq(Records) /\ file \in Seq(Records) /\ Continues(file, monitor)
    BY <1>1 DEF HistoryInv, LogTypeOK, Records
  <1>3. Continues(file, file') /\ Continues(file', monitor')
    BY <1>1, <1>2, ContinuesItself
  <1>4. LogTypeOK'
    BY <1>1 DEF HistoryInv, LogTypeOK
  <1>5. QED
    BY <1>1, <1>3, <1>4 DEF HistoryInv, Honest, ReqTypeOK

LEMMA RestKeepsHistory ==
  ASSUME HistoryInv, UNCHANGED <<logVars, req>>, server = "down" => server' = "down"
  PROVE  HistoryInv' /\ file' = file
  <1>1. /\ log' = log /\ monitor' = monitor /\ dirty' = dirty /\ saveTimer' = saveTimer
        /\ file' = file /\ req' = req
    BY DEF logVars
  <1>2. LogTypeOK' /\ ReqTypeOK'
    BY <1>1 DEF HistoryInv, LogTypeOK, ReqTypeOK
  <1>3. Honest(monitor)' /\ Honest(file)'
    BY <1>1 DEF HistoryInv, Honest
  <1>4. QED
    BY <1>1, <1>2, <1>3 DEF HistoryInv

LEMMA StepKeepsHistory ==
  ASSUME HistoryInv, [Next]_vars
  PROVE  HistoryInv' /\ (Killed \/ Continues(file, file'))
  <1>1. ASSUME file' = file PROVE Continues(file, file')
    <2>1. file \in Seq(Records)
      BY DEF HistoryInv, LogTypeOK, Records
    <2>2. QED
      BY <1>1, <2>1, ContinuesItself
  <1>2. ASSUME NEW r \in Requests, Arrive(r) \/ RequestStep(r)
        PROVE  HistoryInv' /\ file' = file
    BY <1>2, RequestKeepsHistory
  <1>3. CASE Drained \/ DrainTimeout \/ (Signal /\ Ends("forced"))
    BY <1>1, <1>3, EndKeepsHistory DEF Drained, DrainTimeout, Signal, logVars
  <1>4. CASE Killed
    BY <1>4, EndKeepsHistory DEF Killed
  <1>5. CASE (Signal /\ server = "up") \/ Stopped \/ Cleanup \/ Tick \/ UNCHANGED vars
    BY <1>1, <1>5, RestKeepsHistory DEF Signal, Stopped, Cleanup, Tick, vars, serverVars
  <1>6. CASE Signal
    BY <1>3, <1>5, <1>6 DEF Signal
  <1>7. QED
    BY <1>1, <1>2, <1>3, <1>4, <1>5, <1>6, StartKeepsHistory, SaveKeepsHistory DEF Next

LEMMA HistoryIsKept == Spec => []HistoryInv
  <1>1. Init => HistoryInv
    <2> SUFFICES ASSUME Init PROVE HistoryInv
      OBVIOUS
    <2>1. LogTypeOK
      BY EmptySeq, EmptyLog DEF Init, LogInit
    <2>2. Range(monitor) = {} /\ Range(file) = {}
      BY DEF Init, LogInit, Range
    <2>3. QED
      BY <2>1, <2>2 DEF Init, HistoryInv, ReqTypeOK, Honest
  <1>2. HistoryInv /\ [Next]_vars => HistoryInv'
    BY StepKeepsHistory
  <1>3. QED
    BY <1>1, <1>2, PTL DEF Spec

\* A request that failed is never recorded as a success, whatever the order of
\* retries, errors and ends, with entries pushed out of the log and the monitor
\* trimmed, saved, lost and loaded in between.
THEOREM NoFailureIsHidden == Spec => []NoFailureHidden
  <1>1. HistoryInv => NoFailureHidden
    BY DEF HistoryInv, Honest, NoFailureHidden
  <1>2. QED
    BY <1>1, HistoryIsKept, PTL

\* Going on, in the words of HistoryKept.
LEMMA ContinuesMeans ==
  ASSUME NEW old \in Seq(Records), NEW new \in Seq(Records), Continues(old, new)
  PROVE  \E n \in 0..Len(old) :
            /\ IsPrefix(SubSeq(old, n + 1, Len(old)), new)
            /\ n > 0 => Len(new) >= MaxEntries
  <1>1. PICK n \in 0..Len(old) : /\ Len(old) - n <= Len(new)
                                 /\ \A i \in 1..(Len(old) - n) : new[i] = old[n + i]
                                 /\ n > 0 => Len(new) >= MaxEntries
    BY DEF Continues
  <1> DEFINE k == Len(old)
             s == SubSeq(old, n + 1, k)
             l == k - n
  <1>2. k \in Nat /\ Len(new) \in Nat /\ l \in Nat /\ l <= Len(new) /\ l = k - n /\ n \in Nat
    BY <1>1, LenProperties
  <1>3. s \in Seq(Records) /\ Len(s) = l /\ \A i \in 1..l : s[i] = old[n + i]
    <2>1. \A i \in (n + 1)..k : old[i] \in Records
      BY <1>2, ElementOfSeq
    <2> HIDE DEF k
    <2>2. /\ s \in Seq(Records)
          /\ Len(s) = IF n + 1 <= k THEN k - (n + 1) + 1 ELSE 0
          /\ \A i \in 1..(k - (n + 1) + 1) : s[i] = old[(n + 1) + i - 1]
      BY <1>2, <2>1, SubSeqProperties
    <2>3. (k - (n + 1)) + 1 = l /\ Len(s) = l
      BY <1>2, <2>2
    <2>4. \A i \in 1..l : (n + 1) + i - 1 = n + i
      BY <1>2
    <2>5. QED
      BY <2>2, <2>3, <2>4
  <1>4. SubSeq(s, 1, Len(s)) = s
    BY <1>3, SubSeqFull
  <1> HIDE DEF s, l
  <1>5. SubSeq(new, 1, l) = s
    <2>1. \A i \in 1..l : new[i] \in Records
      BY <1>2, ElementOfSeq
    <2>2. /\ SubSeq(new, 1, l) \in Seq(Records)
          /\ Len(SubSeq(new, 1, l)) = l
          /\ \A i \in 1..l : SubSeq(new, 1, l)[i] = new[i]
      <3>1. /\ SubSeq(new, 1, l) \in Seq(Records)
            /\ Len(SubSeq(new, 1, l)) = IF 1 <= l THEN l - 1 + 1 ELSE 0
            /\ \A i \in 1..(l - 1 + 1) : SubSeq(new, 1, l)[i] = new[1 + i - 1]
        BY <1>2, <2>1, SubSeqProperties
      <3>2. QED
        BY <1>2, <3>1
    <2>3. \A i \in 1..l : SubSeq(new, 1, l)[i] = s[i]
      BY <1>1, <1>3, <2>2 DEF l
    <2>4. QED
      BY <1>3, <2>2, <2>3, SeqEqual
  <1>6. IsPrefix(s, new)
    BY <1>2, <1>3, <1>4, <1>5 DEF IsPrefix
  <1>7. QED
    BY <1>1, <1>6 DEF s

\* What the monitor has saved survives, except the oldest records of a full store
\* and a kill during a save: in every run of the process what is in memory goes on
\* from the file, so a save may overwrite it.
THEOREM HistorySurvives == Spec => HistoryKept
  <1>1. HistoryInv /\ HistoryInv' /\ [Next]_vars
          => [\/ Killed
              \/ \E n \in 0..Len(file) :
                    /\ IsPrefix(SubSeq(file, n + 1, Len(file)), file')
                    /\ n > 0 => Len(file') >= MaxEntries]_vars
    <2> SUFFICES ASSUME HistoryInv, HistoryInv', [Next]_vars, ~Killed
                 PROVE  \E n \in 0..Len(file) :
                           /\ IsPrefix(SubSeq(file, n + 1, Len(file)), file')
                           /\ n > 0 => Len(file') >= MaxEntries
      OBVIOUS
    <2>1. file \in Seq(Records) /\ file' \in Seq(Records)
      BY DEF HistoryInv, LogTypeOK, Records
    <2>2. Continues(file, file')
      BY StepKeepsHistory
    <2>3. QED
      BY <2>1, <2>2, ContinuesMeans
  <1>2. QED
    BY <1>1, HistoryIsKept, PTL DEF Spec, HistoryKept

\* The rest of the types: the process, and the attempts of each request.
ProcessTypeOK ==
    /\ server \in {"down", "up", "stopping", "draining"}
    /\ exit \in {"none", "drained", "timeout", "forced", "killed"}
    /\ tries \in [Requests -> 0..MaxTries]
    /\ starts \in 0..MaxStarts

LEMMA StepKeepsProcess ==
  ASSUME ProcessTypeOK, [Next]_vars
  PROVE  ProcessTypeOK'
  <1> USE DEF ProcessTypeOK
  <1>1. ASSUME NEW r \in Requests, Arrive(r) \/ RequestStep(r)
        PROVE  ProcessTypeOK'
    <2>1. CASE Acquire(r)
      BY <2>1, GatewayAssumption DEF Acquire, Handler, serverVars
    <2>2. CASE ~Acquire(r)
      BY <1>1, <2>2
      DEF Arrive, RequestStep, PassLimit, ExceedLimit, BadBody, Parse, TriesAgain, SetUpFails,
          Answers, ReadFails, Rejects, ErrorDocument, StreamStarts, StreamEnds, StreamFails,
          Handler, serverVars
    <2>3. QED
      BY <2>1, <2>2
  <1>2. CASE StartServer
    BY <1>2, GatewayAssumption DEF StartServer
  <1>3. CASE Signal \/ Stopped \/ Drained \/ DrainTimeout \/ Killed
    BY <1>3 DEF Signal, Stopped, Drained, DrainTimeout, Killed, Ends
  <1>4. CASE SaveTimer \/ Cleanup \/ Tick \/ UNCHANGED vars
    BY <1>4 DEF SaveTimer, Cleanup, Tick, vars, serverVars
  <1>5. QED
    BY <1>1, <1>2, <1>3, <1>4 DEF Next

\* Type correctness of the server: the list of entries never exceeds MAX_LOGS, the
\* monitor never its maximum and one batch, and no record waits without a timer
\* that will save it.
THEOREM GatewayTypes == Spec => []TypeOK
  <1>1. Init => ProcessTypeOK
    BY GatewayAssumption DEF Init, ProcessTypeOK
  <1>2. ProcessTypeOK /\ [Next]_vars => ProcessTypeOK'
    BY StepKeepsProcess
  <1>3. LimiterTypeOK /\ client \in [Requests -> Clients] /\ InFlightExact /\ HistoryInv
          /\ ProcessTypeOK => TypeOK
    BY OpenFinite DEF InFlightExact, HistoryInv, ReqTypeOK, ProcessTypeOK, TypeOK
  <1>4. QED
    BY <1>1, <1>2, <1>3, LimiterTyped, InFlightCounted, HistoryIsKept, PTL DEF Spec
=============================================================================
