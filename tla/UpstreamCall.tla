---------------------------- MODULE UpstreamCall ----------------------------
(***************************************************************************)
(* withRetry of src/utils/retry.ts around the circuit breaker, and its only*)
(* user, createQwenStream in src/services/qwen.ts, which looks at the      *)
(* breaker's state before it enters withRetry.  One action per stretch of  *)
(* code between two awaits.                                                *)
(***************************************************************************)
EXTENDS CircuitBreaker

CONSTANTS
    MaxRetries,     \* RETRY_MAX_ATTEMPTS, positive: with 0 withRetry is not used
    Checked         \* the calls made through createQwenStream

ASSUME CallAssumption ==
    /\ MaxRetries \in Nat \ {0}
    /\ Checked \subseteq Calls

VARIABLES
    pc,         \* where the call is
    attempt     \* the index of withRetry's loop

callVars == <<pc, attempt>>
allVars == <<breakerVars, callVars>>

Recording == {"recordSuccess", "recordFailure"}
Pcs == {"idle", "refused", "attempt", "failed", "backoff"} \cup Recording

CallTypeOK ==
    /\ BreakerTypeOK
    /\ pc \in [Calls -> Pcs]
    /\ attempt \in [Calls -> 0..MaxRetries]

CallInit ==
    /\ BreakerInit
    /\ pc = [c \in Calls |-> "idle"]
    /\ attempt = [c \in Calls |-> 0]

GoTo(c, label) ==
    /\ pc' = [pc EXCEPT ![c] = label]
    /\ UNCHANGED attempt

-----------------------------------------------------------------------------

\* createQwenStream throws on an open breaker before withRetry could ask it.
PassesCheck(c) == c \in Checked => state # "open"

\* The call is let through and makes its first attempt.
Start(c) ==
    /\ pc[c] = "idle"
    /\ PassesCheck(c)
    /\ AllowRequest
    /\ pc' = [pc EXCEPT ![c] = "attempt"]
    /\ attempt' = [attempt EXCEPT ![c] = 0]
    /\ UNCHANGED <<failureCount, sinceFailure, lock>>

\* CircuitOpenError, from either place.
Refuse(c) ==
    /\ pc[c] = "idle"
    /\ ~PassesCheck(c) \/ ~Allows
    /\ GoTo(c, "refused")
    /\ UNCHANGED breakerVars

Return(c) ==
    /\ pc[c] = "refused"
    /\ GoTo(c, "idle")
    /\ UNCHANGED breakerVars

AttemptSucceeds(c) ==
    /\ pc[c] = "attempt"
    /\ Record(c, "success")
    /\ GoTo(c, "recordSuccess")
    /\ UNCHANGED <<state, failureCount, successCount, sinceFailure>>

\* A network error or the attempt's timeout: isRetryable.
AttemptFails(c) ==
    /\ pc[c] = "attempt"
    /\ Record(c, "failure")
    /\ GoTo(c, "recordFailure")
    /\ UNCHANGED <<state, failureCount, successCount, sinceFailure>>

\* Any other error is thrown at once and not recorded.
AttemptThrows(c) ==
    /\ pc[c] = "attempt"
    /\ GoTo(c, "idle")
    /\ UNCHANGED breakerVars

\* The caller of the record at the head of the chain resumes.
Recorded ==
    /\ ApplyRecord
    /\ GoTo(Head(lock).call, IF Head(lock).kind = "success" THEN "idle" ELSE "failed")

\* The last attempt failed, or the breaker has opened meanwhile: withRetry throws.
GivesUp(c) == attempt[c] >= MaxRetries \/ state = "open"

GiveUp(c) ==
    /\ pc[c] = "failed"
    /\ GivesUp(c)
    /\ GoTo(c, "idle")
    /\ UNCHANGED breakerVars

\* Mutant of BackOff: the attempt is not counted.
BackOffUncounted(c) ==
    /\ pc[c] = "failed"
    /\ ~GivesUp(c)
    /\ GoTo(c, "backoff")
    /\ UNCHANGED breakerVars

BackOff(c) ==
    /\ pc[c] = "failed"
    /\ ~GivesUp(c)
    /\ pc' = [pc EXCEPT ![c] = "backoff"]
    /\ attempt' = [attempt EXCEPT ![c] = @ + 1]
    /\ UNCHANGED breakerVars

\* After the delay the next attempt starts, whatever the breaker's state is now.
TryAgain(c) ==
    /\ pc[c] = "backoff"
    /\ GoTo(c, "attempt")
    /\ UNCHANGED breakerVars

Step(c) ==
    \/ Start(c) \/ Refuse(c) \/ Return(c)
    \/ AttemptSucceeds(c) \/ AttemptFails(c) \/ AttemptThrows(c)
    \/ GiveUp(c) \/ BackOff(c) \/ TryAgain(c)

CallNext ==
    \/ \E c \in Calls : Step(c)
    \/ Recorded
    \/ BreakerTick /\ UNCHANGED callVars

CallSpec == CallInit /\ [][CallNext]_allVars

(***************************************************************************)
(* CallFairness.  An attempt ends, by its timeout at the latest; microtasks and*)
(* timers run; time passes; and calls keep coming in.                      *)
(***************************************************************************)
CallFairness ==
    /\ \A c \in Calls : WF_allVars(Step(c))
    /\ WF_allVars(Recorded)
    /\ WF_allVars(BreakerTick /\ UNCHANGED callVars)

FairCallSpec == CallSpec /\ CallFairness

-----------------------------------------------------------------------------

\* No count stands at its limit while the breaker waits for it to get there: a
\* closed breaker is below the failure threshold (so it neither stays closed over
\* it, nor closes with the old failures still counted, when one more would open it
\* again), and a half-open one is below the successes that close it.
CountersBelow ==
    /\ state = "closed" => failureCount < FailureThreshold
    /\ state = "half_open" => successCount < HalfOpenMaxAttempts

\* The promise chain loses no caller: whoever awaits a record has exactly one on
\* the chain, of the kind awaited, and every record has its caller waiting.
WaitersQueued ==
    /\ \A i \in DOMAIN lock :
         pc[lock[i].call] = IF lock[i].kind = "success" THEN "recordSuccess" ELSE "recordFailure"
    /\ \A i, j \in DOMAIN lock : lock[i].call = lock[j].call => i = j
    /\ \A c \in Calls : pc[c] \in Recording => \E i \in DOMAIN lock : lock[i].call = c

\* Every call returns: the retries are counted, and no record is waited for in vain.
CallsEnd == \A c \in Calls : pc[c] # "idle" ~> pc[c] = "idle"

\* Only a call that is not made through createQwenStream makes an open breaker try
\* again: the others are turned away before they could ask it (qwen.ts:528-533).
ProbedUnchecked ==
    [][state = "open" /\ state' # "open" => \E c \in Calls \ Checked : Start(c)]_allVars

\* As long as a call comes that asks the breaker itself, it tries again: "Time in ms
\* before transitioning from open to half-open" (retry.ts:83).  No other call makes it,
\* and all calls of the program are such others, so retry.ts:83 is not kept there.
OpenProbes ==
    /\ state = "open" ~> state = "half_open"
    /\ ProbedUnchecked

\* An open breaker stays open for ever, which is what the program's calls make of it.
OpenForGood == [][state = "open" => state' = "open"]_allVars
=============================================================================
