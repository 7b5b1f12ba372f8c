--------------------------- MODULE CircuitBreaker ---------------------------
(***************************************************************************)
(* The CircuitBreaker of src/utils/retry.ts: closed, it counts consecutive *)
(* failures; open, it refuses requests until a timeout has passed since the*)
(* last failure; half open, it lets requests probe the upstream.           *)
(*                                                                         *)
(* Outcomes are recorded through a promise chain (`lock`): a record is     *)
(* queued by the caller, applied in order by a later microtask, and the    *)
(* caller resumes after that.  reset() and execute() have no caller.       *)
(***************************************************************************)
EXTENDS Naturals, Sequences

CONSTANTS
    Calls,                  \* upstream calls that share the breaker
    FailureThreshold,       \* consecutive failures before it opens
    ResetTimeout,           \* resetTimeoutMs, in ticks
    HalfOpenMaxAttempts     \* successes before it closes

ASSUME BreakerAssumption ==
    /\ FailureThreshold \in Nat \ {0}
    /\ ResetTimeout \in Nat
    /\ HalfOpenMaxAttempts \in Nat \ {0}

VARIABLES
    state,
    failureCount,   \* saturates at the threshold, beyond which nothing tells counts apart
    successCount,
    sinceFailure,   \* ticks since lastFailureTime, as far as ResetTimeout
    lock            \* the records queued on the promise chain

breakerVars == <<state, failureCount, successCount, sinceFailure, lock>>

Records == [call : Calls, kind : {"success", "failure"}]

BreakerTypeOK ==
    /\ state \in {"closed", "open", "half_open"}
    /\ failureCount \in 0..FailureThreshold
    /\ successCount \in 0..HalfOpenMaxAttempts
    /\ sinceFailure \in 0..ResetTimeout
    /\ lock \in Seq(Records)

\* lastFailureTime starts as 0, long ago.
BreakerInit ==
    /\ state = "closed"
    /\ failureCount = 0
    /\ successCount = 0
    /\ sinceFailure = ResetTimeout
    /\ lock = <<>>

-----------------------------------------------------------------------------

\* Mutant of Allows: an open breaker never tries again.
AllowsClosedOnly == state # "open"

\* allowRequest lets a request pass ...
Allows == state = "open" => sinceFailure >= ResetTimeout

\* ... through tryTransitionToHalfOpen; in half_open any number may follow.
AllowRequest ==
    /\ Allows
    /\ IF state = "open"
       THEN state' = "half_open" /\ successCount' = 0
       ELSE UNCHANGED <<state, successCount>>

\* recordSuccess and recordFailure, as their caller runs them.
Record(c, kind) == lock' = Append(lock, [call |-> c, kind |-> kind])

Closes == state = "half_open" /\ successCount + 1 >= HalfOpenMaxAttempts

\* Mutant of CountSuccess: the failures are forgotten only while closed.
CountSuccessKeepsFailures ==
    /\ state' = IF Closes THEN "closed" ELSE state
    /\ successCount' = IF state = "half_open" THEN successCount + 1 ELSE successCount
    /\ failureCount' = IF state = "closed" THEN 0 ELSE failureCount
    /\ UNCHANGED sinceFailure

\* What recordSuccess queued: in half_open the failures are kept until enough
\* probes have succeeded.
CountSuccess ==
    /\ state' = IF Closes THEN "closed" ELSE state
    /\ successCount' = IF state = "half_open" THEN successCount + 1 ELSE successCount
    /\ failureCount' = IF state = "half_open" /\ ~Closes THEN failureCount ELSE 0
    /\ UNCHANGED sinceFailure

\* What recordFailure queued.
CountFailure ==
    /\ sinceFailure' = 0
    /\ IF state = "half_open"
       THEN state' = "open" /\ UNCHANGED failureCount
       ELSE /\ failureCount' = IF failureCount < FailureThreshold
                               THEN failureCount + 1
                               ELSE failureCount
            /\ state' = IF failureCount' >= FailureThreshold THEN "open" ELSE state
    /\ UNCHANGED successCount

\* Mutant of Unqueue: the record stays on the chain.
UnqueueNothing == UNCHANGED lock

Unqueue == lock' = Tail(lock)

\* The chain runs the record at its head, and its caller may go on.
ApplyRecord ==
    /\ lock # <<>>
    /\ Unqueue
    /\ IF Head(lock).kind = "success" THEN CountSuccess ELSE CountFailure

\* No timer fires before the microtasks have run.
BreakerTick ==
    /\ lock = <<>>
    /\ sinceFailure < ResetTimeout
    /\ sinceFailure' = sinceFailure + 1
    /\ UNCHANGED <<state, failureCount, successCount, lock>>
=============================================================================
