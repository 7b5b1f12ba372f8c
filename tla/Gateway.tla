------------------------------- MODULE Gateway ------------------------------
(***************************************************************************)
(* The server of src/index.tsx around the handlers of its API: the counter *)
(* of requests in flight, the rate limit, the log entry a request gets and *)
(* the monitor record it leaves, and the graceful shutdown.                *)
(*                                                                         *)
(* A handler is taken apart where other requests and the shutdown can come *)
(* between: its body is read, its conversation set up, its answer read; a  *)
(* streamed answer goes on after the handler has returned.                 *)
(***************************************************************************)
EXTENDS RateLimiter, RequestLog

CONSTANTS
    MaxTries,       \* attempts of setupSession
    MaxStarts       \* bound: times the process starts

ASSUME GatewayAssumption ==
    MaxTries \in Nat \ {0} /\ MaxStarts \in Nat /\ IsFiniteSet(Requests)

VARIABLES
    server,     \* "down", "up", "stopping" (serverStop is awaited), "draining"
    exit,       \* how the last process ended: "none", "drained", "timeout", "forced", "killed"
    inFlight,   \* inFlightRequests
    req,        \* where each request is
    client,     \* whose it is
    tries,      \* attempts of its setupSession
    starts      \* times the process has started

serverVars == <<server, exit, starts>>
vars == <<limiterVars, logVars, serverVars, inFlight, req, client, tries>>

\* "entered": counted, its body or the rate limit to come; "body": the handler
\* reads the request; "setup": an account and a conversation are sought;
\* "answer": the upstream's answer is read; "streaming": the handler has returned.
Handled == {"entered", "body", "setup", "answer"}
Outcomes == {"ok", "error", "document", "refused", "unavailable", "lost"}

TypeOK ==
    /\ LimiterTypeOK /\ LogTypeOK
    /\ server \in {"down", "up", "stopping", "draining"}
    /\ exit \in {"none", "drained", "timeout", "forced", "killed"}
    /\ inFlight \in Nat
    /\ req \in [Requests -> {"none", "streaming"} \cup Handled \cup Outcomes]
    /\ client \in [Requests -> Clients]
    /\ tries \in [Requests -> 0..MaxTries]
    /\ starts \in 0..MaxStarts

Init ==
    /\ LimiterInit /\ LogInit
    /\ server = "down"
    /\ exit = "none"
    /\ inFlight = 0
    /\ req = [r \in Requests |-> "none"]
    /\ client \in [Requests -> Clients]
    /\ tries = [r \in Requests |-> 0]
    /\ starts = 0

-----------------------------------------------------------------------------
(* A request.                                                              *)

To(r, at) == req' = [req EXCEPT ![r] = at]

\* Mutant of Returns: a streamed answer is counted down once more.
ReturnsTwice(r, at) ==
    /\ To(r, at)
    /\ inFlight' = IF at = "streaming" /\ inFlight > 1 THEN inFlight - 2 ELSE inFlight - 1

\* The handler returns a response: the finally of the outermost middleware.
Returns(r, at) ==
    /\ To(r, at)
    /\ inFlight' = inFlight - 1

\* A new request is counted, or turned away while the server shuts down.
Arrive(r) ==
    /\ req[r] = "none"
    /\ \/ /\ server = "up"
          /\ To(r, "entered")
          /\ inFlight' = inFlight + 1
       \/ /\ server \in {"stopping", "draining"}
          /\ To(r, "unavailable")
          /\ UNCHANGED inFlight
    /\ UNCHANGED <<limiterVars, logVars, serverVars, client, tries>>

\* rateLimitMiddleware.
PassLimit(r) ==
    /\ req[r] = "entered"
    /\ Admit(client[r])
    /\ To(r, "body")
    /\ UNCHANGED <<logVars, serverVars, inFlight, client, tries>>

ExceedLimit(r) ==
    /\ req[r] = "entered"
    /\ Refuse(client[r])
    /\ Returns(r, "refused")
    /\ UNCHANGED <<logVars, serverVars, client, tries>>

\* The body cannot be parsed: there is no entry to note the error in.
BadBody(r) ==
    /\ req[r] = "body"
    /\ Returns(r, "error")
    /\ UNCHANGED <<limiterVars, logVars, serverVars, client, tries>>

\* The log entry is created; a prompt too long for the model is turned down.
Parse(r) ==
    /\ req[r] = "body"
    /\ log' = Created(r)
    /\ \/ To(r, "setup") /\ UNCHANGED inFlight
       \/ Returns(r, "error")
    /\ UNCHANGED <<limiterVars, monitor, dirty, saveTimer, file, serverVars, client, tries>>

Handler(r, at) ==
    /\ req[r] = at
    /\ UNCHANGED <<limiterVars, serverVars, client>>

\* Mutant of Acquire: the attempts are not counted.
AcquireUncounted(r) ==
    /\ Handler(r, "setup")
    /\ log' = WithAccount(r)
    /\ To(r, "answer")
    /\ UNCHANGED <<inFlight, tries, monitor, dirty, saveTimer, file>>

\* setupSession notes the account of every session it acquires, and an error
\* when it has to try another one.
Acquire(r) ==
    /\ Handler(r, "setup")
    /\ tries[r] < MaxTries
    /\ tries' = [tries EXCEPT ![r] = @ + 1]
    /\ log' = WithAccount(r)
    /\ To(r, "answer")
    /\ UNCHANGED <<inFlight, monitor, dirty, saveTimer, file>>

TriesAgain(r) ==
    /\ Handler(r, "answer")
    /\ log' = WithError(r)
    /\ To(r, "setup")
    /\ UNCHANGED <<inFlight, tries, monitor, dirty, saveTimer, file>>

\* setupSession gives up, before or after an account was noted.
SetUpFails(r) ==
    /\ \/ Handler(r, "setup")
       \/ Handler(r, "answer")
    /\ Returns(r, "error")
    /\ Finalize(r, WithError(r), FALSE)
    /\ UNCHANGED tries

\* The answer is read to its end and returned.
Answers(r) ==
    /\ Handler(r, "answer")
    /\ Returns(r, "ok")
    /\ Finalize(r, log, FALSE)
    /\ UNCHANGED tries

\* The upstream falls silent, or its connection breaks: 504.
ReadFails(r) ==
    /\ Handler(r, "answer")
    /\ Returns(r, "error")
    /\ Finalize(r, WithError(r), FALSE)
    /\ UNCHANGED tries

\* A tool call is rejected: buildResponseFromState finalizes the entry, and so
\* does its caller.
Rejects(r) ==
    /\ Handler(r, "answer")
    /\ Returns(r, "error")
    /\ Finalize(r, WithError(r), TRUE)
    /\ UNCHANGED tries

\* The upstream's error document is returned; no error is noted.
ErrorDocument(r) ==
    /\ Handler(r, "answer")
    /\ Returns(r, "document")
    /\ Finalize(r, log, FALSE)
    /\ UNCHANGED tries

StreamStarts(r) ==
    /\ Handler(r, "answer")
    /\ Returns(r, "streaming")
    /\ UNCHANGED <<logVars, tries>>

StreamEnds(r) ==
    /\ Handler(r, "streaming")
    /\ To(r, "ok")
    /\ Finalize(r, log, FALSE)
    /\ UNCHANGED <<inFlight, tries>>

StreamFails(r) ==
    /\ Handler(r, "streaming")
    /\ To(r, "error")
    /\ Finalize(r, WithError(r), FALSE)
    /\ UNCHANGED <<inFlight, tries>>

RequestStep(r) ==
    \/ PassLimit(r) \/ ExceedLimit(r) \/ BadBody(r) \/ Parse(r) \/ Acquire(r)
    \/ TriesAgain(r) \/ SetUpFails(r) \/ Answers(r) \/ ReadFails(r) \/ Rejects(r) \/ ErrorDocument(r)
    \/ StreamStarts(r) \/ StreamEnds(r) \/ StreamFails(r)

-----------------------------------------------------------------------------
(* The process.                                                            *)

Active(r) == req[r] \in Handled \cup {"streaming"}

\* The modules are loaded, the server listens and the idle buckets are looked after.
StartServer ==
    /\ server = "down"
    /\ starts < MaxStarts
    /\ starts' = starts + 1
    /\ server' = "up"
    /\ exit' = "none"
    /\ StartLog
    /\ buckets' = [c \in Clients |-> NoBucket]
    /\ answer' = [c \in Clients |-> "none"]
    /\ UNCHANGED <<now, inFlight, req, client, tries>>

\* process.exit, or the end of the process: what was running is lost.
Ends(how) ==
    /\ server' = "down"
    /\ exit' = how
    /\ req' = [r \in Requests |-> IF Active(r) THEN "lost" ELSE req[r]]
    /\ inFlight' = 0
    /\ LogLost
    /\ UNCHANGED <<limiterVars, client, tries, starts>>

\* SIGTERM or SIGINT: the first begins the shutdown, a second ends it.
Signal ==
    \/ /\ server = "up"
       /\ server' = "stopping"
       /\ UNCHANGED <<limiterVars, logVars, exit, starts, inFlight, req, client, tries>>
    \/ /\ server \in {"stopping", "draining"}
       /\ Ends("forced")
       /\ UNCHANGED file

\* External: serverStop resolves, at the latest when the last answer has ended.
Stopped ==
    /\ server = "stopping"
    /\ server' = "draining"
    /\ UNCHANGED <<limiterVars, logVars, exit, starts, inFlight, req, client, tries>>

\* The loop finds the counter at zero.
Drained ==
    /\ server = "draining"
    /\ inFlight = 0
    /\ Ends("drained")
    /\ UNCHANGED file

\* Thirty seconds have passed.
DrainTimeout ==
    /\ server = "draining"
    /\ inFlight > 0
    /\ Ends("timeout")
    /\ UNCHANGED file

\* External: the process is killed, perhaps in the middle of a save.
Killed ==
    /\ server # "down"
    /\ Ends("killed")
    /\ file' \in {file} \cup IF dirty THEN {<<>>} ELSE {}

SaveTimer == server # "down" /\ Save /\ UNCHANGED <<limiterVars, serverVars, inFlight, req, client, tries>>
Cleanup == server # "down" /\ CleanupIdleBuckets /\ UNCHANGED <<logVars, serverVars, inFlight, req, client, tries>>
Tick == Elapse /\ UNCHANGED <<logVars, serverVars, inFlight, req, client, tries>>

Next ==
    \/ StartServer \/ Signal \/ Stopped \/ Drained \/ DrainTimeout \/ Killed
    \/ SaveTimer \/ Cleanup \/ Tick
    \/ \E r \in Requests : Arrive(r) \/ RequestStep(r)

Spec == Init /\ [][Next]_vars

\* Handlers end by their timeouts, timers fire, and the loop of the shutdown runs.
Fairness ==
    /\ \A r \in Requests : WF_vars(RequestStep(r))
    /\ WF_vars(Stopped /\ \A r \in Requests : ~Active(r))
    /\ WF_vars(Drained) /\ WF_vars(DrainTimeout)

FairSpec == Spec /\ Fairness

-----------------------------------------------------------------------------
(* Properties.                                                             *)

Levels == [c \in Clients |-> Level(c)]

Meter == INSTANCE RateMeter
    WITH Limit <- MaxTokens, Rate <- TokensPerTick, Price <- TokensPerRequest,
         epoch <- starts, level <- Levels

\* A client is admitted exactly when a meter that fills at the configured rate
\* up to the limit says so: refilling late, keeping the time of the last refill
\* and forgetting idle buckets never cost a client a token nor give one away
\* (rateLimit.ts:45-75, :120-130).
ImplementsMeter == Meter!MeterSpec

\* A shutdown that ends because nothing is in flight leaves no client without a
\* response: every handler has returned, on whatever way (index.tsx:66-93).  An
\* answer still streaming is not counted, and is cut.
DrainedExit ==
    [][exit' = "drained" /\ exit # "drained" =>
          \A r \in Requests : req[r] \notin Handled]_vars

\* What the monitor has saved survives shutdowns, kills and restarts: a save
\* drops the oldest records only, when there are more than the maximum, unless
\* the process dies in the middle of one (monitorStore.ts, "survives restarts").
HistoryKept ==
    [][\/ Killed
       \/ \E n \in 0..Len(file) :
             /\ IsPrefix(SubSeq(file, n + 1, Len(file)), file')
             /\ n > 0 => Len(file') >= MaxEntries]_vars

\* A request that failed is never recorded as a success, on any way out of a
\* handler but one: an error document of the upstream that a client without
\* streaming got (logStore.ts:331-342, chatNonStreaming.ts:395-397).
NoFailureHidden ==
    \A m \in Range(monitor) : m.success => req[m.id] \in {"ok", "document"}

\* A shutdown ends, though serverStop is awaited without a limit of its own:
\* handlers and streams end, and nothing else keeps the process.
ShutdownEnds == server = "stopping" ~> server = "down"
=============================================================================
