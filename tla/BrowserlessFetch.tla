-------------------------- MODULE BrowserlessFetch --------------------------
(***************************************************************************)
(* src/services/browserlessFetch.ts over the sidecar of WreqWorker: the    *)
(* tokens a request needs, the plain transport and its fallback, and the   *)
(* recovery from a challenge of the firewall (WAF): another acw_tc cookie, *)
(* a browser shared by the requests of an account, one retry.              *)
(*                                                                         *)
(* Timer is the periodic refresh of the acw_tc cookie, itself a caller of  *)
(* the sidecar.  Tokens live for hours: they are cached or not at first,   *)
(* and do not expire while a request runs.                                 *)
(***************************************************************************)
EXTENDS WreqWorker

CONSTANTS
    Fetches,            \* the callers of browserlessFetch
    Timer,              \* the periodic refresh
    PlainFetches,       \* those that ask for the plain transport
    SignalFetches,      \* those with an abort signal
    Accounts,           \* the account of each fetch is in Account
    Account,
    MaxFetches          \* bound: fetches of one caller

ASSUME FetchAssumption ==
    /\ Callers = Fetches \cup {Timer}
    /\ Timer \notin Fetches
    /\ PlainFetches \subseteq Fetches
    /\ SignalFetches \subseteq Fetches
    /\ Account \in [Fetches -> Accounts]
    /\ Replies = {"answer", "denied", "challenge"}
    /\ MaxFetches \in Nat

VARIABLES
    fetch,      \* where each caller is, the reply in its hands, its fetches so far
    cache,      \* tokenCache: which of "bx-umidtoken" and "acw_tc" are cached
    browser,    \* browsers refreshing the cookies of each account
    periodic    \* the periodic refresh has been started
vars == <<workerVars, calls, aborted, fetch, cache, browser, periodic>>

\* Where a caller is.  Each step is an await: the umid token and the acw_tc
\* cookie, the plain transport, the sidecar; then, after a challenge, the cookie
\* again ("recover"), the body, the browser, the umid token again and the retry.
\* At "fresh" the browser has answered.
Steps == {"idle", "umid", "acw", "plain", "wreq", "recover", "body", "browser",
          "fresh", "umid again", "retry", "refresh", "returned", "thrown"}
Idle == [at |-> "idle", reply |-> "none", read |-> FALSE, begun |-> 0]

Over(c) == fetch[c].at \in {"idle", "returned", "thrown"}

TypeOK ==
    /\ {workerProcess, workerBaseUrl, workerStartPromise} \subseteq Procs \cup {NoProc}
    /\ procs \in [Procs -> {"free", "starting", "up", "dying"}]
    /\ timer \subseteq Procs
    /\ calls \in [Callers -> [at : {"none", "start", "sent", "reply", "failed"},
                              proc : Procs \cup {NoProc}, again : BOOLEAN,
                              signal : BOOLEAN, reply : Replies \cup {"none"}]]
    /\ aborted \subseteq SignalFetches
    /\ crashes \in 0..MaxCrashes
    /\ fetch \in [Callers -> [at : Steps, reply : Replies \cup {"none"}, read : BOOLEAN,
                              begun : 0..MaxFetches]]
    /\ cache \subseteq {"bx-umidtoken", "acw_tc"}
    /\ browser \in [Accounts -> Nat]
    /\ periodic \in BOOLEAN

Init ==
    /\ WorkerInit
    /\ fetch = [c \in Callers |-> Idle]
    /\ cache \in SUBSET {"bx-umidtoken", "acw_tc"}
    /\ browser = [a \in Accounts |-> 0]
    /\ periodic = FALSE

----------------------------------------------------------------------------
\* What follows an await runs without interruption: a caller whose call of
\* wreqFetch or whose browser has ended comes before anything else.
Ready(c) == Ended(c) \/ fetch[c].at = "fresh"

To(c, step) == fetch' = [fetch EXCEPT ![c].at = step]
Resolved(c) == calls' = [calls EXCEPT ![c] = NoCall] /\ UNCHANGED workerVars

\* The request itself: the plain transport, or the sidecar with the signal.
SendRequest(c) ==
    \/ c \in PlainFetches /\ To(c, "plain") /\ Resolved(c)
    \/ c \notin PlainFetches /\ To(c, "wreq") /\ WreqFetch(c, c \in SignalFetches)

\* ensureAcwTcCookie: from the cache, or by a call of its own, without the signal.
EnsureAcwTcCookie(c) ==
    \/ "acw_tc" \in cache /\ SendRequest(c)
    \/ "acw_tc" \notin cache /\ To(c, "acw") /\ WreqFetch(c, FALSE)

Begin(c) ==
    /\ Over(c) /\ fetch[c].begun < MaxFetches
    /\ fetch' = [fetch EXCEPT ![c] = [Idle EXCEPT !.at = "umid", !.begun = fetch[c].begun + 1]]
    /\ aborted' = aborted \ {c}
    /\ UNCHANGED <<workerVars, calls, cache, browser, periodic>>

\* ensureBxUmidtoken: cached, or fetched outside the sidecar.
HasUmid(c) ==
    /\ fetch[c].at = "umid"
    /\ cache' = cache \cup {"bx-umidtoken"}
    /\ periodic' = TRUE
    /\ EnsureAcwTcCookie(c)
    /\ UNCHANGED <<aborted, browser>>

HasUmidAgain(c) ==
    /\ fetch[c].at = "umid again"
    /\ cache' = cache \cup {"bx-umidtoken"}
    /\ To(c, "retry") /\ WreqFetch(c, c \in SignalFetches)
    /\ UNCHANGED <<aborted, browser, periodic>>

UmidFails(c) ==
    /\ fetch[c].at \in {"umid", "umid again"} /\ "bx-umidtoken" \notin cache
    /\ To(c, "thrown")
    /\ UNCHANGED <<workerVars, calls, aborted, cache, browser, periodic>>

PlainAnswers(c) ==
    /\ fetch[c].at = "plain" /\ c \notin aborted
    /\ fetch' = [fetch EXCEPT ![c].at = "returned", ![c].reply = "answer"]
    /\ UNCHANGED <<workerVars, calls, aborted, cache, browser, periodic>>

\* A challenge, a network error, the timeout and the abort all fall back.
PlainFails(c) ==
    /\ fetch[c].at = "plain"
    /\ To(c, "wreq") /\ WreqFetch(c, c \in SignalFetches)
    /\ UNCHANGED <<aborted, cache, browser, periodic>>

----------------------------------------------------------------------------
\* refreshAcwTcCookie: a reply may bring the cookie, a failure is swallowed.
MayRefresh(c) ==
    \/ cache' = cache
    \/ calls[c].at = "reply" /\ cache' = cache \cup {"acw_tc"}

AcwEnds(c) ==
    /\ fetch[c].at = "acw" /\ Ended(c)
    /\ MayRefresh(c)
    /\ SendRequest(c)
    /\ UNCHANGED <<aborted, browser, periodic>>

\* The sidecar's reply is returned, unless it is a challenge by its status or its
\* type: then the acw_tc cookie is fetched anew.
RequestReplies(c) ==
    /\ fetch[c].at = "wreq" /\ calls[c].at = "reply"
    /\ IF calls[c].reply = "answer"
       THEN /\ fetch' = [fetch EXCEPT ![c].at = "returned", ![c].reply = "answer"]
            /\ Resolved(c)
       ELSE /\ fetch' = [fetch EXCEPT ![c].at = "recover", ![c].reply = calls[c].reply]
            /\ WreqFetch(c, FALSE)
    /\ UNCHANGED <<aborted, cache, browser, periodic>>

\* A message with "403" in it also drops the umid token.
RequestFails(c) ==
    /\ fetch[c].at \in {"wreq", "retry"} /\ calls[c].at = "failed"
    /\ To(c, "thrown")
    /\ Resolved(c)
    /\ cache' \in {cache, cache \ {"bx-umidtoken"}}
    /\ UNCHANGED <<aborted, browser, periodic>>

RecoverEnds(c) ==
    /\ fetch[c].at = "recover" /\ Ended(c)
    /\ MayRefresh(c)
    /\ To(c, "body")
    /\ Resolved(c)
    /\ UNCHANGED <<aborted, browser, periodic>>

\* The body of the first reply is read; if it is no challenge page, the reply is
\* returned as it is.
BodyRead(c) ==
    /\ fetch[c].at = "body" /\ fetch[c].reply = "denied"
    /\ fetch' = [fetch EXCEPT ![c].at = "returned", ![c].read = TRUE]
    /\ UNCHANGED <<workerVars, calls, aborted, cache, browser, periodic>>

\* The body is a challenge, empty or lost: the browser of the account is joined,
\* or started.
BrowserNeeded(c) ==
    LET a == Account[c] IN
    /\ fetch[c].at = "body"
    /\ fetch' = [fetch EXCEPT ![c].at = "browser", ![c].read = TRUE]
    /\ browser' = IF browser[a] = 0 THEN [browser EXCEPT ![a] = 1] ELSE browser
    /\ UNCHANGED <<workerVars, calls, aborted, cache, periodic>>

\* Mutant: a browser answers only one of those that wait for it.
BrowserAnswersOne(a, step) ==
    /\ browser[a] > 0
    /\ browser' = [browser EXCEPT ![a] = @ - 1]
    /\ \E c \in Fetches : fetch[c].at = "browser" /\ Account[c] = a /\ To(c, step)
    /\ UNCHANGED <<workerVars, calls, aborted, cache, periodic>>

BrowserEnds(a, step) ==
    /\ browser[a] > 0
    /\ browser' = [browser EXCEPT ![a] = @ - 1]
    /\ fetch' = [c \in Callers |->
                    IF c \in Fetches /\ fetch[c].at = "browser" /\ Account[c] = a
                    THEN [fetch[c] EXCEPT !.at = step] ELSE fetch[c]]
    /\ UNCHANGED <<workerVars, calls, aborted, cache, periodic>>

\* Fresh cookies: the acw_tc cookie is dropped and the request sent once more.
Refreshed(c) ==
    /\ fetch[c].at = "fresh"
    /\ cache' = cache \ {"acw_tc"}
    /\ IF "bx-umidtoken" \in cache
       THEN To(c, "retry") /\ WreqFetch(c, c \in SignalFetches)
       ELSE To(c, "umid again") /\ UNCHANGED <<workerVars, calls>>
    /\ UNCHANGED <<aborted, browser, periodic>>

\* Mutant: the reply to the retry is not checked.
RetryUnchecked(c) ==
    /\ fetch[c].at = "retry" /\ calls[c].at = "reply"
    /\ fetch' = [fetch EXCEPT ![c].at = "returned", ![c].reply = calls[c].reply]
    /\ Resolved(c)
    /\ UNCHANGED <<aborted, cache, browser, periodic>>

RetryReplies(c) ==
    /\ fetch[c].at = "retry" /\ calls[c].at = "reply"
    /\ fetch' = IF calls[c].reply = "answer"
                THEN [fetch EXCEPT ![c].at = "returned", ![c].reply = "answer", ![c].read = FALSE]
                ELSE [fetch EXCEPT ![c].at = "thrown"]
    /\ Resolved(c)
    /\ UNCHANGED <<aborted, cache, browser, periodic>>

----------------------------------------------------------------------------
\* The periodic refresh of the acw_tc cookie.
PeriodicRefresh ==
    /\ periodic /\ Over(Timer) /\ fetch[Timer].begun < MaxFetches
    /\ fetch' = [fetch EXCEPT ![Timer].at = "refresh", ![Timer].begun = @ + 1]
    /\ WreqFetch(Timer, FALSE)
    /\ UNCHANGED <<aborted, cache, browser, periodic>>

PeriodicEnds ==
    /\ fetch[Timer].at = "refresh" /\ Ended(Timer)
    /\ MayRefresh(Timer)
    /\ To(Timer, "idle")
    /\ Resolved(Timer)
    /\ UNCHANGED <<aborted, browser, periodic>>

Abort(c) ==
    /\ c \in SignalFetches /\ ~Over(c)
    /\ aborted' = aborted \cup {c}
    /\ UNCHANGED <<workerVars, calls, fetch, cache, browser, periodic>>

WorkerStep(A) == A /\ UNCHANGED <<fetch, cache, browser, periodic>>

Resume(c) ==
    \/ AcwEnds(c) \/ RequestReplies(c) \/ RequestFails(c) \/ RecoverEnds(c)
    \/ Refreshed(c) \/ RetryReplies(c)
CallStep(c) == WorkerStep(\/ RestartWorker(c) \/ ConnectionFails(c) \/ UpstreamFails(c)
                          \/ \E r \in Replies : Answers(c, r))
FetchStep(c) ==
    \/ HasUmid(c) \/ HasUmidAgain(c) \/ UmidFails(c) \/ PlainAnswers(c) \/ PlainFails(c)
    \/ BodyRead(c) \/ BrowserNeeded(c)
ProcEvent(p) == WorkerStep(Listens(p) \/ StartTimeout(p) \/ Exits(p))
ProcFault(p) == WorkerStep(SpawnError(p) \/ Dies(p))
BrowserStep(a) == BrowserEnds(a, "fresh") \/ BrowserEnds(a, "thrown")
Busy == \E c \in Callers : Ready(c)

Next ==
    \/ \E c \in Fetches : Resume(c)
    \/ PeriodicEnds
    \/ /\ ~Busy
       /\ \/ \E c \in Callers : CallStep(c)
          \/ \E c \in Fetches : FetchStep(c) \/ Begin(c) \/ Abort(c)
          \/ \E p \in Procs : ProcEvent(p) \/ ProcFault(p)
          \/ \E a \in Accounts : BrowserStep(a)
          \/ PeriodicRefresh

Spec == Init /\ [][Next]_vars

\* The worker and the network answer or run into a timeout (30 s in the worker,
\* 15 s for its start, 120 s for the plain transport, 40 s for the browser).
FairSpec ==
    /\ Spec
    /\ WF_vars(PeriodicEnds)
    /\ \A c \in Callers : WF_vars(CallStep(c))
    /\ \A c \in Fetches : WF_vars(Resume(c)) /\ WF_vars(FetchStep(c))
    /\ \A p \in Procs : WF_vars(ProcEvent(p))
    /\ \A a \in Accounts : WF_vars(BrowserStep(a))

----------------------------------------------------------------------------
\* No address of a worker outlives its exit, so that one failed call at most
\* finds the worker gone.
BaseIsAlive == workerBaseUrl # NoProc => procs[workerBaseUrl] # "free"

\* A browser refreshes the cookies of an account once at a time, and whoever
\* waits for it waits for a browser that runs.
BrowserShared ==
    /\ \A a \in Accounts : browser[a] <= 1
    /\ \A c \in Fetches : fetch[c].at = "browser" => browser[Account[c]] = 1

\* The caller is never handed a challenge page for an answer.
NoChallengeReturned == \A c \in Fetches : fetch[c].at = "returned" => fetch[c].reply # "challenge"

\* Every request ends: the start of a worker is settled after 15 s at the latest
\* ("wreq worker startup timeout after 15s", wreqFetch.ts:49).  Not so: a worker that
\* dies before it listens, while another is already in use, leaves its starter
\* waiting (wreqFetch.ts:44-51, 77-82), so FairSpec does not satisfy it.
FetchesEnd == \A c \in Fetches : ~Over(c) ~> Over(c)
=============================================================================
