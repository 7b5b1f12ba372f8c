---------------------------- MODULE UpstreamProofs ----------------------------
(***************************************************************************)
(* Proofs about a call to the upstream.  The transport (BrowserlessFetch   *)
(* over WreqWorker), for every number of callers, processes, accounts and  *)
(* crashes: the address in use belongs to a process whose exit has not     *)
(* been seen, a browser is shared by those who wait for it, and no         *)
(* challenge is returned as an answer.  And withRetry around the circuit   *)
(* breaker (UpstreamCall): its types, its counts, the promise chain that   *)
(* loses no caller, and the breaker that, behind createQwenStream's check, *)
(* never leaves the open state.                                            *)
(***************************************************************************)
EXTENDS BrowserlessFetch, UpstreamCall, SequenceTheorems, TLAPS

-----------------------------------------------------------------------------
(* The sidecar *)

ProcStatus == {"free", "starting", "up", "dying"}
CallType == [at : {"none", "start", "sent", "reply", "failed"}, proc : Procs \cup {NoProc},
             again : BOOLEAN, signal : BOOLEAN, reply : Replies \cup {"none"}]

\* The worker's part of TypeOK.
WorkerTypeOK ==
    /\ {workerProcess, workerBaseUrl, workerStartPromise} \subseteq Procs \cup {NoProc}
    /\ procs \in [Procs -> ProcStatus]
    /\ timer \subseteq Procs
    /\ calls \in [Callers -> CallType]
    /\ crashes \in 0..MaxCrashes

\* Only a process that has listened is ever in use; it may have been killed or
\* have died since, but its exit has not been delivered.
BaseHasListened == workerBaseUrl # NoProc => procs[workerBaseUrl] \in {"up", "dying"}

WorkerInv == WorkerTypeOK /\ BaseHasListened

\* ensureWorker uses the address, joins a start, or spawns and forgets the address.
LEMMA WreqFetchKeepsWorker ==
  ASSUME WorkerInv, NEW c \in Callers, NEW signal \in BOOLEAN, WreqFetch(c, signal)
  PROVE  WorkerInv'
  <1> USE DEF WorkerInv, WorkerTypeOK, BaseHasListened, workerVars, CallType, ProcStatus
  <1>1. CASE UseWorker(c, signal)
    BY <1>1 DEF UseWorker, Call
  <1>2. CASE JoinStart(c, signal)
    BY <1>2 DEF JoinStart, Call
  <1>3. CASE Spawn(c, FALSE, signal, procs)
    BY <1>3 DEF Spawn, Call
  <1>4. QED
    BY <1>1, <1>2, <1>3 DEF WreqFetch

LEMMA ResolvedKeepsWorker ==
  ASSUME WorkerInv, NEW c \in Callers, Resolved(c)
  PROVE  WorkerInv'
  BY DEF WorkerInv, WorkerTypeOK, BaseHasListened, workerVars, CallType, Resolved, NoCall

LEMMA RestKeepsWorker ==
  ASSUME WorkerInv, UNCHANGED <<workerVars, calls>>
  PROVE  WorkerInv'
  BY DEF WorkerInv, WorkerTypeOK, BaseHasListened, workerVars

\* The calls in flight and the worker under them.
LEMMA CallStepKeepsWorker ==
  ASSUME WorkerInv, NEW c \in Callers, CallStep(c)
  PROVE  WorkerInv'
  <1> USE DEF WorkerInv, WorkerTypeOK, BaseHasListened, workerVars, CallType, ProcStatus
  <1>1. CASE RestartWorker(c)
    <2>1. Kill(workerProcess, procs) \in [Procs -> ProcStatus]
      BY DEF Kill
    <2>2. calls[c].signal \in BOOLEAN
      OBVIOUS
    <2>3. QED
      BY <1>1, <2>1, <2>2 DEF RestartWorker, Spawn, Call
  <1>2. CASE ConnectionFails(c) \/ UpstreamFails(c)
    BY <1>2 DEF ConnectionFails, UpstreamFails, Failed, NoCall
  <1>3. ASSUME NEW r \in Replies, Answers(c, r)
        PROVE  WorkerInv'
    BY <1>3 DEF Answers, NoCall
  <1>4. QED
    BY <1>1, <1>2, <1>3 DEF CallStep, WorkerStep

\* What the processes do, and what their late events write.
LEMMA ProcessKeepsWorker ==
  ASSUME WorkerInv, NEW p \in Procs, ProcEvent(p) \/ ProcFault(p)
  PROVE  WorkerInv'
  <1> USE WorkerAssumption
      DEF WorkerInv, WorkerTypeOK, BaseHasListened, globalVars, workerVars, CallType, ProcStatus
  <1>0. Settle(p) \in [Callers -> CallType]
    BY DEF Settle, Failed, NoCall
  <1>1. CASE Listens(p)
    BY <1>1 DEF Listens
  <1>2. CASE StartTimeout(p)
    <2>1. Kill(p, procs) \in [Procs -> ProcStatus]
      BY DEF Kill
    <2>2. QED
      BY <1>0, <1>2, <2>1 DEF StartTimeout
  <1>3. CASE Exits(p)
    BY <1>3 DEF Exits
  <1>4. CASE SpawnError(p)
    BY <1>0, <1>4 DEF SpawnError
  <1>5. CASE Dies(p)
    BY <1>5 DEF Dies
  <1>6. QED
    BY <1>1, <1>2, <1>3, <1>4, <1>5 DEF ProcEvent, ProcFault, WorkerStep

LEMMA StepKeepsWorker ==
  ASSUME WorkerInv, [Next]_vars
  PROVE  WorkerInv'
  <1>1. ASSUME NEW c \in Fetches, Resume(c) \/ FetchStep(c) \/ Begin(c) \/ Abort(c)
        PROVE  WorkerInv'
    <2>1. c \in Callers /\ (c \in SignalFetches) \in BOOLEAN
      BY FetchAssumption
    <2>2. ASSUME SendRequest(c)
          PROVE  WorkerInv'
      BY <2>1, <2>2, WreqFetchKeepsWorker, ResolvedKeepsWorker DEF SendRequest
    <2>3. ASSUME EnsureAcwTcCookie(c)
          PROVE  WorkerInv'
      BY <2>1, <2>2, <2>3, WreqFetchKeepsWorker DEF EnsureAcwTcCookie
    <2>4. CASE Resume(c)
      BY <2>1, <2>2, <2>4, WreqFetchKeepsWorker, ResolvedKeepsWorker, RestKeepsWorker
      DEF Resume, AcwEnds, RequestReplies, RequestFails, RecoverEnds, Refreshed, RetryReplies
    <2>5. CASE FetchStep(c)
      BY <2>1, <2>3, <2>5, WreqFetchKeepsWorker, RestKeepsWorker
      DEF FetchStep, HasUmid, HasUmidAgain, UmidFails, PlainAnswers, PlainFails, BodyRead,
          BrowserNeeded
    <2>6. CASE Begin(c) \/ Abort(c)
      BY <2>6, RestKeepsWorker DEF Begin, Abort
    <2>7. QED
      BY <1>1, <2>4, <2>5, <2>6
  <1>2. CASE PeriodicRefresh \/ PeriodicEnds
    BY <1>2, FetchAssumption, WreqFetchKeepsWorker, ResolvedKeepsWorker
    DEF PeriodicRefresh, PeriodicEnds
  <1>3. ASSUME NEW a \in Accounts, BrowserStep(a)
        PROVE  WorkerInv'
    BY <1>3, RestKeepsWorker DEF BrowserStep, BrowserEnds
  <1>4. CASE UNCHANGED vars
    BY <1>4, RestKeepsWorker DEF vars
  <1>5. QED
    BY <1>1, <1>2, <1>3, <1>4, CallStepKeepsWorker, ProcessKeepsWorker DEF Next

LEMMA WorkerIsKept == Spec => []WorkerInv
  <1>1. Init => WorkerInv
    BY WorkerAssumption
    DEF Init, WorkerInit, WorkerInv, WorkerTypeOK, BaseHasListened, CallType, ProcStatus, NoCall
  <1>2. WorkerInv /\ [Next]_vars => WorkerInv'
    BY StepKeepsWorker
  <1>3. QED
    BY <1>1, <1>2, PTL DEF Spec

\* No call is sent to the address of a worker whose exit has been seen: the exit
\* handler and every start forget it (wreqFetch.ts), however callers, exits, late
\* "listening" lines and start timers interleave.
THEOREM AddressIsAlive == Spec => []BaseIsAlive
  <1>1. WorkerInv => BaseIsAlive
    BY DEF WorkerInv, BaseHasListened, BaseIsAlive
  <1>2. QED
    BY <1>1, WorkerIsKept, PTL
-----------------------------------------------------------------------------
(* The requests and the browser they share *)

FetchType == [at : Steps, reply : Replies \cup {"none"}, read : BOOLEAN, begun : 0..MaxFetches]

\* The requests' part of TypeOK.
RequestTypeOK ==
    /\ aborted \subseteq SignalFetches
    /\ fetch \in [Callers -> FetchType]
    /\ cache \subseteq {"bx-umidtoken", "acw_tc"}
    /\ browser \in [Accounts -> Nat]
    /\ periodic \in BOOLEAN

RequestInv == RequestTypeOK /\ BrowserShared /\ NoChallengeReturned

\* One request moves: no other joins or leaves the browser, and it returns with an
\* answer if it returns.
Moves(c, step) ==
    /\ fetch' \in [Callers -> FetchType]
    /\ fetch'[c].at = step
    /\ \A d \in Callers \ {c} : fetch'[d] = fetch[d]
    /\ step = "returned" => fetch'[c].reply # "challenge"

\* A move to anywhere but the browser keeps what the requests promise.
LEMMA MoveKeepsRequests ==
  ASSUME RequestInv, NEW c \in Callers, NEW step \in Steps \ {"browser"}, Moves(c, step),
         aborted' \subseteq SignalFetches, cache' \subseteq {"bx-umidtoken", "acw_tc"},
         periodic' \in BOOLEAN, browser' = browser
  PROVE  RequestInv'
  <1>1. RequestTypeOK'
    BY DEF RequestInv, RequestTypeOK, Moves
  <1>2. BrowserShared'
    <2>1. ASSUME NEW d \in Fetches, fetch'[d].at = "browser"
          PROVE  browser'[Account[d]] = 1
      <3>1. d \in Callers /\ d # c
        BY <2>1, FetchAssumption DEF Moves
      <3>2. QED
        BY <2>1, <3>1 DEF RequestInv, BrowserShared, Moves
    <2>2. QED
      BY <2>1 DEF RequestInv, BrowserShared
  <1>3. NoChallengeReturned'
    <2>1. ASSUME NEW d \in Fetches, fetch'[d].at = "returned"
          PROVE  fetch'[d].reply # "challenge"
      <3>1. CASE d = c
        BY <2>1, <3>1 DEF Moves
      <3>2. CASE d # c
        BY <2>1, <3>2, FetchAssumption DEF RequestInv, NoChallengeReturned, Moves
      <3>3. QED
        BY <3>1, <3>2
    <2>2. QED
      BY <2>1 DEF NoChallengeReturned
  <1>4. QED
    BY <1>1, <1>2, <1>3 DEF RequestInv

\* A step of its own moves a request on, with the reply it had.
LEMMA ToMoves ==
  ASSUME RequestInv, NEW c \in Callers, NEW step \in Steps \ {"returned"}, To(c, step)
  PROVE  Moves(c, step)
  BY DEF RequestInv, RequestTypeOK, FetchType, To, Moves

\* A step with another reply does, unless it returns with a challenge.
LEMMA RecordMoves ==
  ASSUME RequestInv, NEW c \in Callers, NEW r \in FetchType,
         r.at = "returned" => r.reply # "challenge", fetch' = [fetch EXCEPT ![c] = r]
  PROVE  Moves(c, r.at)
  BY DEF RequestInv, RequestTypeOK, Moves

LEMMA RestKeepsRequests ==
  ASSUME RequestInv, UNCHANGED <<fetch, cache, browser, periodic>>,
         aborted' \subseteq SignalFetches
  PROVE  RequestInv'
  BY DEF RequestInv, RequestTypeOK, BrowserShared, NoChallengeReturned

\* The steps after an await.  Only an answer is returned at once; a challenge is
\* returned by none of them.
LEMMA ResumeKeepsRequests ==
  ASSUME RequestInv, WorkerInv, NEW c \in Fetches, Resume(c)
  PROVE  RequestInv'
  <1>0. c \in Callers
    BY FetchAssumption
  <1>1. aborted' \subseteq SignalFetches /\ browser' = browser /\ periodic' \in BOOLEAN
    BY DEF Resume, AcwEnds, RequestReplies, RequestFails, RecoverEnds, Refreshed, RetryReplies,
           RequestInv, RequestTypeOK
  <1>2. cache' \subseteq {"bx-umidtoken", "acw_tc"}
    BY DEF Resume, AcwEnds, RequestReplies, RequestFails, RecoverEnds, Refreshed, RetryReplies,
           MayRefresh, RequestInv, RequestTypeOK
  <1>3. \E step \in Steps \ {"browser"} : Moves(c, step)
    <2>1. CASE AcwEnds(c)
      BY <1>0, <2>1, ToMoves DEF AcwEnds, SendRequest, Steps
    <2>2. CASE RequestReplies(c)
      <3>1. calls[c].reply \in Replies \cup {"none"}
        BY <1>0 DEF WorkerInv, WorkerTypeOK, CallType
      <3>2. CASE calls[c].reply = "answer"
        <4> DEFINE r == [fetch[c] EXCEPT !.at = "returned", !.reply = "answer"]
        <4>1. fetch[c] \in FetchType
          BY <1>0 DEF RequestInv, RequestTypeOK
        <4>2. r \in FetchType /\ r.at = "returned" /\ r.reply = "answer"
          BY <3>1, <3>2, <4>1 DEF FetchType, Steps
        <4>3. fetch' = [fetch EXCEPT ![c] = r]
          BY <2>2, <3>2 DEF RequestReplies
        <4>4. QED
          BY <1>0, <4>2, <4>3, RecordMoves DEF Steps
      <3>3. CASE calls[c].reply # "answer"
        <4> DEFINE r == [fetch[c] EXCEPT !.at = "recover", !.reply = calls[c].reply]
        <4>1. fetch[c] \in FetchType
          BY <1>0 DEF RequestInv, RequestTypeOK
        <4>2. r \in FetchType /\ r.at = "recover"
          BY <3>1, <4>1 DEF FetchType, Steps
        <4>3. fetch' = [fetch EXCEPT ![c] = r]
          BY <2>2, <3>3 DEF RequestReplies
        <4>4. QED
          BY <1>0, <4>2, <4>3, RecordMoves DEF Steps
      <3>4. QED
        BY <3>2, <3>3
    <2>3. CASE RequestFails(c) \/ RecoverEnds(c) \/ Refreshed(c)
      BY <1>0, <2>3, ToMoves DEF RequestFails, RecoverEnds, Refreshed, Steps
    <2>4. CASE RetryReplies(c)
      <3>1. CASE calls[c].reply = "answer"
        <4> DEFINE r == [fetch[c] EXCEPT !.at = "returned", !.reply = "answer", !.read = FALSE]
        <4>1. fetch[c] \in FetchType
          BY <1>0 DEF RequestInv, RequestTypeOK
        <4>2. r \in FetchType /\ r.at = "returned" /\ r.reply = "answer"
          BY <4>1, FetchAssumption DEF FetchType, Steps
        <4>3. fetch' = [fetch EXCEPT ![c] = r]
          BY <2>4, <3>1 DEF RetryReplies
        <4>4. QED
          BY <1>0, <4>2, <4>3, RecordMoves DEF Steps
      <3>2. CASE calls[c].reply # "answer"
        BY <1>0, <2>4, <3>2, ToMoves DEF RetryReplies, To, Steps
      <3>3. QED
        BY <3>1, <3>2
    <2>5. QED
      BY <2>1, <2>2, <2>3, <2>4 DEF Resume
  <1>4. QED
    BY <1>0, <1>1, <1>2, <1>3, MoveKeepsRequests

\* What a request does by itself.  A body read as no challenge is returned only
\* when the first reply was none by its type.
LEMMA FetchStepKeepsRequests ==
  ASSUME RequestInv, NEW c \in Fetches, FetchStep(c) \/ Begin(c)
  PROVE  RequestInv'
  <1>0. c \in Callers /\ Account[c] \in Accounts /\ MaxFetches \in Nat
    BY FetchAssumption
  <1>1. CASE HasUmid(c) \/ HasUmidAgain(c) \/ UmidFails(c) \/ PlainFails(c)
    <2>1. \E step \in Steps \ {"browser"} : Moves(c, step)
      BY <1>0, <1>1, ToMoves
      DEF HasUmid, HasUmidAgain, UmidFails, PlainFails, EnsureAcwTcCookie, SendRequest, Steps
    <2>2. /\ aborted' \subseteq SignalFetches /\ browser' = browser /\ periodic' \in BOOLEAN
          /\ cache' \subseteq {"bx-umidtoken", "acw_tc"}
      BY <1>1 DEF HasUmid, HasUmidAgain, UmidFails, PlainFails, RequestInv, RequestTypeOK
    <2>3. QED
      BY <1>0, <2>1, <2>2, MoveKeepsRequests
  <1>2. CASE PlainAnswers(c) \/ BodyRead(c) \/ Begin(c)
    <2>1. CASE PlainAnswers(c)
      <3>1. Moves(c, "returned")
        <4> DEFINE r == [fetch[c] EXCEPT !.at = "returned", !.reply = "answer"]
        <4>1. fetch[c] \in FetchType
          BY <1>0 DEF RequestInv, RequestTypeOK
        <4>2. r \in FetchType /\ r.at = "returned" /\ r.reply = "answer"
          BY <4>1, FetchAssumption DEF FetchType, Steps
        <4>3. fetch' = [fetch EXCEPT ![c] = r]
          BY <2>1 DEF PlainAnswers
        <4>4. QED
          BY <1>0, <4>2, <4>3, RecordMoves
      <3>2. QED
        BY <1>0, <2>1, <3>1, MoveKeepsRequests
        DEF PlainAnswers, Steps, RequestInv, RequestTypeOK
    <2>2. CASE BodyRead(c)
      <3>1. Moves(c, "returned")
        BY <1>0, <2>2 DEF BodyRead, Moves, RequestInv, RequestTypeOK, FetchType, Steps
      <3>2. QED
        BY <1>0, <2>2, <3>1, MoveKeepsRequests DEF BodyRead, Steps, RequestInv, RequestTypeOK
    <2>3. CASE Begin(c)
      <3>1. Moves(c, "umid")
        <4> DEFINE r == [Idle EXCEPT !.at = "umid", !.begun = fetch[c].begun + 1]
        <4>1. fetch[c] \in FetchType /\ fetch[c].begun < MaxFetches
          BY <1>0, <2>3 DEF Begin, RequestInv, RequestTypeOK
        <4>2. fetch[c].begun + 1 \in 0..MaxFetches
          BY <1>0, <4>1 DEF FetchType
        <4>3. r \in FetchType /\ r.at = "umid"
          BY <4>2 DEF Idle, FetchType, Steps
        <4>4. fetch' = [fetch EXCEPT ![c] = r]
          BY <2>3 DEF Begin
        <4>5. QED
          BY <1>0, <4>3, <4>4, RecordMoves
      <3>2. QED
        BY <1>0, <2>3, <3>1, MoveKeepsRequests DEF Begin, Steps, RequestInv, RequestTypeOK
    <2>4. QED
      BY <1>2, <2>1, <2>2, <2>3
  <1>3. CASE BrowserNeeded(c)
    <2>1. Moves(c, "browser")
      BY <1>0, <1>3 DEF BrowserNeeded, Moves, RequestInv, RequestTypeOK, FetchType, Steps
    <2>2. /\ browser' \in [Accounts -> Nat]
          /\ browser'[Account[c]] = 1
          /\ \A a \in Accounts : browser'[a] <= 1 /\ (browser[a] = 1 => browser'[a] = 1)
      BY <1>0, <1>3 DEF BrowserNeeded, RequestInv, RequestTypeOK, BrowserShared
    <2>3. RequestTypeOK'
      BY <1>3, <2>1, <2>2 DEF BrowserNeeded, Moves, RequestInv, RequestTypeOK
    <2>4. \A d \in Fetches : d # c => fetch'[d] = fetch[d]
      BY <2>1, FetchAssumption DEF Moves
    <2>5. BrowserShared'
      BY <2>2, <2>4, FetchAssumption DEF BrowserShared, RequestInv
    <2>6. NoChallengeReturned'
      BY <2>1, <2>4 DEF NoChallengeReturned, RequestInv, Moves
    <2>7. QED
      BY <2>3, <2>5, <2>6 DEF RequestInv
  <1>4. QED
    BY <1>1, <1>2, <1>3 DEF FetchStep

\* A browser that ends answers all who wait for it.
LEMMA BrowserKeepsRequests ==
  ASSUME RequestInv, NEW a \in Accounts, NEW step \in {"fresh", "thrown"}, BrowserEnds(a, step)
  PROVE  RequestInv'
  <1>1. /\ browser' \in [Accounts -> Nat]
        /\ \A b \in Accounts : browser'[b] <= 1 /\ (b # a => browser'[b] = browser[b])
    BY DEF BrowserEnds, RequestInv, RequestTypeOK, BrowserShared
  <1>2. fetch' \in [Callers -> FetchType]
    BY DEF BrowserEnds, RequestInv, RequestTypeOK, FetchType, Steps
  <1>3. \A d \in Fetches : \/ fetch'[d] = fetch[d] /\ ~(fetch[d].at = "browser" /\ Account[d] = a)
                           \/ fetch'[d].at = step
    BY <1>2, FetchAssumption DEF BrowserEnds, RequestInv, RequestTypeOK, FetchType
  <1>4. BrowserShared'
    BY <1>1, <1>3, FetchAssumption DEF BrowserShared, RequestInv
  <1>5. NoChallengeReturned'
    BY <1>3 DEF NoChallengeReturned, RequestInv
  <1>6. QED
    BY <1>1, <1>2, <1>4, <1>5 DEF BrowserEnds, RequestInv, RequestTypeOK

LEMMA PeriodicKeepsRequests ==
  ASSUME RequestInv, PeriodicRefresh \/ PeriodicEnds
  PROVE  RequestInv'
  <1>1. Timer \in Callers /\ MaxFetches \in Nat
    BY FetchAssumption
  <1>2. \E step \in Steps \ {"browser"} : Moves(Timer, step)
    <2>1. CASE PeriodicRefresh
      <3>1. Moves(Timer, "refresh")
        <4> DEFINE r == [fetch[Timer] EXCEPT !.at = "refresh", !.begun = fetch[Timer].begun + 1]
        <4>1. fetch[Timer] \in FetchType /\ fetch[Timer].begun < MaxFetches
          BY <1>1, <2>1 DEF PeriodicRefresh, RequestInv, RequestTypeOK
        <4>2. fetch[Timer].begun + 1 \in 0..MaxFetches
          BY <1>1, <4>1 DEF FetchType
        <4>3. r \in FetchType /\ r.at = "refresh"
          BY <4>1, <4>2 DEF FetchType, Steps
        <4>4. fetch' = [fetch EXCEPT ![Timer] = r]
          BY <2>1 DEF PeriodicRefresh
        <4>5. QED
          BY <1>1, <4>3, <4>4, RecordMoves
      <3>2. QED
        BY <3>1 DEF Steps
    <2>2. CASE PeriodicEnds
      BY <1>1, <2>2, ToMoves DEF PeriodicEnds, Steps
    <2>3. QED
      BY <2>1, <2>2
  <1>3. /\ aborted' \subseteq SignalFetches /\ browser' = browser /\ periodic' \in BOOLEAN
        /\ cache' \subseteq {"bx-umidtoken", "acw_tc"}
    BY DEF PeriodicRefresh, PeriodicEnds, MayRefresh, RequestInv, RequestTypeOK
  <1>4. QED
    BY <1>1, <1>2, <1>3, MoveKeepsRequests

LEMMA RequestsAreKept == Spec => []RequestInv
  <1>1. Init => RequestInv
    <2> SUFFICES ASSUME Init
                 PROVE  RequestInv
      OBVIOUS
    <2>1. Idle \in FetchType
      BY FetchAssumption DEF Idle, FetchType, Steps
    <2>2. RequestTypeOK
      BY <2>1 DEF Init, WorkerInit, RequestTypeOK
    <2>3. \A c \in Fetches : fetch[c].at = "idle"
      BY FetchAssumption DEF Init, Idle
    <2>4. QED
      BY <2>2, <2>3 DEF Init, RequestInv, BrowserShared, NoChallengeReturned
  <1>2. WorkerInv /\ RequestInv /\ [Next]_vars => RequestInv'
    <2> SUFFICES ASSUME WorkerInv, RequestInv, [Next]_vars
                 PROVE  RequestInv'
      OBVIOUS
    <2>1. ASSUME NEW c \in Fetches, Resume(c) \/ FetchStep(c) \/ Begin(c) \/ Abort(c)
          PROVE  RequestInv'
      <3>1. CASE Abort(c)
        BY <3>1, RestKeepsRequests DEF Abort, RequestInv, RequestTypeOK
      <3>2. QED
        BY <2>1, <3>1, ResumeKeepsRequests, FetchStepKeepsRequests
    <2>2. ASSUME NEW c \in Callers, CallStep(c)
          PROVE  RequestInv'
      BY <2>2, RestKeepsRequests
      DEF CallStep, WorkerStep, RestartWorker, ConnectionFails, UpstreamFails, Answers,
          RequestInv, RequestTypeOK
    <2>3. ASSUME NEW p \in Procs, ProcEvent(p) \/ ProcFault(p)
          PROVE  RequestInv'
      BY <2>3, RestKeepsRequests
      DEF ProcEvent, ProcFault, WorkerStep, Listens, StartTimeout, Exits, SpawnError, Dies,
          RequestInv, RequestTypeOK
    <2>4. ASSUME NEW a \in Accounts, BrowserStep(a)
          PROVE  RequestInv'
      BY <2>4, BrowserKeepsRequests DEF BrowserStep
    <2>5. CASE UNCHANGED vars
      BY <2>5, RestKeepsRequests DEF vars, RequestInv, RequestTypeOK
    <2>6. QED
      BY <2>1, <2>2, <2>3, <2>4, <2>5, PeriodicKeepsRequests DEF Next
  <1>3. QED
    BY <1>1, <1>2, WorkerIsKept, PTL DEF Spec

\* Type correctness of the transport: every step of browserlessFetch and of the
\* sidecar leaves its state in TypeOK.
THEOREM TransportTypes == Spec => []TypeOK
  <1>1. WorkerInv /\ RequestInv => TypeOK
    BY DEF WorkerInv, WorkerTypeOK, CallType, ProcStatus, RequestInv, RequestTypeOK, FetchType,
           TypeOK
  <1>2. QED
    BY <1>1, WorkerIsKept, RequestsAreKept, PTL

\* An account has at most one browser that refreshes its cookies, and whoever waits
\* for one waits for one that runs (the map of pending refreshes).
THEOREM BrowserIsShared == Spec => []BrowserShared
  <1>1. RequestInv => BrowserShared
    BY DEF RequestInv
  <1>2. QED
    BY <1>1, RequestsAreKept, PTL

\* browserlessFetch returns no challenge page of the firewall, neither from the
\* first request nor from the retry.
THEOREM ChallengesStay == Spec => []NoChallengeReturned
  <1>1. RequestInv => NoChallengeReturned
    BY DEF RequestInv
  <1>2. QED
    BY <1>1, RequestsAreKept, PTL

-----------------------------------------------------------------------------
(* The breaker *)

\* The record at the head of the chain, and what is left of the chain.
LEMMA HeadRecord ==
    ASSUME CallTypeOK, ApplyRecord
    PROVE  /\ Head(lock) \in Records
           /\ Tail(lock) \in Seq(Records)
           /\ lock # <<>>
BY DEF CallTypeOK, BreakerTypeOK, ApplyRecord

\* A queued record is a record.
LEMMA RecordTyped ==
    ASSUME CallTypeOK, NEW c \in Calls, NEW kind \in {"success", "failure"}, Record(c, kind)
    PROVE  lock' \in Seq(Records)
BY DEF CallTypeOK, BreakerTypeOK, Record, Records

\* A call that only moves keeps its type.
LEMMA GoToTyped ==
    ASSUME CallTypeOK, NEW c \in Calls, NEW label \in Pcs, GoTo(c, label)
    PROVE  pc' \in [Calls -> Pcs] /\ attempt' \in [Calls -> 0..MaxRetries]
BY DEF CallTypeOK, GoTo

LEMMA TypeInit == CallInit => CallTypeOK
BY BreakerAssumption, CallAssumption DEF CallInit, BreakerInit, CallTypeOK, BreakerTypeOK, Pcs

LEMMA TypeStep == CallTypeOK /\ CountersBelow /\ [CallNext]_allVars => CallTypeOK'
<1> USE BreakerAssumption, CallAssumption
<1> SUFFICES ASSUME CallTypeOK, CountersBelow, [CallNext]_allVars PROVE CallTypeOK'
  OBVIOUS
<1>1. ASSUME NEW c \in Calls, Start(c) PROVE CallTypeOK'
  BY <1>1 DEF Start, AllowRequest, CallTypeOK, BreakerTypeOK, Pcs
<1>2. ASSUME NEW c \in Calls, Refuse(c) PROVE CallTypeOK'
  BY <1>2, GoToTyped DEF Refuse, breakerVars, CallTypeOK, BreakerTypeOK, Pcs
<1>3. ASSUME NEW c \in Calls, Return(c) PROVE CallTypeOK'
  BY <1>3, GoToTyped DEF Return, breakerVars, CallTypeOK, BreakerTypeOK, Pcs
<1>4. ASSUME NEW c \in Calls, AttemptSucceeds(c) PROVE CallTypeOK'
  <2>1. lock' \in Seq(Records)
    BY <1>4, RecordTyped DEF AttemptSucceeds
  <2>2. QED
    BY <1>4, <2>1, GoToTyped DEF AttemptSucceeds, CallTypeOK, BreakerTypeOK, Pcs, Recording
<1>5. ASSUME NEW c \in Calls, AttemptFails(c) PROVE CallTypeOK'
  <2>1. lock' \in Seq(Records)
    BY <1>5, RecordTyped DEF AttemptFails
  <2>2. QED
    BY <1>5, <2>1, GoToTyped DEF AttemptFails, CallTypeOK, BreakerTypeOK, Pcs, Recording
<1>6. ASSUME NEW c \in Calls, AttemptThrows(c) PROVE CallTypeOK'
  BY <1>6, GoToTyped DEF AttemptThrows, breakerVars, CallTypeOK, BreakerTypeOK, Pcs
<1>7. ASSUME NEW c \in Calls, GiveUp(c) PROVE CallTypeOK'
  BY <1>7, GoToTyped DEF GiveUp, breakerVars, CallTypeOK, BreakerTypeOK, Pcs
<1>8. ASSUME NEW c \in Calls, BackOff(c) PROVE CallTypeOK'
  BY <1>8 DEF BackOff, GivesUp, breakerVars, CallTypeOK, BreakerTypeOK, Pcs
<1>9. ASSUME NEW c \in Calls, TryAgain(c) PROVE CallTypeOK'
  BY <1>9, GoToTyped DEF TryAgain, breakerVars, CallTypeOK, BreakerTypeOK, Pcs
<1>10. ASSUME Recorded PROVE CallTypeOK'
  <2>1. ApplyRecord
    BY <1>10 DEF Recorded
  <2>2. lock' \in Seq(Records)
    BY <2>1, HeadRecord DEF ApplyRecord, Unqueue
  <2>3. Head(lock).call \in Calls
    BY <2>1, HeadRecord DEF Records
  <2>4. pc' \in [Calls -> Pcs] /\ attempt' \in [Calls -> 0..MaxRetries]
    BY <1>10, <2>3, GoToTyped DEF Recorded, Pcs
  <2>5. CASE CountSuccess
    BY <2>2, <2>4, <2>5 DEF CountSuccess, Closes, CountersBelow, CallTypeOK, BreakerTypeOK
  <2>6. CASE CountFailure
    BY <2>2, <2>4, <2>6 DEF CountFailure, CallTypeOK, BreakerTypeOK
  <2>7. QED
    BY <2>1, <2>5, <2>6 DEF ApplyRecord
<1>11. ASSUME BreakerTick, UNCHANGED callVars PROVE CallTypeOK'
  BY <1>11 DEF BreakerTick, callVars, CallTypeOK, BreakerTypeOK
<1>12. CASE UNCHANGED allVars
  BY <1>12 DEF allVars, breakerVars, callVars, CallTypeOK, BreakerTypeOK
<1>13. QED
  BY <1>1, <1>2, <1>3, <1>4, <1>5, <1>6, <1>7, <1>8, <1>9, <1>10, <1>11, <1>12
  DEF CallNext, Step

-----------------------------------------------------------------------------

LEMMA CountersStep == CallTypeOK /\ CountersBelow /\ [CallNext]_allVars => CountersBelow'
<1> USE BreakerAssumption, CallAssumption
<1> SUFFICES ASSUME CallTypeOK, CountersBelow, [CallNext]_allVars PROVE CountersBelow'
  OBVIOUS
<1>1. ASSUME NEW c \in Calls, Start(c) PROVE CountersBelow'
  BY <1>1 DEF Start, AllowRequest, CountersBelow
<1>2. ASSUME NEW c \in Calls, Step(c), ~Start(c) PROVE CountersBelow'
  BY <1>2 DEF Step, Refuse, Return, AttemptSucceeds, AttemptFails, AttemptThrows, GiveUp,
              BackOff, TryAgain, breakerVars, CountersBelow
<1>3. ASSUME Recorded PROVE CountersBelow'
  <2>1. CASE CountSuccess
    BY <2>1 DEF CountSuccess, Closes, CallTypeOK, BreakerTypeOK, CountersBelow
  <2>2. CASE CountFailure
    BY <2>2 DEF CountFailure, CallTypeOK, BreakerTypeOK, CountersBelow
  <2>3. QED
    BY <1>3, <2>1, <2>2 DEF Recorded, ApplyRecord
<1>4. CASE BreakerTick \/ UNCHANGED allVars
  BY <1>4 DEF BreakerTick, allVars, breakerVars, CountersBelow
<1>5. QED
  BY <1>1, <1>2, <1>3, <1>4 DEF CallNext

\* The breaker's counts stay below the limits that change its state, whatever the
\* order in which calls of several requests record theirs (retry.ts:151-196).
THEOREM CountersStayBelow == CallSpec => [](CallTypeOK /\ CountersBelow)
<1>1. CallInit => CountersBelow
  BY BreakerAssumption DEF CallInit, BreakerInit, CountersBelow
<1>2. QED
  BY <1>1, TypeInit, TypeStep, CountersStep, PTL DEF CallSpec

-----------------------------------------------------------------------------

\* What the chain holds after a record is queued, and after one is applied.
LEMMA QueueGrows ==
    ASSUME CallTypeOK, NEW c \in Calls, NEW kind \in {"success", "failure"}, Record(c, kind)
    PROVE  /\ DOMAIN lock = 1..Len(lock)
           /\ Len(lock) \in Nat
           /\ DOMAIN lock' = 1..(Len(lock) + 1)
           /\ \A i \in 1..Len(lock) : lock'[i] = lock[i] /\ lock[i] \in Records
           /\ lock'[Len(lock) + 1] = [call |-> c, kind |-> kind]
<1>1. lock \in Seq(Records) /\ [call |-> c, kind |-> kind] \in Records
  BY DEF CallTypeOK, BreakerTypeOK, Records
<1>2. QED
  BY <1>1 DEF Record

LEMMA QueueShrinks ==
    ASSUME CallTypeOK, ApplyRecord
    PROVE  /\ DOMAIN lock = 1..Len(lock)
           /\ Len(lock) \in Nat \ {0}
           /\ Head(lock) = lock[1]
           /\ \A i \in 1..Len(lock) : lock[i] \in Records
           /\ DOMAIN lock' = 1..(Len(lock) - 1)
           /\ \A i \in 1..(Len(lock) - 1) : lock'[i] = lock[i + 1]
<1>1. lock \in Seq(Records) /\ lock # <<>> /\ lock' = Tail(lock)
  BY DEF CallTypeOK, BreakerTypeOK, ApplyRecord, Unqueue
<1>2. QED
  BY <1>1

\* A step of a call that neither queues nor waits leaves the chain's users alone.
LEMMA Bystander ==
    ASSUME CallTypeOK, WaitersQueued, NEW c \in Calls, NEW label \in Pcs \ Recording,
           pc[c] \notin Recording, pc' = [pc EXCEPT ![c] = label], lock' = lock
    PROVE  WaitersQueued'
<1>1. \A i \in DOMAIN lock : lock[i].call \in Calls
  <2>1. lock \in Seq(Records)
    BY DEF CallTypeOK, BreakerTypeOK
  <2>2. \A i \in DOMAIN lock : lock[i] \in Records
    BY <2>1
  <2>3. QED
    BY <2>2 DEF Records
<1>2. \A i \in DOMAIN lock : lock[i].call # c
  BY DEF WaitersQueued, Recording
<1>3. \A d \in Calls : d # c => pc'[d] = pc[d]
  BY DEF CallTypeOK
<1>4. pc'[c] = label
  BY DEF CallTypeOK
<1>5. QED
  BY <1>1, <1>2, <1>3, <1>4 DEF WaitersQueued

\* A call that queues its record is the last on the chain.
LEMMA Queues ==
    ASSUME CallTypeOK, WaitersQueued, NEW c \in Calls, NEW kind \in {"success", "failure"},
           pc[c] \notin Recording, Record(c, kind),
           pc' = [pc EXCEPT ![c] = IF kind = "success" THEN "recordSuccess" ELSE "recordFailure"]
    PROVE  WaitersQueued'
<1> DEFINE n == Len(lock)
<1>1. /\ n \in Nat
      /\ DOMAIN lock = 1..n
      /\ DOMAIN lock' = 1..(n + 1)
      /\ \A i \in 1..n : lock'[i] = lock[i] /\ lock[i].call \in Calls
      /\ lock'[n + 1].call = c /\ lock'[n + 1].kind = kind
  <2>1. /\ n \in Nat
        /\ DOMAIN lock = 1..n
        /\ DOMAIN lock' = 1..(n + 1)
        /\ \A i \in 1..n : lock'[i] = lock[i] /\ lock[i] \in Records
        /\ lock'[n + 1] = [call |-> c, kind |-> kind]
    BY QueueGrows
  <2> HIDE DEF n
  <2>2. \A i \in 1..n : lock[i].call \in Calls
    BY <2>1 DEF Records
  <2>3. QED
    BY <2>1, <2>2
<1>2. \A i \in 1..n : lock[i].call # c
  BY <1>1 DEF WaitersQueued, Recording
<1>3. /\ \A d \in Calls : d # c => pc'[d] = pc[d]
      /\ pc'[c] = IF kind = "success" THEN "recordSuccess" ELSE "recordFailure"
  BY DEF CallTypeOK
<1> HIDE DEF n
<1>4. \A i \in DOMAIN lock' :
        pc'[lock'[i].call] = IF lock'[i].kind = "success" THEN "recordSuccess" ELSE "recordFailure"
  <2> SUFFICES ASSUME NEW i \in DOMAIN lock'
               PROVE  pc'[lock'[i].call] =
                        IF lock'[i].kind = "success" THEN "recordSuccess" ELSE "recordFailure"
    OBVIOUS
  <2>1. CASE i = n + 1
    BY <1>1, <1>3, <2>1
  <2>2. CASE i \in 1..n
    BY <1>1, <1>2, <1>3, <2>2 DEF WaitersQueued
  <2>3. QED
    BY <1>1, <2>1, <2>2
<1>5. \A i, j \in DOMAIN lock' : lock'[i].call = lock'[j].call => i = j
  <2> SUFFICES ASSUME NEW i \in 1..(n + 1), NEW j \in 1..(n + 1), lock'[i].call = lock'[j].call
               PROVE  i = j
    BY <1>1
  <2>1. CASE i \in 1..n /\ j \in 1..n
    BY <1>1, <2>1 DEF WaitersQueued
  <2>2. CASE i = n + 1 \/ j = n + 1
    BY <1>1, <1>2, <2>2
  <2>3. QED
    BY <1>1, <2>1, <2>2
<1>6. \A d \in Calls : pc'[d] \in Recording => \E i \in DOMAIN lock' : lock'[i].call = d
  <2> SUFFICES ASSUME NEW d \in Calls, pc'[d] \in Recording
               PROVE  \E i \in DOMAIN lock' : lock'[i].call = d
    OBVIOUS
  <2>1. CASE d = c
    BY <1>1, <2>1
  <2>2. CASE d # c
    <3>1. PICK i \in 1..n : lock[i].call = d
      BY <1>1, <1>3, <2>2 DEF WaitersQueued
    <3>2. QED
      BY <1>1, <3>1
  <2>3. QED
    BY <2>1, <2>2
<1>7. QED
  BY <1>4, <1>5, <1>6 DEF WaitersQueued

\* The caller of the first record resumes; the others move up.
LEMMA Resumes ==
    ASSUME CallTypeOK, WaitersQueued, Recorded
    PROVE  WaitersQueued'
<1> DEFINE n == Len(lock)
           c == lock[1].call
<1>1. /\ n \in Nat \ {0}
      /\ DOMAIN lock = 1..n
      /\ Head(lock) = lock[1]
      /\ \A i \in 1..n : lock[i].call \in Calls
      /\ DOMAIN lock' = 1..(n - 1)
      /\ \A i \in 1..(n - 1) : lock'[i] = lock[i + 1]
  BY QueueShrinks DEF Recorded, Records
<1>2. /\ c \in Calls
      /\ \A d \in Calls : d # c => pc'[d] = pc[d]
      /\ pc'[c] \notin Recording
  BY <1>1 DEF Recorded, GoTo, CallTypeOK, Recording
<1>3. \A i \in 1..(n - 1) : i + 1 \in 1..n /\ lock[i + 1].call # c
  BY <1>1 DEF WaitersQueued
<1> HIDE DEF n, c
<1>4. \A i \in DOMAIN lock' :
        pc'[lock'[i].call] = IF lock'[i].kind = "success" THEN "recordSuccess" ELSE "recordFailure"
  BY <1>1, <1>2, <1>3 DEF WaitersQueued
<1>5. \A i, j \in DOMAIN lock' : lock'[i].call = lock'[j].call => i = j
  <2> SUFFICES ASSUME NEW i \in 1..(n - 1), NEW j \in 1..(n - 1), lock'[i].call = lock'[j].call
               PROVE  i = j
    BY <1>1
  <2>1. i + 1 = j + 1
    BY <1>1, <1>3 DEF WaitersQueued
  <2>2. QED
    BY <1>1, <2>1
<1>6. ASSUME NEW d \in Calls, pc'[d] \in Recording
      PROVE  \E i \in DOMAIN lock' : lock'[i].call = d
  <2>1. d # c
    BY <1>2, <1>6
  <2>2. PICK j \in 1..n : lock[j].call = d
    BY <1>1, <1>2, <1>6, <2>1 DEF WaitersQueued
  <2>3. j # 1
    BY <2>1, <2>2 DEF c
  <2>4. j - 1 \in 1..(n - 1) /\ lock'[j - 1].call = d
    BY <1>1, <2>2, <2>3
  <2>5. QED
    BY <1>1, <2>4
<1>7. QED
  BY <1>4, <1>5, <1>6 DEF WaitersQueued

LEMMA WaitersStep == CallTypeOK /\ WaitersQueued /\ [CallNext]_allVars => WaitersQueued'
<1> SUFFICES ASSUME CallTypeOK, WaitersQueued, [CallNext]_allVars PROVE WaitersQueued'
  OBVIOUS
<1> USE Bystander DEF Recording, Pcs
<1>1. ASSUME NEW c \in Calls, Start(c) PROVE WaitersQueued'
  BY <1>1 DEF Start
<1>2. ASSUME NEW c \in Calls, Refuse(c) \/ Return(c) \/ AttemptThrows(c) PROVE WaitersQueued'
  BY <1>2 DEF Refuse, Return, AttemptThrows, GoTo, breakerVars
<1>3. ASSUME NEW c \in Calls, GiveUp(c) \/ BackOff(c) \/ TryAgain(c) PROVE WaitersQueued'
  BY <1>3 DEF GiveUp, BackOff, TryAgain, GoTo, breakerVars
<1>4. ASSUME NEW c \in Calls, AttemptSucceeds(c) \/ AttemptFails(c) PROVE WaitersQueued'
  BY <1>4, Queues DEF AttemptSucceeds, AttemptFails, GoTo
<1>5. CASE Recorded
  BY <1>5, Resumes
<1>6. CASE UNCHANGED <<pc, lock>>
  BY <1>6 DEF WaitersQueued
<1>7. QED
  BY <1>1, <1>2, <1>3, <1>4, <1>5, <1>6
  DEF CallNext, Step, BreakerTick, callVars, breakerVars, allVars

\* The promise chain behind recordSuccess and recordFailure (retry.ts:151-196)
\* resumes every caller, once and with its own record, for any number of calls.
THEOREM NoCallerLost == CallSpec => []WaitersQueued
<1>1. CallInit => WaitersQueued
  BY DEF CallInit, BreakerInit, WaitersQueued, Recording
<1>2. QED
  BY <1>1, CountersStayBelow, WaitersStep, PTL DEF CallSpec

-----------------------------------------------------------------------------

\* A step out of the open state is that of a call which asks the breaker itself: the
\* check stops the others, a record leaves an open breaker open, and so does time.
LEMMA OpenStep ==
    ASSUME CallTypeOK, [CallNext]_allVars, state = "open", state' # "open"
    PROVE  \E c \in Calls \ Checked : Start(c)
<1>1. ASSUME NEW c \in Calls, Step(c), ~Start(c) PROVE FALSE
  BY <1>1 DEF Step, Refuse, Return, AttemptSucceeds, AttemptFails,
              AttemptThrows, GiveUp, BackOff, TryAgain, breakerVars
<1>2. ASSUME NEW c \in Calls, Start(c) PROVE c \notin Checked
  BY <1>2 DEF Start, PassesCheck
<1>3. ASSUME Recorded PROVE FALSE
  BY <1>3 DEF Recorded, ApplyRecord, CountSuccess, CountFailure, Closes
<1>4. QED
  BY <1>1, <1>2, <1>3 DEF CallNext, BreakerTick, allVars, breakerVars

\* The only place where an open breaker is reconsidered is allowRequest, and
\* createQwenStream's check (qwen.ts:528-533) keeps its calls away from there: only
\* another caller of withRetry ends the open state, whatever the threshold, the
\* timeout and the number of calls.
THEOREM OnlyUncheckedProbe == CallSpec => ProbedUnchecked
<1>1. CallTypeOK /\ [CallNext]_allVars
        => [state = "open" /\ state' # "open" => \E c \in Calls \ Checked : Start(c)]_allVars
  BY OpenStep
<1>2. QED
  BY <1>1, CountersStayBelow, PTL DEF CallSpec, ProbedUnchecked

\* Where all calls are those of the program, nothing does: once open, the breaker is
\* open for ever.
THEOREM OpenIsForGood ==
    ASSUME Checked = Calls
    PROVE  CallSpec => OpenForGood
<1>1. CallTypeOK /\ [CallNext]_allVars => [state = "open" => state' = "open"]_allVars
  BY OpenStep
<1>2. QED
  BY <1>1, CountersStayBelow, PTL DEF CallSpec, OpenForGood
==============================================================================
