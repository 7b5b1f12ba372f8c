----------------------------- MODULE WreqWorker ----------------------------
(***************************************************************************)
(* The sidecar that performs the TLS-impersonated fetches: the globals of  *)
(* src/services/wreqFetch.ts, the processes it has spawned, and the calls  *)
(* of wreqFetch, one at a time for each caller.                            *)
(*                                                                         *)
(* A process is killed, dies and is spawned again while calls are in       *)
(* flight.  Its events ("data", "exit", "error", the start timer) arrive   *)
(* later, and their handlers write the globals whatever process they       *)
(* belong to.  What a process has printed is delivered before its exit.    *)
(***************************************************************************)
EXTENDS Naturals, FiniteSets

CONSTANTS
    Callers,        \* the callers of wreqFetch
    Procs,          \* names for worker processes; bound: processes at once
    NoProc,         \* null
    Replies,        \* what the upstream may answer
    MaxCrashes      \* bound: times a process dies by itself

ASSUME WorkerAssumption == NoProc \notin Procs /\ MaxCrashes \in Nat

VARIABLES
    workerProcess,      \* the process the module would kill
    workerBaseUrl,      \* the process whose address is used
    workerStartPromise, \* the process whose start is awaited
    procs,              \* status of every process
    timer,              \* processes whose start timer is set
    calls,              \* the call of wreqFetch of every caller
    aborted,            \* callers whose signal is aborted
    crashes             \* times a process has died by itself

globalVars == <<workerProcess, workerBaseUrl, workerStartPromise>>
workerVars == <<workerProcess, workerBaseUrl, workerStartPromise, procs, timer, crashes>>

\* A call awaits the worker ("start"), or has its request with process "proc"
\* ("sent"); "again" in the second attempt; "signal" if it heeds the caller's
\* signal.  It ends with a reply or throws.
NoCall == [at |-> "none", proc |-> NoProc, again |-> FALSE, signal |-> FALSE,
           reply |-> "none"]
Call(at, p, again, signal) ==
    [at |-> at, proc |-> p, again |-> again, signal |-> signal, reply |-> "none"]
Waiting(c, p) == calls[c].at = "start" /\ calls[c].proc = p
Ended(c) == calls[c].at \in {"reply", "failed"}
Failed == [NoCall EXCEPT !.at = "failed"]

\* Killed or dead, its exit not yet delivered.
Kill(p, ps) == IF p = NoProc \/ ps[p] = "free" THEN ps ELSE [ps EXCEPT ![p] = "dying"]

\* A name is free once the process has gone and nothing refers to it.
Free(p, c) ==
    /\ procs[p] = "free" /\ p \notin timer
    /\ \A d \in Callers \ {c} : calls[d].proc # p

WorkerInit ==
    /\ workerProcess = NoProc
    /\ workerBaseUrl = NoProc
    /\ workerStartPromise = NoProc
    /\ procs = [p \in Procs |-> "free"]
    /\ timer = {}
    /\ calls = [c \in Callers |-> NoCall]
    /\ aborted = {}
    /\ crashes = 0

----------------------------------------------------------------------------
\* The call takes the running worker, or joins the start under way, or spawns.
UseWorker(c, signal) ==
    /\ workerBaseUrl # NoProc
    /\ calls' = [calls EXCEPT ![c] = Call("sent", workerBaseUrl, FALSE, signal)]
    /\ UNCHANGED workerVars

JoinStart(c, signal) ==
    /\ workerBaseUrl = NoProc /\ workerStartPromise # NoProc
    /\ calls' = [calls EXCEPT ![c] = Call("start", workerStartPromise, FALSE, signal)]
    /\ UNCHANGED workerVars

Spawn(c, again, signal, ps) ==
    /\ \E p \in Procs :
          /\ Free(p, c)
          /\ procs' = [ps EXCEPT ![p] = "starting"]
          /\ timer' = timer \cup {p}
          /\ workerProcess' = p
          /\ workerStartPromise' = p
          /\ calls' = [calls EXCEPT ![c] = Call("start", p, again, signal)]
    /\ workerBaseUrl' = NoProc
    /\ UNCHANGED crashes

\* ensureWorker, and the POST if a worker runs.
WreqFetch(c, signal) ==
    \/ UseWorker(c, signal)
    \/ JoinStart(c, signal)
    \/ /\ workerBaseUrl = NoProc /\ workerStartPromise = NoProc
       /\ Spawn(c, FALSE, signal, procs)

\* The request of c fails: its process is dead, or its signal is aborted.
Stopped(c) == calls[c].signal /\ c \in aborted
Broken(c) ==
    /\ calls[c].at = "sent"
    /\ procs[calls[c].proc] \in {"dying", "free"} \/ Stopped(c)

\* The first attempt fails: restartWorker kills the worker of the moment and
\* forgets it, so that ensureWorker spawns the next.
RestartWorker(c) ==
    /\ Broken(c) /\ ~calls[c].again
    /\ Spawn(c, TRUE, calls[c].signal, Kill(workerProcess, procs))
    /\ UNCHANGED aborted

\* The second attempt fails: the call throws.
ConnectionFails(c) ==
    /\ Broken(c) /\ calls[c].again
    /\ calls' = [calls EXCEPT ![c] = Failed]
    /\ UNCHANGED <<workerVars, aborted>>

\* The worker hands on a reply, or reports the upstream's error or its timeout.
Answers(c, r) ==
    /\ calls[c].at = "sent" /\ procs[calls[c].proc] = "up" /\ ~Stopped(c)
    /\ calls' = [calls EXCEPT ![c] = [NoCall EXCEPT !.at = "reply", !.reply = r]]
    /\ UNCHANGED <<workerVars, aborted>>

UpstreamFails(c) ==
    /\ calls[c].at = "sent" /\ procs[calls[c].proc] = "up" /\ ~Stopped(c)
    /\ calls' = [calls EXCEPT ![c] = Failed]
    /\ UNCHANGED <<workerVars, aborted>>

----------------------------------------------------------------------------
\* stdout "data": the worker listens, or had just listened when it was killed.
Listens(p) ==
    /\ procs[p] = "starting" \/ (procs[p] = "dying" /\ p \in timer)
    /\ procs' = [procs EXCEPT ![p] = IF @ = "starting" THEN "up" ELSE @]
    /\ workerBaseUrl' = p
    /\ timer' = timer \ {p}
    /\ calls' = [c \in Callers |-> IF Waiting(c, p) THEN [calls[c] EXCEPT !.at = "sent"]
                                   ELSE calls[c]]
    /\ UNCHANGED <<workerProcess, workerStartPromise, aborted, crashes>>

Settle(p) == [c \in Callers |-> IF Waiting(c, p) THEN Failed ELSE calls[c]]

\* "error": the process could not be spawned.
SpawnError(p) ==
    /\ procs[p] = "starting" /\ crashes < MaxCrashes
    /\ procs' = [procs EXCEPT ![p] = "free"]
    /\ timer' = timer \ {p}
    /\ workerProcess' = NoProc
    /\ workerStartPromise' = NoProc
    /\ calls' = Settle(p)
    /\ crashes' = crashes + 1
    /\ UNCHANGED <<workerBaseUrl, aborted>>

\* The start timer: without a worker the start is given up, with one nothing is.
StartTimeout(p) ==
    /\ p \in timer
    /\ timer' = timer \ {p}
    /\ IF workerBaseUrl = NoProc
       THEN /\ procs' = Kill(p, procs)
            /\ workerProcess' = NoProc
            /\ workerStartPromise' = NoProc
            /\ calls' = Settle(p)
       ELSE UNCHANGED <<procs, workerProcess, workerStartPromise, calls>>
    /\ UNCHANGED <<workerBaseUrl, aborted, crashes>>

Dies(p) ==
    /\ procs[p] \in {"starting", "up"} /\ crashes < MaxCrashes
    /\ procs' = [procs EXCEPT ![p] = "dying"]
    /\ crashes' = crashes + 1
    /\ UNCHANGED <<globalVars, timer, calls, aborted>>

\* Mutant: the exit handler forgets the process, not its address.
ExitsKeepingBase(p) ==
    /\ procs[p] = "dying"
    /\ procs' = [procs EXCEPT ![p] = "free"]
    /\ workerProcess' = NoProc
    /\ workerStartPromise' = NoProc
    /\ UNCHANGED <<workerBaseUrl, timer, calls, aborted, crashes>>

\* "exit": the globals are cleared, also those of a worker spawned since.
Exits(p) ==
    /\ procs[p] = "dying"
    /\ procs' = [procs EXCEPT ![p] = "free"]
    /\ workerProcess' = NoProc
    /\ workerBaseUrl' = NoProc
    /\ workerStartPromise' = NoProc
    /\ UNCHANGED <<timer, calls, aborted, crashes>>
=============================================================================
