# qwen-gate in TLA+

qwen-gate (src/) is an HTTP gateway that offers an OpenAI-compatible and an
Anthropic-compatible API in front of the chat.qwen.ai web service. It owns a set
of accounts, gives each incoming request an account and a fresh upstream chat,
streams the answer back, and hides rate limits, CAPTCHAs, busy chats and network
failures behind retries on other accounts. Everything runs on one JavaScript
event loop, so the unit of atomicity is the stretch of code between two `await`s,
and the hard part is what other requests, timers and background jobs do there.

This directory holds specifications of that behaviour, TLC configurations that
check them on small instances, and TLAPS proofs of the main invariants for
instances of any size. `PROJECT.json` lists the components, the runs, the
correspondence of every definition with lines of the source, the hazards and the
theorems; this file explains them.

    tlc -workers 2 -config RequestFaults.cfg MCChatRequest
    tlapm ChatRequestProofs.tla


## 1. Inventory

Paths are under `src/src/`.

| Component | State it keeps | Operations | Talks to |
| --- | --- | --- | --- |
| Account slots and cooldowns (`services/accountManager.ts`) | per account: `inFlight`, `throttledUntil`, `disabled`, `totalRequests`, `lastUsed` | `pickAccount`, `decrementInFlight`, `throttleAccount`, `setAccountDisabled` | called by requests, session pool, upstream call, `saveCookies` |
| Account registry (`services/accountManager.ts`, `services/auth.ts`) | the list, the e-mail index, `accounts.json` | load, save, add, remove, reload, file watcher | login, dashboard, the file system |
| Session pool (`services/sessionPool.ts`) | active sessions and their counter, acquisition times, ready chats per account, refill flags, release timers | `acquire`, `release`, `popPooledChat`, `topUp`, `deleteSession`, `sweepStuckSessions` | account slots, upstream chats/new and DELETE |
| Request set-up (`routes/chat.ts`, `routes/anthropic.ts`) | attempt number, last failed account, session in hand | `setupSession`: pick, upload, acquire, call, first chunk, retry | slots, pool, upstream call |
| Upstream call (`services/qwen.ts`, `utils/retry.ts`) | the circuit breaker, attempt number, abort controllers | `createQwenStream`, `handleErrorResponse`, `withRetry`, `CircuitBreaker` | transport, slots (throttle, disable, pick) |
| Streaming pipeline (`routes/chatStreaming.ts`, `streamLoop.ts`, `chatStreamingHelpers.ts`, `chatNonStreaming.ts`, `cleanupHelpers.ts`) | snapshots for deltas, idle timers, tool-call buffers | read loop, chunk processing, completion, clean-up | session pool (release), client |
| Transport (`services/wreqFetch.ts`, `browserlessFetch.ts`) | worker process, pending calls, single-flight cookie refresh | send, receive, worker exit and restart | upstream |
| Login and tokens (`services/tokenRefresh.ts`, `tokenCache.ts`, `loginService.ts`, `loginHelpers.ts`) | single-flight refresh map, cached tokens | refresh, login | browser, registry |
| Model routing (`services/modelRouter.ts`, `modelHealth.ts`, `qwenModels.ts`) | successes and errors per model, cached model list | route, record, expire | set-up |
| Tool calls (`tools/`, `routes/chatHelpersCore.ts`) | recent calls per conversation | spam guard, loop detection, XML parsing | streaming pipeline |
| Client rate limit (`middleware/rateLimit.ts`) | token buckets | consume, refill, clean-up | every request |
| Logs and monitor (`services/logStore.ts`, `monitorStore.ts`) | FIFO of entries, counters, debounced file | create, update, finalise, save | every request |
| Server (`index.tsx`, `cluster.ts`) | count of requests in flight, shutdown flag | serve, drain, exit | all |
| Message conversion (`routes/chatHelpers.ts`, `routes/anthropic.ts`, `routes/chat.ts`) | the prompt's segments, uploaded files over the attempts | `anthropicMessagesToOpenAI`, `buildQwenMessages`, split into `context.txt` | set-up |
| Browser, CAPTCHA, fingerprints, dashboard, configuration, text filters | | | I/O and data, not modelled |

How they interact: a request **picks** an account (a slot, `inFlight + 1`), makes
the pool **acquire** a chat for it (ready-made or created), **calls** the upstream
with it, and **streams** the answer; the **release** of the session gives the slot
back and has the chat deleted. Each failure leaves this path somewhere and has to
undo exactly what was done. Beside the requests run the pool's refills, its DELETEs,
the sweeper (a timer that releases sessions held for over 30 minutes), the
operator's switches and new logins. The shared state is the registry's counters,
the pool and the circuit breaker.

What makes each component correct:

* slots: an account serves one request at a time; a taken slot has a request
  behind it; it comes back once, on every path; a cooldown is not cut short;
* pool: a chat is handed out once, is not deleted while in use and is deleted in the
  end; refills do not overfill; the statistics follow the sessions;
* set-up: it ends, with a stream or an error, within its attempts;
* upstream call: the breaker opens on consecutive failures and tries again later; no
  caller waits for ever;
* streaming: text is neither lost nor repeated; every way out releases the session;
* registry: an account is listed once and its slots are counted, whatever is removed, added and
  reloaded meanwhile; what a restart must not forget is in the file; an account leaves it for a named reason only;
* transport: the address in use belongs to a live process; every call ends; a challenge
  page is never taken for an answer;
* rate limit and logs: the buckets are exact meters; a failure is not recorded as a success;
  saved history survives; a drained shutdown leaves no handler behind;
* answers without streaming and /v1/messages: text and calls arrive once; events follow the
  protocol; the outcome recorded is the one the client was told of;
* prompts: what the client said reaches the upstream, a call and its result are written
  alike, and files belong to the account that sends them.

The hazards, with their lines, are in `PROJECT.json`.


## 2. Modules

| Module | Models |
| --- | --- |
| `AccountManager` | slots, cooldowns and the disabled flag: `isAvailable`, `pickAccount`, `decrementInFlight`, `throttleAccount`, `setAccountDisabled`, plus `saveCookies` and the PATCH route as actions |
| `SessionPool` (extends it) | the pool's state and the synchronous parts of `acquire` as operators; `release`; refills, DELETEs, the sweeper and time as actions |
| `ChatRequest` (extends it) | `setupSession` and the end of the stream, one action per stretch between awaits, with `acquire`, `handleErrorResponse` and the release inlined at the point where they run; all properties of the slots, sessions and chats |
| `AccountLease` | the abstract promise: exclusive leases of accounts |
| `CircuitBreaker` | the class of `utils/retry.ts` |
| `UpstreamCall` (extends it) | `withRetry` and `createQwenStream`'s check of the breaker |
| `ChunkText` | what the pipeline does with text: increments and resends, the one-chunk buffer, finding tool calls, hiding their markup |
| `ChatStream` (extends it) | one streamed answer: `runStreamLoop`, `processStreamData`, `handlePostStreamCompletion` and the clean-ups, with the upstream and the client around them |
| `AccountRegistry` | the list of accounts, its index, `accounts.json` and the profiles, through `initAuth`, `reloadAccounts`, `addAccount`, `removeAccount`, logins, the watcher, requests, crashes and restarts |
| `WreqWorker` | the sidecar process of `wreqFetch.ts`, its start, its death, and the calls on it |
| `BrowserlessFetch` (extends it) | `browserlessFetch.ts`: look-up of tokens, plain transport and fall-back, recovery from a challenge, the browser that the requests of an account share, the periodic refresh |
| `RateLimiter` | the token buckets of `rateLimit.ts` |
| `RateMeter` | the abstract promise: meters that fill at a rate |
| `RequestLog` | the entries of `logStore.ts` and the records and file of `monitorStore.ts` |
| `Gateway` (extends both) | `index.tsx` around the handlers: the count of requests in flight, the rate limit, the log of a request, shutdown, kill and restart |
| `ToolGuard` | validation of calls, the spam guard, loop detection |
| `AnswerFeed` (extends `ChunkText`) | the upstream's answer as the handlers below read it (external) |
| `ChatAnswer` (extends both) | `chatNonStreaming.ts` |
| `MessageStream` (extends it) | `handleAnthropicStream`: the blocks and events of a streamed message |
| `MessagesRoute` (extends it) | the three handlers (chat and messages without streaming, messages with it) over one answer, with their release and log |
| `MessageHistory` | the conversion of a conversation into the upstream's one message, and its split |
| `PromptRequest` (extends it) | conversations turn by turn, and uploads, files and attempts of a request |
| `MC...` | constants, answers, clients and symmetry for TLC |
| `ChatRequestProofs`, `StreamProofs`, `GatewayProofs`, `RegistryProofs`, `MessagesProofs`, `PromptProofs` | theorems about the module that each extends |
| `UpstreamProofs` (extends `BrowserlessFetch` and `UpstreamCall`) | theorems about the transport, and about the breaker around it |
| `CommonLemmas` (extends `ChunkText`) | induction and recursion over the naturals, for sets and functions; what the text operators of `ChunkText` return; sequences put together from sequences, and counting in them; the calls of the parts of a text |

### How state and actions correspond to the code

`inFlight`, `disabled` are the fields of an `AccountEntry`; `cooldown` is
`throttledUntil - Date.now()` in ticks, never negative. `activeSessions`,
`activeCount`, `slots`, `toppingUp` are the fields of `SessionPool` and
`AccountPool`; `owner` is `cachedByChat[..].email`; `age` is the time since
`acquiredAt` or `createdAt`; `deleting` is a scheduled or unanswered DELETE;
`upstream` is what exists at the service. Per request, `pc` is the await the handler
stands at, `attempt`/`lastFailed`/`acct`/`chat`/`err` are the locals of
`setupSession`, `given`/`tries` those of `acquire`.

| `pc` | The code is in |
| --- | --- |
| `pick` | before `pickAccount(lastFailedEmail)` |
| `upload` | the image uploads (chat.ts:187-205) |
| `acquire` | the loop of `acquire()` without an e-mail |
| `pop` | before `popPooledChat` |
| `headers` | `await getBasicHeaders` with a ready chat in hand |
| `create` | `await Promise.race` of chats/new and its timeout |
| `fetch` | `createQwenStream` |
| `rejected` | about to enter `setupSession`'s catch |
| `firstChunk` | the race for the first chunk |
| `stream`, `closing` | the response is streamed; the timer of `scheduleCleanup` is set |

A new login, an operator's switch, a tick, a refill, a DELETE and a sweep may happen
between any two of these. The clamp of `inFlight` above 20 (accountManager.ts:520) is
unreachable, because a candidate's counter is 0 when it is incremented.

In `ChatStream`, `st` is the `StreamProcessingState` (`lastV` is `lastVStrRaw`, `full` is
`lastFullContent`, `shown` is `lastFilteredSnapshot`, which equals
`lastFilteredFullContent` wherever it is read, `depth` is `toolCallDepth`, `calls` is
`loggedToolCalls`), `queue` what the reader will get, `out` the events the handler is
awaiting the writes of, `written` the events written. `pc` is `loop` at the abort check, `reading`
at the race of read and timer (or between two lines of one read), `post` on entering
`handlePostStreamCompletion`, `completing` and `silent` in its last writes, `cleanup`
before the timer of `scheduleCleanup`, `closing` before `cleanupImmediately`.

In `AccountRegistry` an entry is an object with a number: operations that await keep the number
of an entry after the list has dropped it, as the code keeps references. `boot` is where
`initAuth` stands, `tasks` are the operations between two awaits (a profile load, a reload, an
addition, a login), `file` is `accounts.json` with the key its passwords are encrypted with,
`profile` what the browser profile of an e-mail holds. `Crash` may come at any time and, with
`TornWrites`, in the middle of a save; `Start` reads the file again.

In `WreqWorker` `procs` are the processes, alive or about to report their end; the globals
`workerProcess`, `workerBaseUrl` and `workerStartPromise` each name one, and handlers of a dead
process's late events write them whatever process they belong to. `calls` is where a caller of
`wreqFetch` stands. `BrowserlessFetch!fetch[c].at` names the await a request stands at; what runs
after an await runs before anything else (`Busy`).

In `Gateway` `req[r]` is where a request is: `entered` in the rate limit, `body` and `setup` and
`answer` in the handler, `streaming` when the handler has returned and its answer goes on.
`server` is `stopping` while `serverStop` is awaited and `draining` in the loop that polls the
counter; `exit` says how the last process ended.

In `MessagesRoute` a step is one event of the upstream's answer and all that the handler does
with it; `st` is the state of the non-streaming handler, `ms` that of the streaming one, `written`
the events of a stream, `response` what a client without streaming gets. In `PromptRequest`
the client's turns come first (`Ask`, `Answered`, `Forget` and `StartOver`, which drop old turns), `Send`
converts them, and then each attempt picks, uploads images, uploads the context and acquires, with
`files` kept over the attempts as `processedMessages[0].files` is. A segment of the prompt is a
record of what it shows; its text is as many letters as its `size`.

### Abstractions

* `pickAccount` may take any available account; the code prefers few `totalRequests`
  and old `lastUsed`, counters the properties do not depend on.
* In `ChatRequest` the set of accounts is fixed and all are authenticated; `AccountRegistry` adds,
  removes and reloads them.
* A chat id the upstream creates is new; ids stand for ever new ones, so an id no
  variable refers to may be used again.
* `getBasicHeaders` and `getTokenWithAccount` with an e-mail take no slot and do not
  fail; without one they pick and give back, see the hazard on `fetchQwenModels`.
* Upload failures of `context.txt` are swallowed by the code and left out.
* `CaptchaSolvedError` is never thrown and pending corrections are never set in this
  version; `retrySameAccount` is dead with them. `topUp`'s limit of 20 turns is one of
  the reasons why a refill may stop. The second DELETE of a busy chat (chat.ts:316)
  changes nothing, `release` having scheduled one.
* `DELETE_SESSION=false`, `RETRY_ENABLED=false`, `RETRY_MAX_ATTEMPTS=0` and the test
  mocks are not modelled.
* An error of the call is one of seven kinds, by what `handleErrorResponse` and the
  catch do with it; in `ChatRequest` retries and the breaker are inside one step,
  `UpstreamCall` opens that step.
* Breaker: `failureCount` saturates at the threshold, since it is only compared with
  it; time is counted up to the reset timeout. No tick happens while records are queued,
  because microtasks run before timers.

* Text is a sequence of letters, `>` and three pieces of tags: `<` (a tag up to a cut
  before its `=` or its name's end), `function=f>` and `/function>`. It is enough for every
  cut the filters treat differently. Parameters are part of a call's body; calls do not nest.
* `getSnapshotDelta` and `detectCumulativeChunk` search for edited resends of more than
  32 characters; the model has none. Trailing white space is not modelled.
* Of a stream, keep-alive comments, response ids, token usage, the amplification guard, think tags in
  answers (`CLEAN_OUTPUT`) and the size limits of the buffers are left out. Writes do not fail:
  hono's stream swallows errors, so a write to a client that left just returns.
* `ChatRequest` takes a stream as one step that ends at any time, `ChatStream` opens it.
* Registry: at most one account is given by the environment, and at most three in all, one batch of
  profile loads at start. `POST /accounts/reload` starting `initAuth` again while it runs is left
  out; `ensureAccountFresh` and `tryRefreshToken` have no caller in this version.
* Transport: what `bx-ua` and the other headers hold, bodies, and the steps within a browser are
  left out. Tokens do not expire while a request runs.
* Rate limit: time is counted in ticks and tokens are whole; the code divides minutes. That an idle
  bucket would be full (`LimiterAssumption`) holds for any rate the clean-up's hour can fill.
* Log: an entry is its id, whether it has an account and whether an error is noted; what it displays is
  left out, as are `networkDebug`'s ring buffer and the hourly pruning of files.
* Answers without `ChatStream`: response ids, usage, pings, reasoning without streaming, think tags,
  names of tools and events with several local calls are left out. A call without parameters is
  empty, and one whose name or arguments do not pass `validateSingleToolCall` is `Malformed`.
* Prompts: texts are not sanitised nor truncated (`MAX_TOOL_CALLS_PER_MESSAGE` is never reached with two tools), the tool
  manifest is a part of the system segment, `local_mcp` and the loop that shrinks it
  (chatHelpers.ts:429-460) are left out, and so are tools' descriptions, which are appended to the system parts
  after the prompt has been built (chatHelpers.ts:470) and never sent. The role `developer` is
  dropped by the code. Pending corrections are kept under the id of a chat that is never used again.


## 3. Runs

| Run | Instance | Checks | Shows |
| --- | --- | --- | --- |
| `request_faults` | 2 accounts, 2 requests (one with images, one through /v1/messages), 3 chats, one of them pooled, 2 attempts, all replies and faults, ages up to 1 with a timeout of 2 | `OneConversationPerAccount`, `SlotInvariant`, `CountsExact`, `CooldownsRunOut` | while no stream outlives the sweeper's timeout, an account has one conversation; no failure path, refill or DELETE upsets the books; a refusal never shortens a cooldown |
| `request_live` | 1 account, 2 requests, 2 chats, ages up to 2 with a timeout of 1, fairness | `ChatsAccounted`, `SetupEnds`, `SlotsComeBack`, `SessionsReclaimed`, `ImplementsLease` | progress, no lost chat, and the refinement of `AccountLease`, with sweeps |
| `stranded_slot` | violation of `NoStrandedSlot` | | finding 1 |
| `retry_breaker` | 2 calls behind `createQwenStream`'s check and 1 without it, threshold 2, timeout 2, 2 successes to close, 1 retry, fairness | `CountersBelow`, `WaitersQueued`, `CallsEnd`, `OpenProbes` | the breaker under the program's calls, and under one as `retry.ts` offers it, which alone gets it out of `open` |
| `stream` | 7 answers of up to 8 pieces, all cuts, increments and resends, reasoning, a local call, every fault; two unusual things of the upstream's in one answer, buffer limit 4, 2 events queued, fairness | `NoToolTextShown`, `DeliveredIsFiltered`, `CallsAreReported`, `SilenceIsTrue`, `EndIsTold`, `ReleasedOnce`, `StreamEnds` | which cuts show what is in a call and which do not, which answers pass for silences, an answer in pieces is the filtered answer, and there is one way out, always |
| `registry` | 2 e-mails, one of the environment, 2 requests, 2 API keys, 1 operation of the operator at a time, torn writes, surviving profiles, removals under requests | `OnlyReloadsDuplicate`, `SlotsAccounted`, `FileKnows`, `StaysOff`, `AccountsKept` | the registry over starts, crashes, reloads, removals and logins interleaved at every await |
| `lost_cooldown` | violation of `RestartKeepsCooldowns` | | finding 2 |
| `transport` | 2 requests of one account and the periodic refresh, 3 processes, 1 crash | `BaseIsAlive`, `BrowserShared`, `NoChallengeReturned` | a worker killed, crashing and starting again under calls in flight |
| `gateway` | 2 requests of 2 clients, 2 starts, 1 log entry, 2 records and one of overshoot, a bucket of 2, fairness | `NoFailureHidden`, `ImplementsMeter`, `DrainedExit`, `HistoryKept`, `ShutdownEnds` | the refinement of `RateMeter`, and the server's life around handlers that are in any state |
| `answers` | 5 answers, the longest without streaming only, all cuts and resends, up to 2 of them unrecognisable, up to 2 local calls, 2 calls at most | `TextOnce`, `CallsKept`, `MessageWellFormed`, `EndsOnce`, `RejectionTold` | the three handlers that answer without `ChatStream`, and the limit of calls: who is told of a call over it |
| `prompt` | 3 kinds of clients, conversations of 5 turns, 2 tools, 2 accounts, 2 attempts, 6 letters inline | `HistoryInLockstep`, `NothingLost` | prompt and files of every attempt |
| `foreign_files` | violation of `FilesShareAccount` | | finding 3 |

**Bounds.** `MaxAttempts` (5 in the code) is 2, so that a request has a first, a last
and a repeated attempt. Two requests and two accounts give every pairwise race; a third
actor is there in the refills and the sweeper. Three chats let both requests hold one
while a third is pooled or waits for its DELETE. `ActiveTimeout`, `SlotTtl` and `Cooldown` are one or two
ticks, `MaxAge` is the age where clocks saturate: one above the timeout, or below it where sweeps are to
stay out. In the configuration the code ships with, a cooldown is at least 30 s and a session's
timeout at least 60 s; the model allows any ratio. Symmetry is used for accounts, chats and processes
that are alike, in safety runs only. With `DeletesFail` and `LateCreates` chats are lost by design
(hazards), so `ChatsAccounted` and `SessionsReclaimed` are checked without them, in `request_live`.
`request_live` has one account, for which both requests contend; a rate-limited reply finds no second one
whose slot it could strand.

In `retry_breaker` two calls are behind the check of `createQwenStream`, as every call of the program is,
and one is not (`Checked`): that an open breaker tries again needs one that is not, which is what `OpenProbes` says.

`stream` cuts an answer everywhere. The properties name the cuts that matter: `asides` remembers whether a chunk had a tag and
anything else (`joined`), and whether one had a closing tag and some of its call, or tore an opening tag off a `<` that is not
held back (`leaky`). The upstream does at most `MaxAsides` unusual things in one answer (reasoning, a local call, a
pure resend, joined chunks; of each kind as often as it likes): two, so that any two of them meet.
The buffer limit (200 in the code) is 4, so that a held comparison is released by force.
No answer repeats a call or begins with the same text twice; both are merged (hazards).

`registry` has two e-mails, the least for an entry to be confused with another; the two entry numbers
let a removed entry live on beside its successor, or a second entry of one account in the list, and one key beside none is a change of
`API_KEY` between two starts. Its state space is cut (`SmallScope`) where hazards of different kinds multiply: two requests at
once, requests whose account was removed, profiles that outlive their account, expired cookies, a failed watcher and
operations during the start come with one account at a time; the key of the file other than the master key comes with two; so each race is there whole,
and the second account is there for removals, reloads and merges. The theorems of section 4 have no such limit.
`gateway` has a log of one entry, so that a second request evicts the first's, and records that are
trimmed at the third. In `answers` the third call of one kind is spam and two calls are the limit, so
that a call can be spam, be over the limit by itself, and be one of three found at once; an answer with text has up to two resends that
nobody can tell from increments (`MCRepeats`), the second of which may be of the text and more; the longest answer is all calls; that one has too many cuts
to be streamed too, and a stream has no limit (`LongUnstreamed`). The loop detection never applies: the spam guard, whose window is
the limit at least, rejects the third call of a kind before it. In `prompt` five turns hold two answers with calls and the results of
both, and six letters inline make every place of the cut occur.

**Fairness.** `ChatStream!FairSpec` assumes that the handler and its timers run and that a
client reads what is written or disconnects, and nothing of the upstream: the idle timer
ends a silent stream. `ChatRequest!FairSpec` assumes that each step of set-up that stays enabled
is taken: uploads, chats/new (30 s), upstream attempts (30 s, retried at most three times)
and the first chunk (60 s) end by their timeouts. It assumes that time passes, that the
sweeper's interval fires and that a DELETE is answered or fails. It assumes nothing of a
stream: a client that stops reading may leave the handler in a write for ever, and
`SlotsComeBack` holds by the sweeper alone. `UpstreamCall!FairCallSpec` assumes that attempts
end, that queued records are run, that time passes and that calls keep coming.
`Gateway!FairSpec` assumes that handlers and streams end (by the timeouts of the other modules), that `serverStop`
resolves once nothing is active, and that the loop of the shutdown and its limit run.

**Findings.**

1. `stranded_slot`: on a RateLimited reply `handleErrorResponse` picks the next account
   (qwen.ts:286), which takes its slot, and then throws the 429 all the same; the release
   that follows names the old account. The slot is lost until a restart, although the
   comment at qwen.ts:289 says it "is released by the normal request-end release path".
2. `lost_cooldown`: a cooldown is saved so that a "restart respects" it (accountManager.ts:570), but
   the start loads the token of every signed-in profile, and `saveCookies` ends the cooldown (auth.ts:427).
3. `foreign_files`: the files of an attempt stay in the message (chat.ts:237), so a retry on another
   account sends files which that account cannot read (chat.ts:168).

**Known to be violated, without a run of their own.** Set the constant, or check the property, and
TLC shows it.

* `OneConversationPerAccount` with `MaxAge` above `ActiveTimeout`: the sweeper frees the account of a
  request that still streams (sessionPool.ts:106), and the next one opens a second conversation on
  it, against accountManager.ts:472.
* `NoStrandedSlot` with `UploadsFail`: a failed image upload (chat.ts:203, anthropic.ts:413) strands a slot too.
* `OpenProbes` with `Checked = Calls`, which is the program: `createQwenStream` refuses while `getState()` says open, and only
  `allowRequest`, which runs after that check, would leave that state, against retry.ts:83. Proved as `OpenIsForGood`.
* `DeliveredIsFiltered` without `"joined" \notin asides`: text in one chunk with a tag is lost or repeated at the flush (streamLoop.ts:273).
* `TextOnce`, `CallsKept` and `RejectionTold` with an answer that says its beginning again
  at once and goes on (not `NoEcho`, as `a a <call>`): an increment that equals the beginning of the answer is taken for a
  resend (chatNonStreaming.ts:122-124, anthropic.ts:888).
* `CallsKept` and `RejectionTold` with an answer in which a call begins inside another (not `CallsApart`): what is a call
  in one piece of the answer is not one in the whole, and the handlers without streaming parse piece by piece.
* `CallsKept` without its last disjunct: of calls found together at the end, those over `MaxToolCalls` are
  dropped and the client is not told (chatHelpersCore.ts:328), whereas one that is found by itself is rejected.
* `FetchesEnd`: a worker that dies before it listens, while another is in use already, leaves its
  starter waiting for ever (wreqFetch.ts:44-51, 77-82).
* `SystemStaysInline`: the system text is at the front of the prompt, so the split moves it to `context.txt`
  first (chatHelpers.ts:387), against chat.ts:208.
* `AccountsKept` with `SlashedCookies`: a cookie with `//` makes `accounts.json` unreadable (accountManager.ts:75).

**Where the code does less than its comments say, and a passing run has the case.** These behaviours occur in the runs; each property
says how far the damage goes, and without the clause quoted here TLC shows it.

* `SilenceIsTrue`, its disjunct `Waits(Received)`: a text like "x < 3" that ends while it is held in `pendingChunk` is reported
  as an intentional silence and lost (chatStreaming.ts:142 comes before the flush of streamLoop.ts:240), against
  chatStreaming.ts:138-141 and streamLoop.ts:213-217. No other answer with text is.
* `NoToolTextShown`, its condition `"leaky" \notin asides`: a call in one chunk raises and lowers `toolCallDepth` before it
  is read (chatStreamingHelpers.ts:356-359), so its parameters are streamed as text, against docs/API.md:567. Markup never is.
* `TextOnce`, its factor `1 + repeated`: a chunk that is exactly the text so far is appended again, and so is all that
  resends the text after it (chatNonStreaming.ts:122-124, anthropic.ts:888), against anthropic.ts:884-887. Nothing is lost or
  reordered by it. `CallsKept` and `RejectionTold` are about the answers without such a chunk (`repeated = 0`).
* `OpenProbes`, its part `ProbedUnchecked`: see above.
* `OnlyReloadsDuplicate`: a profile that outlives the removal of its account (accountManager.ts:350-354 swallows the failure, a
  login makes the profile again, :305-308) makes a reload await it, and whoever adds the account meanwhile has it
  listed twice. Nothing else does. `FileKnows` and `StaysOff` are about accounts listed and saved once (`Once`).
* `SlotsAccounted`: an account removed while it serves a request (accountManager.ts:343 has no check) and added again gets that
  request's release; its counter is then too low, so `pickAccount` gives it a second request (accountManager.ts:472). The
  counter of the entry an e-mail leads to is never too high, so no slot is lost for good.


## 4. Proofs

The theorems hold for every value of the constants that satisfies the named assumptions
(`AccountAssumption`, `PoolAssumption`, `RequestAssumption`, `BreakerAssumption`, `CallAssumption`,
`TextAssumption`, `StreamAssumption`, `WorkerAssumption`, `FetchAssumption`, `LimiterAssumption`, `LogAssumption`,
`GatewayAssumption`, `RegistryAssumption`, `HistoryAssumption`, `PromptAssumption`): sizes, targets, timeouts
and positive cooldowns are natural
numbers, `None` is no account, chat or request, the texts are sequences, and the sets that are counted
(chats, the gateway's requests, e-mails) are finite. `RegistryAssumption` keeps the
limits of the registry's model: one account of the environment, three in all; `PromptAssumption`
one of the prompt's: an answer calls two tools at most. A theorem that needs more says so in an `ASSUME`
or, where the condition is about a behaviour, in front of its arrow.

**`ChatRequestProofs`.** The heart is `LedgerIsKept`: `TypeOK /\ SlotInvariant` is
inductive. None of its parts is inductive alone. That a pick is exclusive
(`OneHolderPerAccount`) needs that a held slot is counted (`SlotsHeld`), since the pick looks at the
counter and not at the holders; that a decrement leaves the others' slots alone needs that
nobody else holds the account and that the counter is at most one (`SlotsCounted`); that the sweeper,
which knows only the recorded owner, decrements the right account needs `SessionsOwned`;
that a session has one owner needs that a chat is handed out once (`PooledChatsUnused`,
`ChatsInHand`), and that it is not deleted while active needs `NoDeleteWhileActive` and
`DeletesExist`. The proof has one lemma per family of steps and one case per action; the
theorems `SlotsStayHeld`, `AccountsAreExclusive`, `SessionsAreOwned`,
`PooledChatsAreUnused` and `DeletesWait` are its consequences.

What follows once the ledger is known:

* `PoolIsCounted`: `CountsExact`, by the cardinality of the sets the counters count, for all
  behaviours.
* `OneConversation` and `CooldownsEnd`: `OneConversationPerAccount` and `CooldownsRunOut` hold of every
  behaviour in which no session is ever older than the sweeper's timeout (`NothingStuck`). The
  invariant behind both is that a request keeps its session until it releases it (`SessionsKept`);
  for cooldowns, also that an account whose request may still be refused has none (`CoolWhileHeld`), so
  that there is nothing for `throttleAccount` to overwrite. No order of the reasons' durations is
  needed. `OneConversationBounded` discharges the condition for the instances `request_faults`
  belongs to, `MaxAge <= ActiveTimeout`. Without it the first is violated (section 3).
* `NoChatIsLost`: `ChatsAccounted` without `LateCreates` and `DeletesFail`, the two ways to lose a chat.
* `LeaseImplemented`: under the mapping `Holder`, which names the request
  that holds an account, every step of `ChatRequest` is a `Grant` (a pick on an account whose counter,
  hence holder, is none), an `End` of the leases that stop (release, failed acquire, sweep of several
  accounts at once) or leaves the leases alone. It uses the invariant at both ends of the
  step to know that the holder is unique.

**`UpstreamProofs`, the breaker.** `CountersStayBelow` (with the types: that `successCount` stays in
range depends on its second half), `NoCallerLost` for the promise chain, and
`OnlyUncheckedProbe`: `state = "open"` is left only in a step in which a call that `createQwenStream` did not make asks the breaker
(`ProbedUnchecked`, the second half of `OpenProbes`), for every threshold, timeout and number of calls. `OpenIsForGood` is the case of the
program, `Checked = Calls`: it is never left.

**`StreamProofs`.** All from `StreamAssumption` only, so for every text and cut.

* `StreamReleasedOnce`: `ReleasedOnce` for every text, cut, fault and queue size. It is not inductive by
  itself: that nothing is being written when the conversation is released needs that nothing is,
  already, between the finalisation and the timer (`EndInv`).
* `TheEndIsTold`, `NoCallTwice`, `FinishReasonAgrees`: `EndIsTold`, and the two parts of
  `CallsAreReported` that do not depend on what the upstream meant to say (`CallsOnce`, `FinishAgrees`).
  Their invariant `ToldInv` speaks of everything the client is told, written or about to be
  (`Told`): in the loop nothing final has been told and the log notes an error exactly when one has; after
  it `Told` ends with its only [DONE]. `CallInv` ties the calls told to the calls remembered. The
  invariant says of the text operators only what the handler relies on, for instance that a call
  found in a text is found again when the text grows, or that it still waits; these are lemmas about recursive
  functions, by induction over texts (`CommonLemmas`).

**`UpstreamProofs`, the transport.** `AddressIsAlive`: the address in use names a process that has listened and whose exit
has not been seen, since both the exit's handler and every start forget it. `BrowserIsShared`:
who waits for the browser of an account counts on exactly one. `ChallengesStay`: no
challenge is returned. The two parts are inductive each with its own types (`WorkerInv`, `RequestInv`), and
`TransportTypes` joins them.

**`GatewayProofs`.** `MeterImplemented`: under the mapping `Levels` (what each client could spend
now) the buckets are meters: a tick adds a tick's tokens up to the limit, a use takes the price, a
refusal and the clean-up of idle buckets change nothing, for every rate, limit and price for which an idle
bucket would be full (`LimiterAssumption`). `WaitingHelps`: the `Retry-After` of a refusal is long
enough. `InFlightCounted`: the counter of requests in flight is the number of handlers that have not
returned, an inductive invariant by the cardinality of the set `Open`; `DrainIsClean`, that a shutdown
which saw zero leaves no handler behind (`DrainedExit`), follows. `HistorySurvives` and
`NoFailureIsHidden` share `HistoryInv`: while a process runs, what the monitor has in memory `Continues` its
file (the same records after the oldest, and if any of those are missing then memory is full), and
no record in either claims a success of a request that did not end well. `GatewayTypes` bounds both stores.

**`RegistryProofs`.** `RegistryTypes`, `OnlyAwaitingReloads` and `SlotsAreAccounted` hold of every behaviour, profiles that survive and
removals under requests included; the other three need `~SlashedCookies`. They rest on two inductive invariants.

* `SharedInv`: the list has no entry twice, only accounts of the environment have two entries, the index leads to the last
  entry of an e-mail (`TwiceInv`), a reload that awaits a browser has an idle, unlisted entry of its own (`ReloadsAre`), nothing is
  left of a process that died (`BootInv`), and the entry an e-mail leads to counts no more requests than hold it
  (`CountsHeld`). Each action keeps it and is of the three kinds that the properties allow (`SharedStep`): a list grows by a second entry
  of an account only in the step of a reload that looked before its await and pushes after it, every other operation looks and pushes at once
  (`OnlyAwaitingReloads`); a counter changes with its holders, except at the end of a request whose e-mail leads elsewhere by then; and what
  a reload drops has a counter of 0 (`SlotsAreAccounted`).
* `FileInv`: an account listed once and saved once has its flag and cooldown in the file (`Agrees`), no record is cut off at a "//"
  (`Unslashed`), an account that is saved but not listed is not of the environment and has lost its profile with nobody left to write it, or the file could not be decrypted
  (`Unlisted`), so that the next save loses nobody else; for that, an account whose profile is gone has no operation about to write it
  (`Opened`). Every action but a start and a crash saves the list as it was, with some fields changed, or saves nothing (`Effect`); what it does to the
  list (`Moves`) and to profiles (`Quieted`) is proved action by action, and the invariant once for all effects. It gives `TheFileKnows`,
  `NoAccountForgotten` and `SwitchedOffStays`; the last needs that a start carries every flag over, and that a step which keeps
  an entry listed keeps its flag.

`~SlashedCookies` is needed: a cookie with `//` gives a counterexample (section 3). Torn writes, key changes, surviving profiles and the rest are covered.

**`MessagesProofs`.** For every answer, cut, resend and local call.

* `HandlersEndOnce`: `EndsOnce` for the three handlers. The invariant (`EndInv`) says that a handler that reads has told its
  client of no end, and that a handler that is over told it of what the release records.
* `BlocksAreWellFormed`: `MessageWellFormed`. While the stream reads, the flags `emittedMessageStart`,
  `emittedThinkingBlock`, `emittedTextBlock` and `textBlockIndex` tell what has been written (`Opened`,
  `OpenMessage`): a start, a thinking block of three events once text has followed it, and the deltas of the last block.
  The end adds a stop and three events for each tool block, whatever their number, so that block
  `j` is at a place that can be written down (`Framed`); the properties of the blocks, and that a block's index is the number of
  those before it, are read off from there. That an upstream which reasons after it has begun to write is excluded is
  needed (see `TextOnce`'s comment); such a stream stays excluded, which is why the invariant is inductive.
* `CallsAreKept` and `RejectionIsTold`: `CallsKept` and `RejectionTold`, for all three handlers, every `MaxToolCalls` and
  any number of calls. `TellInv` says what a handler without streaming knows while it reads: what the guard let through
  is among the calls made so far, none more often (`AtMost`), with every local call; or one of them is wrong, and the
  guard has rejected it. When it is over, its client has the calls or was told (`Told`). The step that matters is an
  increment, whose calls are parsed on their own, whereas `CallsKept` counts those of the whole answer. `CallsInParts`, a lemma about the
  parser, bridges it: the calls of two parts of a text that follow each other are among those of the whole, none more often, because
  a call of a part is one of the whole (`CallsApart`: no call begins inside another), and
  two parts share no call. At the end the handler parses the whole, and adds what is
  not out yet. For the stream, `CallsInv` adds `StreamHeard`, that the increments add up to
  the text sent (which is where a new increment taken for a resend would be missing), and
  that no tool block is written before the end, so that the tool blocks are those of `WriteEnd`.

The hypotheses are `CallsApart` and `NoEcho` of every text; that no chunk was exactly the text so far is part of the properties (`repeated = 0`), and
what is known of an answer with one is nothing but its types. Both hypotheses are needed: without it TLC finds a counterexample to
both (section 3). The `answers` run satisfies them, which TLC evaluates (`AnswersAreCalm`).

**`PromptProofs`.** `HistoryInLockstepHolds` and `NothingLostHolds`: `HistoryInLockstep` and `NothingLost`
for all clients, tools and conversations of any length, and for every `MaxInline`, `Gap` and `DepthLimit`. `ConversationHolds` is
the induction behind them, over the turns of the client:

* `Talked`: the results of a turn are those of calls of the turn before, or all the calls they had are gone, and
  an id belongs to one call. Both parts are needed for each other's steps: `Forget` may drop the turn that
  called, whose results keep no call at all, and an answer's new calls get ids that no turn has, be it in a result
  that lost its call (otherwise that result would find a call after it).
* `Built` and `Uploaded`: a request goes on with the prompt that was made of its conversation, and what each phase of an
  attempt has put into `files`. `Uploaded` needs that files of an earlier attempt stay (finding 3) and that
  `context.txt` is "none" only for a prompt that was not split.

The rest follows state by state, along the stages of the code, each with a predicate that says what the stage before
leaves to rely on: `Written` (the messages are those of the turns, in their order; results stand right
after the message that calls, ChatMessages and AnthropicMessagesToOpenAI), `Tell` (the segments tell the calls and
results of the messages; a result in the tool syntax has its call before it, and between the two there are
only results, unless a call beside it is in prose), `Lettered` (a segment's letters are an interval, after its separator), `Cut` (the
split leaves out no letter but those of the separator it cuts at, and inline fits). `SameFate` is read off `Tell` by the way
a call and its result look for each other (`Fate`), `CallFirst` is part of `Tell`; `SameSide` needs all four: a
cut that does not begin with a result, nor within a separator, has the call on the side of the result, since a
cut within a run of results begins with one. For `NothingLost` the letters of a segment are counted:
it loses none, since a separator has none of them (`AllThere`). The condition in `SameSide` that inline does not begin with a
letter of a separator came from the proof: where no place to cut is near enough to the end, the cut may be within the
separator before a result, whose call stays outside. No prompt of the run is cut there.

**Only model-checked.**

* Liveness (`SetupEnds`, `SlotsComeBack`, `SessionsReclaimed`, `CallsEnd`, `OpenProbes`, `StreamEnds`,
  `ShutdownEnds`) and anything with `ENABLED` is outside what TLAPS proves.
* `NoToolTextShown`, `DeliveredIsFiltered`, `SilenceIsTrue` and the part of `CallsAreReported` that every call of the
  answer is told are false for some texts (section 3): they hold for the texts and cuts of
  `stream`, which no assumption on `Texts` states as yet.
* `TextOnce`. Its letters are recognised by what they are and not by where they are: it is false for a text with a letter both
  outside of calls and inside one that is cut, so it would need the texts' letters kept apart, and an induction over the filter's
  recursion on them.


## 5. Plan

1. Done: `AccountManager`, `SessionPool`, `ChatRequest`, `AccountLease`, `CircuitBreaker`, `UpstreamCall`,
   `ChunkText`, `ChatStream`, with runs and proofs.
2. Done: `AccountRegistry`, `WreqWorker`, `BrowserlessFetch`, `RateLimiter`, `RequestLog`, `Gateway`, with runs and
   proofs; `ToolGuard`, `ChatAnswer`, `MessageStream`, `MessagesRoute`, `MessageHistory`, `PromptRequest`, with runs.
3. Done: proofs for every module with a state, `PromptRequest` with the conversion and its split included, but for
   the properties that follow.
4. Done: proofs of `CallsKept` and `RejectionTold`. Left: `TextOnce`, and the conditions on texts under which the properties of `ChatStream`
   named above hold for all texts.


## 6. Not modelled

* Model routing and health: a weighted random choice over independent counters; the list of models is a
  cached request.
* Browser automation, CAPTCHA solving and fingerprints: external programs and data.
* The dashboard, configuration and log files, the worker cluster and the command line: rendering and processes.
* Text filters, sanitising and token estimates: text processing with no state that other parts depend on.
* `tokenRefresh.ts`: its functions are exported and called by nothing in this version.
* Of modelled parts, what "Abstractions" leaves out, and what the components' notes in `PROJECT.json` say.
