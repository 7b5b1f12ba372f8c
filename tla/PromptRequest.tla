--------------------------- MODULE PromptRequest ---------------------------
(***************************************************************************)
(* A client's conversation, turn by turn, and what setupSession of         *)
(* src/routes/chat.ts (and its twin in src/routes/anthropic.ts) sends of   *)
(* it: the message with its files, for one account after the other.        *)
(* Accounts, pool and the errors of the upstream are those of ChatRequest; *)
(* here an account is any, and a call ends in any of the ways it can.      *)
(***************************************************************************)
EXTENDS MessageHistory

CONSTANTS
    Accounts,
    Clients,        \* the clients: their API, what stays the same in their requests,
                    \* and what their users may write
    ToolSets,       \* what a request may register
    CallNames,      \* the tools an answer may call: two at most
    MaxTurns,       \* bound on a conversation
    MaxAttempts     \* MAX_ACCOUNT_RETRIES

ASSUME PromptAssumption ==
    /\ \A c \in Clients : c.api \in {"chat", "messages"} /\ c.named \in BOOLEAN
    /\ \A names \in CallNames : names \in Seq(STRING) /\ Len(names) <= 2
    /\ None \notin STRING
    /\ MaxTurns \in Nat

VARIABLES
    client,     \* the client
    turns,      \* its conversation
    phase,      \* what the request does next
    tools,      \* the tools it registers
    segs,       \* the segments of its prompt
    split,      \* the prompt: older is for context.txt, inline is sent
    images,     \* images were uploaded in this attempt
    context,    \* context.txt in this attempt: "none" (yet), "sent", "failed", or
                \* "skipped", as images are, when there was no account
    files,      \* the files of the message, each with the account it is uploaded to
    attempt, acct, retrySame, lastFailed

attemptVars == <<images, context, attempt, acct, retrySame, lastFailed>>
requestVars == <<tools, segs, split, files, attemptVars>>
vars == <<client, turns, phase, requestVars>>

NoRequest ==
    /\ tools' = {} /\ segs' = <<>> /\ split' = [older |-> <<>>, inline |-> <<>>] /\ files' = <<>>
    /\ images' = FALSE /\ context' = "none" /\ attempt' = 0
    /\ acct' = None /\ retrySame' = None /\ lastFailed' = None

Init ==
    /\ client \in Clients
    /\ turns = <<>> /\ phase = "client"
    /\ tools = {} /\ segs = <<>> /\ split = [older |-> <<>>, inline |-> <<>>] /\ files = <<>>
    /\ images = FALSE /\ context = "none" /\ attempt = 0
    /\ acct = None /\ retrySame = None /\ lastFailed = None

-----------------------------------------------------------------------------
(* The client *)

Waiting == turns # <<>> /\ Last(turns).role = "user"

\* The ids of the calls of the last answer.
OpenCalls == IF turns = <<>> THEN <<>>
        ELSE [k \in DOMAIN Last(turns).calls |-> Last(turns).calls[k].id]

\* The user speaks, with the results of all calls, in whatever order they came.
Ask ==
    /\ phase = "client" /\ ~Waiting /\ Len(turns) < MaxTurns
    /\ \E text \in client.texts \cup {"none"}, results \in SetToSeqs(ToSet(OpenCalls)) :
         /\ text # "none" \/ results # <<>>
         /\ turns' = Append(turns, Turn("user", text, <<>>, results))
    /\ UNCHANGED <<client, phase, requestVars>>

\* A client whose conversation gets too long leaves out its oldest turn, be it the
\* one whose results come next (bound: it keeps results that have lost their calls).
Forget ==
    /\ phase = "client" /\ Len(turns) > 1 /\ turns[1].results = <<>>
    /\ turns' = Tail(turns)
    /\ UNCHANGED <<client, phase, requestVars>>

StartOver ==
    /\ phase = "client" /\ Len(turns) = MaxTurns
    /\ turns' = <<>>
    /\ UNCHANGED <<client, phase, requestVars>>

Messages == IF client.api = "chat" THEN ChatMessages(turns, client.named)
                                   ELSE AnthropicMessagesToOpenAI(turns)

Options(ts) == [tools |-> ts, noThinking |-> client.noThinking, system |-> client.system]

HasImages == Last(Messages).role = "user" /\ Last(Messages).text = "images"
HasResults == \E m \in ToSet(Messages) : m.role = "tool"

\* The request: its prompt is built and split.
Send ==
    /\ phase = "client" /\ Waiting
    /\ \E ts \in ToolSets : \E s \in {BuildQwenMessages(Messages, Options(ts))} :
         tools' = ts /\ segs' = s /\ split' = SplitPrompt(s)
    /\ phase' = "pick"
    /\ UNCHANGED <<client, turns, files, attemptVars>>

-----------------------------------------------------------------------------
(* One attempt *)

\* The client is answered with an error; it may send its request again.
GiveUp == phase' = "client" /\ NoRequest

NextAttempt(failed, same) ==
    IF attempt + 1 < MaxAttempts
    THEN /\ phase' = "pick" /\ attempt' = attempt + 1
         /\ lastFailed' = failed /\ retrySame' = same
         /\ acct' = None /\ images' = FALSE /\ context' = "none"
         /\ UNCHANGED <<tools, segs, split, files>>
    ELSE GiveUp

\* pickAccount may find none: the first attempt goes on without, a later one ends.
Pick ==
    /\ phase = "pick"
    /\ \E a \in (IF retrySame # None THEN {retrySame} ELSE (Accounts \ {lastFailed}) \cup {None}) :
         IF a = None /\ attempt > 0 THEN GiveUp
         ELSE /\ acct' = a /\ retrySame' = None
              /\ context' = IF a = None THEN "skipped" ELSE "none"
              /\ phase' = IF a = None THEN "acquire" ELSE IF HasImages THEN "images" ELSE "context"
              /\ UNCHANGED <<tools, segs, split, files, images, attempt, lastFailed>>
    /\ UNCHANGED <<client, turns>>

\* The images of the last message are uploaded, some of them at least.
UploadImages ==
    /\ phase = "images"
    /\ images' = TRUE /\ phase' = "context"
    /\ UNCHANGED <<client, turns, tools, segs, split, files, context, attempt, acct, retrySame, lastFailed>>

UploadImagesFails == phase = "images" /\ GiveUp /\ UNCHANGED <<client, turns>>

File(kind) == [kind |-> kind, of |-> acct]

\* Mutant of Attached: the images take the place of context.txt.
AttachedOnlyImages(kept) == IF images THEN <<File("images")>> ELSE kept

\* The images come after what the message has.
Attached(kept) == kept \o (IF images THEN <<File("images")>> ELSE <<>>)

\* context.txt holds the older part of the prompt and all results; without it the
\* request goes on, with the files it has.
UploadContext ==
    /\ phase = "context"
    /\ \E c \in (IF split.older # <<>> \/ HasResults THEN {"sent", "failed"} ELSE {"none"}) :
         /\ context' = c
         /\ files' = Attached(IF c = "sent" THEN <<File("context")>> ELSE files)
    /\ phase' = "acquire"
    /\ UNCHANGED <<client, turns, tools, segs, split, images, attempt, acct, retrySame, lastFailed>>

\* acquire chooses the account if there is none yet: the files stay as they are.
Acquire ==
    /\ phase = "acquire"
    /\ \E a \in (IF acct = None THEN Accounts ELSE {acct}) : acct' = a
    /\ phase' = "fetch"
    /\ UNCHANGED <<client, turns, tools, segs, split, files, images, context, attempt, retrySame, lastFailed>>

AcquireFails == phase = "acquire" /\ NextAttempt(acct, None) /\ UNCHANGED <<client, turns>>

\* The upstream refuses the account, asks for a CAPTCHA that is solved, or fails.
Refused == phase = "fetch" /\ NextAttempt(acct, None) /\ UNCHANGED <<client, turns>>
CaptchaSolved == phase = "fetch" /\ NextAttempt(lastFailed, acct) /\ UNCHANGED <<client, turns>>
Fails == phase = "fetch" /\ GiveUp /\ UNCHANGED <<client, turns>>

\* Ids that no turn has.
FreshIds ==
    (1..2 * MaxTurns) \ UNION {{c.id : c \in ToSet(turns[t].calls)} \cup ToSet(turns[t].results) : t \in DOMAIN turns}

\* The answer becomes a turn of the conversation; its calls get the least ids.
Answered ==
    /\ phase = "fetch"
    /\ \E ids \in {FreshIds} : \E x, y \in ids :
         /\ x < y /\ \A z \in ids : z \in {x, y} \/ z > y
         /\ \E text \in {"none", "words"}, names \in CallNames :
              turns' = IF Len(turns) < MaxTurns
                       THEN Append(turns, Turn("assistant", text,
                                      [k \in DOMAIN names |-> [id |-> <<x, y>>[k], name |-> names[k]]], <<>>))
                       ELSE <<>>
    /\ phase' = "client" /\ NoRequest
    /\ UNCHANGED client

Next ==
    \/ Ask \/ Forget \/ StartOver \/ Send
    \/ Pick \/ UploadImages \/ UploadImagesFails \/ UploadContext
    \/ Acquire \/ AcquireFails \/ Refused \/ CaptchaSolved \/ Fails \/ Answered

Spec == Init /\ [][Next]_vars

-----------------------------------------------------------------------------
(* Properties *)

\* How a call, or a result, with an id is written in the prompt.
ShownAs(what, id) ==
    {s.as : s \in {s \in UNION {ToSet(segs[i].shown) : i \in DOMAIN segs} : s.what = what /\ s.id = id}}

Requesting == phase # "client"

\* Where a letter of a sequence shows something as a call, or as a result.
ShowsXml(letters, p, what, id) ==
    letters[p] # 0 /\ Shown(what, id, "xml") \in ToSet(segs[letters[p]].shown)

Prosaic(t) == \E k \in DOMAIN turns[t].calls : ShownAs("call", turns[t].calls[k].id) # {"xml"}

\* What became of a call becomes of its result.
SameFate ==
    \A t \in DOMAIN turns, u \in DOMAIN turns : \A k \in DOMAIN turns[t].calls :
      LET id == turns[t].calls[k].id
      IN  id \in ToSet(turns[u].results) => ShownAs("call", id) = ShownAs("result", id)

\* A result always has a call before it.
CallFirst ==
    \A i \in DOMAIN segs : segs[i].kind = "result" =>
      \E j \in 1..i - 1 : Shown("call", segs[i].shown[1].id, "xml") \in ToSet(segs[j].shown)

\* The split takes a call and its result to the same side, unless a call beside it is
\* in prose or the cut is within a part or a separator.
SameSide ==
    split.older # <<>> /\ split.inline[1] # 0 /\ segs[split.inline[1]].kind # "result" =>
      \A t \in DOMAIN turns : \A k \in DOMAIN turns[t].calls :
        LET id == turns[t].calls[k].id
            inline == split.inline
        IN  ~Prosaic(t) /\ (\E p \in DOMAIN inline : ShowsXml(inline, p, "result", id))
              => \E p \in DOMAIN inline : ShowsXml(inline, p, "call", id)

\* Calls and results are written in lockstep (chatHelpers.ts:108-112).
HistoryInLockstep == Requesting => SameFate /\ CallFirst /\ SameSide

\* The part of the prompt that the upstream gets: inline, and in a context.txt that
\* the account can read.
Reaches(i) ==
    LET parts == IF File("context") \in ToSet(files) THEN split.older \o split.inline ELSE split.inline
    IN  Cardinality({p \in DOMAIN parts : parts[p] = i}) = segs[i].size

\* Everything a client says reaches the upstream, in its order, inline as far as there
\* is room, with the images of its last turn: but for what is beside results in a
\* request of the Anthropic API (anthropic.ts:109), when the upload of context.txt
\* failed (chat.ts:231), and when the first attempt had no account to upload to.
NothingLost ==
    phase = "fetch" /\ context \notin {"failed", "skipped"} =>
      /\ \A i \in DOMAIN segs : Reaches(i)
      /\ \A i, j \in DOMAIN segs : i < j => segs[i].of <= segs[j].of
      /\ Len(split.inline) <= MaxInline
      /\ \A t \in DOMAIN turns :
           LET mine == {i \in DOMAIN segs : segs[i].of = t}
           IN  /\ turns[t].text # "none" =>
                    \/ \E i \in mine : segs[i].hasText
                    \/ client.api = "messages" /\ turns[t].results # <<>>
               /\ \A k \in DOMAIN turns[t].calls :
                    \E i \in mine : \E s \in ToSet(segs[i].shown) : s.what = "call" /\ s.id = turns[t].calls[k].id
               /\ \A k \in DOMAIN turns[t].results :
                    \E i \in mine : \E s \in ToSet(segs[i].shown) : s.what = "result" /\ s.id = turns[t].results[k]
      /\ HasImages => File("images") \in ToSet(files)

\* "accounts can't access files uploaded by other accounts — must share the account"
\* (chat.ts:169): a message goes out with files of its account only.
FilesShareAccount ==
    phase = "fetch" => \A f \in ToSet(files) : f.of = acct

\* "System instructions are NOT uploaded — they now stay inline in the prompt"
\* (chat.ts:208).  Not so for a prompt that is split: its first part holds them.
SystemStaysInline ==
    phase = "fetch" => \A i \in DOMAIN segs : segs[i].kind = "system" => i \in ToSet(split.inline)
=============================================================================
