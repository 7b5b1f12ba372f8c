---------------------------- MODULE MessagesRoute ----------------------------
(***************************************************************************)
(* The three handlers that share the code of ChatAnswer and MessageStream: *)
(* /v1/chat/completions without streaming, /v1/messages without, which     *)
(* converts the other's response, and with it; their conversation and log  *)
(* entry, and all that may become of the upstream's answer.                *)
(***************************************************************************)
EXTENDS MessageStream

VARIABLES
    route,      \* "chat", "messages" or "stream"
    over,       \* the handler has returned
    log,        \* the log entry: an error is noted, times finalized
    released,   \* times the conversation was released
    success     \* as a success, the last time

routeVars == <<route, over, log, released, success>>
vars == <<feedVars, answerVars, messageVars, routeVars>>

Streaming == route = "stream"

TypeOK ==
    /\ sent \in 0..Len(text) /\ thoughts \in {"none", "first", "late"}
    /\ locals \in Seq(LocalCalls) /\ Len(locals) <= MaxLocals
    /\ st.parsed = Len(st.full) /\ Len(st.guard.out) <= MaxToolCalls
    /\ response.kind \in {"none", "answer", "rejected", "timeout", "document"}
    /\ route \in {"chat", "messages", "stream"}
    /\ log.failed \in BOOLEAN /\ log.finalized \in 0..2
    /\ released \in 0..1 /\ success \in BOOLEAN

Init ==
    /\ FeedInit /\ AnswerInit /\ MessageInit
    /\ route \in {"chat", "messages", "stream"}
    /\ over = FALSE
    /\ log = [failed |-> FALSE, finalized |-> 0]
    /\ released = 0 /\ success = FALSE

Reads == ~over /\ UNCHANGED routeVars

AnswerChunk ==
    /\ Reads
    /\ \E c \in Chunks :
         /\ SendChunk(c)
         /\ IF Streaming THEN WriteText(c.v) /\ UNCHANGED st
                         ELSE HearAnswer(c.v) /\ UNCHANGED messageVars
    /\ UNCHANGED response

Thought ==
    /\ Reads
    /\ SendThought
    /\ IF Streaming THEN WriteThought ELSE UNCHANGED messageVars
    /\ UNCHANGED answerVars

\* A stream keeps the call for its end.
LocalTool ==
    /\ Reads
    /\ \E c \in LocalCalls :
         SendLocal(c) /\ IF Streaming THEN UNCHANGED st ELSE HearLocal(c)
    /\ UNCHANGED <<response, messageVars>>

\* An error event: noted, or not looked at by a stream; the client is not told.
UpstreamError ==
    /\ ~over
    /\ log' = [log EXCEPT !.failed = @ \/ ~Streaming]
    /\ UNCHANGED <<feedVars, answerVars, messageVars, route, over, released, success>>

\* Mutant of Closed: the conversation is released before the answer is looked at,
\* and in the finally block again.
ClosedTwice(ok, failed, times) ==
    /\ over' = TRUE
    /\ log' = [failed |-> failed, finalized |-> times]
    /\ released' = released + (IF ok THEN 1 ELSE 2)
    /\ success' = ok
    /\ UNCHANGED <<feedVars, route>>

\* The conversation goes back to the pool, and the entry is finalized.
Closed(ok, failed, times) ==
    /\ over' = TRUE
    /\ log' = [failed |-> failed, finalized |-> times]
    /\ released' = released + 1
    /\ success' = ok
    /\ UNCHANGED <<feedVars, route>>

\* The upstream ends its answer.  A rejected call finalizes the entry twice.
EndAnswer ==
    /\ ~over /\ ~Streaming
    /\ \E g \in {Flushed} :
         /\ Built(g)
         /\ Closed(TRUE, log.failed \/ g.rejected, IF g.rejected THEN 2 ELSE 1)
    /\ UNCHANGED <<st, messageVars>>

EndStream ==
    /\ ~over /\ Streaming
    /\ WriteEnd
    /\ Closed(TRUE, log.failed, 1)
    /\ UNCHANGED answerVars

\* An error document instead of an answer stays in the buffer, where a stream does
\* not look for it.
Document ==
    /\ ~over
    /\ sent = 0 /\ thoughts = "none" /\ locals = <<>>
    /\ IF Streaming THEN WriteEnd /\ UNCHANGED response
                    ELSE Reply("document", <<>>, <<>>) /\ UNCHANGED messageVars
    /\ Closed(TRUE, log.failed, 1)
    /\ UNCHANGED st

\* Nothing comes for STREAM_IDLE_TIMEOUT_MS, or the connection fails.
ReadFails ==
    /\ ~over
    /\ IF Streaming THEN WriteError /\ UNCHANGED response
                    ELSE Reply("timeout", <<>>, <<>>) /\ UNCHANGED messageVars
    /\ Closed(FALSE, TRUE, 1)
    /\ UNCHANGED st

Next ==
    \/ AnswerChunk \/ Thought \/ LocalTool \/ UpstreamError
    \/ EndAnswer \/ EndStream \/ Document \/ ReadFails

Spec == Init /\ [][Next]_vars

-----------------------------------------------------------------------------
(* Properties *)

\* The data of the deltas of a stream in blocks of a kind (a late thought has the
\* index of the text's block).
Deltas(kind) ==
    LET said == At(written, {i \in DOMAIN written :
                  /\ written[i].kind = "delta"
                  /\ kind = <<"text">> => written[i].data # <<"thought">>
                  /\ \E j \in DOMAIN written :
                       written[j] = Event("block_start", written[i].index, kind)})
    IN  [i \in DOMAIN said |-> said[i].data]

\* The data of the blocks of an answer of /v1/messages.
DataOf(kind) ==
    LET all == BlocksOf(response)
        blocks == At(all, {i \in DOMAIN all : all[i].kind = kind})
    IN  [i \in DOMAIN blocks |-> blocks[i].data]

\* What a client reads as text.
Text ==
    CASE route = "stream" -> FlattenSeq(Deltas(<<"text">>))
      [] route = "messages" -> FlattenSeq(DataOf("text"))
      [] route = "chat" -> response.content

\* The letters of t that are outside of tool calls and tags.
PlainText(t) ==
    At(t, {i \in 1..Len(t) : /\ ~Inside(t)[i] /\ ~Inside(t)[i - 1]
                             /\ t[i] \notin {Lt, Gt, Open, Close}})

\* Text that is not part of a tool call reaches the client whole and in its order,
\* however it is cut and resent, and once, unless a chunk is exactly the text so far:
\* that one is taken for an increment and read again, and so is all that resends the
\* text after it (anthropic.ts:888, chatNonStreaming.ts:122-124; anthropic.ts:884-887
\* has it that the client gets no text twice).  Without streaming, a client that gets
\* calls gets no text; and a thought after text gives the rest of a stream's text an
\* index where no block was opened (anthropic.ts:829 and :901).
TextOnce ==
    over /\ (IF Streaming THEN thoughts # "late"
                          ELSE response.kind = "answer" /\ response.calls = <<>>) =>
        LET plain == PlainText(Received)
            read == SelectSeq(Text, LAMBDA c : c \in ToSet(plain))
        IN  /\ \E I \in SUBSET DOMAIN read : At(read, I) = plain
            /\ Len(read) <= (1 + repeated) * Len(plain)

\* The calls a client gets.
Delivered ==
    CASE route = "stream" -> Deltas(<<"tool_use">>)
      [] route = "messages" -> DataOf("tool_use")
      [] route = "chat" -> response.calls

\* Without streaming, the stop reason is tool_use when there are such blocks, and if
\* there are none when calls were skipped only (anthropic.ts:255-301).
StopReasonAgrees ==
    route = "messages" /\ response.kind = "answer" =>
         IF DataOf("tool_use") # <<>> THEN ConvertedStop(response) = "tool_use" /\ DataOf("text") = <<>>
         ELSE ConvertedStop(response) = "tool_use" <=>
                \E c \in ToSet(ToolCalls(Received) \o locals) : ~Complete(c)

\* An answer that is given holds every call of the upstream, and none more often
\* than the upstream made it; /v1/messages skips those without arguments, and says
\* why it stopped.  Without streaming, a call is missing too when there are as many
\* as an answer may hold: of those found at once, the ones over the limit are dropped
\* without a word (chatHelpersCore.ts:328).  (After a chunk that was exactly the text so
\* far, the calls before it are found twice.)
CallsKept ==
    repeated = 0 =>
      /\ over /\ (response.kind = "answer" \/ (Streaming /\ success)) =>
           LET made == ToolCalls(Received) \o locals
               told == Delivered
           IN  \A c \in ToSet(made) \cup ToSet(told) :
                 /\ Times(c, told) <= Times(c, made)
                 /\ \/ Times(c, told) > 0
                    \/ route # "chat" /\ ~Complete(c)
                    \/ ~Streaming /\ Len(response.calls) = MaxToolCalls
      /\ StopReasonAgrees

Blocks == {i \in DOMAIN written : written[i].kind = "block_start"}
Closes(i, j) == i < j /\ written[j].kind = "block_stop"
                      /\ \A k \in i + 1..j - 1 : written[k].kind = "delta"

\* What the Anthropic API promises of the events of a message: a start, blocks one
\* after the other, numbered from 0, of deltas and an end each, and the stop reason,
\* which is tool_use when there are such blocks only; and no end of the message after
\* an error.  It takes an upstream that reasons before it writes, and writes
\* something (anthropic.ts:747-1077).
MessageWellFormed ==
    Streaming /\ over /\ thoughts # "late" /\ ms.started =>
      /\ \A i \in DOMAIN written : i = 1 <=> written[i].kind = "message_start"
      /\ \A i \in Blocks :
           /\ written[i].index = Cardinality({j \in Blocks : j < i})
           /\ success => \E j \in DOMAIN written :
                /\ Closes(i, j)
                /\ \A k \in i..j : written[k].index = written[i].index
      /\ \A i, j \in Blocks : i < j => \E k \in i..j : Closes(i, k)
      /\ \A i \in DOMAIN written : written[i].kind = "message_stop" =>
           /\ success /\ i = Len(written)
           /\ written[i - 1].kind = "message_delta"
           /\ written[i - 1].data = <<"tool_use">>
                 <=> \E b \in Blocks : written[b].data = <<"tool_use">>

\* However it ends, the conversation is released once, with the outcome the client
\* was told of: a failure if it got a timeout, a success else.
EndsOnce ==
    /\ released = IF over THEN 1 ELSE 0
    /\ over => /\ log.finalized >= 1
               /\ log.finalized = 2 => response.kind = "rejected"
               /\ success <=> (response.kind # "timeout" /\ \A e \in ToSet(written) : e.kind # "error")

\* Without streaming, a client is told when a call is rejected, and only then: a
\* malformed one, or one too many, is, unless it was over the limit when it was found
\* (chatHelpersCore.ts:328), which no local call is; no other is but one that the
\* answer repeats (chatNonStreaming.ts:335-362), or that a resend repeated.
RejectionTold ==
    repeated = 0 /\ over /\ ~Streaming /\ response.kind \in {"answer", "rejected"} =>
        LET calls == ToolCalls(Received) \o locals
            wrong == Malformed \in ToSet(calls) \/ Cardinality(ToSet(calls)) > MaxToolCalls
        IN  /\ Malformed \in ToSet(locals) => response.kind = "rejected"
            /\ wrong => response.kind = "rejected" \/ Len(response.calls) = MaxToolCalls
            /\ response.kind = "rejected" =>
                 wrong \/ Len(calls) > MaxToolCalls
                       \/ \E c \in ToSet(calls) : Times(c, calls) > SpamThreshold
=============================================================================
