------------------------------ MODULE ChatStream ------------------------------
(***************************************************************************)
(* One streamed answer, from the first upstream event to the release of its*)
(* conversation: src/routes/chatStreaming.ts, streamLoop.ts,               *)
(* chatStreamingHelpers.ts and cleanupHelpers.ts.  The upstream cuts its   *)
(* text where it likes, resends it, fails or falls silent; the client may  *)
(* leave.  One action is the code between two awaits: the handler waits    *)
(* while an event of its own is not written, and for the upstream in       *)
(* "reading".                                                              *)
(*                                                                         *)
(* Left out: keep-alive comments, response ids and usage numbers, the      *)
(* amplification guard, think tags inside answers (CLEAN_OUTPUT) and the   *)
(* 100 000 character and 500 call limits.                                  *)
(***************************************************************************)
EXTENDS ChunkText

CONSTANTS
    Texts,          \* the answers the upstream may give
    Resends,        \* whether a chunk repeats all text so far: a subset of BOOLEAN
    MaxBufferChars, \* MAX_BUFFER_CHARS
    MaxAsides,      \* bound: how many unusual things the upstream does in one answer
    Faults,         \* which of "error", "broken" and "payload" can happen
    MaxQueue        \* upstream events not yet read

ASSUME StreamAssumption ==
    /\ Texts \subseteq Seq(STRING)
    /\ Resends \subseteq BOOLEAN
    /\ MaxBufferChars \in Nat
    /\ Faults \subseteq {"error", "broken", "payload"}
    /\ MaxAsides \in Nat
    /\ MaxQueue \in Nat \ {0}

VARIABLES
    text, sent,     \* the answer, and how much of it the upstream has sent
    asides,         \* what else it did: sent "think", "tool", "repeat"; cut "joined", "leaky"
    up,             \* the upstream: "sending", "finished", "done", "ended", "broken"
    queue,          \* what the reader will get
    conn,           \* the client: "open" or "gone"
    pc,             \* where the handler is
    st,             \* StreamProcessingState
    payload,        \* bufferRef holds an error document
    out,            \* events the handler is writing
    written,        \* events written to the response
    log,            \* the log entry: has errors, times finalized
    released,       \* times the conversation went back to the pool
    cancelled       \* reader.cancel() was called

upstream == <<text, sent, asides, up>>
ended == <<released, cancelled>>
vars == <<upstream, queue, conn, pc, st, payload, out, written, log, ended>>

\* Mutant of Waits: no chunk is held back.
WaitsNever(t) == FALSE

\* The one-chunk buffer: a "<" without ">" may be a tag that was cut.
Waits(t) == Contains(t, Lt) /\ ~HasGt(t) /\ Len(t) < MaxBufferChars

Msg(k, t, last) == [kind |-> k, text |-> t, last |-> last]
Event(k, t) == [kind |-> k, text |-> t]
Mark(k) == Event(k, <<>>)

LocalCall == <<"l">>        \* the call of a local_tool event
Diagnostic == "fix"         \* "Fix: Tool call missing or has invalid 'name' field"

Kinds(events) == {events[i].kind : i \in 1..Len(events)}
TextOf(k, events) == FlattenSeq([i \in 1..Len(events) |->
                                   IF events[i].kind = k THEN events[i].text ELSE <<>>])

Received == SubSeq(text, 1, sent)

Init ==
    /\ text \in Texts
    /\ sent = 0 /\ asides = {} /\ up = "sending" /\ queue = <<>>
    /\ conn = "open"
    /\ pc = "loop"
    /\ st = [lastV |-> <<>>, pending |-> <<>>, full |-> <<>>, shown |-> <<>>,
             depth |-> 0, calls |-> {}, reasoned |-> FALSE]
    /\ payload = FALSE
    /\ out = <<>> /\ written = <<>>
    /\ log = [failed |-> FALSE, finalized |-> 0]
    /\ released = 0 /\ cancelled = FALSE

-----------------------------------------------------------------------------
(* The upstream and the client *)

handler == <<pc, st, payload, out, written, log, ended>>

\* The chunk after position a, up to n, has neither "<" nor tags, or is (part of) one
\* tag or a lone "<".
Apart(a, n) ==
    LET I == a + 1..n
        tags == TagsIn(text)
    IN  \/ \A i \in I : i \notin tags /\ text[i] # Lt
        \/ \E i \in 1..Len(text) :
             text[i] = Lt /\ I \subseteq (IF i \in tags THEN {i, i + 1} ELSE {i})

\* It has (the "<" of) a closing tag, and before it some of the call.
Closing(a, n) ==
    \E i, j \in a + 1..n :
        /\ i < j /\ Inside(text)[i]
        /\ \/ text[j] = Close /\ text[i] # Lt
           \/ text[j] = Lt /\ j < Len(text) /\ text[j + 1] = Close

\* It ends with the "<" of an opening tag, and has a ">" or is too long to be held back.
Torn(a, n) ==
    /\ n < Len(text) /\ text[n] = Lt /\ text[n + 1] = Open
    /\ HasGt(SubSeq(text, a + 1, n)) \/ n - a >= MaxBufferChars

\* History: how the upstream has cut its text.
Cuts(a, n) ==
    {k \in {"joined", "leaky"} :
        IF k = "joined" THEN ~Apart(a, n) ELSE Closing(a, n) \/ Torn(a, n)}

Bounded(things) == Cardinality(things \ {"leaky"}) <= MaxAsides

Send(m, upAfter) ==
    /\ Len(queue) < MaxQueue
    /\ queue' = Append(queue, m)
    /\ up' = upAfter
    /\ UNCHANGED <<text, conn, handler>>

SendAnswer ==
    /\ up = "sending"
    /\ \E n \in sent + 1..Len(text), again \in Resends, last \in BOOLEAN :
         /\ last => n = Len(text)
         /\ Bounded(asides \cup Cuts(sent, n))
         /\ sent' = n /\ asides' = asides \cup Cuts(sent, n)
         /\ Send(Msg("answer", SubSeq(text, IF again THEN 1 ELSE sent + 1, n), last),
                 IF last THEN "finished" ELSE "sending")

\* All text so far again, and nothing more.
SendRepeat ==
    /\ up = "sending"
    /\ TRUE \in Resends /\ sent > 0 /\ "repeat" \notin asides
    /\ Bounded(asides \cup {"repeat"})
    /\ \E last \in BOOLEAN :
         /\ last => sent = Len(text)
         /\ Send(Msg("answer", Received, last), IF last THEN "finished" ELSE "sending")
    /\ asides' = asides \cup {"repeat"}
    /\ UNCHANGED sent

SendAside ==
    /\ up = "sending"
    /\ \E k \in {"think", "tool"} \ asides :
         /\ Bounded(asides \cup {k})
         /\ asides' = asides \cup {k}
         /\ Send(Msg(k, <<>>, FALSE), "sending")
    /\ UNCHANGED sent

SendError ==
    /\ up = "sending" /\ "error" \in Faults
    /\ Send(Msg("error", <<>>, TRUE), "finished")
    /\ UNCHANGED <<sent, asides>>

\* A document instead of events; it has no newline, so it stays in the buffer.
SendPayload ==
    /\ up = "sending" /\ "payload" \in Faults
    /\ sent = 0 /\ asides = {}
    /\ Send(Msg("payload", <<>>, TRUE), "finished")
    /\ UNCHANGED <<sent, asides>>

SendDone ==
    /\ up \in {"sending", "finished"}
    /\ Send(Msg("done", <<>>, TRUE), "done")
    /\ UNCHANGED <<sent, asides>>

HangUp ==
    /\ up \in {"sending", "finished", "done"}
    /\ up' = "ended"
    /\ UNCHANGED <<text, sent, asides, queue, conn, handler>>

\* The connection fails: controller.error drops what is queued.
Break ==
    /\ up \in {"sending", "finished", "done"} /\ "broken" \in Faults
    /\ up' = "broken"
    /\ queue' = <<>>
    /\ UNCHANGED <<text, sent, asides, conn, handler>>

ClientLeaves ==
    /\ conn = "open"
    /\ conn' = "gone"
    /\ UNCHANGED <<upstream, queue, handler>>

\* A write takes until the client reads; after it left, nothing is waited for.
Written ==
    /\ out # <<>>
    /\ written' = Append(written, Head(out))
    /\ out' = Tail(out)
    /\ UNCHANGED <<upstream, queue, conn, pc, st, payload, log, ended>>

-----------------------------------------------------------------------------
(* The handler: runStreamLoop and processStreamData *)

\* The network read that brought this event may have brought the next as well, and
\* then the loop does not go back to its abort check.
AfterEvent == IF Tail(queue) = <<>> THEN {"loop"} ELSE {"loop", "reading"}

CheckAbort ==
    /\ pc = "loop" /\ out = <<>>
    /\ IF conn = "gone" THEN pc' = "post" /\ cancelled' = TRUE
                        ELSE pc' = "reading" /\ UNCHANGED cancelled
    /\ UNCHANGED <<upstream, queue, conn, st, payload, out, written, log, released>>

\* Reads the next event, which is of kind k.
Take(k) ==
    /\ pc = "reading" /\ out = <<>>
    /\ queue # <<>> /\ Head(queue).kind = k
    /\ queue' = Tail(queue)
    /\ UNCHANGED <<upstream, conn, written, ended>>

TakeDone ==
    /\ Take("done")
    /\ pc' = "post"
    /\ UNCHANGED <<st, payload, out, log>>

TakeError ==
    /\ Take("error")
    /\ log' = [log EXCEPT !.failed = TRUE]
    /\ out' = <<Mark("error")>>
    /\ pc' = "post"
    /\ UNCHANGED <<st, payload>>

TakePayload ==
    /\ Take("payload")
    /\ payload' = TRUE
    /\ pc' \in AfterEvent
    /\ UNCHANGED <<st, out, log>>

TakeThought ==
    /\ Take("think")
    /\ st' = [st EXCEPT !.reasoned = TRUE]
    /\ out' = <<Mark("thought")>>
    /\ pc' \in AfterEvent
    /\ UNCHANGED <<payload, log>>

\* A local_tool event is "finished", but without content it does not end the loop.
TakeTool ==
    /\ Take("tool")
    /\ out' = IF LocalCall \in st.calls THEN <<>> ELSE <<Event("call", LocalCall)>>
    /\ st' = [st EXCEPT !.calls = @ \cup {LocalCall}]
    /\ pc' \in AfterEvent
    /\ UNCHANGED <<payload, log>>

\* Mutant of NewEvents: a repeated call is not noticed.
NewEventsRepeated(found, shown) ==
    [i \in 1..Len(found) |-> Event("call", found[i])]
    \o (IF shown = <<>> THEN <<>> ELSE <<Event("content", shown)>>)

\* What a chunk that is not held back makes the handler write.
NewEvents(found, shown) ==
    LET calls == NewCalls(found, st.calls)
    IN  [i \in 1..Len(calls) |-> Event("call", calls[i])]
        \o (IF shown = <<>> THEN <<>> ELSE <<Event("content", shown)>>)

Heard == TextSoFar(st.lastV, Head(queue).text)

TakeAnswer ==
    /\ Take("answer")
    /\ \E raw \in {st.pending \o NewText(st.lastV, Head(queue).text)} :
         \/ /\ raw = <<>>
            /\ st' = [st EXCEPT !.lastV = Heard]
            /\ out' = <<>> /\ pc' \in AfterEvent
         \/ /\ raw # <<>> /\ Waits(raw)
            /\ st' = [st EXCEPT !.lastV = Heard, !.pending = raw]
            /\ out' = <<>> /\ pc' \in AfterEvent
         \/ /\ raw # <<>> /\ ~Waits(raw)
            /\ \E full \in {st.full \o raw}, depth \in {Depth(st.depth, raw)} :
               \E found \in {ToolCalls(full)}, shown \in {IF depth = 0 THEN Clean(raw) ELSE <<>>} :
                 /\ st' = [st EXCEPT !.lastV = Heard, !.pending = <<>>, !.full = full,
                                     !.depth = depth, !.shown = @ \o shown,
                                     !.calls = @ \cup ToSet(found)]
                 /\ out' = NewEvents(found, shown)
            /\ IF Head(queue).last THEN pc' = "post" ELSE pc' \in AfterEvent
    /\ UNCHANGED <<payload, log>>

ReadEnd ==
    /\ pc = "reading" /\ out = <<>> /\ queue = <<>>
    /\ up = "ended"
    /\ pc' = "post"
    /\ UNCHANGED <<upstream, queue, conn, st, payload, out, written, log, ended>>

\* reader.cancel() of a stream that failed rejects too, so runStreamLoop throws and
\* only the finally block of handleStreamingRequest is left to run.
ReadBroken ==
    /\ pc = "reading" /\ out = <<>>
    /\ up = "broken"
    /\ out' = <<Mark("done")>>
    /\ pc' = "closing"
    /\ UNCHANGED <<upstream, queue, conn, st, payload, written, log, ended>>

\* Mutant of IdleTimeout: there is none.
NoTimeout == FALSE /\ UNCHANGED vars

IdleTimeout ==
    /\ pc = "reading" /\ out = <<>> /\ queue = <<>>
    /\ up \notin {"ended", "broken"}
    /\ log' = [log EXCEPT !.failed = TRUE]
    /\ out' = <<Mark("error"), Mark("done")>>
    /\ pc' = "closing"
    /\ UNCHANGED <<upstream, queue, conn, st, payload, written, ended>>

-----------------------------------------------------------------------------
(* The handler: handlePostStreamCompletion and the two clean-ups *)

\* Mutant of Silent: only text counts as an answer.
SilentText == st.full = <<>>

\* isEmptyResponse; contentEmitted implies that full is not empty.
Silent == st.full = <<>> /\ st.calls = {} /\ ~st.reasoned

Rejected == Diagnostic \in ToSet(st.full)

HasCalls(full) == st.calls # {} \/ ToolCalls(full) # <<>>

\* What is left to write of an answer that is neither failed nor silent.
Flush(full, rest) ==
    (IF rest = <<>> THEN <<>> ELSE <<Event("content", rest)>>)
    \o <<Mark(IF HasCalls(full) THEN "tool_calls" ELSE "stop"), Mark("done")>>

PostStream ==
    /\ pc = "post" /\ out = <<>>
    /\ \/ /\ payload
          /\ out' = <<Mark("error"), Mark("failed"), Mark("done")>>
          /\ pc' = "completing" /\ UNCHANGED log
       \/ /\ ~payload /\ Rejected
          /\ out' = <<Mark("error"), Mark("failed"), Mark("done")>>
          /\ log' = [log EXCEPT !.failed = TRUE]
          /\ pc' = "completing"
       \/ /\ ~payload /\ ~Rejected /\ Silent
          /\ out' = <<Mark("silence"), Mark("stop"), Mark("done")>>
          /\ pc' = "silent" /\ UNCHANGED log
       \/ /\ ~payload /\ ~Rejected /\ ~Silent
          /\ \E full \in {st.full \o st.pending} : \E filtered \in {Filtered(full)} :
             \E rest \in {SnapshotDelta(filtered, st.shown)} :
               out' = Flush(full, rest)
          /\ pc' = "completing" /\ UNCHANGED log
    /\ UNCHANGED <<upstream, queue, conn, st, payload, written, ended>>

\* Mutant of Complete: an empty response is not counted as an error.
CompleteUncounted ==
    /\ pc \in {"completing", "silent"} /\ out = <<>>
    /\ log' = [log EXCEPT !.finalized = @ + 1]
    /\ pc' = "cleanup"
    /\ UNCHANGED <<upstream, queue, conn, st, payload, out, written, ended>>

\* Mutant of Complete: streamReleased is not set, so the finally block runs as well.
CompleteUnreleased ==
    /\ pc \in {"completing", "silent"} /\ out = <<>>
    /\ log' = [failed |-> log.failed \/ pc = "silent", finalized |-> log.finalized + 1]
    /\ pc' = "closing"
    /\ UNCHANGED <<upstream, queue, conn, st, payload, out, written, ended>>

Complete ==
    /\ pc \in {"completing", "silent"} /\ out = <<>>
    /\ log' = [failed |-> log.failed \/ pc = "silent", finalized |-> log.finalized + 1]
    /\ pc' = "cleanup"
    /\ UNCHANGED <<upstream, queue, conn, st, payload, out, written, ended>>

\* The timer of scheduleCleanup.
ScheduledCleanup ==
    /\ pc = "cleanup"
    /\ cancelled' = TRUE
    /\ released' = released + 1
    /\ pc' = "over"
    /\ UNCHANGED <<upstream, queue, conn, st, payload, out, written, log>>

\* cleanupImmediately, after an idle timeout or in the finally block.
CloseNow ==
    /\ pc = "closing" /\ out = <<>>
    /\ log' = [log EXCEPT !.finalized = @ + 1]
    /\ cancelled' = TRUE
    /\ released' = released + 1
    /\ pc' = "over"
    /\ UNCHANGED <<upstream, queue, conn, st, payload, out, written>>

-----------------------------------------------------------------------------

Upstream ==
    \/ SendAnswer \/ SendRepeat \/ SendAside \/ SendError \/ SendPayload \/ SendDone
    \/ HangUp \/ Break

Handler ==
    \/ CheckAbort
    \/ TakeDone \/ TakeError \/ TakePayload \/ TakeThought \/ TakeTool \/ TakeAnswer
    \/ ReadEnd \/ ReadBroken \/ IdleTimeout
    \/ PostStream \/ Complete \/ ScheduledCleanup \/ CloseNow

Next == Upstream \/ ClientLeaves \/ Written \/ Handler

Spec == Init /\ [][Next]_vars

\* The handler's code and timers run, and a client reads what is written or goes.
\* Nothing is assumed of the upstream.
FairSpec == Spec /\ WF_vars(Handler) /\ WF_vars(Written)

-----------------------------------------------------------------------------
(* Properties *)

Pcs == {"loop", "reading", "post", "completing", "silent", "cleanup", "closing", "over"}

TypeOK ==
    /\ text \in Texts /\ sent \in 0..Len(text) /\ asides \subseteq {"think", "tool", "repeat", "joined", "leaky"}
    /\ up \in {"sending", "finished", "done", "ended", "broken"}
    /\ Len(queue) <= MaxQueue
    /\ conn \in {"open", "gone"} /\ pc \in Pcs
    /\ Len(st.lastV) <= sent /\ st.depth \in Nat /\ st.reasoned \in BOOLEAN
    /\ payload \in BOOLEAN /\ log.failed \in BOOLEAN
    /\ {log.finalized, released} \subseteq Nat /\ cancelled \in BOOLEAN
ToolText == {text[i] : i \in {j \in 1..Len(text) : j \in TagsIn(text) \/ Inside(text)[j]}}

\* However the upstream cuts it, the markup of a tool call never reaches the client as
\* text (the one-chunk buffer), and what is inside the call does only if some of it came
\* in one chunk with the closing tag, since toolCallDepth is back at 0 when that chunk is
\* filtered (chatStreamingHelpers.ts:356-359), or if the opening tag was cut after the "<"
\* of a chunk that is not held back (:321-340).  docs/API.md:567 has it suppressed always.
NoToolTextShown ==
    /\ {Open, Close} \cap ToSet(TextOf("content", written)) = {}
    /\ "leaky" \notin asides => ToolText \cap ToSet(TextOf("content", written)) = {}

\* The answer was read to its end by a client that stayed.
Answered == /\ pc = "over" /\ conn = "open"
            /\ Kinds(written) \cap {"stop", "tool_calls"} # {}
            /\ up # "broken"

\* A client that got a whole answer, and not the news of a silence, got in pieces exactly
\* what one filtering of the whole text gives: nothing twice, nothing lost, nothing out
\* of order.  (Text that shares a chunk with a tag may be hidden for good.)
DeliveredIsFiltered ==
    Answered /\ "joined" \notin asides =>
        TextOf("content", written) = IF "silence" \in Kinds(written) THEN <<>> ELSE Filtered(Received)

\* However the stream ends, the finish reason is "tool_calls" exactly when calls were
\* written: a client runs the calls of an answer only then (hasEmittedToolCalls).
FinishAgrees ==
    /\ "tool_calls" \in Kinds(written) => "call" \in Kinds(written)
    /\ "stop" \in Kinds(written) => "call" \notin Kinds(written)

\* No call is written twice, however often the upstream resends it: a client would run
\* it twice (loggedToolCalls).
CallsOnce ==
    \A i, j \in 1..Len(written) :
      written[i].kind = "call" /\ written[i] = written[j] => i = j

\* And a client that got a whole answer got every call of it: those of the text in its
\* order, and the local one.  (The texts of the run repeat no call: identical calls are
\* merged into one.)
CallsAreReported ==
    /\ FinishAgrees
    /\ CallsOnce
    /\ Answered =>
         LET calls == SelectSeq(written, LAMBDA e : e.kind = "call")
         IN  /\ SelectSeq(calls, LAMBDA e : e.text # LocalCall)
                  = [i \in 1..Len(ToolCalls(Received)) |-> Event("call", ToolCalls(Received)[i])]
             /\ Event("call", LocalCall) \in ToSet(calls) <=> "tool" \in asides

\* An answer is reported as an intentional silence only when there was none (no text
\* that filtering would leave, no call, no reasoning), or when all of it looks like the
\* beginning of a tag ("x < 3"): it is still held back when streamLoop.ts:217 and
\* chatStreaming.ts:138-141 judge it, and is lost.
SilenceIsTrue ==
    "silence" \in Kinds(written) =>
      /\ \/ Filtered(Received) = <<>> \/ conn = "gone" \/ up = "broken"
         \/ Waits(Received)
      /\ Kinds(written) \cap {"content", "call", "thought"} = {}

\* However the stream ends, the client gets one [DONE], after everything else, and the
\* log counts the request as failed exactly when the client was told of an error or of a
\* silence.  (An error document of the upstream is told and not counted,
\* streamLoop.ts:168.)
EndIsTold ==
    /\ \A i \in 1..Len(written) : written[i].kind = "done" => i = Len(written)
    /\ pc = "over" =>
         /\ written # <<>> /\ Last(written).kind = "done"
         /\ ~payload => (log.failed <=> Kinds(written) \cap {"error", "silence"} # {})

\* However the stream ends, the log entry is finalized once and the conversation goes
\* back to the pool once, when the reader is cancelled, the entry is finalized and no event
\* is being written: not by two of the clean-up paths, and not by none.
ReleasedOnce ==
    /\ log.finalized = (IF pc \in {"cleanup", "over"} THEN 1 ELSE 0)
    /\ released = (IF pc = "over" THEN 1 ELSE 0)
    /\ pc = "over" => cancelled /\ out = <<>>

\* Every stream ends, also when the upstream falls silent.
StreamEnds == <>(pc = "over")

=============================================================================
