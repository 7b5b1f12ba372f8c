----------------------------- MODULE ChatAnswer -----------------------------
(***************************************************************************)
(* An answer that is read to its end and returned at once: src/routes/     *)
(* chatNonStreaming.ts.  The tool calls of the text are looked for in each *)
(* chunk by itself, and at the end in the whole.                           *)
(*                                                                         *)
(* Left out: response ids, usage numbers, reasoning and think tags, and    *)
(* events that carry more than one local call.                             *)
(***************************************************************************)
EXTENDS AnswerFeed, ToolGuard

VARIABLES
    st,         \* StreamProcessorState: lastFullContent, lastParsedPosition and the guard's
    response    \* what the client gets: "none", "answer", "rejected", "timeout", "document"

answerVars == <<st, response>>

AnswerInit ==
    /\ st = [full |-> <<>>, parsed |-> 0, guard |-> NewGuard]
    /\ response = [kind |-> "none", content |-> <<>>, calls |-> <<>>]

\* lastFullContent after a chunk: what has been heard before is recognised only
\* when more follows it.
Extended(full, v) == IF IsPrefix(full, v) /\ Len(v) > Len(full) THEN v ELSE full \o v

\* cleanTextOfXmlArtifacts: calls go, an unfinished one to the end of the text,
\* and the tags that are left.
ArtifactsGone(t) ==
    LET in == Inside(t)
        untagged[s \in Seq(STRING)] == At(s, 1..Len(s) \ TagsIn(s))
    IN  untagged[At(t, {i \in 1..Len(t) :
                          /\ ~in[i] /\ ~in[i - 1]
                          /\ i < Len(t) => ~in[i + 1]})]

\* processAnswerDelta.
HearAnswer(v) ==
    \E full \in {Extended(st.full, v)} :
    \E calls \in {ToolCalls(SubSeq(full, st.parsed + 1, Len(full)))} :
        st' = [full |-> full, parsed |-> Len(full), guard |-> ThroughGuard(st.guard, calls)]

\* parseQwenResponse for a finished local_tool event; one that is typing is skipped.
HearLocal(c) == st' = [st EXCEPT !.guard = ThroughGuard(@, <<c>>)]

\* Mutant of NotYetOut: every call of the text goes through the guard again.
NotYetOutAll(calls, out) == calls

\* The calls of the whole text that no chunk had.
NotYetOut(calls, out) == At(calls, {i \in DOMAIN calls : calls[i] \notin ToSet(out)})

\* flushAndDetectLoops: the guard after the end.
Flushed ==
    LET g == ThroughGuard(st.guard, NotYetOut(ToolCalls(st.full), st.guard.out))
    IN  [g EXCEPT !.rejected = @ \/ (Len(g.out) >= 3 /\ ParallelLoop(g.out))]

Reply(kind, content, calls) == response' = [kind |-> kind, content |-> content, calls |-> calls]

\* Mutant of Built: a rejected call is not told of.
BuiltAnyway(g) ==
    Reply("answer", IF g.out = <<>> THEN ArtifactsGone(st.full) ELSE <<>>, g.out)

\* buildResponseFromState: with calls there is no content, and with a rejected
\* call neither.
Built(g) ==
    IF g.rejected THEN Reply("rejected", <<>>, <<>>)
    ELSE Reply("answer", IF g.out = <<>> THEN ArtifactsGone(st.full) ELSE <<>>, g.out)
=============================================================================
