---------------------------- MODULE MessageStream ----------------------------
(***************************************************************************)
(* A streamed answer of /v1/messages: handleAnthropicStream of src/routes/ *)
(* anthropic.ts, which turns the upstream's chunks into the blocks of the  *)
(* Anthropic API: a thinking block, a text block and, when the answer is   *)
(* over, one block for each tool call.  It does not look whether its       *)
(* client is still there.                                                  *)
(*                                                                         *)
(* Left out: pings, response ids, usage numbers and the names of tools.    *)
(***************************************************************************)
EXTENDS ChatAnswer

VARIABLES
    ms,         \* what has been emitted: emittedMessageStart, emittedThinkingBlock,
                \* emittedTextBlock, textBlockIndex, lastFullContent
    written     \* the events written to the response

messageVars == <<ms, written>>

Event(k, i, data) == [kind |-> k, index |-> i, data |-> data]

MessageInit ==
    /\ ms = [started |-> FALSE, thinking |-> FALSE, text |-> FALSE, index |-> 0, full |-> <<>>]
    /\ written = <<>>

When(condition, events) == IF condition THEN events ELSE <<>>

\* A reasoning chunk.
WriteThought ==
    /\ written' = written
         \o When(~ms.started, <<Event("message_start", 0, <<>>)>>)
         \o When(~ms.thinking, <<Event("block_start", 0, <<"thinking">>)>>)
         \o <<Event("delta", 0, <<"thought">>)>>
    /\ ms' = [ms EXCEPT !.started = TRUE, !.thinking = TRUE,
                        !.index = IF ms.thinking THEN @ ELSE 1]

\* Mutant of Increment: a resend is written again.
IncrementAlways(v) == v

\* detectCumulativeChunk against the text so far: the same text again is taken for
\* an increment.
Increment(v) ==
    IF ms.full # <<>> /\ IsPrefix(ms.full, v) /\ Len(v) > Len(ms.full)
    THEN SubSeq(v, Len(ms.full) + 1, Len(v)) ELSE v

\* Mutant of ClosesThinking: the thinking block stays open.
ClosesNothing == FALSE
ClosesThinking == ms.thinking /\ ~ms.text

\* A text chunk; its markup is removed as far as the chunk shows it.
WriteText(v) ==
    /\ written' = written
         \o When(~ms.started, <<Event("message_start", 0, <<>>)>>)
         \o When(ClosesThinking, <<Event("block_stop", 0, <<>>)>>)
         \o When(~ms.text, <<Event("block_start", ms.index, <<"text">>)>>)
         \o <<Event("delta", ms.index, ArtifactsGone(Increment(v)))>>
    /\ ms' = [ms EXCEPT !.started = TRUE, !.text = TRUE, !.full = @ \o Increment(v)]

\* missingRequired: a call without arguments, or with malformed ones, is skipped,
\* whether the tool has parameters or not.
Complete(c) == c \notin {<<>>, Malformed}
CompleteOf(calls) == At(calls, {i \in DOMAIN calls : Complete(calls[i])})

\* The calls of the whole text, then those of local_tool events, which are told
\* apart by ids of their own.
AllCalls == ToolCalls(ms.full) \o locals
ValidCalls == CompleteOf(AllCalls)

FirstToolIndex == IF ms.text THEN ms.index + 1 ELSE IF ms.thinking THEN 1 ELSE 0

ToolBlock(c, i) ==
    <<Event("block_start", i, <<"tool_use">>), Event("delta", i, c), Event("block_stop", i, <<>>)>>

StopReason == IF ValidCalls # <<>> THEN "tool_use" ELSE "end_turn"

\* The end of the stream.
WriteEnd ==
    /\ \E calls \in {ValidCalls} :
         written' = written
           \o When(ms.text, <<Event("block_stop", ms.index, <<>>)>>)
           \o When(ms.thinking /\ ~ms.text, <<Event("block_stop", 0, <<>>)>>)
           \o FlattenSeq([i \in 1..Len(calls) |-> ToolBlock(calls[i], FirstToolIndex + i - 1)])
           \o <<Event("message_delta", 0, <<StopReason>>), Event("message_stop", 0, <<>>)>>
    /\ UNCHANGED ms

\* The idle timer, or a failing read.
WriteError ==
    /\ written' = written \o <<Event("error", 0, <<>>), Event("[DONE]", 0, <<>>)>>
    /\ UNCHANGED ms

-----------------------------------------------------------------------------
(* convertOpenAIResponseToAnthropic: the answer without streaming *)

\* The blocks: the calls that are not skipped, or else the text.
BlocksOf(r) ==
    LET calls == CompleteOf(r.calls)
    IN  IF calls # <<>> THEN [i \in 1..Len(calls) |-> Event("tool_use", i, calls[i])]
        ELSE When(r.content # <<>>, <<Event("text", 1, r.content)>>)

\* Mutant of ConvertedStop: an answer without content is taken for calls.
ConvertedStopEmpty(r) == IF r.content = <<>> THEN "tool_use" ELSE "end_turn"

\* stop_reason, from the finish_reason of the answer it converts.
ConvertedStop(r) == IF r.calls # <<>> THEN "tool_use" ELSE "end_turn"
=============================================================================
