--------------------------- MODULE MessageHistory ---------------------------
(***************************************************************************)
(* How a conversation becomes the one message that the upstream accepts:   *)
(* anthropicMessagesToOpenAI of src/routes/anthropic.ts, buildQwenMessages *)
(* of src/routes/chatHelpers.ts, and the splitting of what is too long in  *)
(* setupSession of src/routes/chat.ts.                                     *)
(*                                                                         *)
(* A turn of a client is a record of its role, its text, the calls of an   *)
(* assistant (an id and a tool) and the ids of the results a user adds.  A *)
(* text is "none", "words", a "reminder" (nothing but <system-reminder>    *)
(* blocks) or "images" (with or without words).                            *)
(***************************************************************************)
EXTENDS Naturals, SequencesExt

CONSTANTS
    None,
    DepthLimit,     \* DEPTH_LIMIT
    MaxInline,      \* MAX_INLINE_CHARS, in units of a short text
    Gap,            \* the length of the separator of two segments
    LargeText       \* the length of an image that is written out

ASSUME HistoryAssumption ==
    /\ DepthLimit \in Nat \ {0} /\ MaxInline \in Nat \ {0} /\ Gap \in Nat \ {0}
    /\ LargeText \in Nat \ {0}

Turn(role, text, calls, results) ==
    [role |-> role, text |-> text, calls |-> calls, results |-> results]

\* An OpenAI message, and the turn it is made from.
Message(role, text, calls, id, name, of) ==
    [role |-> role, text |-> text, calls |-> calls, id |-> id, name |-> name, of |-> of]

UserMessage(turns, t) == Message("user", turns[t].text, <<>>, None, None, t)
AssistantMessage(turns, t) == Message("assistant", turns[t].text, turns[t].calls, None, None, t)

\* The calls of a conversation with an id.
CallsWith(turns, id) ==
    UNION {{c \in ToSet(turns[t].calls) : c.id = id} : t \in DOMAIN turns}

NameOf(turns, id) ==
    IF CallsWith(turns, id) = {} THEN None ELSE (CHOOSE c \in CallsWith(turns, id) : TRUE).name

ResultMessages(turns, t, named) ==
    [k \in DOMAIN turns[t].results |->
        LET id == turns[t].results[k]
        IN  Message("tool", "words", <<>>, id, IF named THEN NameOf(turns, id) ELSE None, t)]

\* A client of the chat API writes each turn out: the results, with the tools' names
\* or without, and then the user's text.
ChatMessages(turns, named) ==
    FlattenSeq([t \in DOMAIN turns |->
        IF turns[t].role = "assistant" THEN <<AssistantMessage(turns, t)>>
        ELSE ResultMessages(turns, t, named)
             \o (IF turns[t].text = "none" THEN <<>> ELSE <<UserMessage(turns, t)>>)])

\* anthropicMessagesToOpenAI: beside results, a user's text and images are left out.
AnthropicMessagesToOpenAI(turns) ==
    FlattenSeq([t \in DOMAIN turns |->
        IF turns[t].role = "assistant" THEN <<AssistantMessage(turns, t)>>
        ELSE IF turns[t].results # <<>> THEN ResultMessages(turns, t, FALSE)
        ELSE <<UserMessage(turns, t)>>])

-----------------------------------------------------------------------------
(* buildQwenMessages *)

\* The messages with calls; rank 0 is the last of them.
ToolTurns(ms) == {k \in DOMAIN ms : ms[k].role = "assistant" /\ ms[k].calls # <<>>}
Rank(ms, k) == Cardinality({j \in ToolTurns(ms) : j > k})

\* Without thinking, calls that are too far back are told in prose.
TooOld(ms, k, opts) == opts.noThinking /\ opts.tools # {} /\ Rank(ms, k) >= DepthLimit

Unregistered(name, opts) == opts.tools # {} /\ name \notin opts.tools

\* How a call is written: as a call ("xml"), or in prose with a label.
CallAs(ms, k, c, opts) ==
    CASE Unregistered(c.name, opts) -> "unregistered"
      [] ~Unregistered(c.name, opts) /\ opts.tools # {} /\ TooOld(ms, k, opts) -> "earlier"
      [] OTHER -> "xml"

\* The newest message before i with a call that has the id of result i.
CallTurns(ms, i) ==
    {j \in 1..i - 1 : \E c \in ToSet(ms[j].calls) : c.id = ms[i].id}

CallOf(ms, i) ==
    LET j == Max(CallTurns(ms, i))
    IN  CHOOSE c \in ToSet(ms[j].calls) : c.id = ms[i].id

ToolName(ms, i) ==
    CASE ms[i].name # None -> ms[i].name
      [] ms[i].name = None /\ CallTurns(ms, i) # {} -> CallOf(ms, i).name
      [] OTHER -> None

\* Mutant of ResultTooOld: the result of a call just at the limit stays.
ResultTooOldLate(ms, i, opts) ==
    /\ CallTurns(ms, i) # {}
    /\ opts.noThinking /\ Rank(ms, Max(CallTurns(ms, i))) > DepthLimit

\* Whether the call of a result is too old: resultExceedsDepth.
ResultTooOld(ms, i, opts) ==
    /\ CallTurns(ms, i) # {}
    /\ TooOld(ms, Max(CallTurns(ms, i)), opts)

ResultAs(ms, i, opts) ==
    CASE ToolName(ms, i) = None \/ opts.tools = {} -> "xml"
      [] ToolName(ms, i) # None /\ Unregistered(ToolName(ms, i), opts) -> "unregistered"
      [] ToolName(ms, i) \in opts.tools /\ ResultTooOld(ms, i, opts) -> "earlier"
      [] OTHER -> "xml"

\* A segment of the prompt: its tag, the turn it comes from, whether it has the
\* turn's text, the calls and results it shows and how, and its length.
Segment(kind, of, hasText, shown, size) ==
    [kind |-> kind, of |-> of, hasText |-> hasText, shown |-> shown, size |-> size]

Shown(what, id, as) == [what |-> what, id |-> id, as |-> as]

\* A user's text; images of other messages than the last are written out.
UserSegments(ms, i) ==
    CASE ms[i].text = "none" -> <<>>
      [] ms[i].text = "images" /\ i < Len(ms) -> <<Segment("user", ms[i].of, TRUE, <<>>, LargeText)>>
      [] OTHER -> <<Segment("user", ms[i].of, TRUE, <<>>, 1)>>

\* An assistant's turn, if anything is in it.
AssistantSegments(ms, i, opts) ==
    LET calls == [k \in DOMAIN ms[i].calls |->
                    Shown("call", ms[i].calls[k].id, CallAs(ms, i, ms[i].calls[k], opts))]
        size == Len(calls) + (IF ms[i].text = "none" THEN 0 ELSE 1)
    IN  IF size = 0 THEN <<>>
        ELSE <<Segment("assist", ms[i].of, ms[i].text # "none", calls, size)>>

\* A result: in prose, or as a result, with a call made up if there is none before.
ResultSegments(ms, i, opts) ==
    LET as == ResultAs(ms, i, opts)
        result == <<Shown("result", ms[i].id, as)>>
    IN  IF as # "xml" THEN <<Segment("user", ms[i].of, FALSE, result, 1)>>
        ELSE (IF CallTurns(ms, i) = {}
              THEN <<Segment("assist", ms[i].of, FALSE, <<Shown("call", ms[i].id, "xml")>>, 1)>>
              ELSE <<>>)
             \o <<Segment("result", ms[i].of, FALSE, result, 1)>>

\* What the system says, and every reminder, comes first.
SystemSegments(ms, opts) ==
    IF opts.system \/ \E i \in DOMAIN ms : ms[i].role = "user" /\ ms[i].text = "reminder"
    THEN <<Segment("system", 0, FALSE, <<>>, 1)>> ELSE <<>>

BuildQwenMessages(ms, opts) ==
    SystemSegments(ms, opts) \o
    FlattenSeq([i \in DOMAIN ms |->
        CASE ms[i].role = "user" -> UserSegments(ms, i)
          [] ms[i].role = "assistant" -> AssistantSegments(ms, i, opts)
          [] ms[i].role = "tool" -> ResultSegments(ms, i, opts)])

-----------------------------------------------------------------------------
(* The prompt is a sequence of letters: the number of the segment a letter  *)
(* belongs to, or 0 for one of a separator.                                 *)

Letters(segs) ==
    FlattenSeq([i \in DOMAIN segs |->
        [g \in 1..(IF i = 1 THEN 0 ELSE Gap) |-> 0] \o [u \in 1..segs[i].size |-> i]])

\* Where the prompt may be cut: before <user> or <assist>.
CutPoints(segs, letters) ==
    {p \in 2..Len(letters) : /\ letters[p] # 0 /\ letters[p - 1] = 0
                             /\ segs[letters[p]].kind \in {"user", "assist"}}

\* What comes before the cut, without the separator.
Older(letters, p) == SubSeq(letters, 1, p - 1 - Gap)

\* As many of the last segments as fit stay, the others go to context.txt; if not
\* even the last one fits, its end stays.
SplitPrompt(segs) ==
    LET letters == Letters(segs)
        n == Len(letters)
        fits == {p \in CutPoints(segs, letters) : n - p + 1 <= MaxInline}
    IN  IF n <= MaxInline THEN [older |-> <<>>, inline |-> letters]
        ELSE IF fits # {} THEN [older |-> Older(letters, Min(fits)),
                                inline |-> SubSeq(letters, Min(fits), n)]
        ELSE [older |-> SubSeq(letters, 1, n - MaxInline),
              inline |-> SubSeq(letters, n - MaxInline + 1, n)]
=============================================================================
