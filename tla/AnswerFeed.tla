----------------------------- MODULE AnswerFeed -----------------------------
(***************************************************************************)
(* The upstream's answer as the handlers that write no text of their own   *)
(* before they have read it see it: text in chunks cut anywhere or resent  *)
(* from the beginning, reasoning, local_tool events, error events, and an  *)
(* end.  External to the repository.                                       *)
(***************************************************************************)
EXTENDS ChunkText

CONSTANTS
    Texts,          \* the answers the upstream may give
    Resends,        \* whether a chunk repeats all text so far: a subset of BOOLEAN
    MaxRepeats,     \* bound, by answer: resends that nobody can tell from increments
    LocalCalls,     \* the calls of local_tool events
    MaxLocals       \* bound: local_tool calls of an answer

ASSUME FeedAssumption ==
    /\ Texts \subseteq Seq(STRING) /\ LocalCalls \subseteq Seq(STRING)
    /\ Resends \subseteq BOOLEAN
    /\ MaxRepeats \in [Texts -> Nat] /\ MaxLocals \in Nat

\* An answer whose beginning is not at once said again, and more after it: such an
\* increment looks like a resend.
NoEcho(t) ==
    \A n \in 1..Len(t) : 2 * n < Len(t) => \E i \in 1..n : t[i] # t[n + i]

VARIABLES
    text, sent,     \* the answer, and how much of it was sent
    repeated,       \* history: the resends that nobody can tell from increments
    thoughts,       \* reasoning: "none", "first", or "late", with text before it
    locals          \* the calls of the finished local_tool events

feedVars == <<text, sent, repeated, thoughts, locals>>

Received == SubSeq(text, 1, sent)

FeedInit ==
    /\ text \in Texts
    /\ sent = 0 /\ repeated = 0 /\ thoughts = "none" /\ locals = <<>>

\* The chunks that may come next: increments, resends with more behind them, and
\* resends of all text so far.
Chunks ==
    {[end |-> n, v |-> SubSeq(text, IF again THEN 1 ELSE sent + 1, n)] :
        n \in sent + 1..Len(text), again \in Resends}
    \cup IF sent > 0 THEN {[end |-> sent, v |-> Received]} ELSE {}

\* All text so far and no more, or what resends all text after such a chunk.
Unnoticed(c) == sent > 0 /\ Len(c.v) = c.end /\ (c.end = sent \/ repeated > 0)

SendChunk(c) ==
    /\ Unnoticed(c) => repeated < MaxRepeats[text]
    /\ sent' = c.end
    /\ repeated' = IF Unnoticed(c) THEN repeated + 1 ELSE repeated
    /\ UNCHANGED <<text, thoughts, locals>>

SendThought ==
    /\ thoughts' = IF sent > 0 THEN "late" ELSE "first"
    /\ thoughts' # thoughts
    /\ UNCHANGED <<text, sent, repeated, locals>>

SendLocal(c) ==
    /\ Len(locals) < MaxLocals
    /\ locals' = Append(locals, c)
    /\ UNCHANGED <<text, sent, repeated, thoughts>>
=============================================================================
