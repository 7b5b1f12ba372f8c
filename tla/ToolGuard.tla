------------------------------ MODULE ToolGuard ------------------------------
(***************************************************************************)
(* What the gateway does with the tool calls it finds in an answer before  *)
(* it passes them on: processToolCallsThroughGuard and ToolSpamGuard of    *)
(* src/routes/chatHelpersCore.ts, and src/tools/guard.ts.  A call stands   *)
(* for its name and arguments; one whose name or arguments do not pass     *)
(* validateSingleToolCall is Malformed.                                    *)
(***************************************************************************)
EXTENDS Naturals, SequencesExt

CONSTANTS
    MaxToolCalls,   \* MAX_TOOL_CALLS_PER_TURN
    SpamWindow,     \* ToolSpamGuard.window
    SpamThreshold,  \* ToolSpamGuard.threshold
    LoopLength      \* detectParallelToolLoop: identical calls that make a loop

\* As the code has it (8, 8, 2 and 3).
ASSUME GuardAssumption ==
    /\ MaxToolCalls \in Nat \ {0} /\ SpamThreshold \in Nat \ {0}
    /\ SpamWindow \in Nat /\ SpamWindow >= MaxToolCalls
    /\ LoopLength = SpamThreshold + 1

Malformed == <<"malformed">>

\* What the guard keeps for an answer: toolCallsOut, the calls it remembers, and
\* whether a correction prompt was queued.
NewGuard == [out |-> <<>>, history |-> <<>>, rejected |-> FALSE]

Times(c, calls) == Cardinality({i \in DOMAIN calls : calls[i] = c})
Newest(calls, n) == SubSeq(calls, (IF Len(calls) > n THEN Len(calls) - n ELSE 0) + 1, Len(calls))

\* ToolSpamGuard.check: the call counts itself.
Spam(g, c) == Times(c, g.history) + 1 > SpamThreshold
Remembered(g, c) == Newest(Append(g.history, c), SpamWindow)

\* One call of the loop; "over" is its break.
Guarded(g, c) ==
    IF g.over THEN g
    ELSE IF c = Malformed THEN [g EXCEPT !.rejected = TRUE]
    ELSE IF Spam(g, c) THEN [g EXCEPT !.rejected = TRUE, !.history = Remembered(g, c)]
    ELSE IF Len(g.out) >= MaxToolCalls
         THEN [g EXCEPT !.rejected = TRUE, !.history = Remembered(g, c), !.over = TRUE]
    ELSE [g EXCEPT !.out = Append(@, c), !.history = Remembered(g, c)]

\* processToolCallsThroughGuard; the calls beyond the first MaxToolCalls are not
\* looked at.
ThroughGuard(g, calls) ==
    LET first == SubSeq(calls, 1, IF Len(calls) > MaxToolCalls THEN MaxToolCalls ELSE Len(calls))
        after[i \in 0..Len(first)] ==
          IF i = 0 THEN [out |-> g.out, history |-> g.history, rejected |-> g.rejected, over |-> FALSE]
          ELSE Guarded(after[i - 1], first[i])
        end == after[Len(first)]
    IN  [out |-> end.out, history |-> end.history, rejected |-> end.rejected]

\* detectParallelToolLoop, which is asked when there are three calls or more.
ParallelLoop(calls) == \E c \in ToSet(calls) : Times(c, calls) >= LoopLength
=============================================================================
