--------------------------- MODULE MCMessagesRoute ---------------------------
(* Answers for MessagesRoute. *)
EXTENDS MessagesRoute

\* Text around a call, text and a call that is cut short, a call without
\* arguments twice, two different calls, and three, the last malformed.
MCTexts == {
    <<"a", Lt, Open, "x", Lt, Close, "b">>,
    <<"a", "b", Lt, Open, "x">>,
    <<Lt, Open, Lt, Close, Lt, Open, Lt, Close>>,
    <<Lt, Open, "x", Lt, Close, Lt, Open, "y", Lt, Close>>,
    <<Lt, Open, "x", Lt, Close, Lt, Open, Lt, Close, Lt, Open, "malformed", Lt, Close>>}

\* Three calls are more than the handlers give that have a limit; a stream has none.
LongUnstreamed == Streaming => Len(text) <= 10

\* Bound: resends that pass for increments only in the answers with text to read twice.
MCRepeats == [t \in MCTexts |-> IF PlainText(t) # <<>> THEN 2 ELSE 0]

\* What the theorems about calls ask of the answers.
ASSUME AnswersAreCalm == \A t \in MCTexts : CallsApart(t) /\ NoEcho(t)

MCLocals == {<<"l">>, <<"x">>, <<>>, Malformed}
=============================================================================
