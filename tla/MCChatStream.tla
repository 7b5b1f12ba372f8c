---------------------------- MODULE MCChatStream ----------------------------
(* Answers for ChatStream. *)
EXTENDS ChatStream

\* A plain answer, one with a lone "<", one that is held back to its
\* end, one with a tool call in the middle, one with
\* two calls, one that is a call cut short, and a diagnostic.
CleanTexts == {
    <<"a", "b">>,
    <<"a", "<", "b", "c", "d">>,
    <<"a", "<", "b">>,
    <<"a", Lt, Open, "x", Lt, Close, "b">>,
    <<Lt, Open, "x", Lt, Close, Lt, Open, "y", Lt, Close>>,
    <<"a", Lt, Open, "x">>,
    <<"a", Diagnostic>>}
=============================================================================
