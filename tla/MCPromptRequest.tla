--------------------------- MODULE MCPromptRequest ---------------------------
(* Conversations for PromptRequest. *)
EXTENDS PromptRequest, TLC

Client(api, noThinking, system, named, texts) ==
    [api |-> api, noThinking |-> noThinking, system |-> system, named |-> named, texts |-> texts]

\* Reminders come from a client of the Anthropic API.
MCClients == {
    Client("chat", TRUE, TRUE, TRUE, {"words", "images"}),
    Client("chat", FALSE, FALSE, FALSE, {"words", "images"}),
    Client("messages", TRUE, TRUE, FALSE, {"words", "reminder"})}

MCToolSets == {{}, {"read"}, {"read", "write"}}
MCCallNames == {<<>>, <<"read">>, <<"read", "write">>}

MCSymmetry == Permutations(Accounts)
=============================================================================
