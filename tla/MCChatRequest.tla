--------------------------- MODULE MCChatRequest ---------------------------
(* Small instances of ChatRequest for TLC. *)
EXTENDS ChatRequest, TLC

\* An account over its hourly limit waits longer than one refused for a moment.
MCCooldown == [reason \in Reasons |-> IF reason = "rateLimit" THEN 2 ELSE 1]

\* One tick is enough of each where durations do not matter.
MCShortCooldown == [reason \in Reasons |-> 1]

\* Some requests carry images or come through /v1/messages, so requests are not
\* interchangeable.
MCSymmetry == Permutations(Accounts) \cup Permutations(Chats)
=============================================================================
