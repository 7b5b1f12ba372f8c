--------------------------- MODULE AccountManager ---------------------------
(***************************************************************************)
(* The account slots of src/services/accountManager.ts: which account a    *)
(* request may take, how a slot is taken and given back, and the cooldown  *)
(* an upstream refusal puts on an account.                                 *)
(*                                                                         *)
(* Every operation of the file runs without an await between reading and   *)
(* writing the registry, so each one is a single conjunct here, to be used *)
(* inside the handler step that makes the call.  Time is counted in ticks; *)
(* a cooldown is kept as the number of ticks still to run.                 *)
(***************************************************************************)
EXTENDS Naturals

CONSTANTS
    Accounts,   \* the authenticated accounts of the registry
    None,       \* "no account", "no chat", "no email"
    Cooldown    \* ticks an account is throttled for, by reason

Reasons == {"busy", "captcha", "activation", "rateLimit"}

ASSUME AccountAssumption ==
    /\ None \notin Accounts
    /\ Cooldown \in [Reasons -> Nat \ {0}]

VARIABLES
    inFlight,   \* slots taken, by account
    cooldown,   \* ticks left of throttledUntil, by account
    disabled    \* switched off by an operator or by a daily limit

accountVars == <<inFlight, cooldown, disabled>>

AccountTypeOK ==
    /\ inFlight \in [Accounts -> Nat]
    /\ cooldown \in [Accounts -> Nat]
    /\ disabled \in [Accounts -> BOOLEAN]

AccountInit ==
    /\ inFlight = [a \in Accounts |-> 0]
    /\ cooldown = [a \in Accounts |-> 0]
    /\ disabled = [a \in Accounts |-> FALSE]

-----------------------------------------------------------------------------

\* Mutant of IsAvailable: the slots taken are not looked at.
IsAvailableAnyLoad(a) == ~disabled[a] /\ cooldown[a] = 0

\* isAvailable: an account serves one request at a time.
IsAvailable(a) ==
    /\ ~disabled[a]
    /\ cooldown[a] = 0
    /\ inFlight[a] = 0

\* The accounts pickAccount(exclude) chooses from.
Candidates(exclude) == {a \in Accounts \ {exclude} : IsAvailable(a)}

\* pickAccount takes the slot of one candidate.  Which one depends on counters
\* this module does not keep (totalRequests, lastUsed): any of them may win.
\* The clamp above 20 is unreachable, a candidate's counter being 0.
PickAccount(exclude, a) ==
    /\ a \in Candidates(exclude)
    /\ inFlight' = [inFlight EXCEPT ![a] = @ + 1]

\* decrementInFlight never goes below zero.
Decremented(n) == IF n > 0 THEN n - 1 ELSE 0

DecrementInFlight(a) ==
    inFlight' = [inFlight EXCEPT ![a] = Decremented(@)]

\* throttleAccount overwrites whatever cooldown was running, shorter or not.
ThrottleAccount(a, reason) ==
    cooldown' = [cooldown EXCEPT ![a] = Cooldown[reason]]

SetAccountDisabled(a, value) ==
    disabled' = [disabled EXCEPT ![a] = value]

\* saveCookies (auth.ts): a new login lifts the running cooldown.
SaveCookies(a) ==
    /\ cooldown[a] > 0
    /\ cooldown' = [cooldown EXCEPT ![a] = 0]
    /\ UNCHANGED <<inFlight, disabled>>

\* PATCH /accounts/:email: the operator switches an account on or off.
ToggleDisabled(a) ==
    /\ SetAccountDisabled(a, ~disabled[a])
    /\ UNCHANGED <<inFlight, cooldown>>
=============================================================================
