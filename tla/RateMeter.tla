------------------------------ MODULE RateMeter -----------------------------
(***************************************************************************)
(* What the rate limit of the API promises every client: a meter that      *)
(* fills at a fixed rate up to a limit, and admits a request exactly when  *)
(* it holds the price of one.  When the process starts anew, every meter   *)
(* is full.                                                                *)
(***************************************************************************)
EXTENDS Integers

CONSTANTS
    Clients,
    Limit,      \* what a full meter holds
    Rate,       \* what it gains in a tick
    Price       \* what a request costs

VARIABLES
    level,      \* of each client's meter
    answer,     \* the last answer to each client: "none", "admitted", "refused"
    epoch       \* times the process has started

meterVars == <<level, answer, epoch>>

MeterInit ==
    /\ level = [c \in Clients |-> Limit]
    /\ answer = [c \in Clients |-> "none"]
    /\ epoch = 0

Admit(c) ==
    /\ level[c] >= Price
    /\ level' = [level EXCEPT ![c] = @ - Price]
    /\ answer' = [answer EXCEPT ![c] = "admitted"]
    /\ UNCHANGED epoch

Refuse(c) ==
    /\ level[c] < Price
    /\ answer' = [answer EXCEPT ![c] = "refused"]
    /\ UNCHANGED <<level, epoch>>

Elapse ==
    /\ level' = [c \in Clients |-> IF level[c] + Rate > Limit THEN Limit ELSE level[c] + Rate]
    /\ UNCHANGED <<answer, epoch>>

StartAnew ==
    /\ epoch' = epoch + 1
    /\ level' = [c \in Clients |-> Limit]
    /\ answer' = [c \in Clients |-> "none"]

MeterNext == Elapse \/ StartAnew \/ \E c \in Clients : Admit(c) \/ Refuse(c)

MeterSpec == MeterInit /\ [][MeterNext]_meterVars
=============================================================================
