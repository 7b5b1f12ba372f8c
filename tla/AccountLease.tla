---------------------------- MODULE AccountLease ----------------------------
(***************************************************************************)
(* What the gateway promises about its accounts: the upstream refuses a    *)
(* second conversation on an account that is busy, so an account is leased *)
(* to one request at a time and a request leases one account at a time.    *)
(* A lease is granted on a free account only, and ends without passing to  *)
(* another request.                                                        *)
(***************************************************************************)
CONSTANTS Accounts, Requests, None

VARIABLE holder     \* the request an account is leased to, or None

TypeOK == holder \in [Accounts -> Requests \cup {None}]

Init == holder = [a \in Accounts |-> None]

Grant(a, r) ==
    /\ holder[a] = None
    /\ \A b \in Accounts : holder[b] # r
    /\ holder' = [holder EXCEPT ![a] = r]

\* Several leases may end at once: the sweeper ends every one that is overdue.
End(S) ==
    /\ \A a \in S : holder[a] # None
    /\ holder' = [a \in Accounts |-> IF a \in S THEN None ELSE holder[a]]

Next ==
    \/ \E a \in Accounts, r \in Requests : Grant(a, r)
    \/ \E S \in SUBSET Accounts : End(S)

Spec == Init /\ [][Next]_holder
=============================================================================
