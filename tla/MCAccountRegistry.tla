-------------------------- MODULE MCAccountRegistry -------------------------
(* Small instances of AccountRegistry for TLC. *)
EXTENDS AccountRegistry, TLC

Known == {e \in Emails : Listed(e) \/ Saved(e) \/ profile[e] # "gone"}

\* Bound: two requests at once, requests whose account was removed, profiles that
\* outlive their accounts, expired cookies, a failed watcher, and operations of the
\* operator while initAuth loads only while there is one account; API_KEY as the key
\* of the file only while there are two.
SmallScope ==
    \/ /\ Cardinality(Known) <= 1
       /\ apiKey = "none" /\ file.key = "master"
    \/ /\ Cardinality({r \in Requests : slot[r] # 0}) <= 1
       /\ \A r \in Requests : slot[r] # 0 => slot[r] \in Range(accounts)
       /\ boot # "down" => \A e \in Emails : ~Listed(e) /\ ~Saved(e) => profile[e] = "gone"
       /\ \A e \in Emails : profile[e] # "expired"
       /\ watcher # "failed"
       /\ NoBootTask \/ \A t \in tasks : t.kind = "boot"

\* Requests are interchangeable.
MCSymmetry == Permutations(Requests)
=============================================================================
