------------------------- MODULE MCBrowserlessFetch -------------------------
(* Small instances of BrowserlessFetch for TLC. *)
EXTENDS BrowserlessFetch, TLC

CONSTANT a1

\* Both requests are of one account.
MCAccount == [f \in Fetches |-> a1]

\* Worker processes are interchangeable.
MCSymmetry == Permutations(Procs)
=============================================================================
