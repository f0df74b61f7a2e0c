---------------------------- MODULE MCPolicyStore ----------------------------
(***************************************************************************)
(* Small instances of PolicyStore.  Detector-minted recommendation ids     *)
(* hash the events they were derived from, so one id has one target        *)
(* (SharedTarget); the API itself accepts any pair (AnyTargets).          *)
(***************************************************************************)
EXTENDS PolicyStore, TLC

CONSTANTS r1, r2, d1, d2, demo, real, f1, f2, t1, t2

\* Every id asks for the same destination, as the findings of several event
\* windows on one host do.
SharedTarget == [r \in Recommendations |-> {d1}]

\* A second post of an id can name another destination.
AnyTargets == [r \in Recommendations |-> Destinations]

\* Findings differ only in their events, and pool threads not at all.
FindingSymmetry == Permutations({f1, f2})

ThreadSymmetry == Permutations({t1, t2})

=============================================================================
