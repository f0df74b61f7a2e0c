--------------------------- MODULE MCModelRegistry ---------------------------
(***************************************************************************)
(* Two results of a training: one that passes, and one that misses half of *)
(* the suspicious windows.  Twenty-one normal windows are the fewest on    *)
(* which the place of the threshold matters.                               *)
(***************************************************************************)
EXTENDS ModelRegistry, TLC

Good == [normal |-> [i \in 1..21 |-> i], suspicious |-> <<30, 40>>]
Better == [normal |-> <<5, 5>>, suspicious |-> <<9>>]
Blind == [normal |-> <<5, 6>>, suspicious |-> <<6, 9>>]

Trainings == {Good, Blind}

Improving == {Good, Better}

\* Trainers differ in nothing, nor do versions; the run checks invariants only.
Interchangeable == Permutations(Trainers) \cup Permutations(Versions)

=============================================================================
