----------------------------- MODULE MCCollector -----------------------------
(***************************************************************************)
(* Small instances of Collector: four lines, one of them no record.        *)
(***************************************************************************)
EXTENDS Collector

ThreeOfFour == {1, 2, 4}

=============================================================================
