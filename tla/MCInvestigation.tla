--------------------------- MODULE MCInvestigation ---------------------------
(***************************************************************************)
(* Small instances of Investigation: two workers are enough for two starts *)
(* of one finding to overlap, and two findings for a worker to move on.    *)
(***************************************************************************)
EXTENDS Investigation

CONSTANTS t1, t2, f1, f2

=============================================================================
