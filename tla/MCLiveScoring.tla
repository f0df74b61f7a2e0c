---------------------------- MODULE MCLiveScoring ----------------------------
(***************************************************************************)
(* Small instances of LiveScoring: the events are their own timestamps.    *)
(***************************************************************************)
EXTENDS LiveScoring

StampIsId == [e \in Events |-> e]

=============================================================================
