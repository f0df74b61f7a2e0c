--------------------------- MODULE ApprovalLedger ---------------------------
(***************************************************************************)
(* What the policy store promises: every request takes effect at once, in  *)
(* full, or not at all.  A recommendation is decided once; an approval     *)
(* installs the rule on the recommendation's target in the same step; and  *)
(* clearing the demo data removes the demo records and everything derived  *)
(* from them in one step.                                                  *)
(***************************************************************************)
EXTENDS PolicyTables

VARIABLE store   \* the tables, as a client reads them back after a restart

LedgerInit == store = EmptyDatabase

RecordEvent(e) == store' = InsertEvent(store, e)

RecordFinding(f, evidence) == store' = UpsertFinding(store, f, evidence)

Propose(r, f, d) == store' = UpsertRecommendation(store, r, f, d)

\* The three writes of an approval or the two of a rejection.
Decided(D, r, d, verdict, a) ==
    LET recorded == UpsertDecision(SetStatus(D, r, verdict), r, verdict, a)
    IN  IF verdict = "approved" THEN ReplaceRule(recorded, d, r, a) ELSE recorded

Decide(r, verdict, a) ==
    /\ store.recs[r] # NoRow
    /\ store.decisions[r] = NoRow
    /\ store' = Decided(store, r, store.recs[r].target, verdict, a)

Cleared(D, E, F, R) ==
    DeleteEvents(
      DeleteFindings(
        DeleteRecommendations(DeleteRules(DeleteDecisions(D, R), R), R), F), E)

ClearDemoData ==
    LET E == DemoEventsIn(store)
        F == FindingsDerivedFrom(store, E)
        R == RecommendationsFor(store, F)
    IN  store' = Cleared(store, E, F, R)

LedgerNext ==
    \/ \E e \in Events : RecordEvent(e)
    \/ \E f \in Findings, evidence \in (SUBSET Events) \ {{}} :
            RecordFinding(f, evidence)
    \/ \E r \in Recommendations, f \in Findings :
            \E d \in Targets[r] : Propose(r, f, d)
    \/ \E r \in Recommendations, verdict \in Verdicts, a \in Analysts :
            Decide(r, verdict, a)
    \/ ClearDemoData

LedgerSpec == LedgerInit /\ [][LedgerNext]_store

=============================================================================
