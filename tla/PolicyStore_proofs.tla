------------------------- MODULE PolicyStore_proofs -------------------------
(***************************************************************************)
(* Proofs about PolicyStore for every set of threads, recommendations,     *)
(* destinations, analysts, findings and events: its invariants, and that   *)
(* with one request at a time its committed tables implement the approval  *)
(* ledger.                                                                 *)
(***************************************************************************)
EXTENDS PolicyStore, TLAPS

-----------------------------------------------------------------------------
(* The statements keep a database a database.                              *)

LEMMA EmptyDatabaseTyped == EmptyDatabase \in Database
  BY DEF EmptyDatabase, Database

LEMMA InsertEventTyped ==
    ASSUME NEW D \in Database, NEW e \in Events
    PROVE  InsertEvent(D, e) \in Database
  BY DEF InsertEvent, Database

LEMMA UpsertFindingTyped ==
    ASSUME NEW D \in Database, NEW f \in Findings, NEW evidence \in SUBSET Events
    PROVE  UpsertFinding(D, f, evidence) \in Database
  BY DEF UpsertFinding, Database

LEMMA UpsertRecommendationTyped ==
    ASSUME NEW D \in Database, NEW r \in Recommendations,
           NEW f \in Findings, NEW d \in Destinations
    PROVE  UpsertRecommendation(D, r, f, d) \in Database
  <1>1. (IF D.recs[r] = NoRow THEN "pending" ELSE D.recs[r].status) \in Statuses
    BY DEF Database, RecommendationRow, Statuses
  <1>2. QED
    BY <1>1 DEF UpsertRecommendation, Database, RecommendationRow

LEMMA SetStatusTyped ==
    ASSUME NEW D \in Database, NEW r \in Recommendations, NEW verdict \in Verdicts
    PROVE  SetStatus(D, r, verdict) \in Database
  <1>1. CASE D.recs[r] = NoRow
    BY <1>1 DEF SetStatus
  <1>2. CASE D.recs[r] # NoRow
    <2>1. [D.recs[r] EXCEPT !.status = verdict] \in RecommendationRow
      BY <1>2 DEF Database, RecommendationRow, Statuses
    <2>2. QED
      BY <1>2, <2>1 DEF SetStatus, Database
  <1>3. QED
    BY <1>1, <1>2

LEMMA UpsertDecisionTyped ==
    ASSUME NEW D \in Database, NEW r \in Recommendations,
           NEW verdict \in Verdicts, NEW a \in Analysts
    PROVE  UpsertDecision(D, r, verdict, a) \in Database
  BY DEF UpsertDecision, Database, DecisionRow

LEMMA ReplaceRuleTyped ==
    ASSUME NEW D \in Database, NEW d \in Destinations,
           NEW r \in Recommendations, NEW a \in Analysts
    PROVE  ReplaceRule(D, d, r, a) \in Database
  BY DEF ReplaceRule, Database, RuleRow

LEMMA DeleteDecisionsTyped ==
    ASSUME NEW D \in Database, NEW R
    PROVE  DeleteDecisions(D, R) \in Database
  BY DEF DeleteDecisions, Database

LEMMA DeleteRulesTyped ==
    ASSUME NEW D \in Database, NEW R
    PROVE  DeleteRules(D, R) \in Database
  BY DEF DeleteRules, Database

LEMMA DeleteRecommendationsTyped ==
    ASSUME NEW D \in Database, NEW R
    PROVE  DeleteRecommendations(D, R) \in Database
  BY DEF DeleteRecommendations, Database

LEMMA DeleteFindingsTyped ==
    ASSUME NEW D \in Database, NEW F
    PROVE  DeleteFindings(D, F) \in Database
  BY DEF DeleteFindings, Database

LEMMA DeleteEventsTyped ==
    ASSUME NEW D \in Database, NEW E
    PROVE  DeleteEvents(D, E) \in Database
  BY DEF DeleteEvents, Database

-----------------------------------------------------------------------------
(* Type correctness.  TypeOK is not inductive: the statements of a decision *)
(* use the request the thread holds, so the invariant must say that a       *)
(* thread inside a decision holds one.                                      *)

RequestAsked == \A t \in Threads : pc[t] \in DecideLabels => req[t] \in asked

TypeInv == TypeOK /\ RequestAsked

LEMMA TypeInit == Init => TypeInv
  BY EmptyDatabaseTyped
  DEF Init, TypeInv, TypeOK, RequestAsked, Labels, DecideLabels, Doomed, Nothing

\* The request of a thread inside a decision is a well-formed request.
LEMMA RequestTyped ==
    ASSUME TypeInv, NEW t \in Threads, pc[t] \in DecideLabels
    PROVE  /\ req[t] \in Request
           /\ req[t].rec \in Recommendations
           /\ req[t].verdict \in Verdicts
           /\ req[t].by \in Analysts
           /\ req[t].target \in Destinations
  <1>1. req[t] \in Request
    BY DEF TypeInv, TypeOK, RequestAsked
  <1>2. QED
    BY <1>1 DEF Request

LEMMA TypeStep == TypeInv /\ [Next]_vars => TypeInv'
  <1> SUFFICES ASSUME TypeInv, [Next]_vars
               PROVE  TypeInv'
    OBVIOUS
  <1> USE DEF TypeInv, TypeOK, RequestAsked, Labels, DecideLabels, ClearLabels, Goto
  <1>1. ASSUME NEW t \in Threads, NEW e \in Events, AddEvent(t, e)
        PROVE  TypeInv'
    BY <1>1, InsertEventTyped DEF AddEvent
  <1>2. ASSUME NEW t \in Threads, NEW f \in Findings,
               NEW evidence \in SUBSET Events, PutFinding(t, f, evidence)
        PROVE  TypeInv'
    BY <1>2, UpsertFindingTyped DEF PutFinding
  <1>3. ASSUME NEW t \in Threads, NEW r \in Recommendations,
               NEW f \in Findings, NEW d \in Targets[r],
               PutRecommendation(t, r, f, d)
        PROVE  TypeInv'
    <2>1. d \in Destinations
      BY TablesAssumption
    <2>2. QED
      BY <1>3, <2>1, UpsertRecommendationTyped DEF PutRecommendation
  <1>4. ASSUME NEW t \in Threads, Commit(t)
        PROVE  TypeInv'
    BY <1>4 DEF Commit
  <1>5. ASSUME NEW t \in Threads, NEW r \in Recommendations,
               NEW verdict \in Verdicts, NEW a \in Analysts,
               DecideSelect(t, r, verdict, a)
        PROVE  TypeInv'
    <2>1. [rec |-> r, verdict |-> verdict, by |-> a,
           target |-> db.recs[r].target] \in Request
      BY <1>5 DEF DecideSelect, Request, Database, RecommendationRow
    <2>2. QED
      BY <1>5, <2>1 DEF DecideSelect
  <1>6. ASSUME NEW t \in Threads, DecideCheck(t)
        PROVE  TypeInv'
    BY <1>6 DEF DecideCheck
  <1>7. ASSUME NEW t \in Threads, DecideStatus(t)
        PROVE  TypeInv'
    BY <1>7, RequestTyped, SetStatusTyped DEF DecideStatus
  <1>8. ASSUME NEW t \in Threads, DecideDecision(t)
        PROVE  TypeInv'
    BY <1>8, RequestTyped, UpsertDecisionTyped DEF DecideDecision
  <1>9. ASSUME NEW t \in Threads, DecideRule(t)
        PROVE  TypeInv'
    BY <1>9, RequestTyped, ReplaceRuleTyped DEF DecideRule
  <1>10. ASSUME NEW t \in Threads, ClearSelect(t)
         PROVE  TypeInv'
    BY <1>10 DEF ClearSelect, Doomed, DemoEventsIn, FindingsDerivedFrom, Database
  <1>11. ASSUME NEW t \in Threads, ClearSelectRecs(t)
         PROVE  TypeInv'
    BY <1>11 DEF ClearSelectRecs, Doomed, RecommendationsFor
  <1>12. ASSUME NEW t \in Threads,
                \/ ClearDecisions(t) \/ ClearRules(t)
                \/ ClearRecommendations(t) \/ ClearFindings(t)
         PROVE  TypeInv'
    BY <1>12, DeleteDecisionsTyped, DeleteRulesTyped,
       DeleteRecommendationsTyped, DeleteFindingsTyped
    DEF ClearDecisions, ClearRules, ClearRecommendations, ClearFindings, ClearDelete
  <1>13. ASSUME NEW t \in Threads, ClearEvents(t)
         PROVE  TypeInv'
    BY <1>13, DeleteEventsTyped DEF ClearEvents, ClearDelete, Doomed, Nothing
  <1>14. CASE Crash
    BY <1>14 DEF Crash, Doomed, Nothing
  <1>15. CASE UNCHANGED vars
    BY <1>15 DEF vars
  <1>16. QED
    BY <1>1, <1>2, <1>3, <1>4, <1>5, <1>6, <1>7, <1>8, <1>9, <1>10, <1>11,
       <1>12, <1>13, <1>14, <1>15
    DEF Next, Detect, Recommend, Decide, Clear

\* Every table, thread and request is well typed in every reachable state.
THEOREM TypeCorrect == Spec => []TypeOK
  <1>1. Spec => []TypeInv
    BY TypeInit, TypeStep, PTL DEF Spec
  <1>2. TypeInv => TypeOK
    BY DEF TypeInv
  <1>3. QED
    BY <1>1, <1>2, PTL

-----------------------------------------------------------------------------
(* Only an analyst's approval puts a destination on the denylist.           *)

\* A thread about to write a rule is carrying out an approval.
RuleWriterApproves == \A t \in Threads : pc[t] = "rule" => req[t].verdict = "approved"

ApprovalInv == TypeInv /\ RuleWriterApproves /\ HumanApproved

\* Only three statements touch the rules table.
LEMMA RulesUntouched ==
    ASSUME NEW D \in Database
    PROVE  /\ \A e : InsertEvent(D, e).rules = D.rules
           /\ \A f, evidence : UpsertFinding(D, f, evidence).rules = D.rules
           /\ \A r, f, d : UpsertRecommendation(D, r, f, d).rules = D.rules
           /\ \A r, verdict : SetStatus(D, r, verdict).rules = D.rules
           /\ \A r, verdict, a : UpsertDecision(D, r, verdict, a).rules = D.rules
           /\ \A R : DeleteDecisions(D, R).rules = D.rules
           /\ \A R : DeleteRecommendations(D, R).rules = D.rules
           /\ \A F : DeleteFindings(D, F).rules = D.rules
           /\ \A E : DeleteEvents(D, E).rules = D.rules
  BY DEF Database, InsertEvent, UpsertFinding, UpsertRecommendation, SetStatus,
         UpsertDecision, DeleteDecisions, DeleteRecommendations,
         DeleteFindings, DeleteEvents

LEMMA ApprovalInit == Init => ApprovalInv
  BY TypeInit
  DEF Init, ApprovalInv, RuleWriterApproves, HumanApproved, HumanApprovedIn,
      EmptyDatabase

\* The only way to the rule statement is a decision that approves.
LEMMA RuleWriterStep ==
    ASSUME TypeInv, RuleWriterApproves, [Next]_vars
    PROVE  RuleWriterApproves'
  BY DEF RuleWriterApproves, TypeInv, TypeOK, Next, Detect, Recommend, Decide,
         Clear, vars, Goto, AddEvent, PutFinding, PutRecommendation, Commit,
         DecideSelect, DecideCheck, DecideStatus, DecideDecision, DecideRule,
         ClearSelect, ClearSelectRecs, ClearDecisions, ClearRules,
         ClearRecommendations, ClearFindings, ClearEvents, ClearDelete, Crash

LEMMA HumanApprovedStep ==
    ASSUME ApprovalInv, [Next]_vars
    PROVE  HumanApproved'
  <1> USE DEF ApprovalInv, HumanApproved, HumanApprovedIn
  <1>1. db \in Database /\ disk \in Database
    BY DEF TypeInv, TypeOK
  <1>2. ASSUME NEW t \in Threads, Detect(t) \/ Recommend(t)
        PROVE  HumanApproved'
    <2>1. db'.rules = db.rules /\ disk' = disk /\ asked' = asked
      BY <1>1, <1>2, RulesUntouched
      DEF Detect, Recommend, AddEvent, PutFinding, PutRecommendation
    <2>2. QED
      BY <2>1
  <1>3. ASSUME NEW t \in Threads, Commit(t)
        PROVE  HumanApproved'
    BY <1>3 DEF Commit
  <1>4. ASSUME NEW t \in Threads, NEW r \in Recommendations,
               NEW verdict \in Verdicts, NEW a \in Analysts,
               DecideSelect(t, r, verdict, a)
        PROVE  HumanApproved'
    BY <1>4 DEF DecideSelect
  <1>5. ASSUME NEW t \in Threads, DecideCheck(t)
        PROVE  HumanApproved'
    BY <1>5 DEF DecideCheck
  <1>6. ASSUME NEW t \in Threads, DecideStatus(t) \/ DecideDecision(t)
        PROVE  HumanApproved'
    <2>1. db'.rules = db.rules /\ disk' = disk /\ asked' = asked
      BY <1>1, <1>6, RulesUntouched DEF DecideStatus, DecideDecision
    <2>2. QED
      BY <2>1
  <1>7. ASSUME NEW t \in Threads, DecideRule(t)
        PROVE  HumanApproved'
    <2>1. /\ req[t] \in asked
          /\ req[t] \in Request
          /\ req[t].verdict = "approved"
      BY <1>7, RequestTyped
      DEF DecideRule, RuleWriterApproves, TypeInv, RequestAsked, DecideLabels
    <2>2. req[t] = [rec |-> req[t].rec, verdict |-> "approved",
                    by |-> req[t].by, target |-> req[t].target]
      BY <2>1 DEF Request
    <2>3. ASSUME NEW d \in Destinations
          PROVE  db'.rules[d] = IF d = req[t].target
                                THEN [rec |-> req[t].rec, by |-> req[t].by]
                                ELSE db.rules[d]
      BY <1>1, <1>7, <2>1 DEF DecideRule, ReplaceRule, Database, Request
    <2>4. disk' = disk /\ asked' = asked
      BY <1>7 DEF DecideRule
    <2>5. QED
      BY <2>1, <2>2, <2>3, <2>4
  <1>8. ASSUME NEW t \in Threads, ClearRules(t)
        PROVE  HumanApproved'
    <2>1. \A d \in Destinations : db'.rules[d] \in {db.rules[d], NoRow}
      BY <1>1, <1>8 DEF ClearRules, ClearDelete, DeleteRules, Database
    <2>2. disk' = disk /\ asked' = asked
      BY <1>8 DEF ClearRules, ClearDelete
    <2>3. QED
      BY <2>1, <2>2
  <1>9. ASSUME NEW t \in Threads,
               \/ ClearSelect(t) \/ ClearSelectRecs(t)
               \/ ClearDecisions(t) \/ ClearRecommendations(t)
               \/ ClearFindings(t) \/ ClearEvents(t)
        PROVE  HumanApproved'
    <2>1. db'.rules = db.rules /\ disk' = disk /\ asked' = asked
      BY <1>1, <1>9, RulesUntouched
      DEF ClearSelect, ClearSelectRecs, ClearDecisions, ClearRecommendations,
          ClearFindings, ClearEvents, ClearDelete
    <2>2. QED
      BY <2>1
  <1>10. CASE Crash
    BY <1>10 DEF Crash
  <1>11. CASE UNCHANGED vars
    BY <1>11 DEF vars
  <1>12. QED
    BY <1>2, <1>3, <1>4, <1>5, <1>6, <1>7, <1>8, <1>9, <1>10, <1>11
    DEF Next, Decide, Clear

\* Whatever requests overlap and whenever the process dies, a destination is
\* denied only on the approval of the analyst its rule names.
THEOREM RulesAreHumanApproved == Spec => []HumanApproved
  <1>1. ApprovalInv /\ [Next]_vars => ApprovalInv'
    BY TypeStep, RuleWriterStep, HumanApprovedStep DEF ApprovalInv
  <1>2. Spec => []ApprovalInv
    BY ApprovalInit, <1>1, PTL DEF Spec
  <1>3. ApprovalInv => HumanApproved
    BY DEF ApprovalInv
  <1>4. QED
    BY <1>2, <1>3, PTL

-----------------------------------------------------------------------------
(* What a finished request wrote is on disk.                               *)

\* Labels at which a thread may have written something it has not committed.
DirtyLabels ==
    {"decision", "rule", "commit", "delete_rules", "delete_recs",
     "delete_findings", "delete_events"}

\* Any uncommitted write belongs to some thread that is still to commit.
WriterPending == db # disk => \E t \in Threads : pc[t] \in DirtyLabels

LEMMA WriterPendingStep ==
    ASSUME TypeInv, WriterPending, [Next]_vars
    PROVE  WriterPending'
  <1> USE DEF WriterPending, DirtyLabels, TypeInv, TypeOK, Goto
  <1>1. ASSUME NEW t \in Threads, Detect(t) \/ Recommend(t)
        PROVE  WriterPending'
    BY <1>1 DEF Detect, Recommend, AddEvent, PutFinding, PutRecommendation
  <1>2. ASSUME NEW t \in Threads, Commit(t)
        PROVE  WriterPending'
    BY <1>2 DEF Commit
  <1>3. ASSUME NEW t \in Threads, Decide(t)
        PROVE  WriterPending'
    BY <1>3 DEF Decide, DecideSelect, DecideCheck, DecideStatus,
                DecideDecision, DecideRule
  <1>4. ASSUME NEW t \in Threads, Clear(t)
        PROVE  WriterPending'
    BY <1>4 DEF Clear, ClearSelect, ClearSelectRecs, ClearDecisions, ClearRules,
                ClearRecommendations, ClearFindings, ClearEvents, ClearDelete
  <1>5. CASE Crash
    BY <1>5 DEF Crash
  <1>6. CASE UNCHANGED vars
    BY <1>6 DEF vars
  <1>7. QED
    BY <1>1, <1>2, <1>3, <1>4, <1>5, <1>6 DEF Next

\* At rest the shared connection's view is the committed one.
THEOREM AtRestIsCommitted == Spec => []AtRestCommitted
  <1>1. Init => TypeInv /\ WriterPending
    BY TypeInit DEF Init, WriterPending
  <1>2. TypeInv /\ WriterPending /\ [Next]_vars => (TypeInv /\ WriterPending)'
    BY TypeStep, WriterPendingStep
  <1>3. WriterPending => AtRestCommitted
    BY DEF WriterPending, AtRestCommitted, AtRest, DirtyLabels
  <1>4. QED
    BY <1>1, <1>2, <1>3, PTL DEF Spec

-----------------------------------------------------------------------------
(* Without demo clears a rule is never on disk without its decision.       *)

\* A thread about to write a rule has a decision in the table.
DecisionFirst ==
    \A t \in Threads : pc[t] = "rule" => db.decisions[req[t].rec] # NoRow

DecisionInv == TypeInv /\ DecisionFirst /\ RuleHasDecision

LEMMA NoClearNext == NextNoClear => Next
  BY DEF NextNoClear, Next

LEMMA DecisionStep == DecisionInv /\ [NextNoClear]_vars => DecisionInv'
  <1> SUFFICES ASSUME DecisionInv, [NextNoClear]_vars
               PROVE  DecisionFirst' /\ RuleHasDecision'
    BY NoClearNext, TypeStep DEF DecisionInv
  <1> USE DEF DecisionInv, DecisionFirst, RuleHasDecision, RuleHasDecisionIn
  <1>1. /\ db \in Database /\ disk \in Database
        /\ pc \in [Threads -> Labels] /\ req \in [Threads -> Request \cup {NoRow}]
    BY DEF TypeInv, TypeOK
  <1>2. ASSUME NEW t \in Threads, NEW r \in Recommendations,
               NEW f \in Findings, NEW d, PutRecommendation(t, r, f, d)
        PROVE  DecisionFirst' /\ RuleHasDecision'
    <2>1. db'.rules = db.rules /\ db'.decisions = db.decisions
      BY <1>1, <1>2 DEF PutRecommendation, UpsertRecommendation, Database
    <2>2. QED
      BY <1>1, <1>2, <2>1 DEF PutRecommendation, Goto
  <1>3. ASSUME NEW t \in Threads, Commit(t)
        PROVE  DecisionFirst' /\ RuleHasDecision'
    BY <1>1, <1>3 DEF Commit, Goto
  <1>4. ASSUME NEW t \in Threads, NEW r \in Recommendations,
               NEW verdict \in Verdicts, NEW a \in Analysts,
               DecideSelect(t, r, verdict, a)
        PROVE  DecisionFirst' /\ RuleHasDecision'
    BY <1>1, <1>4 DEF DecideSelect, Goto
  <1>5. ASSUME NEW t \in Threads, DecideCheck(t)
        PROVE  DecisionFirst' /\ RuleHasDecision'
    BY <1>1, <1>5 DEF DecideCheck, Goto
  <1>6. ASSUME NEW t \in Threads, DecideStatus(t)
        PROVE  DecisionFirst' /\ RuleHasDecision'
    <2>1. db'.rules = db.rules /\ db'.decisions = db.decisions
      BY <1>1, <1>6 DEF DecideStatus, SetStatus, Database
    <2>2. QED
      BY <1>1, <1>6, <2>1 DEF DecideStatus, Goto
  <1>7. ASSUME NEW t \in Threads, DecideDecision(t)
        PROVE  DecisionFirst' /\ RuleHasDecision'
    <2>1. req[t].rec \in Recommendations /\ req[t].verdict \in Verdicts
          /\ req[t].by \in Analysts
      BY <1>7, RequestTyped DEF DecideDecision, DecideLabels
    <2>2. [decision |-> req[t].verdict, by |-> req[t].by] # NoRow
      BY <2>1, NoRowAssumption DEF DecisionRow
    <2>3. /\ db'.rules = db.rules
          /\ \A r \in Recommendations :
                db'.decisions[r] = IF r = req[t].rec
                                   THEN [decision |-> req[t].verdict, by |-> req[t].by]
                                   ELSE db.decisions[r]
      BY <1>1, <1>7 DEF DecideDecision, UpsertDecision, Database
    <2>4. \A d \in Destinations :
             db.rules[d] # NoRow => db.rules[d].rec \in Recommendations
      BY <1>1 DEF Database, RuleRow
    <2>5. RuleHasDecision'
      BY <1>7, <2>2, <2>3, <2>4 DEF DecideDecision
    <2>6. \A u \in Threads : pc[u] = "rule" => req[u].rec \in Recommendations
      BY RequestTyped DEF DecideLabels
    <2>7. DecisionFirst'
      BY <1>1, <1>7, <2>1, <2>2, <2>3, <2>6 DEF DecideDecision, Goto
    <2>8. QED
      BY <2>5, <2>7
  <1>8. ASSUME NEW t \in Threads, DecideRule(t)
        PROVE  DecisionFirst' /\ RuleHasDecision'
    <2>1. req[t].target \in Destinations
      BY <1>8, RequestTyped DEF DecideRule, DecideLabels
    <2>2. /\ db'.decisions = db.decisions
          /\ \A d \in Destinations :
                db'.rules[d] = IF d = req[t].target
                               THEN [rec |-> req[t].rec, by |-> req[t].by]
                               ELSE db.rules[d]
      BY <1>1, <1>8 DEF DecideRule, ReplaceRule, Database
    <2>3. db.decisions[req[t].rec] # NoRow
      BY <1>8 DEF DecideRule
    <2>4. QED
      BY <1>1, <1>8, <2>1, <2>2, <2>3 DEF DecideRule, Goto
  <1>9. CASE Crash
    BY <1>9 DEF Crash
  <1>10. CASE UNCHANGED vars
    BY <1>10 DEF vars
  <1>11. QED
    BY <1>2, <1>3, <1>4, <1>5, <1>6, <1>7, <1>8, <1>9, <1>10
    DEF NextNoClear, Recommend, Decide

\* Overlapping decisions and crashes never leave a rule, in memory or on
\* disk, whose recommendation has no recorded decision.
THEOREM DecisionBeforeRule == SpecNoClear => []RuleHasDecision
  <1>1. Init => DecisionInv
    BY TypeInit
    DEF Init, DecisionInv, DecisionFirst, RuleHasDecision, RuleHasDecisionIn,
        EmptyDatabase
  <1>2. DecisionInv => RuleHasDecision
    BY DEF DecisionInv
  <1>3. QED
    BY <1>1, <1>2, DecisionStep, PTL DEF SpecNoClear

-----------------------------------------------------------------------------
(* With one request at a time the committed tables implement the approval  *)
(* ledger.  The argument: between two commits the connection's tables are  *)
(* the committed ones with a known prefix of one handler's statements      *)
(* applied, so the commit that ends the handler is one ledger step and     *)
(* everything else, a crash included, leaves the committed tables alone.   *)

\* One request at a time: no two threads.
Serial == \A t, u \in Threads : t = u

\* The request that thread t is carrying out, on the committed tables.
Undecided(t) ==
    /\ req[t] \in Request
    /\ disk.recs[req[t].rec] # NoRow
    /\ disk.decisions[req[t].rec] = NoRow
    /\ req[t].target = disk.recs[req[t].rec].target

StatusSet(t) == SetStatus(disk, req[t].rec, req[t].verdict)

DecisionSet(t) ==
    UpsertDecision(StatusSet(t), req[t].rec, req[t].verdict, req[t].by)

\* The ids thread t's demo clear has to collect from the committed tables.
CollectedFindings(t) ==
    /\ doomed[t].events = DemoEventsIn(disk)
    /\ doomed[t].findings = FindingsDerivedFrom(disk, doomed[t].events)

Collected(t) ==
    /\ CollectedFindings(t)
    /\ doomed[t].recs = RecommendationsFor(disk, doomed[t].findings)

AfterDecisions(t) == DeleteDecisions(disk, doomed[t].recs)
AfterRules(t)     == DeleteRules(AfterDecisions(t), doomed[t].recs)
AfterRecs(t)      == DeleteRecommendations(AfterRules(t), doomed[t].recs)
AfterFindings(t)  == DeleteFindings(AfterRecs(t), doomed[t].findings)

\* The connection's tables are one ledger step ahead of the committed ones.
OneStepAhead ==
    \/ \E e \in Events : db = InsertEvent(disk, e)
    \/ \E f \in Findings, evidence \in (SUBSET Events) \ {{}} :
            db = UpsertFinding(disk, f, evidence)
    \/ \E r \in Recommendations, f \in Findings :
            \E d \in Targets[r] : db = UpsertRecommendation(disk, r, f, d)
    \/ \E r \in Recommendations, verdict \in Verdicts, a \in Analysts :
            /\ disk.recs[r] # NoRow
            /\ disk.decisions[r] = NoRow
            /\ db = Ledger!Decided(disk, r, disk.recs[r].target, verdict, a)
    \/ LET E == DemoEventsIn(disk)
           F == FindingsDerivedFrom(disk, E)
           R == RecommendationsFor(disk, F)
       IN  db = Ledger!Cleared(disk, E, F, R)

\* Where thread t is determines how far the tables are ahead.
Progress(t) ==
    /\ pc[t] = "idle"             => db = disk
    /\ pc[t] = "check"            => /\ db = disk
                                     /\ req[t] \in Request
                                     /\ disk.recs[req[t].rec] # NoRow
                                     /\ req[t].target = disk.recs[req[t].rec].target
    /\ pc[t] = "status"           => Undecided(t) /\ db = disk
    /\ pc[t] = "decision"         => Undecided(t) /\ db = StatusSet(t)
    /\ pc[t] = "rule"             => /\ Undecided(t)
                                     /\ req[t].verdict = "approved"
                                     /\ db = DecisionSet(t)
    /\ pc[t] = "select_recs"      => CollectedFindings(t) /\ db = disk
    /\ pc[t] = "delete_decisions" => Collected(t) /\ db = disk
    /\ pc[t] = "delete_rules"     => Collected(t) /\ db = AfterDecisions(t)
    /\ pc[t] = "delete_recs"      => Collected(t) /\ db = AfterRules(t)
    /\ pc[t] = "delete_findings"  => Collected(t) /\ db = AfterRecs(t)
    /\ pc[t] = "delete_events"    => Collected(t) /\ db = AfterFindings(t)
    /\ pc[t] = "commit"           => OneStepAhead

SerialInv == TypeInv /\ \A t \in Threads : Progress(t)

LEMMA SerialInit == Init => SerialInv
  BY TypeInit DEF Init, SerialInv, Progress

LEMMA SerialStep ==
    ASSUME Serial, SerialInv, [Next]_vars
    PROVE  SerialInv'
  <1>1. TypeInv'
    BY TypeStep DEF SerialInv
  <1> SUFFICES ASSUME NEW u \in Threads
               PROVE  Progress(u)'
    BY <1>1 DEF SerialInv
  <1>2. \A t \in Threads : t = u
    BY DEF Serial
  <1>3. Progress(u) /\ pc \in [Threads -> Labels] /\ req \in [Threads -> Request \cup {NoRow}]
        /\ doomed \in [Threads -> Doomed] /\ db \in Database /\ disk \in Database
    BY DEF SerialInv, TypeInv, TypeOK
  <1>4. ASSUME NEW t \in Threads, Detect(t)
        PROVE  Progress(u)'
    <2>1. pc[u] = "idle" /\ pc'[u] = "commit" /\ disk' = disk
      BY <1>2, <1>3, <1>4 DEF Detect, AddEvent, PutFinding, Goto
    <2>2. db = disk
      BY <1>3, <2>1 DEF Progress
    <2>3. OneStepAhead'
      BY <1>4, <2>1, <2>2 DEF Detect, AddEvent, PutFinding, OneStepAhead
    <2>4. QED
      BY <2>1, <2>3 DEF Progress
  <1>5. ASSUME NEW t \in Threads, Recommend(t)
        PROVE  Progress(u)'
    <2>1. pc[u] = "idle" /\ pc'[u] = "commit" /\ disk' = disk
      BY <1>2, <1>3, <1>5 DEF Recommend, PutRecommendation, Goto
    <2>2. db = disk
      BY <1>3, <2>1 DEF Progress
    <2>3. OneStepAhead'
      BY <1>5, <2>1, <2>2 DEF Recommend, PutRecommendation, OneStepAhead
    <2>4. QED
      BY <2>1, <2>3 DEF Progress
  <1>6. ASSUME NEW t \in Threads, Commit(t)
        PROVE  Progress(u)'
    BY <1>2, <1>3, <1>6 DEF Commit, Goto, Progress
  <1>7. ASSUME NEW t \in Threads, Decide(t)
        PROVE  Progress(u)'
    <2>1. ASSUME NEW r \in Recommendations, NEW verdict \in Verdicts,
                 NEW a \in Analysts, DecideSelect(t, r, verdict, a)
          PROVE  Progress(u)'
      <3>1. db' = db /\ disk' = disk /\ db = disk /\ pc'[u] = "check"
        BY <1>2, <1>3, <2>1 DEF DecideSelect, Goto, Progress
      <3>2. req'[u] = [rec |-> r, verdict |-> verdict, by |-> a,
                       target |-> db.recs[r].target]
        BY <1>2, <1>3, <2>1 DEF DecideSelect
      <3>3. req'[u] \in Request /\ db.recs[r] # NoRow
        BY <1>3, <2>1, <3>2 DEF DecideSelect, Request, Database, RecommendationRow
      <3>4. QED
        BY <3>1, <3>2, <3>3 DEF Progress
    <2>2. CASE DecideCheck(t)
      BY <1>2, <1>3, <2>2 DEF DecideCheck, Goto, Progress, Undecided
    <2>3. CASE DecideStatus(t)
      BY <1>2, <1>3, <2>3 DEF DecideStatus, Goto, Progress, Undecided, StatusSet
    <2>4. CASE DecideDecision(t)
      <3>1. /\ Undecided(u) /\ db = StatusSet(u)
            /\ disk' = disk /\ db' = DecisionSet(u)
        BY <1>2, <1>3, <2>4 DEF DecideDecision, Progress, DecisionSet
      <3>2. CASE req[u].verdict = "approved"
        BY <1>2, <1>3, <2>4, <3>1, <3>2
        DEF DecideDecision, Goto, Progress, Undecided, DecisionSet, StatusSet
      <3>3. CASE req[u].verdict # "approved"
        <4>1. pc'[u] = "commit"
          BY <1>2, <1>3, <2>4, <3>3 DEF DecideDecision, Goto
        <4>2. db' = Ledger!Decided(disk, req[u].rec, disk.recs[req[u].rec].target,
                                   req[u].verdict, req[u].by)
          BY <3>1, <3>3
          DEF DecisionSet, StatusSet, Ledger!Decided, Ledger!SetStatus, SetStatus,
              Ledger!UpsertDecision, UpsertDecision
        <4>3. OneStepAhead'
          BY <3>1, <4>2 DEF OneStepAhead, Undecided, Request
        <4>4. QED
          BY <4>1, <4>3 DEF Progress
      <3>4. QED
        BY <3>2, <3>3
    <2>5. CASE DecideRule(t)
      <3>1. /\ Undecided(u) /\ db = DecisionSet(u) /\ req[u].verdict = "approved"
            /\ disk' = disk /\ pc'[u] = "commit"
            /\ db' = ReplaceRule(DecisionSet(u), req[u].target, req[u].rec, req[u].by)
        BY <1>2, <1>3, <2>5 DEF DecideRule, Progress, Goto
      <3>2. db' = Ledger!Decided(disk, req[u].rec, disk.recs[req[u].rec].target,
                                 req[u].verdict, req[u].by)
        BY <3>1
        DEF DecisionSet, StatusSet, Undecided, Ledger!Decided, Ledger!SetStatus,
            SetStatus, Ledger!UpsertDecision, UpsertDecision, Ledger!ReplaceRule,
            ReplaceRule
      <3>3. OneStepAhead'
        BY <3>1, <3>2 DEF OneStepAhead, Undecided, Request
      <3>4. QED
        BY <3>1, <3>3 DEF Progress
    <2>6. QED
      BY <1>7, <2>1, <2>2, <2>3, <2>4, <2>5 DEF Decide
  <1>8. ASSUME NEW t \in Threads, Clear(t)
        PROVE  Progress(u)'
    <2>1. CASE ClearSelect(t)
      BY <1>2, <1>3, <2>1 DEF ClearSelect, Goto, Progress, CollectedFindings
    <2>2. CASE ClearSelectRecs(t)
      BY <1>2, <1>3, <2>2
      DEF ClearSelectRecs, Goto, Progress, CollectedFindings, Collected, Doomed
    <2>3. CASE ClearDecisions(t)
      BY <1>2, <1>3, <2>3
      DEF ClearDecisions, ClearDelete, Goto, Progress, Collected,
          CollectedFindings, AfterDecisions
    <2>4. CASE ClearRules(t)
      BY <1>2, <1>3, <2>4
      DEF ClearRules, ClearDelete, Goto, Progress, Collected,
          CollectedFindings, AfterDecisions, AfterRules
    <2>5. CASE ClearRecommendations(t)
      BY <1>2, <1>3, <2>5
      DEF ClearRecommendations, ClearDelete, Goto, Progress, Collected,
          CollectedFindings, AfterDecisions, AfterRules, AfterRecs
    <2>6. CASE ClearFindings(t)
      BY <1>2, <1>3, <2>6
      DEF ClearFindings, ClearDelete, Goto, Progress, Collected,
          CollectedFindings, AfterDecisions, AfterRules, AfterRecs, AfterFindings
    <2>7. CASE ClearEvents(t)
      <3>1. /\ Collected(u) /\ db = AfterFindings(u)
            /\ disk' = disk /\ pc'[u] = "commit"
            /\ db' = DeleteEvents(AfterFindings(u), doomed[u].events)
        BY <1>2, <1>3, <2>7 DEF ClearEvents, ClearDelete, Progress, Goto
      <3>2. db' = Ledger!Cleared(disk, doomed[u].events, doomed[u].findings,
                                 doomed[u].recs)
        BY <3>1
        DEF AfterDecisions, AfterRules, AfterRecs, AfterFindings,
            Ledger!Cleared, Ledger!DeleteEvents, Ledger!DeleteFindings,
            Ledger!DeleteRecommendations, Ledger!DeleteRules,
            Ledger!DeleteDecisions, DeleteEvents, DeleteFindings,
            DeleteRecommendations, DeleteRules, DeleteDecisions
      <3>3. OneStepAhead'
        BY <3>1, <3>2 DEF OneStepAhead, Collected, CollectedFindings
      <3>4. QED
        BY <3>1, <3>3 DEF Progress
    <2>8. QED
      BY <1>8, <2>1, <2>2, <2>3, <2>4, <2>5, <2>6, <2>7 DEF Clear
  <1>9. CASE Crash
    BY <1>9 DEF Crash, Progress
  <1>10. CASE UNCHANGED vars
    BY <1>3, <1>10
    DEF vars, Progress, Undecided, StatusSet, DecisionSet, CollectedFindings,
        Collected, AfterDecisions, AfterRules, AfterRecs, AfterFindings, OneStepAhead
  <1>11. QED
    BY <1>4, <1>5, <1>6, <1>7, <1>8, <1>9, <1>10 DEF Next

-----------------------------------------------------------------------------
(* The refinement.                                                         *)

\* A commit one step ahead is a step of the ledger.
LEMMA AheadIsLedgerStep ==
    ASSUME OneStepAhead, disk' = db
    PROVE  Ledger!LedgerNext
  <1> USE DEF Ledger!LedgerNext, Ledger!Verdicts, Verdicts
  <1>1. ASSUME NEW e \in Events, db = InsertEvent(disk, e)
        PROVE  Ledger!LedgerNext
    BY <1>1 DEF Ledger!RecordEvent, Ledger!InsertEvent, InsertEvent
  <1>2. ASSUME NEW f \in Findings, NEW evidence \in (SUBSET Events) \ {{}},
               db = UpsertFinding(disk, f, evidence)
        PROVE  Ledger!LedgerNext
    BY <1>2 DEF Ledger!RecordFinding, Ledger!UpsertFinding, UpsertFinding
  <1>3. ASSUME NEW r \in Recommendations, NEW f \in Findings, NEW d \in Targets[r],
               db = UpsertRecommendation(disk, r, f, d)
        PROVE  Ledger!LedgerNext
    BY <1>3
    DEF Ledger!Propose, Ledger!UpsertRecommendation, UpsertRecommendation
  <1>4. ASSUME NEW r \in Recommendations, NEW verdict \in Verdicts, NEW a \in Analysts,
               disk.recs[r] # NoRow, disk.decisions[r] = NoRow,
               db = Ledger!Decided(disk, r, disk.recs[r].target, verdict, a)
        PROVE  Ledger!LedgerNext
    BY <1>4 DEF Ledger!Decide
  <1>5. CASE db = Ledger!Cleared(disk, DemoEventsIn(disk),
                    FindingsDerivedFrom(disk, DemoEventsIn(disk)),
                    RecommendationsFor(disk,
                        FindingsDerivedFrom(disk, DemoEventsIn(disk))))
    BY <1>5
    DEF Ledger!ClearDemoData, Ledger!DemoEventsIn, DemoEventsIn,
        Ledger!FindingsDerivedFrom, FindingsDerivedFrom,
        Ledger!RecommendationsFor, RecommendationsFor
  <1>6. QED
    BY <1>1, <1>2, <1>3, <1>4, <1>5 DEF OneStepAhead

LEMMA LedgerStep ==
    ASSUME SerialInv, [Next]_vars
    PROVE  [Ledger!LedgerNext]_disk
  <1>1. ASSUME NEW t \in Threads, Commit(t)
        PROVE  Ledger!LedgerNext
    BY <1>1, AheadIsLedgerStep DEF Commit, SerialInv, Progress
  <1>2. (\A t \in Threads : ~ Commit(t)) => disk' = disk
    BY DEF Next, Detect, Recommend, Decide, Clear, vars, AddEvent, PutFinding,
           PutRecommendation, DecideSelect, DecideCheck, DecideStatus,
           DecideDecision, DecideRule, ClearSelect, ClearSelectRecs,
           ClearDecisions, ClearRules, ClearRecommendations, ClearFindings,
           ClearEvents, ClearDelete, Crash
  <1>3. QED
    BY <1>1, <1>2

\* One request at a time, crashes included, the store keeps the ledger's
\* promise: every request is committed whole or not at all.
THEOREM SerialStoreImplementsLedger ==
    ASSUME Serial
    PROVE  Spec => LedgerImplemented
  <1>1. Init => Ledger!LedgerInit
    BY DEF Init, Ledger!LedgerInit, Ledger!EmptyDatabase, EmptyDatabase
  <1>2. SerialInv /\ [Next]_vars => SerialInv'
    BY SerialStep
  <1>3. SerialInv /\ [Next]_vars => [Ledger!LedgerNext]_disk
    BY LedgerStep
  <1>4. QED
    BY SerialInit, <1>1, <1>2, <1>3, PTL
    DEF Spec, LedgerImplemented, Ledger!LedgerSpec

-----------------------------------------------------------------------------
(* Every committed rule has a standing approval.                           *)

LEMMA RuleBackedStep ==
    ASSUME disk \in Database, RuleBacked, [Ledger!LedgerNext]_disk
    PROVE  RuleBacked'
  <1> USE DEF RuleBacked, Database
  <1>1. ASSUME NEW e \in Events, Ledger!RecordEvent(e)
        PROVE  RuleBacked'
    BY <1>1 DEF Ledger!RecordEvent, Ledger!InsertEvent
  <1>2. ASSUME NEW f \in Findings, NEW evidence, Ledger!RecordFinding(f, evidence)
        PROVE  RuleBacked'
    BY <1>2 DEF Ledger!RecordFinding, Ledger!UpsertFinding
  <1>3. ASSUME NEW r \in Recommendations, NEW f \in Findings, NEW d \in Targets[r],
               Ledger!Propose(r, f, d)
        PROVE  RuleBacked'
    <2> DEFINE status == IF disk.recs[r] = NoRow THEN "pending" ELSE disk.recs[r].status
               row == [status |-> status, finding |-> f, target |-> d]
    <2>1. row # NoRow
      <3>1. row \in RecommendationRow
        BY TablesAssumption DEF RecommendationRow, Statuses
      <3>2. QED
        BY <3>1, NoRowAssumption
    <2>2. /\ disk'.rules = disk.rules /\ disk'.decisions = disk.decisions
          /\ \A x \in Recommendations :
                disk'.recs[x] = IF x = r THEN row ELSE disk.recs[x]
      BY <1>3 DEF Ledger!Propose, Ledger!UpsertRecommendation
    <2>3. QED
      BY <2>1, <2>2 DEF RuleRow
  <1>4. ASSUME NEW r \in Recommendations, NEW verdict \in Verdicts,
               NEW a \in Analysts, Ledger!Decide(r, verdict, a)
        PROVE  RuleBacked'
    <2> DEFINE row == [disk.recs[r] EXCEPT !.status = verdict]
               d == disk.recs[r].target
    <2>1. disk.recs[r] # NoRow /\ disk.decisions[r] = NoRow
      BY <1>4 DEF Ledger!Decide
    <2>2. row \in RecommendationRow /\ row.status = verdict /\ row # NoRow
          /\ d \in Destinations
      BY <2>1, NoRowAssumption DEF RecommendationRow, Statuses
    <2> DEFINE marked  == SetStatus(disk, r, verdict)
               decided == UpsertDecision(marked, r, verdict, a)
    <2>3. disk' = IF verdict = "approved" THEN ReplaceRule(decided, d, r, a) ELSE decided
      BY <1>4
      DEF Ledger!Decide, Ledger!Decided, Ledger!SetStatus, Ledger!UpsertDecision,
          Ledger!ReplaceRule, SetStatus, UpsertDecision, ReplaceRule
    <2>4. /\ marked \in Database
          /\ marked.rules = disk.rules /\ marked.decisions = disk.decisions
          /\ marked.recs = [disk.recs EXCEPT ![r] = row]
      BY <2>1, <1>4, SetStatusTyped DEF SetStatus
    <2>5. /\ decided \in Database
          /\ decided.rules = disk.rules /\ decided.recs = marked.recs
          /\ decided.decisions =
                [disk.decisions EXCEPT ![r] = [decision |-> verdict, by |-> a]]
      BY <2>4, UpsertDecisionTyped DEF UpsertDecision
    <2>6. /\ disk'.recs = decided.recs /\ disk'.decisions = decided.decisions
          /\ \A x \in Destinations :
                disk'.rules[x] = IF verdict = "approved" /\ x = d
                                 THEN [rec |-> r, by |-> a] ELSE disk.rules[x]
      BY <2>2, <2>3, <2>5 DEF ReplaceRule
    \* No rule of r stands yet: it would have a decision.
    <2>7. \A x \in Destinations : disk.rules[x] # NoRow =>
             disk.rules[x].rec # r /\ disk.rules[x].rec \in Recommendations
      <3>1. NoRow # [decision |-> "approved", by |-> a]
        BY NoRowAssumption DEF DecisionRow, Verdicts
      <3>2. ASSUME NEW x \in Destinations, disk.rules[x] # NoRow
            PROVE  disk.rules[x].rec # r /\ disk.rules[x].rec \in Recommendations
        <4>1. disk.rules[x] \in RuleRow
          BY <3>2
        <4>2. [decision |-> "approved", by |-> disk.rules[x].by] \in DecisionRow
          BY <4>1 DEF RuleRow, DecisionRow, Verdicts
        <4>3. QED
          BY <2>1, <3>2, <4>1, <4>2, NoRowAssumption DEF RuleRow
      <3>3. QED
        BY <3>2
    <2>8. ASSUME NEW x \in Destinations, disk'.rules[x] # NoRow
          PROVE  LET y == disk'.rules[x].rec
                 IN  /\ disk'.recs[y] # NoRow
                     /\ disk'.recs[y].status = "approved"
                     /\ disk'.decisions[y] =
                           [decision |-> "approved", by |-> disk'.rules[x].by]
      <3>1. CASE verdict = "approved" /\ x = d
        <4>1. disk'.rules[x] = [rec |-> r, by |-> a]
          BY <3>1, <2>6
        <4>2. disk'.recs[r] = row
          BY <2>4, <2>5, <2>6
        <4>3. disk'.decisions[r] = [decision |-> "approved", by |-> a]
          BY <3>1, <2>5, <2>6
        <4>4. disk'.rules[x].rec = r /\ disk'.rules[x].by = a
          BY <4>1
        <4>5. row # NoRow /\ row.status = "approved"
          BY <2>2, <3>1
        <4> HIDE DEF row
        <4>6. QED
          BY <4>2, <4>3, <4>4, <4>5
      <3>2. CASE ~ (verdict = "approved" /\ x = d)
        <4>1. disk'.rules[x] = disk.rules[x] /\ disk.rules[x] # NoRow
          BY <3>2, <2>6, <2>8
        <4> DEFINE y == disk.rules[x].rec
        <4>2. y # r /\ y \in Recommendations
          BY <4>1, <2>7
        <4>3. disk'.recs[y] = disk.recs[y] /\ disk'.decisions[y] = disk.decisions[y]
          BY <4>2, <2>4, <2>5, <2>6
        <4>4. /\ disk.recs[y] # NoRow /\ disk.recs[y].status = "approved"
              /\ disk.decisions[y] = [decision |-> "approved", by |-> disk.rules[x].by]
          BY <4>1
        <4>5. QED
          BY <4>1, <4>3, <4>4
      <3>3. QED
        BY <3>1, <3>2
    <2>9. QED
      BY <2>8
  <1>5. CASE Ledger!ClearDemoData
    <2>1. PICK R : \E E, F : disk' = Ledger!Cleared(disk, E, F, R)
      BY <1>5 DEF Ledger!ClearDemoData
    <2>2. /\ \A x \in Recommendations :
                /\ disk'.recs[x] = IF x \in R THEN NoRow ELSE disk.recs[x]
                /\ disk'.decisions[x] = IF x \in R THEN NoRow ELSE disk.decisions[x]
          /\ \A x \in Destinations :
                disk'.rules[x] = IF disk.rules[x] # NoRow /\ disk.rules[x].rec \in R
                                 THEN NoRow ELSE disk.rules[x]
      BY <2>1
      DEF Ledger!Cleared, Ledger!DeleteEvents, Ledger!DeleteFindings,
          Ledger!DeleteRecommendations, Ledger!DeleteRules, Ledger!DeleteDecisions
    <2>3. \A x \in Destinations :
             disk.rules[x] # NoRow => disk.rules[x].rec \in Recommendations
      BY DEF RuleRow
    <2>4. QED
      BY <2>2, <2>3
  <1>6. CASE disk' = disk
    BY <1>6
  <1>7. QED
    BY <1>1, <1>2, <1>3, <1>4, <1>5, <1>6 DEF Ledger!LedgerNext, Ledger!Verdicts, Verdicts

\* One request at a time, a committed rule always belongs to a recommendation
\* that is there, is approved, and was approved by the analyst it names.
THEOREM SerialRulesBacked ==
    ASSUME Serial
    PROVE  Spec => []RuleBacked
  <1>1. Init => SerialInv /\ RuleBacked
    BY SerialInit DEF Init, RuleBacked, EmptyDatabase
  <1>2. SerialInv /\ RuleBacked /\ [Next]_vars => (SerialInv /\ RuleBacked)'
    <2> SUFFICES ASSUME SerialInv, RuleBacked, [Next]_vars
                 PROVE  SerialInv' /\ RuleBacked'
      OBVIOUS
    <2>1. disk \in Database
      BY DEF SerialInv, TypeInv, TypeOK
    <2>2. QED
      BY <2>1, SerialStep, LedgerStep, RuleBackedStep
  <1>3. QED
    BY <1>1, <1>2, PTL DEF Spec

=============================================================================
