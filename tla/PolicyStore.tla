----------------------------- MODULE PolicyStore -----------------------------
(***************************************************************************)
(* The ingestion service's policy tables under concurrent requests.        *)
(*                                                                         *)
(* Handlers are plain functions that FastAPI runs on a thread pool, and    *)
(* all of them share ONE sqlite connection.  A statement is atomic; a      *)
(* handler is not.  The connection has one open transaction, so a commit   *)
(* by any thread commits what every thread has written, and each thread    *)
(* sees the uncommitted writes of the others.  A crash of the process      *)
(* keeps what was committed.                                               *)
(***************************************************************************)
EXTENDS PolicyTables

CONSTANT Threads   \* workers of the pool

VARIABLES
    db,        \* the tables as the shared connection sees them
    disk,      \* the tables as last committed
    pc,        \* pc[t]: the next statement of thread t's handler
    req,       \* req[t]: the decision t is carrying out, with the target it read
    doomed,    \* doomed[t]: the ids t's demo clear has collected
    asked      \* history: the decisions posted, with the target on show then

vars == <<db, disk, pc, req, doomed, asked>>

Request ==
    [rec : Recommendations, verdict : Verdicts, by : Analysts,
     target : Destinations]

ASSUME NoRequestAssumption == NoRow \notin Request

Doomed ==
    [events : SUBSET Events, findings : SUBSET Findings,
     recs : SUBSET Recommendations]

Nothing == [events |-> {}, findings |-> {}, recs |-> {}]

DecideLabels == {"check", "status", "decision", "rule"}

ClearLabels ==
    {"select_recs", "delete_decisions", "delete_rules", "delete_recs",
     "delete_findings", "delete_events"}

Labels == {"idle", "commit"} \cup DecideLabels \cup ClearLabels

TypeOK ==
    /\ db \in Database
    /\ disk \in Database
    /\ pc \in [Threads -> Labels]
    /\ req \in [Threads -> Request \cup {NoRow}]
    /\ doomed \in [Threads -> Doomed]
    /\ asked \subseteq Request

Init ==
    /\ db = EmptyDatabase
    /\ disk = EmptyDatabase
    /\ pc = [t \in Threads |-> "idle"]
    /\ req = [t \in Threads |-> NoRow]
    /\ doomed = [t \in Threads |-> Nothing]
    /\ asked = {}

Goto(t, label) == pc' = [pc EXCEPT ![t] = label]

-----------------------------------------------------------------------------
(* Handlers that write one row and commit it.                              *)

\* POST /v1/events, one record of the batch.
AddEvent(t, e) ==
    /\ pc[t] = "idle"
    /\ db' = InsertEvent(db, e)
    /\ Goto(t, "commit")
    /\ UNCHANGED <<disk, req, doomed, asked>>

\* POST /v1/findings and the submit_finding tool.
PutFinding(t, f, evidence) ==
    /\ pc[t] = "idle"
    /\ evidence # {}
    /\ db' = UpsertFinding(db, f, evidence)
    /\ Goto(t, "commit")
    /\ UNCHANGED <<disk, req, doomed, asked>>

\* POST /v1/recommendations and the recommend_policy tool.
PutRecommendation(t, r, f, d) ==
    /\ pc[t] = "idle"
    /\ db' = UpsertRecommendation(db, r, f, d)
    /\ Goto(t, "commit")
    /\ UNCHANGED <<disk, req, doomed, asked>>

\* conn.commit(): publishes every thread's writes, and ends the handler.
Commit(t) ==
    /\ pc[t] = "commit"
    /\ disk' = db
    /\ Goto(t, "idle")
    /\ UNCHANGED <<db, req, doomed, asked>>

-----------------------------------------------------------------------------
(* POST /v1/recommendations/{id}/decision: store.decide.                   *)

\* SELECT the recommendation; without a row the answer is 404 and nothing
\* changes.
DecideSelect(t, r, verdict, a) ==
    /\ pc[t] = "idle"
    /\ db.recs[r] # NoRow
    /\ LET request == [rec |-> r, verdict |-> verdict, by |-> a,
                       target |-> db.recs[r].target]
       IN  /\ req' = [req EXCEPT ![t] = request]
           /\ asked' = asked \cup {request}
    /\ Goto(t, "check")
    /\ UNCHANGED <<db, disk, doomed>>

\* Mutant: an earlier decision is not looked for.
DecideCheck_Skipped(t) ==
    /\ pc[t] = "check"
    /\ Goto(t, "status")
    /\ UNCHANGED <<db, disk, req, doomed, asked>>

\* get_decision: an earlier decision ends the handler, with the row when it
\* agrees and with a conflict (409) when it does not.
DecideCheck(t) ==
    /\ pc[t] = "check"
    /\ IF db.decisions[req[t].rec] = NoRow
       THEN /\ Goto(t, "status")
            /\ UNCHANGED req
       ELSE /\ Goto(t, "idle")
            /\ req' = [req EXCEPT ![t] = NoRow]
    /\ UNCHANGED <<db, disk, doomed, asked>>

DecideStatus(t) ==
    /\ pc[t] = "status"
    /\ db' = SetStatus(db, req[t].rec, req[t].verdict)
    /\ Goto(t, "decision")
    /\ UNCHANGED <<disk, req, doomed, asked>>

\* Mutant: the decision is committed before the rule is written.
DecideDecision_CommitsEarly(t) ==
    /\ pc[t] = "decision"
    /\ db' = UpsertDecision(db, req[t].rec, req[t].verdict, req[t].by)
    /\ disk' = db'
    /\ IF req[t].verdict = "approved"
       THEN /\ Goto(t, "rule")
            /\ UNCHANGED req
       ELSE /\ Goto(t, "commit")
            /\ req' = [req EXCEPT ![t] = NoRow]
    /\ UNCHANGED <<doomed, asked>>

\* Mutant: a rejection returns without a commit.
DecideDecision_RejectionUncommitted(t) ==
    /\ pc[t] = "decision"
    /\ db' = UpsertDecision(db, req[t].rec, req[t].verdict, req[t].by)
    /\ IF req[t].verdict = "approved"
       THEN /\ Goto(t, "rule")
            /\ UNCHANGED req
       ELSE /\ Goto(t, "idle")
            /\ req' = [req EXCEPT ![t] = NoRow]
    /\ UNCHANGED <<disk, doomed, asked>>

DecideDecision(t) ==
    /\ pc[t] = "decision"
    /\ db' = UpsertDecision(db, req[t].rec, req[t].verdict, req[t].by)
    /\ IF req[t].verdict = "approved"
       THEN /\ Goto(t, "rule")
            /\ UNCHANGED req
       ELSE /\ Goto(t, "commit")
            /\ req' = [req EXCEPT ![t] = NoRow]
    /\ UNCHANGED <<disk, doomed, asked>>

\* Mutant: the target is read again, from a row that may have moved.
DecideRule_TargetReadAgain(t) ==
    LET row == db.recs[req[t].rec]
        target == IF row = NoRow THEN req[t].target ELSE row.target
    IN  /\ pc[t] = "rule"
        /\ db' = ReplaceRule(db, target, req[t].rec, req[t].by)
        /\ Goto(t, "commit")
        /\ req' = [req EXCEPT ![t] = NoRow]
        /\ UNCHANGED <<disk, doomed, asked>>

\* The rule goes on the target of the row that DecideSelect read.
DecideRule(t) ==
    /\ pc[t] = "rule"
    /\ db' = ReplaceRule(db, req[t].target, req[t].rec, req[t].by)
    /\ Goto(t, "commit")
    /\ req' = [req EXCEPT ![t] = NoRow]
    /\ UNCHANGED <<disk, doomed, asked>>

-----------------------------------------------------------------------------
(* DELETE /v1/demo-data: store.clear_demo_data.                            *)

\* SELECT the events, then the findings all of whose events are demo events.
\* A write between the two reads has the effect it would have before or
\* after both, so they are one step.
ClearSelect(t) ==
    /\ pc[t] = "idle"
    /\ LET E == DemoEventsIn(db)
       IN  doomed' = [doomed EXCEPT ![t] =
                        [events |-> E, findings |-> FindingsDerivedFrom(db, E),
                         recs |-> {}]]
    /\ Goto(t, "select_recs")
    /\ UNCHANGED <<db, disk, req, asked>>

ClearSelectRecs(t) ==
    /\ pc[t] = "select_recs"
    /\ doomed' = [doomed EXCEPT ![t].recs =
                    RecommendationsFor(db, doomed[t].findings)]
    /\ Goto(t, "delete_decisions")
    /\ UNCHANGED <<db, disk, req, asked>>

\* One DELETE: from the label `at`, leaving `after` in the database.
ClearDelete(t, at, after, next) ==
    /\ pc[t] = at
    /\ db' = after
    /\ Goto(t, next)
    /\ UNCHANGED <<disk, req, asked>>

ClearDecisions(t) ==
    /\ ClearDelete(t, "delete_decisions",
                   DeleteDecisions(db, doomed[t].recs), "delete_rules")
    /\ UNCHANGED doomed

ClearRules(t) ==
    /\ ClearDelete(t, "delete_rules",
                   DeleteRules(db, doomed[t].recs), "delete_recs")
    /\ UNCHANGED doomed

ClearRecommendations(t) ==
    /\ ClearDelete(t, "delete_recs",
                   DeleteRecommendations(db, doomed[t].recs), "delete_findings")
    /\ UNCHANGED doomed

ClearFindings(t) ==
    /\ ClearDelete(t, "delete_findings",
                   DeleteFindings(db, doomed[t].findings), "delete_events")
    /\ UNCHANGED doomed

ClearEvents(t) ==
    /\ ClearDelete(t, "delete_events",
                   DeleteEvents(db, doomed[t].events), "commit")
    /\ doomed' = [doomed EXCEPT ![t] = Nothing]

-----------------------------------------------------------------------------
\* The process dies and starts again on what was committed; the requests in
\* flight are gone.
Crash ==
    /\ db' = disk
    /\ pc' = [t \in Threads |-> "idle"]
    /\ req' = [t \in Threads |-> NoRow]
    /\ doomed' = [t \in Threads |-> Nothing]
    /\ UNCHANGED <<disk, asked>>

Detect(t) ==
    \/ \E e \in Events : AddEvent(t, e)
    \/ \E f \in Findings, evidence \in SUBSET Events : PutFinding(t, f, evidence)

Recommend(t) ==
    \E r \in Recommendations, f \in Findings :
        \E d \in Targets[r] : PutRecommendation(t, r, f, d)

Decide(t) ==
    \/ \E r \in Recommendations, verdict \in Verdicts, a \in Analysts :
            DecideSelect(t, r, verdict, a)
    \/ DecideCheck(t) \/ DecideStatus(t) \/ DecideDecision(t) \/ DecideRule(t)

Clear(t) ==
    \/ ClearSelect(t) \/ ClearSelectRecs(t)
    \/ ClearDecisions(t) \/ ClearRules(t) \/ ClearRecommendations(t)
    \/ ClearFindings(t) \/ ClearEvents(t)

Next ==
    \/ \E t \in Threads :
            Detect(t) \/ Recommend(t) \/ Decide(t) \/ Clear(t) \/ Commit(t)
    \/ Crash

Spec == Init /\ [][Next]_vars

\* A deployment that never clears demo data; findings and events then play
\* no part in what happens to the policy tables.
NextNoClear ==
    \/ \E t \in Threads : Recommend(t) \/ Decide(t) \/ Commit(t)
    \/ Crash

SpecNoClear == Init /\ [][NextNoClear]_vars

-----------------------------------------------------------------------------
(* Safety.                                                                 *)

AtRest == \A t \in Threads : pc[t] = "idle"

\* Every rule stands on a decision request in which the analyst it names
\* approved the recommendation it names, while that recommendation's target
\* was the destination the rule denies (schema comment on `rules`).
HumanApprovedIn(D) ==
    \A d \in Destinations : D.rules[d] # NoRow =>
        [rec |-> D.rules[d].rec, verdict |-> "approved", by |-> D.rules[d].by,
         target |-> d] \in asked

HumanApproved == HumanApprovedIn(db) /\ HumanApprovedIn(disk)

\* No commit, and no crash between two commits, leaves a rule whose
\* recommendation has no decision: decide records the decision before the
\* rule.  (Without demo clears, which delete decisions before rules.)
RuleHasDecisionIn(D) ==
    \A d \in Destinations :
        D.rules[d] # NoRow => D.decisions[D.rules[d].rec] # NoRow

RuleHasDecision == RuleHasDecisionIn(db) /\ RuleHasDecisionIn(disk)

\* When no handler is running, nothing is waiting for a commit: what a client
\* was told is what a restart keeps.
AtRestCommitted == AtRest => db = disk

-----------------------------------------------------------------------------
(* One request at a time: the committed tables are the approval ledger.    *)

Ledger == INSTANCE ApprovalLedger WITH store <- disk

\* Refinement: each commit is one atomic step of the ledger.
LedgerImplemented == Ledger!LedgerSpec

\* In the committed tables a rule belongs to a recommendation that exists,
\* is approved, and was approved by the analyst the rule names.
RuleBacked ==
    \A d \in Destinations : disk.rules[d] # NoRow =>
        LET r == disk.rules[d].rec
        IN  /\ disk.recs[r] # NoRow
            /\ disk.recs[r].status = "approved"
            /\ disk.decisions[r] = [decision |-> "approved", by |-> disk.rules[d].by]

\* The approved recommendations, which /v1/policies/approved offers, are all
\* enforced: each one's target has a rule.
ApprovedEnforced ==
    \A r \in Recommendations :
        disk.recs[r] # NoRow /\ disk.recs[r].status = "approved" =>
            disk.rules[disk.recs[r].target] # NoRow

-----------------------------------------------------------------------------
(* What tests and documents say, and overlapping requests do not keep.     *)

\* A rejection does not create a rule (test_rejection_does_not_create_a_rule):
\* at rest no rule belongs to a recommendation whose decision is a rejection.
RejectedNotEnforced ==
    AtRest => \A d \in Destinations : disk.rules[d] # NoRow =>
        LET r == disk.rules[d].rec
        IN  disk.decisions[r] # NoRow => disk.decisions[r].decision # "rejected"

\* An approved recommendation is a rule
\* (test_recommendation_only_becomes_a_rule_after_approval): at rest the
\* target of a recommendation with a recorded approval is denied.
ApprovalTookEffect ==
    AtRest => \A r \in Recommendations :
        /\ disk.recs[r] # NoRow
        /\ disk.decisions[r] # NoRow
        /\ disk.decisions[r].decision = "approved"
        => disk.rules[disk.recs[r].target] # NoRow

\* Demo clears do not touch captured data (docstring of delete_demo_data): a
\* recommendation approved for a finding over a captured event stays enforced.
ClearSparesCaptured ==
    \A r \in Recommendations :
        /\ disk.recs[r] # NoRow
        /\ disk.recs[r].status = "approved"
        /\ ~ disk.findings[disk.recs[r].finding] \subseteq DemoEvents
        => disk.rules[disk.recs[r].target] # NoRow

\* Demo clears remove the rules derived from demo events with their
\* recommendations (README): at rest no rule outlives its recommendation.
RuleHasRecommendation ==
    AtRest => \A d \in Destinations :
        disk.rules[d] # NoRow => disk.recs[disk.rules[d].rec] # NoRow

=============================================================================
