---------------------------- MODULE PolicyTables ----------------------------
(***************************************************************************)
(* The SQLite tables of the ingestion service that take part in turning a  *)
(* detector finding into a row of the squid denylist, and the SQL          *)
(* statements the handlers run on them.                                    *)
(*                                                                         *)
(* A database is one record with a field per table.  A keyed table is a    *)
(* function from its primary key to the row, NoRow where there is none.    *)
(* Every statement is an operator from databases to databases, so that     *)
(* the same statement can be run against what the shared connection sees   *)
(* (PolicyStore) and as part of an atomic step (ApprovalLedger).           *)
(***************************************************************************)
EXTENDS FiniteSets

CONSTANTS
    Events,           \* event ids
    DemoEvents,       \* those whose raw record carries the demo run id
    Findings,         \* finding ids
    Recommendations,  \* recommendation ids
    Destinations,     \* what a recommendation can target
    Targets,          \* Targets[r]: the targets a poster may pair with id r
    Analysts,         \* values of a decision's analyst field
    NoRow             \* the key is not in the table

ASSUME TablesAssumption ==
    /\ DemoEvents \subseteq Events
    /\ Targets \in [Recommendations -> SUBSET Destinations]

Verdicts == {"approved", "rejected"}

Statuses == {"pending"} \cup Verdicts

RecommendationRow ==
    [status : Statuses, finding : Findings, target : Destinations]

DecisionRow == [decision : Verdicts, by : Analysts]

RuleRow == [rec : Recommendations, by : Analysts]

\* SQLite has no row that is also the absence of a row.
ASSUME NoRowAssumption ==
    NoRow \notin RecommendationRow \cup DecisionRow \cup RuleRow

\* Detectors name at least one event and a demo clear passes over findings
\* without any, so {} stands for an absent finding.
Database ==
    [events    : SUBSET Events,
     findings  : [Findings -> SUBSET Events],
     recs      : [Recommendations -> RecommendationRow \cup {NoRow}],
     decisions : [Recommendations -> DecisionRow \cup {NoRow}],
     rules     : [Destinations -> RuleRow \cup {NoRow}]]

EmptyDatabase ==
    [events    |-> {},
     findings  |-> [f \in Findings |-> {}],
     recs      |-> [r \in Recommendations |-> NoRow],
     decisions |-> [r \in Recommendations |-> NoRow],
     rules     |-> [d \in Destinations |-> NoRow]]

-----------------------------------------------------------------------------
(* Writes of the detection path.                                           *)

\* INSERT OR IGNORE INTO events.
InsertEvent(D, e) == [D EXCEPT !.events = @ \cup {e}]

\* INSERT INTO findings ... ON CONFLICT DO UPDATE.
UpsertFinding(D, f, evidence) == [D EXCEPT !.findings[f] = evidence]

\* Mutant: the poster's own word for the status is stored unchecked.
UpsertRecommendation_UncheckedStatus(D, r, f, d) ==
    [D EXCEPT !.recs[r] = [status |-> "proposed", finding |-> f, target |-> d]]

\* INSERT INTO recommendations ... ON CONFLICT DO UPDATE: a new row is
\* pending, an old one keeps its status and takes the new finding and target.
UpsertRecommendation(D, r, f, d) ==
    LET status == IF D.recs[r] = NoRow THEN "pending" ELSE D.recs[r].status
    IN  [D EXCEPT !.recs[r] = [status |-> status, finding |-> f, target |-> d]]

-----------------------------------------------------------------------------
(* Writes of a decision.                                                   *)

\* UPDATE recommendations SET status: matches no row once the row is deleted.
SetStatus(D, r, verdict) ==
    IF D.recs[r] = NoRow
    THEN D
    ELSE [D EXCEPT !.recs[r].status = verdict]

\* INSERT INTO decisions ... ON CONFLICT DO UPDATE.
UpsertDecision(D, r, verdict, a) ==
    [D EXCEPT !.decisions[r] = [decision |-> verdict, by |-> a]]

\* INSERT OR REPLACE INTO rules: the destination is the key, so an earlier
\* recommendation's rule on the same destination changes hands.
ReplaceRule(D, d, r, a) == [D EXCEPT !.rules[d] = [rec |-> r, by |-> a]]

-----------------------------------------------------------------------------
(* The reads and deletes of clear_demo_data.                               *)

DemoEventsIn(D) == D.events \cap DemoEvents

\* Findings whose every event is one of the demo events E.
FindingsDerivedFrom(D, E) ==
    {f \in Findings : D.findings[f] # {} /\ D.findings[f] \subseteq E}

RecommendationsFor(D, F) ==
    {r \in Recommendations : D.recs[r] # NoRow /\ D.recs[r].finding \in F}

DeleteDecisions(D, R) ==
    [D EXCEPT !.decisions =
        [r \in Recommendations |-> IF r \in R THEN NoRow ELSE @[r]]]

\* DELETE FROM rules WHERE recommendation_id IN R.
DeleteRules(D, R) ==
    [D EXCEPT !.rules =
        [d \in Destinations |->
            IF @[d] # NoRow /\ @[d].rec \in R THEN NoRow ELSE @[d]]]

DeleteRecommendations(D, R) ==
    [D EXCEPT !.recs =
        [r \in Recommendations |-> IF r \in R THEN NoRow ELSE @[r]]]

DeleteFindings(D, F) ==
    [D EXCEPT !.findings =
        [f \in Findings |-> IF f \in F THEN {} ELSE @[f]]]

DeleteEvents(D, E) == [D EXCEPT !.events = @ \ E]

=============================================================================
