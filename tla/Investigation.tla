---------------------------- MODULE Investigation ----------------------------
(***************************************************************************)
(* How the ingestion service has a finding investigated.  A high-risk      *)
(* finding, or an analyst's request, starts one long HTTP call to the      *)
(* OpenClaw gateway, and the agent behind it is to call back with          *)
(* submit_investigation before the call returns.                           *)
(*                                                                         *)
(* The `investigations` row is the only memory of a run that is going on:  *)
(* handlers on the thread pool read it to see whether to start one, and    *)
(* write it when theirs ends.  put_investigation checks the finding, and   *)
(* writes and commits the row; nothing reads the finding's row or the      *)
(* investigation's in a way that could tell these statements apart, so it  *)
(* is one step.                                                            *)
(***************************************************************************)
EXTENDS FiniteSets

CONSTANTS
    Findings,   \* finding ids
    Threads,    \* workers of the pool
    NoFinding   \* what an idle worker works on

ASSUME NoFindingAssumption == NoFinding \notin Findings

VARIABLES
    findings,   \* the findings in the database
    row,        \* row[f]: the status in f's investigations row
    pc,         \* pc[t]: where thread t's handler or background task is
    on,         \* on[t]: the finding it works on
    abandoned,  \* findings on which an agent run outlived its caller
    gateway,    \* whether the service was started with a gateway token
    analysed,   \* history: the findings with an analysis from the agent
    lost        \* history: the findings that have been cleared, or whose call
                \* was cut off or was not over at a restart

vars == <<findings, row, pc, on, abandoned, gateway, analysed, lost>>

RowStatuses == {"none", "running", "completed", "failed"}

Labels ==
    {"idle", "post_check", "request_check", "start", "calling", "reread", "fail"}

TypeOK ==
    /\ findings \subseteq Findings
    /\ row \in [Findings -> RowStatuses]
    /\ pc \in [Threads -> Labels]
    /\ on \in [Threads -> Findings \cup {NoFinding}]
    /\ \A t \in Threads : pc[t] # "idle" => on[t] \in Findings
    /\ abandoned \subseteq Findings
    /\ gateway \in BOOLEAN
    /\ analysed \subseteq Findings
    /\ lost \subseteq Findings

Init ==
    /\ findings = {}
    /\ row = [f \in Findings |-> "none"]
    /\ pc = [t \in Threads |-> "idle"]
    /\ on = [t \in Threads |-> NoFinding]
    /\ abandoned = {}
    /\ gateway \in BOOLEAN
    /\ analysed = {}
    /\ lost = {}

Goto(t, label) == pc' = [pc EXCEPT ![t] = label]

Take(t, f, label) ==
    /\ pc[t] = "idle"
    /\ Goto(t, label)
    /\ on' = [on EXCEPT ![t] = f]

Finish(t) ==
    /\ Goto(t, "idle")
    /\ on' = [on EXCEPT ![t] = NoFinding]

\* Mutant: the row takes the word the dashboard shows for an absent one.
PutInvestigation_Pending(f, status) ==
    row' = IF f \in findings THEN [row EXCEPT ![f] = "pending"] ELSE row

\* put_investigation: nothing is written for a finding that is not there.
PutInvestigation(f, status) ==
    row' = IF f \in findings THEN [row EXCEPT ![f] = status] ELSE row

-----------------------------------------------------------------------------
(* Starting an investigation.                                              *)

\* A finding of low or medium severity, or one an agent submits itself.
RecordFinding(f) ==
    /\ findings' = findings \cup {f}
    /\ UNCHANGED <<row, pc, on, abandoned, gateway, analysed, lost>>

\* POST /v1/findings of high or critical severity.
PostFinding(t, f) ==
    /\ findings' = findings \cup {f}
    /\ Take(t, f, "post_check")
    /\ UNCHANGED <<row, abandoned, gateway, analysed, lost>>

\* An absent or failed investigation is started, in a background task.
PostCheck(t) ==
    /\ pc[t] = "post_check"
    /\ IF gateway /\ row[on[t]] \in {"none", "failed"}
       THEN Goto(t, "start") /\ UNCHANGED on
       ELSE Finish(t)
    /\ UNCHANGED <<findings, row, abandoned, gateway, analysed, lost>>

\* POST /v1/findings/{id}/investigate; 404 without the finding.
Request(t, f) ==
    /\ f \in findings
    /\ Take(t, f, "request_check")
    /\ UNCHANGED <<findings, row, abandoned, gateway, analysed, lost>>

\* A running or completed investigation is the answer.
RequestAnswered(t) ==
    /\ pc[t] = "request_check"
    /\ row[on[t]] \in {"running", "completed"}
    /\ Finish(t)
    /\ UNCHANGED <<findings, row, abandoned, gateway, analysed, lost>>

\* Without a gateway the request fails (503), and says so in the row.
RequestUnavailable(t) ==
    /\ pc[t] = "request_check"
    /\ row[on[t]] \notin {"running", "completed"}
    /\ ~ gateway
    /\ PutInvestigation(on[t], "failed")
    /\ Finish(t)
    /\ UNCHANGED <<findings, abandoned, gateway, analysed, lost>>

RequestAccepted(t) ==
    /\ pc[t] = "request_check"
    /\ row[on[t]] \notin {"running", "completed"}
    /\ gateway
    /\ Goto(t, "start")
    /\ UNCHANGED <<findings, row, on, abandoned, gateway, analysed, lost>>

\* The row is set to running, and the gateway is called.
Start(t) ==
    /\ pc[t] = "start"
    /\ PutInvestigation(on[t], "running")
    /\ Goto(t, "calling")
    /\ UNCHANGED <<findings, on, abandoned, gateway, analysed, lost>>

-----------------------------------------------------------------------------
(* The call, _run_investigation.                                           *)

\* Mutant: a call that returns is taken for a finished analysis.
CallReturns_Trusted(t) ==
    /\ pc[t] = "calling"
    /\ PutInvestigation(on[t], "completed")
    /\ Finish(t)
    /\ UNCHANGED <<findings, abandoned, gateway, analysed, lost>>

\* HTTP 2xx with a JSON body: the agent run is over.
CallReturns(t) ==
    /\ pc[t] = "calling"
    /\ Goto(t, "reread")
    /\ UNCHANGED <<findings, row, on, abandoned, gateway, analysed, lost>>

\* OpenClawError: a refused connection, an HTTP error, a body that is not
\* JSON, or the client's timeout.  After the last the agent run may go on.
CallFails(t) ==
    /\ pc[t] = "calling"
    /\ Goto(t, "fail")
    /\ \/ UNCHANGED abandoned
       \/ abandoned' = abandoned \cup {on[t]}
    /\ UNCHANGED <<findings, row, on, gateway, analysed, lost>>

\* An exception the client does not turn into OpenClawError (a body cut short
\* is http.client.IncompleteRead): the handler ends and writes nothing.
CallEscapes(t) ==
    /\ pc[t] = "calling"
    /\ Finish(t)
    /\ \/ UNCHANGED abandoned
       \/ abandoned' = abandoned \cup {on[t]}
    /\ lost' = lost \cup {on[t]}
    /\ UNCHANGED <<findings, row, gateway, analysed>>

\* Mutant: whatever the row says, the call has been answered.
Reread_Unchecked(t) ==
    /\ pc[t] = "reread"
    /\ Finish(t)
    /\ UNCHANGED <<findings, row, abandoned, gateway, analysed, lost>>

\* Mutant: an agent that has not submitted is called again.
Reread_AsksAgain(t) ==
    /\ pc[t] = "reread"
    /\ IF row[on[t]] = "completed"
       THEN Finish(t)
       ELSE Goto(t, "calling") /\ UNCHANGED on
    /\ UNCHANGED <<findings, row, abandoned, gateway, analysed, lost>>

\* Only a row that the agent completed counts.
Reread(t) ==
    /\ pc[t] = "reread"
    /\ IF row[on[t]] = "completed"
       THEN Finish(t)
       ELSE Goto(t, "fail") /\ UNCHANGED on
    /\ UNCHANGED <<findings, row, abandoned, gateway, analysed, lost>>

\* The row is set to failed.  If the finding is gone the assertion on the
\* result of put_investigation fails, and the handler ends all the same.
Fail(t) ==
    /\ pc[t] = "fail"
    /\ PutInvestigation(on[t], "failed")
    /\ Finish(t)
    /\ UNCHANGED <<findings, abandoned, gateway, analysed, lost>>

-----------------------------------------------------------------------------
(* The environment.                                                        *)

\* The agent behind a call, or one that outlived its caller, calls the
\* submit_investigation tool.
AgentSubmits(f, status) ==
    /\ \/ \E t \in Threads : pc[t] = "calling" /\ on[t] = f
       \/ f \in abandoned
    /\ PutInvestigation(f, status)
    /\ analysed' = IF status = "completed" /\ f \in findings
                   THEN analysed \cup {f} ELSE analysed
    /\ UNCHANGED <<findings, pc, on, abandoned, gateway, lost>>

AbandonedRunEnds(f) ==
    /\ f \in abandoned
    /\ abandoned' = abandoned \ {f}
    /\ UNCHANGED <<findings, row, pc, on, gateway, analysed, lost>>

\* DELETE /v1/demo-data: the findings go, their investigations rows stay.
ClearDemoData(F) ==
    /\ findings' = findings \ F
    /\ lost' = lost \cup F
    /\ UNCHANGED <<row, pc, on, abandoned, gateway, analysed>>

\* The service is restarted, perhaps with another environment.  No handler
\* survives, the rows do; the agent runs do not notice.
Restart ==
    /\ pc' = [t \in Threads |-> "idle"]
    /\ on' = [t \in Threads |-> NoFinding]
    /\ abandoned' = abandoned \cup
            {f \in Findings : \E t \in Threads : pc[t] = "calling" /\ on[t] = f}
    /\ gateway' \in BOOLEAN
    /\ lost' = lost \cup {f \in Findings : row[f] = "running"}
    /\ UNCHANGED <<findings, row, analysed>>

-----------------------------------------------------------------------------
Arrive ==
    \E f \in Findings :
        \/ RecordFinding(f)
        \/ \E t \in Threads : PostFinding(t, f) \/ Request(t, f)

\* A thread of the service goes on with what it does, the HTTP call included.
Work(t) ==
    \/ PostCheck(t)
    \/ RequestAnswered(t) \/ RequestUnavailable(t) \/ RequestAccepted(t)
    \/ Start(t)
    \/ CallReturns(t) \/ CallFails(t)
    \/ Reread(t) \/ Fail(t)

Agent ==
    \E f \in Findings :
        \/ \E status \in {"completed", "failed"} : AgentSubmits(f, status)
        \/ AbandonedRunEnds(f)

\* What happens while nothing is cleared, restarted or cut off.
SteadyNext == Arrive \/ (\E t \in Threads : Work(t)) \/ Agent

Next ==
    \/ SteadyNext
    \/ \E t \in Threads : CallEscapes(t)
    \/ \E F \in SUBSET Findings : ClearDemoData(F)
    \/ Restart

Spec == Init /\ [][Next]_vars

\* The pool runs a handler that can run, and the client's timeout ends every
\* call that the gateway does not.  Nothing makes the agent submit.
Fairness == \A t \in Threads : WF_vars(Work(t))

FairSpec == Spec /\ Fairness

\* The same while an analyst never stops asking for an investigation.
Retried ==
    \A f \in Findings : SF_vars(\E t \in Threads : Request(t, f))

RetriedSpec == Spec /\ Fairness /\ Retried

-----------------------------------------------------------------------------
(* Properties.                                                             *)

\* A finding reads as completed only if the agent handed in an analysis for
\* it: neither a returned call nor a restart, a cleared finding or a second
\* investigation of it makes one up (_run_investigation's second read).
OnlyAgentCompletes ==
    \A f \in Findings : row[f] = "completed" => f \in analysed

\* A row that reads running has a thread that will settle it, unless the finding
\* was cleared, the call cut off or the service restarted.  Nothing else ever
\* settles it: both handlers leave a running investigation alone.
RunningHasOwner ==
    \A f \in Findings \ lost : row[f] = "running" =>
        \E t \in Threads :
            on[t] = f /\ pc[t] \in {"calling", "reread", "fail"}

\* Every investigation that runs ends, completed or failed, unless it is lost.
RunningSettles ==
    \A f \in Findings :
        row[f] = "running" ~> (row[f] \in {"completed", "failed"} \/ f \in lost)

-----------------------------------------------------------------------------
(* What the tests and the code's own assertion say.                        *)

\* A running investigation ends
\* (test_high_risk_finding_starts_openclaw_investigation_automatically).
RunningEnds ==
    \A f \in Findings : row[f] = "running" ~> row[f] \in {"completed", "failed"}

\* A completed finding is not investigated again
\* (test_completed_finding_is_not_investigated_twice).
CompletedNotRestarted ==
    [][\A f \in Findings : row[f] = "completed" => row'[f] # "running"]_vars

\* The analysis the agent persisted stays until the agent submits another
\* (docstring of submit_investigation).
AnalysisPersists ==
    [][\A f \in Findings :
            row[f] = "completed" /\ row'[f] # "completed" =>
                \E status \in {"completed", "failed"} : AgentSubmits(f, status)]_vars

\* `assert failed is not None` in _run_investigation: the finding is there
\* when a call is found to have failed.
FailedIsNotNone ==
    [][\A t \in Threads : Fail(t) => on[t] \in findings]_vars

=============================================================================
