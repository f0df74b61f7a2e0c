-------------------------------- MODULE DemoRun --------------------------------
(***************************************************************************)
(* The demo runner (demo run, demo continuous) against everything it drives*)
(* and shares the appliance with: its upload thread, squid, the ingestion  *)
(* store, the analyst, the agent of demo agent, the traffic of other       *)
(* programs and another program that clears the store.                     *)
(*                                                                         *)
(* A decision and the rule it makes are one step here: PolicyStore models  *)
(* theirs.  The denylist sync has two passes at most, the runner's and the *)
(* one of its watching loop, each of a fetch, a move into place, and a     *)
(* reload; Denylist models every command of it.  Rows of the model's       *)
(* answer that ask for no block, or with a severity below high, are left   *)
(* out of the answer: nothing reads them.                                  *)
(***************************************************************************)
EXTENDS Integers, Sequences, FiniteSets, SequencesExt

CONSTANTS
    Pool,        \* EXFIL_POOL, the destinations the upload thread picks from
    Routine,     \* ROUTINE, the destinations that have a history
    MadeUp,      \* a destination the model names and no event has
    Window,      \* events a read of the store returns at most, the newest
    Top,         \* destinations shown to the model at most
    Left,        \* destinations approved and denied when the program starts
    MaxRows,     \* bound on the rows of the model's answer
    MaxCycles,   \* bound on the cycles of demo continuous
    MaxUploads,  \* bound, for each command, on the uploads of the thread,
    MaxPasses,   \* on the passes of the watching loop, and on the calls that
    MaxTroubles  \* fail and the clears by another program, together

ASSUME DemoAssumption ==
    /\ Pool # {} /\ Pool \cap Routine = {} /\ MadeUp \notin Pool \cup Routine
    /\ Left \subseteq Pool
    /\ Window \in Nat \ {0} /\ Top \in Nat /\ MaxRows \in Nat /\ MaxCycles \in Nat
    /\ {MaxUploads, MaxPasses, MaxTroubles} \subseteq [{"run", "continuous"} -> Nat]

Dests == Pool \cup Routine

VARIABLES
    mode,     \* which command runs
    pc,       \* where its main thread is
    cycle,    \* investigations begun
    plan,     \* what the cycle works from: see Plans
    row,      \* the row of the answer it is at
    pending,  \* the recommendations _approve_all has still to approve
    upload,   \* the upload thread
    counters, \* its counters
    exit,     \* the program's exit status
    events,   \* the store: its newest events, oldest first
    findings, \* the store: findings, by who submitted them
    recs,     \* the store: recommendations
    denied,   \* the destinations squid denies
    listed,   \* domains.txt, the list squid loads
    sync,     \* the passes of sync-denylist.sh: see Passes
    agent,    \* the agent: see Agents
    passes,   \* how many passes the watching loop has begun
    troubles, \* how many calls have failed and clears have come
    seen      \* history: see Histories

runner == <<mode, pc, cycle, plan, row, pending, exit>>
thread == <<upload, counters>>
store == <<events, findings, recs>>
squid == <<denied, listed, sync>>
bounds == <<passes, troubles>>
vars == <<runner, thread, store, squid, agent, bounds, seen>>

\* The program has not ended.
None == -1

Filers == {"runner", "agent"}

\* Who submitted it, in which cycle, for which row.
FindingIds == Filers \X (0..MaxCycles) \X Nat

\* read is the last cycle that had read the queue when it was filed.
Recommendations ==
    [finding : FindingIds, dest : Dests, read : 0..MaxCycles,
     status : {"pending", "approved", "rejected"}]

\* The destinations with evidence, the rows to file, and what already_proposed
\* answered.
Plans ==
    [evidence : SUBSET Dests, answer : Seq(Dests \cup {MadeUp}),
     handled : SUBSET Dests]

NoPlan == [evidence |-> {}, answer |-> <<>>, handled |-> {}]

\* MadeUp stands for no destination.
Agents ==
    [pc : {"idle", "picked", "submitted", "ended"}, dest : Dests \cup {MadeUp}]

Uploads ==
    [pc : {"idle", "sent", "admitted", "refused", "dead"},
     dest : Dests \cup {MadeUp}, after : BOOLEAN]

\* Where a pass is, and what its temporary file may hold.
Passes ==
    [{"runner", "watcher"} ->
        [at : {"none", "fetched", "moved"}, lists : SUBSET (SUBSET Dests)]]

NoPass == [at |-> "none", lists |-> {}]

\* alone: no pass of the loop has overlapped the runner's, and squid was not
\* behind its file when that began.  clean: reset emptied the store, and the sync
\* after it came to its end alone.  approved: destinations approved since.
\* refused: uploads squid refused, by destination.  network: an upload failed
\* otherwise.  blind: cycles in which the recommendations could not be read.
\* wiped: findings cleared while their recommendation was to come.  won: what
\* _approve_all got approved, and base: what of it enforce's sync, having come to
\* its end alone, had squid load; a clear empties both.  late: an upload to one of
\* base, begun after it had been loaded, was delivered.
Histories ==
    [alone : BOOLEAN, clean : BOOLEAN, approved : SUBSET Dests, refused : SUBSET Dests,
     network : BOOLEAN, blind : SUBSET (0..MaxCycles),
     wiped : SUBSET FindingIds, won : SUBSET Dests, base : SUBSET Dests,
     late : BOOLEAN]

Idle == [pc |-> "idle", dest |-> MadeUp, after |-> FALSE]

TypeOK ==
    /\ mode \in {"run", "continuous"}
    /\ pc \in {"preflight", "reset", "sync_reset", "prime", "decide", "read", "submit",
               "recommend", "list_pending", "approve", "sync_enforce", "enforce",
               "sleep", "stop", "done", "crashed"}
    /\ cycle \in 0..MaxCycles
    /\ plan \in Plans
    /\ row \in Nat
    /\ pending \subseteq FindingIds
    /\ upload \in Uploads
    /\ counters \in [attempted : Nat, delivered : Nat, blocked : Nat]
    /\ exit \in {None, 0, 1, 2, 130}
    /\ events \in Seq([dest : Dests, large : BOOLEAN]) /\ Len(events) <= Window
    /\ findings \subseteq FindingIds
    /\ recs \subseteq Recommendations
    /\ denied \subseteq Dests /\ listed \subseteq Dests
    /\ sync \in Passes
    /\ agent \in Agents
    /\ passes \in Nat /\ troubles \in Nat
    /\ seen \in Histories

\* The destinations of the approved recommendations: GET /v1/rules.txt.
Rules == {r.dest : r \in {s \in recs : s.status = "approved"}}

\* What an earlier run left behind.
Leftovers ==
    {[finding |-> <<"runner", 0, 1>>, dest |-> d, read |-> 0, status |-> "approved"] :
        d \in Left}

Init ==
    /\ mode \in {"run", "continuous"}
    /\ pc = IF mode = "run" THEN "reset" ELSE "preflight"
    /\ cycle = 0 /\ plan = NoPlan /\ row = 1 /\ pending = {}
    /\ exit = None
    /\ upload = Idle
    /\ counters = [attempted |-> 0, delivered |-> 0, blocked |-> 0]
    /\ recs = Leftovers
    /\ findings = {r.finding : r \in recs}
    /\ denied = Rules /\ listed = Rules
    /\ sync = [p \in {"runner", "watcher"} |-> NoPass]
    /\ events = <<>>
    /\ agent = [pc |-> "idle", dest |-> MadeUp]
    /\ passes = 0 /\ troubles = 0
    /\ seen = [alone |-> FALSE, clean |-> FALSE, approved |-> {}, refused |-> {},
               network |-> FALSE, blind |-> {}, wiped |-> {}, won |-> {},
               base |-> {}, late |-> FALSE]

-----------------------------------------------------------------------------
(* Start: preflight, reset, and the threads.                               *)

Ended == pc \in {"done", "crashed"}
Tick == troubles < MaxTroubles[mode] /\ troubles' = troubles + 1
Goto(label) == pc' = label /\ UNCHANGED <<mode, cycle, plan, row, pending, exit>>
Note(h) == seen' = h

\* An error nobody catches: the traceback is the end of the program.
Crash ==
    /\ pc' = "crashed" /\ exit' = 1
    /\ UNCHANGED <<mode, cycle, plan, row, pending>>

\* demo continuous gives up when the MCP endpoint does not answer.
Preflight ==
    /\ pc = "preflight"
    /\ \/ Goto("reset") /\ UNCHANGED bounds
       \/ /\ Tick /\ pc' = "done" /\ exit' = 2
          /\ UNCHANGED <<mode, cycle, plan, row, pending, passes>>
    /\ UNCHANGED <<thread, store, squid, agent, seen>>

Finding == <<"runner", cycle, row>>
AgentFinding == <<"agent", 0, 0>>

\* The findings whose recommendation is still to come.
Unfinished ==
    (IF pc = "recommend" THEN {Finding} ELSE {})
        \cup (IF agent.pc = "submitted" THEN {AgentFinding} ELSE {})

Wipe == events' = <<>> /\ findings' = {} /\ recs' = {}

\* Whether docker exec did its work is printed, not looked at; no docker, or no
\* answer in a minute, raises.
Reset ==
    /\ pc = "reset"
    /\ \/ /\ Wipe /\ Goto("sync_reset") /\ UNCHANGED bounds
          /\ Note([seen EXCEPT !.clean = TRUE, !.approved = {},
                               !.wiped = @ \cup Unfinished])
       \/ Tick /\ (Goto("sync_reset") \/ Crash) /\ UNCHANGED <<store, passes, seen>>
    /\ UNCHANGED <<thread, squid, agent>>

\* Ctrl-C, where the program waits: elsewhere it leaves the same store behind.
Interrupt ==
    /\ pc \in {"prime", "sleep", "enforce"}
    /\ pc' = "done" /\ exit' = 130
    /\ UNCHANGED <<mode, cycle, plan, row, pending, thread, store, squid,
                   agent, bounds, seen>>

-----------------------------------------------------------------------------
(* The denylist sync: the runner's pass and that of the watching loop.     *)

Other(p) == IF p = "runner" THEN "watcher" ELSE "runner"

\* Mutant: a pass that cannot reach ingestion goes on with an empty list.
Fetch_EmptyIfUnreachable(p) ==
    /\ sync[p].at = "none"
    /\ \E list \in {Rules, {}} : sync' = [sync EXCEPT ![p] = [at |-> "fetched", lists |-> {list}]]
    /\ UNCHANGED <<denied, listed>>

\* Two passes write one .domains.tmp: what the file of each then holds is the
\* list of either, or nothing yet.
Fetch(p) ==
    /\ sync[p].at = "none"
    /\ sync' =
          IF sync[Other(p)].at = "fetched"
          THEN [q \in {"runner", "watcher"} |->
                   [at |-> "fetched", lists |-> sync[Other(p)].lists \cup {Rules, {}}]]
          ELSE [sync EXCEPT ![p] = [at |-> "fetched", lists |-> {Rules}]]
    /\ UNCHANGED <<denied, listed>>

\* cmp: the file holds this already, and the pass ends without a reload.
Same(p) ==
    /\ sync[p].at = "fetched" /\ listed \in sync[p].lists
    /\ sync' = [sync EXCEPT ![p] = NoPass]
    /\ UNCHANGED <<denied, listed>>

Moved(p) == sync' = [sync EXCEPT ![p] = [at |-> "moved", lists |-> {}]]

Move(p) ==
    /\ sync[p].at = "fetched"
    /\ listed' \in sync[p].lists \ {listed}
    /\ Moved(p)
    /\ UNCHANGED denied

\* Mutant: squid is not told.
Load_Skipped(p) ==
    /\ sync[p].at = "moved"
    /\ sync' = [sync EXCEPT ![p] = NoPass]
    /\ UNCHANGED <<denied, listed>>

\* squid -k reconfigure reads what the file holds now.
Load(p) ==
    /\ sync[p].at = "moved"
    /\ denied' = listed
    /\ sync' = [sync EXCEPT ![p] = NoPass]
    /\ UNCHANGED listed

\* Ingestion is not reached, the other pass took the temporary file, docker or
\* squid refuses, or the script is killed.
Fail(p) ==
    /\ sync' = [sync EXCEPT ![p] = NoPass]
    /\ UNCHANGED <<denied, listed>>

Syncing == pc \in {"sync_reset", "sync_enforce"}
AfterSync == Goto(IF pc = "sync_reset" THEN "prime" ELSE "enforce")

SyncStarts ==
    /\ Syncing /\ Fetch("runner")
    /\ Note([seen EXCEPT !.alone = sync["watcher"].at = "none" /\ denied = listed])
    /\ UNCHANGED <<runner, thread, store, agent, bounds>>

SyncMoves ==
    /\ Syncing /\ Move("runner")
    /\ UNCHANGED <<runner, thread, store, agent, bounds, seen>>

SyncEnds ==
    /\ Syncing /\ (Same("runner") \/ Load("runner"))
    /\ AfterSync
    /\ Note(IF pc = "sync_reset"
            THEN [seen EXCEPT !.clean = @ /\ seen.alone, !.alone = FALSE]
            ELSE [seen EXCEPT !.base = IF seen.alone THEN seen.won ELSE {}, !.alone = FALSE])
    /\ UNCHANGED <<thread, store, agent, bounds>>

\* The script's exit status is not looked at; one that takes over a minute
\* raises.
SyncFails ==
    /\ Syncing /\ Fail("runner")
    /\ AfterSync \/ Crash
    /\ Note([seen EXCEPT !.clean = @ /\ pc # "sync_reset", !.alone = FALSE])
    /\ UNCHANGED <<thread, store, agent, bounds>>

WatchStarts ==
    /\ ~Ended /\ passes < MaxPasses[mode]
    /\ passes' = passes + 1
    /\ Fetch("watcher")
    /\ Note([seen EXCEPT !.alone = FALSE])
    /\ UNCHANGED <<runner, thread, store, agent, troubles>>

\* In the loop errexit is off: a move that finds the temporary file taken by
\* the other pass is followed by the reload.
WatchMoves ==
    /\ ~Ended
    /\ \/ Same("watcher") \/ Move("watcher")
       \/ /\ sync["watcher"].at = "fetched" /\ Cardinality(sync["watcher"].lists) > 1
          /\ Moved("watcher") /\ UNCHANGED <<denied, listed>>
    /\ UNCHANGED <<runner, thread, store, agent, bounds, seen>>

WatchReloads ==
    /\ ~Ended /\ Load("watcher")
    /\ UNCHANGED <<runner, thread, store, agent, bounds, seen>>

WatchFails ==
    /\ ~Ended /\ sync["watcher"].at # "none" /\ Fail("watcher")
    /\ UNCHANGED <<runner, thread, store, agent, bounds, seen>>

\* Squid reads its list when its container starts.
SquidRestarts ==
    /\ ~Ended /\ denied' = listed
    /\ UNCHANGED <<listed, sync, runner, thread, store, agent, bounds, seen>>

-----------------------------------------------------------------------------
(* decide: the investigation and its filing.                               *)

BeginCycle ==
    /\ pc \in {"prime", "sleep"} /\ cycle < MaxCycles
    /\ pc' = "decide" /\ cycle' = cycle + 1
    /\ UNCHANGED <<mode, plan, row, pending, exit, thread, store, squid, agent, bounds, seen>>

Uploaded(d) == Cardinality({i \in DOMAIN events : events[i].dest = d /\ events[i].large})

\* The destinations of the events read that decide shows to the model.
Shown ==
    LET dests == {events[i].dest : i \in DOMAIN events}
        k == IF Cardinality(dests) <= Top THEN Cardinality(dests) ELSE Top
    IN {S \in SUBSET dests :
            /\ Cardinality(S) = k
            /\ \A d \in S, e \in dests \ S : Uploaded(d) >= Uploaded(e)}

\* The ranking that takes the model's place, cut to what it blocks.
Fallback(shown) ==
    {s \in SetToSeqs({d \in shown \ Routine : Uploaded(d) > 0}) :
        \A i, j \in DOMAIN s : i < j => Uploaded(s[i]) >= Uploaded(s[j])}

\* The model may name anything, and anything twice.
Answers(shown) ==
    SeqOf(Dests \cup {MadeUp}, MaxRows) \cup Fallback(shown)

Decide ==
    /\ pc = "decide"
    /\ \E shown \in Shown : \E a \in Answers(shown) :
           plan' = [evidence |-> shown, answer |-> a, handled |-> {}]
    /\ pc' = "read"
    /\ UNCHANGED <<mode, cycle, row, pending, exit, thread, store, squid,
                   agent, bounds, seen>>

\* Mutant: only what still waits for its decision counts as proposed.
Proposed_PendingOnly == {r.dest : r \in {s \in recs : s.status = "pending"}}

Proposed == {r.dest : r \in recs}

\* already_proposed: a read that fails counts as an empty one.
ReadProposed ==
    /\ pc = "read"
    /\ pc' = "submit"
    /\ \E rules, proposed \in BOOLEAN :
           /\ plan' = [plan EXCEPT !.handled =
                  (IF rules THEN Rules ELSE {}) \cup (IF proposed THEN Proposed ELSE {})]
           /\ IF rules /\ proposed THEN UNCHANGED troubles ELSE Tick
           /\ IF proposed THEN UNCHANGED seen
              ELSE Note([seen EXCEPT !.blind = @ \cup {cycle}])
    /\ UNCHANGED <<mode, cycle, row, pending, exit, thread, store, squid,
                   agent, passes>>

Filing == pc = "submit" /\ row <= Len(plan.answer)
Dest == plan.answer[row]
Proposal == [finding |-> Finding, dest |-> Dest, read |-> cycle, status |-> "pending"]

\* Mutant: what the model names is filed without evidence too.
Skipped_NoEvidence == Dest \in plan.handled

Skipped == Dest \in plan.handled \/ Dest \notin plan.evidence

SkipRow ==
    /\ Filing /\ Skipped
    /\ row' = row + 1
    /\ UNCHANGED <<mode, pc, cycle, plan, pending, exit, thread, store, squid,
                   agent, bounds, seen>>

\* Mutant: the finding is left to be made up later.
SubmitFinding_Skipped ==
    /\ Filing /\ ~Skipped
    /\ Goto("recommend")
    /\ UNCHANGED <<thread, store, squid, agent, bounds, seen>>

SubmitFinding ==
    /\ Filing /\ ~Skipped
    /\ findings' = findings \cup {Finding}
    /\ Goto("recommend")
    /\ UNCHANGED <<thread, events, recs, squid, agent, bounds, seen>>

RecommendPolicy ==
    /\ pc = "recommend"
    /\ recs' = recs \cup {Proposal}
    /\ pc' = "submit" /\ row' = row + 1
    /\ UNCHANGED <<mode, cycle, plan, pending, exit, thread, events, findings,
                   squid, agent, bounds, seen>>

\* One of the calls of decide fails, after the service has done it or before.
\* demo continuous goes on to its next cycle, unless the error is of a class it
\* does not catch.
DecideFails ==
    /\ pc \in {"decide", "recommend"} \/ (Filing /\ ~Skipped)
    /\ Tick
    /\ \/ pc' = "crashed" /\ exit' = 1
       \/ mode = "continuous" /\ pc' = "sleep" /\ UNCHANGED exit
    /\ plan' = NoPlan /\ row' = 1
    /\ UNCHANGED <<mode, cycle, pending>>
    /\ \/ UNCHANGED store
       \/ pc = "submit" /\ findings' = findings \cup {Finding} /\ UNCHANGED <<events, recs>>
       \/ pc = "recommend" /\ recs' = recs \cup {Proposal} /\ UNCHANGED <<events, findings>>
    /\ UNCHANGED <<thread, squid, agent, passes, seen>>

\* demo run goes on to enforce, with --no-auto-approve without the approvals.
Filed ==
    /\ pc = "submit" /\ row > Len(plan.answer)
    /\ IF mode = "run" THEN pc' \in {"list_pending", "sync_enforce"} ELSE pc' = "sleep"
    /\ plan' = NoPlan /\ row' = 1
    /\ UNCHANGED <<mode, cycle, pending, exit, thread, store, squid, agent,
                   bounds, seen>>

-----------------------------------------------------------------------------
(* enforce, and the end.                                                   *)

Pending == {r \in recs : r.status = "pending"}

ListPending ==
    /\ pc = "list_pending"
    /\ pc' = "approve"
    /\ \/ pending' = {r.finding : r \in Pending} /\ UNCHANGED troubles
       \/ pending' = {} /\ Tick
    /\ UNCHANGED <<mode, cycle, plan, row, exit, thread, store, squid, agent,
                   passes, seen>>

Decided(r, status) == recs' = (recs \ {r}) \cup {[r EXCEPT !.status = status]}

\* The service refuses a decision on what is decided or gone, and the runner
\* goes on with the next.
ApproveOne ==
    /\ pc = "approve"
    /\ \E f \in pending :
           /\ pending' = pending \ {f}
           /\ \/ \E r \in Pending :
                     /\ r.finding = f /\ Decided(r, "approved")
                     /\ Note([seen EXCEPT !.approved = @ \cup {r.dest},
                                          !.won = @ \cup {r.dest}])
                     /\ UNCHANGED troubles
              \/ /\ \A r \in Pending : r.finding # f
                 /\ UNCHANGED <<recs, troubles, seen>>
              \/ Tick /\ UNCHANGED <<recs, seen>>
    /\ UNCHANGED <<mode, pc, cycle, plan, row, exit, thread, events, findings,
                   squid, agent, passes>>

ApprovedAll ==
    /\ pc = "approve" /\ pending = {}
    /\ Goto("sync_enforce")
    /\ UNCHANGED <<thread, store, squid, agent, bounds, seen>>

\* The time is up.
Stop ==
    /\ pc = "enforce" \/ (mode = "continuous" /\ pc \in {"prime", "sleep"})
    /\ Goto("stop")
    /\ UNCHANGED <<thread, store, squid, agent, bounds, seen>>

\* The thread has a moment to finish; demo run exits with 0 when an upload was
\* blocked.
Result ==
    /\ pc = "stop"
    /\ pc' = "done"
    /\ exit' = IF mode = "run" /\ counters.blocked = 0 THEN 1 ELSE 0
    /\ UNCHANGED <<mode, cycle, plan, row, pending, thread, store, squid,
                   agent, bounds, seen>>

-----------------------------------------------------------------------------
(* The upload thread, through squid.                                       *)

Started == pc \notin {"preflight", "reset", "sync_reset"} /\ ~Ended

Attempt ==
    /\ Started /\ pc # "stop"
    /\ upload.pc = "idle" /\ counters.attempted < MaxUploads[mode]
    /\ \E d \in Pool : upload' = [pc |-> "sent", dest |-> d, after |-> pc = "enforce"]
    /\ counters' = [counters EXCEPT !.attempted = @ + 1]
    /\ UNCHANGED <<runner, store, squid, agent, bounds, seen>>

\* Squid looks at its list when the request comes, and never again.
Admit ==
    /\ Started /\ upload.pc = "sent"
    /\ LET refuse == upload.dest \in denied
       IN /\ upload' = [upload EXCEPT !.pc = IF refuse THEN "refused" ELSE "admitted"]
          /\ IF refuse THEN Note([seen EXCEPT !.refused = @ \cup {upload.dest}])
             ELSE UNCHANGED seen
    /\ UNCHANGED <<runner, counters, store, squid, agent, bounds>>

\* Of the events stored before, those beyond the newest are not read again.
Record(d, large) ==
    LET all == Append(events, [dest |-> d, large |-> large])
    IN events' = IF Len(all) <= Window THEN all ELSE Tail(all)

\* The collector posts squid's log line, or loses it.
Logged(d, large) ==
    /\ \/ UNCHANGED events
       \/ Record(d, large)
    /\ UNCHANGED <<findings, recs>>

UploadEnds ==
    /\ Started /\ upload.pc \in {"admitted", "refused"}
    /\ upload' = Idle
    /\ IF upload.pc = "admitted"
       THEN /\ counters' = [counters EXCEPT !.delivered = @ + 1]
            /\ Note([seen EXCEPT !.late = @ \/ (upload.after /\ upload.dest \in seen.base)])
       ELSE /\ counters' = [counters EXCEPT !.blocked = @ + 1]
            /\ UNCHANGED seen
    /\ Logged(upload.dest, upload.pc = "admitted")
    /\ UNCHANGED <<runner, squid, agent, bounds>>

\* Whatever else goes wrong with an upload is counted as blocked too, and an
\* error of another class ends the thread.
UploadFails ==
    /\ Started /\ upload.pc \in {"sent", "admitted"}
    /\ Tick
    /\ \/ /\ upload' = Idle
          /\ counters' = [counters EXCEPT !.blocked = @ + 1]
          /\ Note([seen EXCEPT !.network = TRUE])
       \/ /\ upload' = [Idle EXCEPT !.pc = "dead"]
          /\ UNCHANGED <<counters, seen>>
    /\ UNCHANGED <<runner, store, squid, agent, passes>>

-----------------------------------------------------------------------------
(* The others.                                                             *)

\* Routine requests: _normal_worker, demo simulate and the laptops, which may
\* upload much to a destination that has a history.
Traffic ==
    /\ ~Ended
    /\ \E d \in Routine, large \in BOOLEAN :
           /\ large => d \notin denied
           /\ Record(d, large)
    /\ UNCHANGED <<findings, recs, runner, thread, squid, agent, bounds, seen>>

\* seed_risk tries an upload and posts the event itself.
SeedRisk ==
    /\ ~Ended
    /\ \E d \in Pool, large \in BOOLEAN :
           /\ large => d \notin denied
           /\ Record(d, large)
    /\ UNCHANGED <<findings, recs, runner, thread, squid, agent, bounds, seen>>

Analyst ==
    /\ ~Ended
    /\ \E r \in Pending, status \in {"approved", "rejected"} :
           /\ Decided(r, status)
           /\ IF status = "approved"
              THEN Note([seen EXCEPT !.approved = @ \cup {r.dest}])
              ELSE UNCHANGED seen
    /\ UNCHANGED <<runner, thread, events, findings, squid, agent, bounds>>

\* seed_risk --clear, or the reset of another run.
Clear ==
    /\ ~Ended /\ Tick
    /\ Wipe
    /\ Note([seen EXCEPT !.wiped = @ \cup Unfinished, !.won = {}, !.base = {}])
    /\ UNCHANGED <<runner, thread, squid, agent, passes>>

\* triage: of the destinations without a history the one with the most bytes.
AgentTriage ==
    /\ ~Ended /\ agent.pc = "idle"
    /\ \E d \in Pool :
           /\ Uploaded(d) > 0
           /\ \A e \in Pool : Uploaded(e) <= Uploaded(d)
           /\ agent' = [pc |-> "picked", dest |-> d]
    /\ UNCHANGED <<runner, thread, store, squid, bounds, seen>>

AgentSubmits ==
    /\ ~Ended /\ agent.pc = "picked"
    /\ findings' = findings \cup {AgentFinding}
    /\ agent' = [agent EXCEPT !.pc = "submitted"]
    /\ UNCHANGED <<runner, thread, events, recs, squid, bounds, seen>>

\* The last cycle that has read the queue.
HasRead == IF pc \in {"decide", "read"} THEN cycle - 1 ELSE cycle

AgentProposal ==
    [finding |-> AgentFinding, dest |-> agent.dest, read |-> HasRead, status |-> "pending"]

\* The agent does not ask what has been proposed before.
AgentRecommends ==
    /\ ~Ended /\ agent.pc = "submitted"
    /\ recs' = recs \cup {AgentProposal}
    /\ agent' = [agent EXCEPT !.pc = "ended"]
    /\ UNCHANGED <<runner, thread, events, findings, squid, bounds, seen>>

AgentFails ==
    /\ ~Ended /\ agent.pc \in {"picked", "submitted"} /\ Tick
    /\ agent' = [agent EXCEPT !.pc = "ended"]
    /\ UNCHANGED <<runner, thread, store, squid, passes, seen>>

-----------------------------------------------------------------------------
Next ==
    \/ Preflight \/ Reset \/ Interrupt
    \/ SyncStarts \/ SyncMoves \/ SyncEnds \/ SyncFails
    \/ BeginCycle \/ Decide \/ ReadProposed \/ SkipRow \/ SubmitFinding
    \/ RecommendPolicy \/ DecideFails \/ Filed
    \/ ListPending \/ ApproveOne \/ ApprovedAll \/ Stop \/ Result
    \/ Attempt \/ Admit \/ UploadEnds \/ UploadFails
    \/ Traffic \/ SeedRisk \/ Analyst \/ Clear
    \/ WatchStarts \/ WatchMoves \/ WatchReloads \/ WatchFails \/ SquidRestarts
    \/ AgentTriage \/ AgentSubmits \/ AgentRecommends \/ AgentFails

Spec == Init /\ [][Next]_vars

-----------------------------------------------------------------------------
(* Properties.                                                             *)

\* The runner does not propose a destination for which a recommendation, of
\* whoever filed it and whatever the analyst has made of it, was in the queue
\* when its cycle read it (already_proposed), unless the queue could not be
\* read.  What is filed after the read, and what one answer names twice, may be
\* proposed twice.
OneProposal ==
    \A r, s \in recs :
        /\ s.finding[1] = "runner" /\ r.dest = s.dest
        /\ r.read < s.finding[2]
        => s.finding[2] \in seen.blind

\* No recommendation waits in the queue without the finding that explains it,
\* though either of the two calls may fail, unless the store was cleared
\* between them.
RecommendationsExplained ==
    \A r \in recs : r.finding \in findings \cup seen.wiped

\* When demo run reports success, with no upload lost to the network, after a
\* reset that emptied the store and whose sync came to its end without a pass of
\* the watching loop beside it and with squid not behind its file before, squid
\* refused an upload, and only uploads to destinations approved since: no pass
\* of the loop, restart or clear after it brings an old denial back.
SuccessIsThisRuns ==
    mode = "run" /\ exit = 0 /\ seen.clean /\ ~seen.network
        => seen.refused # {} /\ seen.refused \subseteq seen.approved

\* What the runner has got approved is delivered no more, once the sync of
\* enforce has come to its end without a pass of the watching loop beside it and
\* with squid not behind its file before: only an upload that was under way may
\* still get through, and no later pass, failed or killed, and no restart of
\* squid lifts the denial, until the store is cleared.
NoLateDelivery == ~seen.late

\* An upload counted as blocked was refused: "both mean refused".
BlockedMeansRefused ==
    mode = "run" /\ exit = 0 => seen.refused # {}

\* What was approved and enforced "must not come back either".
NeverComesBack ==
    \A r, s \in recs :
        r.status = "approved" /\ s.status = "pending" => r.dest # s.dest

\* "Never block a destination that has prior history".
RoutineStaysOpen == Rules \cap Routine = {}
=============================================================================
