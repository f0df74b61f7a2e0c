----------------------------- MODULE DemoRun_proofs -----------------------------
(***************************************************************************)
(* What holds of a demo run for any catalog, answers of the model, number  *)
(* of cycles, uploads, failures and clears.                                *)
(*                                                                         *)
(* Each of the four properties rests on an invariant of its own: what the  *)
(* runner has read of the queue still covers its earlier cycles; who is    *)
(* between a finding and its recommendation has the finding in the store   *)
(* or among those that were cleared; what squid denies, what its file and  *)
(* what a pass of the sync holds since the reset has been approved since   *)
(* the reset; and what was approved and loaded stays among the rules, in   *)
(* the file, in squid's list and in what a later pass brings, so that a    *)
(* later upload is refused.                                                *)
(***************************************************************************)
EXTENDS DemoRun, FiniteSetTheorems, SequenceTheorems, TLAPS

USE DEF squid

-----------------------------------------------------------------------------
(* Types.                                                                  *)

\* The row that is filed has evidence and was not handled.
RowInv ==
    /\ row \in Nat \ {0}
    /\ pc = "recommend" =>
           row <= Len(plan.answer) /\ Dest \in plan.evidence \ plan.handled

AgentInv == agent.pc \in {"picked", "submitted"} => agent.dest \in Pool

UploadInv == upload.pc \in {"sent", "admitted", "refused"} => upload.dest \in Pool

rest == <<squid, agent, bounds, seen>>

RunnerTyped ==
    /\ mode \in {"run", "continuous"}
    /\ pc \in {"preflight", "reset", "sync_reset", "prime", "decide", "read", "submit",
               "recommend", "list_pending", "approve", "sync_enforce", "enforce",
               "sleep", "stop", "done", "crashed"}
    /\ cycle \in 0..MaxCycles
    /\ plan \in Plans
    /\ pending \subseteq FindingIds
    /\ pc \in {"decide", "read"} => cycle # 0
    /\ exit \in {None, 0, 1, 2, 130}
    /\ RowInv

ThreadTyped ==
    /\ upload \in Uploads
    /\ counters \in [attempted : Nat, delivered : Nat, blocked : Nat]
    /\ UploadInv

StoreTyped ==
    /\ events \in Seq([dest : Dests, large : BOOLEAN]) /\ Len(events) <= Window
    /\ findings \subseteq FindingIds
    /\ recs \subseteq Recommendations

SquidTyped == denied \subseteq Dests /\ listed \subseteq Dests /\ sync \in Passes

RestTyped ==
    /\ SquidTyped
    /\ agent \in Agents
    /\ passes \in Nat /\ troubles \in Nat
    /\ seen \in Histories
    /\ AgentInv

TypeInv == RunnerTyped /\ ThreadTyped /\ StoreTyped /\ RestTyped

LEMMA TypeInvTypeOK == TypeInv => TypeOK
BY DEF TypeInv, SquidTyped, RunnerTyped, ThreadTyped, StoreTyped, 
   RestTyped, RowInv, TypeOK

\* What is asked of the queue answers with destinations.
LEMMA RulesAreDests ==
    ASSUME StoreTyped
    PROVE  Rules \subseteq Dests /\ Proposed \subseteq Dests
BY DEF StoreTyped, Recommendations, Rules, Proposed

\* What is stored of another event.
LEMMA RecordTyped ==
    ASSUME StoreTyped, NEW d \in Dests, NEW large \in BOOLEAN, Record(d, large)
    PROVE  /\ events' \in Seq([dest : Dests, large : BOOLEAN])
           /\ Len(events') <= Window
<1> DEFINE all == Append(events, [dest |-> d, large |-> large])
<1>1. /\ all \in Seq([dest : Dests, large : BOOLEAN])
      /\ Len(all) = Len(events) + 1 /\ Len(events) \in Nat /\ Len(events) <= Window
      /\ Window \in Nat
      BY DemoAssumption DEF StoreTyped
<1> HIDE DEF all
<1>2. CASE Len(all) <= Window
      BY <1>1, <1>2 DEF Record, all
<1>3. CASE ~ Len(all) <= Window
  <2>1. events' = Tail(all) /\ all # <<>>
        BY <1>1, <1>3 DEF Record, all
  <2>2. QED BY <1>1, <2>1
<1>4. QED BY <1>2, <1>3

\* A decision keeps what a recommendation is of.
LEMMA DecidedTyped ==
    ASSUME StoreTyped, NEW r \in recs, NEW status \in {"approved", "rejected"},
           Decided(r, status)
    PROVE  recs' \subseteq Recommendations /\ r.dest \in Dests
BY DEF StoreTyped, Recommendations, Decided

\* The proposal of the row that is filed.
LEMMA ProposalTyped ==
     ASSUME TypeInv, pc = "recommend"
    PROVE  Proposal \in Recommendations
<1>1. Dest \in Dests /\ row \in Nat /\ cycle \in 0..MaxCycles
      BY DEF TypeInv, RunnerTyped, RowInv, Plans
<1>2. QED BY <1>1 DEF Proposal, Finding, FindingIds, Filers, Recommendations

\* A repetition of an answer is a sequence, and so is the ranking, which has
\* finitely many destinations to rank because the store has.
LEMMA AnswersAreSequences ==
    ASSUME StoreTyped, NEW shown \in Shown, NEW a \in Answers(shown)
    PROVE  shown \subseteq Dests /\ a \in Seq(Dests \cup {MadeUp})
<1> DEFINE stored == {events[i].dest : i \in DOMAIN events}
           ranked == {d \in shown \ Routine : Uploaded(d) > 0}
           f == [i \in 1..Len(events) |-> events[i].dest]
<1>1. /\ Len(events) \in Nat /\ DOMAIN events = 1..Len(events)
      /\ \A i \in 1..Len(events) : events[i].dest \in Dests
  <2>1. events \in Seq([dest : Dests, large : BOOLEAN])
        BY DEF StoreTyped
  <2>2. \A i \in 1..Len(events) : events[i] \in [dest : Dests, large : BOOLEAN]
        BY <2>1, ElementOfSeq
  <2>3. QED BY <2>1, <2>2
<1>2. stored \subseteq Dests /\ shown \subseteq stored
      BY <1>1 DEF Shown
<1>3. CASE a \in SeqOf(Dests \cup {MadeUp}, MaxRows)
  <2>1. PICK n \in 0..MaxRows : a \in [1..n -> Dests \cup {MadeUp}]
        BY <1>3 DEF SeqOf
  <2>2. n \in Nat
        BY <2>1, DemoAssumption
  <2>3. QED BY <1>2, <2>1, <2>2, SeqDef
<1>4. CASE a \in Fallback(shown)
  <2>1. f \in Surjection(1..Len(events), stored)
        BY <1>1 DEF Surjection
  <2>2. IsFiniteSet(stored)
        BY <1>1, <2>1, FS_NatSurjection DEF ExistsSurjection
  <2>3. ranked \subseteq stored
        BY <1>2
  <2>4. Cardinality(ranked) \in Nat
        BY <2>2, <2>3, FS_Subset, FS_CardinalityType
  <2>5. a \in SetToSeqs(ranked)
        BY <1>4 DEF Fallback
  <2>6. a \in [1..Cardinality(ranked) -> ranked]
        BY <2>5 DEF SetToSeqs
  <2>7. a \in [1..Cardinality(ranked) -> Dests \cup {MadeUp}]
        BY <1>2, <2>3, <2>6
  <2>8. QED BY <1>2, <2>4, <2>7, SeqDef
<1>5. QED BY <1>3, <1>4 DEF Answers

\* At the start everything has its type.
LEMMA TypeInit == Init => TypeInv
<1> SUFFICES ASSUME Init PROVE TypeInv
    OBVIOUS
<1>1. RunnerTyped
      BY DemoAssumption DEF Init, RunnerTyped, RowInv, NoPlan, Plans
<1>2. ThreadTyped
      BY DEF Init, ThreadTyped, UploadInv, Uploads, Idle
<1>3. StoreTyped
      BY DemoAssumption
      DEF Init, StoreTyped, Leftovers, Recommendations, FindingIds, Filers, Dests
<1>4. RestTyped
  <2>1. SquidTyped
        BY <1>3, RulesAreDests DEF Init, SquidTyped, Passes, NoPass
  <2>2. QED BY <2>1, DemoAssumption DEF Init, RestTyped, AgentInv, Agents, Histories
<1>5. QED BY <1>1, <1>2, <1>3, <1>4 DEF TypeInv

\* What a step leaves alone stays typed.
LEMMA TypesKept ==
    ASSUME TypeInv
    PROVE  /\ UNCHANGED runner => RunnerTyped'
           /\ UNCHANGED thread => ThreadTyped'
           /\ UNCHANGED store => StoreTyped'
           /\ UNCHANGED rest => RestTyped'
BY DEF TypeInv, runner, thread, store, rest, bounds, RunnerTyped, ThreadTyped,
   StoreTyped, RestTyped,
       SquidTyped, RowInv, UploadInv, AgentInv, Dest

\* An empty store is a store.
LEMMA WipeTyped ==
    ASSUME Wipe
    PROVE  StoreTyped'
BY DemoAssumption DEF Wipe, StoreTyped

\* The parts of the history.
LEMMA SeenFields ==
    ASSUME RestTyped
    PROVE  /\ seen.clean \in BOOLEAN /\ seen.network \in BOOLEAN /\ seen.late \in BOOLEAN
           /\ seen.approved \subseteq Dests /\ seen.refused \subseteq Dests
           /\ seen.won \subseteq Dests /\ seen.base \subseteq Dests
           /\ seen.blind \subseteq 0..MaxCycles
           /\ seen.wiped \subseteq FindingIds
BY DEF RestTyped, Histories

\* Who is between the two calls has a finding.
LEMMA UnfinishedTyped ==
    ASSUME TypeInv
    PROVE  Unfinished \subseteq FindingIds
BY DemoAssumption
   DEF TypeInv, RunnerTyped, RowInv, Unfinished, Finding, AgentFinding, FindingIds,
       Filers

-----------------------------------------------------------------------------
(* The passes of the sync.                                                 *)

RunnerSync == SyncStarts \/ SyncMoves \/ SyncEnds \/ SyncFails

LoopOrSquid == WatchStarts \/ WatchMoves \/ WatchReloads \/ WatchFails \/ SquidRestarts

Passers == {"runner", "watcher"}

\* A pass handles lists of destinations.
LEMMA PassTyped ==
    ASSUME TypeInv, NEW p \in Passers,
           Fetch(p) \/ Same(p) \/ Move(p) \/ Load(p) \/ Fail(p)
    PROVE  SquidTyped'
<1> USE DEF TypeInv, RestTyped, SquidTyped, Passes, Passers
<1>1. Rules \in SUBSET Dests
      BY RulesAreDests
<1>2. CASE Fetch(p)
  <2>1. Other(p) \in Passers
        BY DEF Other
  <2>2. sync[Other(p)].lists \cup {Rules, {}} \in SUBSET (SUBSET Dests)
        BY <1>1, <2>1
  <2>3. {Rules} \in SUBSET (SUBSET Dests)
        BY <1>1
  <2> DEFINE both == sync[Other(p)].lists \cup {Rules, {}}
  <2>4. CASE sync' = [q \in {"runner", "watcher"} |-> [at |-> "fetched", lists |-> both]]
    <3> HIDE DEF both
    <3>1. [at |-> "fetched", lists |-> both] \in
              [at : {"none", "fetched", "moved"}, lists : SUBSET (SUBSET Dests)]
          BY <2>2 DEF both
    <3>2. QED BY <1>2, <2>4, <3>1 DEF Fetch
  <2>5. CASE sync' = [sync EXCEPT ![p] = [at |-> "fetched", lists |-> {Rules}]]
        BY <1>2, <2>3, <2>5 DEF Fetch
  <2>6. QED BY <1>2, <2>4, <2>5 DEF Fetch
<1>3. CASE Same(p) \/ Load(p) \/ Fail(p)
      BY <1>3 DEF Same, Load, Fail, NoPass
<1>4. CASE Move(p)
  <2>1. listed' \in sync[p].lists /\ sync[p].lists \subseteq SUBSET Dests
        BY <1>4 DEF Move
  <2>2. QED BY <1>4, <2>1 DEF Move, Moved
<1>5. QED BY <1>2, <1>3, <1>4

\* What the history keeps while lists are synced.
HistoryKept ==
    /\ seen'.approved = seen.approved /\ seen'.refused = seen.refused
    /\ seen'.network = seen.network /\ seen'.late = seen.late
    /\ seen'.blind = seen.blind /\ seen'.wiped = seen.wiped /\ seen'.won = seen.won

\* The runner's pass changes the lists and goes on, or ends the program.
LEMMA RunnerSyncs ==
    ASSUME TypeInv, RunnerSync
    PROVE  /\ pc \in {"sync_reset", "sync_enforce"}
           /\ UNCHANGED <<mode, cycle, plan, row, pending, thread, store, agent, bounds>>
           /\ \/ pc' = pc /\ exit' = exit
              \/ /\ pc' = IF pc = "sync_reset" THEN "prime" ELSE "enforce"
                 /\ exit' = exit
              \/ pc' = "crashed" /\ exit' = 1
           /\ HistoryKept
           /\ seen'.clean => seen.clean
           /\ seen' \in Histories
           /\ SquidTyped'
<1>0. seen \in Histories
      BY DEF TypeInv, RestTyped
<1> USE DEF RunnerSync, HistoryKept, Syncing, Note
<1>1. CASE SyncStarts
  <2>1. (sync["watcher"].at = "none" /\ denied = listed) \in BOOLEAN
        OBVIOUS
  <2>2. SquidTyped'
        BY <1>1, PassTyped DEF SyncStarts, Passers
  <2>3. QED BY <1>0, <1>1, <2>1, <2>2 DEF SyncStarts, runner, Histories
<1>2. CASE SyncMoves
  <2>1. SquidTyped'
        BY <1>2, PassTyped DEF SyncMoves, Passers
  <2>2. QED BY <1>0, <1>2, <2>1 DEF SyncMoves, runner, Histories
<1>3. CASE SyncEnds
  <2>1. SquidTyped'
        BY <1>3, PassTyped DEF SyncEnds, Passers
  <2>2. (IF seen.alone THEN seen.won ELSE {}) \subseteq Dests
        BY <1>0 DEF Histories
  <2>3. seen' \in Histories /\ HistoryKept /\ (seen'.clean => seen.clean)
        BY <1>0, <1>3, <2>2 DEF SyncEnds, Histories
  <2>4. QED BY <1>3, <2>1, <2>3 DEF SyncEnds, AfterSync, Goto
<1>4. CASE SyncFails
  <2>1. SquidTyped'
        BY <1>4, PassTyped DEF SyncFails, Passers
  <2>2. (seen.clean /\ pc # "sync_reset") \in BOOLEAN
        BY <1>0 DEF Histories
  <2>3. seen' \in Histories /\ HistoryKept /\ (seen'.clean => seen.clean)
        BY <1>0, <1>4, <2>2 DEF SyncFails, Histories
  <2>4. QED BY <1>4, <2>1, <2>3 DEF SyncFails, AfterSync, Goto, Crash
<1>5. QED BY <1>1, <1>2, <1>3, <1>4

\* The loop and squid change nothing else.
LEMMA LoopOrSquids ==
    ASSUME TypeInv, LoopOrSquid
    PROVE  /\ UNCHANGED <<runner, thread, store, agent, troubles>>
           /\ passes' \in Nat
           /\ ~Ended
           /\ HistoryKept
           /\ seen'.clean = seen.clean /\ seen'.base = seen.base
           /\ seen' \in Histories
           /\ SquidTyped'
<1>0. seen \in Histories /\ passes \in Nat
      BY DEF TypeInv, RestTyped
<1> USE DEF LoopOrSquid, HistoryKept, Note, bounds
<1>1. CASE WatchStarts
  <2>1. SquidTyped'
        BY <1>1, PassTyped DEF WatchStarts, Passers
  <2>2. seen' = [seen EXCEPT !.alone = FALSE]
        BY <1>1 DEF WatchStarts
  <2>3. /\ HistoryKept /\ seen'.clean = seen.clean /\ seen'.base = seen.base
        /\ seen' \in Histories
        BY <1>0, <2>2 DEF Histories
  <2>4. QED BY <1>0, <1>1, <2>1, <2>3 DEF WatchStarts
<1>2. CASE WatchReloads \/ WatchFails
  <2>1. SquidTyped'
        BY <1>2, PassTyped DEF WatchReloads, WatchFails, Passers
  <2>2. QED BY <1>0, <1>2, <2>1 DEF WatchReloads, WatchFails
<1>3. CASE WatchMoves
  <2>1. Same("watcher") \/ Move("watcher") => SquidTyped'
        BY PassTyped DEF Passers
  <2>2. Moved("watcher") /\ UNCHANGED <<denied, listed>> => SquidTyped'
        BY DEF Moved, TypeInv, RestTyped, SquidTyped, Passes
  <2>3. SquidTyped'
        BY <1>3, <2>1, <2>2 DEF WatchMoves
  <2>4. QED BY <1>0, <1>3, <2>3 DEF WatchMoves
<1>4. CASE SquidRestarts
      BY <1>0, <1>4 DEF SquidRestarts, TypeInv, RestTyped, SquidTyped
<1>5. QED BY <1>1, <1>2, <1>3, <1>4

-----------------------------------------------------------------------------
(* The types of the next state.                                            *)

\* The steps that change more than a label, one lemma each.
LEMMA ResetTyped ==
    ASSUME TypeInv, Reset
    PROVE  TypeInv'
<1> USE DEF TypeInv
<1>1. StoreTyped'
  <2>1. CASE Wipe
        BY <2>1, WipeTyped
  <2>2. CASE UNCHANGED store
        BY <2>2, TypesKept
  <2>3. QED BY <2>1, <2>2 DEF Reset
<1>2. RestTyped'
  <2>1. CASE seen' = [seen EXCEPT !.clean = TRUE, !.approved = {},
                                  !.wiped = @ \cup Unfinished]
    <3>1. seen' \in Histories
          BY <2>1, UnfinishedTyped DEF RestTyped, Histories
    <3>2. QED BY <3>1, DemoAssumption DEF Reset, RestTyped, SquidTyped, AgentInv, Tick, bounds
  <2>2. CASE UNCHANGED seen
        BY <2>2, DemoAssumption DEF Reset, RestTyped, SquidTyped, AgentInv, Tick, bounds
  <2>3. QED BY <2>1, <2>2 DEF Reset, Note
<1>3. QED BY <1>1, <1>2, WipeTyped, DemoAssumption
    DEF Reset, RunnerTyped, RowInv, Dest, Goto, Crash, thread, ThreadTyped, UploadInv

LEMMA DecideTyped ==
    ASSUME TypeInv, Decide
    PROVE  RunnerTyped'
<1> USE DEF TypeInv
<1>1. plan' \in Plans
  <2>1. PICK shown \in Shown : \E a \in Answers(shown) :
            plan' = [evidence |-> shown, answer |-> a, handled |-> {}]
        BY DEF Decide
  <2>2. PICK a \in Answers(shown) :
            plan' = [evidence |-> shown, answer |-> a, handled |-> {}]
        BY <2>1
  <2>3. shown \subseteq Dests /\ a \in Seq(Dests \cup {MadeUp})
        BY AnswersAreSequences
  <2>4. QED BY <2>2, <2>3 DEF Plans
<1>2. QED BY <1>1 DEF Decide, RunnerTyped, RowInv

LEMMA ReadProposedTyped ==
    ASSUME TypeInv, ReadProposed
    PROVE  RunnerTyped' /\ RestTyped'
<1> USE DEF TypeInv
<1>1. plan' \in Plans
  <2>1. \E known \in SUBSET Dests : plan' = [plan EXCEPT !.handled = known]
        BY RulesAreDests DEF ReadProposed
  <2>2. QED BY <2>1 DEF RunnerTyped, Plans
<1>2. RunnerTyped'
      BY <1>1 DEF ReadProposed, RunnerTyped, RowInv
<1>3. seen' \in Histories
  <2>1. cycle \in 0..MaxCycles /\ seen \in Histories
        BY DEF RunnerTyped, RestTyped
  <2>2. seen' = seen \/ seen' = [seen EXCEPT !.blind = @ \cup {cycle}]
        BY DEF ReadProposed, Note
  <2>3. QED BY <2>1, <2>2 DEF Histories
<1>4. RestTyped'
      BY <1>3, DemoAssumption DEF ReadProposed, RestTyped, SquidTyped, AgentInv, Tick
<1>5. QED BY <1>2, <1>4

LEMMA SubmitFindingTyped ==
    ASSUME TypeInv, SubmitFinding
    PROVE  StoreTyped'
<1> USE DEF TypeInv
<1>1. Finding \in FindingIds
      BY DEF RunnerTyped, RowInv, Finding, FindingIds, Filers
<1>2. QED BY <1>1 DEF SubmitFinding, StoreTyped

LEMMA RecommendPolicyTyped ==
    ASSUME TypeInv, RecommendPolicy
    PROVE  StoreTyped'
<1> USE DEF TypeInv
<1>1. Proposal \in Recommendations
      BY ProposalTyped DEF RecommendPolicy
<1>2. QED BY <1>1 DEF RecommendPolicy, StoreTyped

LEMMA DecideFailsTyped ==
    ASSUME TypeInv, DecideFails
    PROVE  RunnerTyped' /\ StoreTyped'
<1> USE DEF TypeInv
<1>1. RunnerTyped'
      BY DEF DecideFails, RunnerTyped, RowInv, NoPlan, Plans
<1>2. StoreTyped'
  <2>1. Finding \in FindingIds
        BY DEF RunnerTyped, RowInv, Finding, FindingIds, Filers
  <2>2. pc = "recommend" => Proposal \in Recommendations
        BY ProposalTyped
  <2>3. QED BY <2>1, <2>2 DEF DecideFails, store, StoreTyped
<1>3. QED BY <1>1, <1>2

LEMMA FiledTyped ==
    ASSUME TypeInv, Filed
    PROVE  RunnerTyped'
<1> USE DEF TypeInv
<1>1. QED
        BY DEF Filed, RunnerTyped, RowInv, NoPlan, Plans
LEMMA ListPendingTyped ==
    ASSUME TypeInv, ListPending
    PROVE  RunnerTyped'
<1> USE DEF TypeInv
<1>1. \A r \in Pending : r.finding \in FindingIds
      BY DEF StoreTyped, Recommendations, Pending
<1>2. QED BY <1>1 DEF ListPending, RunnerTyped, RowInv, Dest

\* An approval changes nothing but the list, the queue and the history, and
\* these two only together.
LEMMA Approval ==
    ASSUME ApproveOne
    PROVE  /\ pc = "approve"
           /\ UNCHANGED <<mode, pc, cycle, plan, row, exit, thread, events, findings,
                          squid, agent, passes>>
           /\ UNCHANGED troubles \/ Tick
           /\ \/ UNCHANGED <<recs, seen>>
              \/ \E r \in Pending :
                     /\ Decided(r, "approved")
                     /\ seen' = [seen EXCEPT !.approved = @ \cup {r.dest},
                                             !.won = @ \cup {r.dest}]
<1>1. /\ pc = "approve"
      /\ UNCHANGED <<mode, pc, cycle, plan, row, exit, thread, events, findings,
                     squid, agent, passes>>
      BY DEF ApproveOne
<1>2. UNCHANGED troubles \/ Tick
      BY DEF ApproveOne
<1>3. \/ UNCHANGED <<recs, seen>>
      \/ \E r \in Pending :
             /\ Decided(r, "approved")
             /\ seen' = [seen EXCEPT !.approved = @ \cup {r.dest}, !.won = @ \cup {r.dest}]
      BY DEF ApproveOne, Note
<1>4. QED BY <1>1, <1>2, <1>3

LEMMA ApproveOneTyped ==
    ASSUME TypeInv, ApproveOne
    PROVE  StoreTyped' /\ RestTyped'
<1> USE DEF TypeInv
<1>0. UNCHANGED <<events, findings, squid, agent, passes>> /\ troubles' \in Nat
  <2>1. UNCHANGED <<events, findings, squid, agent, passes>>
        BY Approval
  <2>2. UNCHANGED troubles \/ Tick
        BY Approval
  <2>3. QED BY <2>1, <2>2, DemoAssumption DEF RestTyped, Tick
<1>1. CASE UNCHANGED <<recs, seen>>
      BY <1>0, <1>1 DEF StoreTyped, RestTyped, SquidTyped, AgentInv
<1>2. ASSUME NEW r \in Pending, Decided(r, "approved"),
             seen' = [seen EXCEPT !.approved = @ \cup {r.dest}, !.won = @ \cup {r.dest}]
      PROVE  StoreTyped' /\ RestTyped'
  <2>1. recs' \subseteq Recommendations /\ r.dest \in Dests
        BY <1>2, DecidedTyped DEF Pending
  <2>2. seen' \in Histories
        BY <1>2, <2>1 DEF RestTyped, Histories
  <2>3. QED BY <1>0, <2>1, <2>2 DEF StoreTyped, RestTyped, SquidTyped, AgentInv
<1>3. QED BY <1>1, <1>2, Approval

LEMMA AttemptTyped ==
    ASSUME TypeInv, Attempt
    PROVE  ThreadTyped'
<1> USE DEF TypeInv
<1>1. PICK d \in Pool : upload' = [pc |-> "sent", dest |-> d, after |-> pc = "enforce"]
      BY DEF Attempt
<1>2. upload' \in Uploads
      BY <1>1, Zenon DEF Uploads, Dests
<1>3. counters' \in [attempted : Nat, delivered : Nat, blocked : Nat]
      BY DEF Attempt, ThreadTyped
<1>4. QED BY <1>1, <1>2, <1>3 DEF ThreadTyped, UploadInv

LEMMA UploadEndsTyped ==
    ASSUME TypeInv, UploadEnds
    PROVE  StoreTyped' /\ RestTyped'
<1> USE DEF TypeInv
<1>1. upload.dest \in Dests /\ upload.after \in BOOLEAN
      BY DEF UploadEnds, ThreadTyped, UploadInv, Uploads, Dests
<1>2. StoreTyped'
  <2>1. CASE UNCHANGED events
        BY <2>1 DEF UploadEnds, Logged, StoreTyped
  <2>2. CASE Record(upload.dest, upload.pc = "admitted")
    <3>1. (upload.pc = "admitted") \in BOOLEAN
          OBVIOUS
    <3>2. QED BY <1>1, <2>2, <3>1, RecordTyped DEF UploadEnds, Logged, StoreTyped
  <2>3. QED BY <2>1, <2>2 DEF UploadEnds, Logged
<1>3. RestTyped'
  <2>1. (seen.late \/ (upload.after /\ upload.dest \in seen.base)) \in BOOLEAN
        OBVIOUS
  <2>2. seen' \in Histories
        BY <2>1 DEF UploadEnds, Note, RestTyped, Histories
  <2>3. QED BY <2>2 DEF UploadEnds, RestTyped, SquidTyped, AgentInv, bounds
<1>4. QED BY <1>2, <1>3

LEMMA UploadFailsTyped ==
    ASSUME TypeInv, UploadFails
    PROVE  ThreadTyped' /\ RestTyped'
<1> USE DEF TypeInv
<1>1. upload' \in Uploads /\ upload'.pc \in {"idle", "dead"}
  <2>1. CASE upload' = Idle
        BY <2>1 DEF Uploads, Idle
  <2>2. CASE upload' = [Idle EXCEPT !.pc = "dead"]
        BY <2>2 DEF Uploads, Idle
  <2>3. QED BY <2>1, <2>2 DEF UploadFails
<1>2. counters' \in [attempted : Nat, delivered : Nat, blocked : Nat]
      BY DEF UploadFails, ThreadTyped
<1>3. seen' \in Histories
      BY DEF UploadFails, Note, RestTyped, Histories
<1>4. ThreadTyped'
      BY <1>1, <1>2 DEF ThreadTyped, UploadInv
<1>5. RestTyped'
      BY <1>3, DemoAssumption DEF UploadFails, RestTyped, SquidTyped, AgentInv, Tick
<1>6. QED BY <1>4, <1>5

LEMMA EventTyped ==
    ASSUME TypeInv, Traffic \/ SeedRisk
    PROVE  StoreTyped'
<1> USE DEF TypeInv
<1>1. PICK d \in Dests, large \in BOOLEAN : Record(d, large)
      BY DEF Traffic, SeedRisk, Dests
<1>2. QED BY <1>1, RecordTyped DEF Traffic, SeedRisk, StoreTyped

LEMMA AnalystTyped ==
    ASSUME TypeInv, Analyst
    PROVE  StoreTyped' /\ RestTyped'
<1> USE DEF TypeInv
<1>1. PICK r \in Pending, status \in {"approved", "rejected"} :
            /\ Decided(r, status)
            /\ seen' = seen \/ seen' = [seen EXCEPT !.approved = @ \cup {r.dest}]
      BY DEF Analyst, Note
<1>2. recs' \subseteq Recommendations /\ r.dest \in Dests
      BY <1>1, DecidedTyped DEF Pending
<1>3. seen' \in Histories
      BY <1>1, <1>2 DEF RestTyped, Histories
<1>4. QED BY <1>2, <1>3 DEF Analyst, StoreTyped, RestTyped, SquidTyped, AgentInv, bounds

LEMMA ClearTyped ==
    ASSUME TypeInv, Clear
    PROVE  RestTyped'
<1> USE DEF TypeInv
  <1>1. seen' \in Histories
        BY UnfinishedTyped DEF Clear, Note, RestTyped, Histories
  <1>2. QED BY <1>1, DemoAssumption DEF Clear, RestTyped, SquidTyped, AgentInv, Tick, bounds

LEMMA AgentRecommendsTyped ==
    ASSUME TypeInv, AgentRecommends
    PROVE  StoreTyped'
<1> USE DEF TypeInv
<1>1. AgentFinding \in FindingIds /\ agent.dest \in Dests
      BY DemoAssumption DEF AgentRecommends, RestTyped, AgentInv, Dests, AgentFinding,
         FindingIds, Filers
<1>2. HasRead \in 0..MaxCycles
      BY DemoAssumption DEF RunnerTyped, HasRead
<1>3. AgentProposal \in Recommendations
      BY <1>1, <1>2 DEF AgentProposal, Recommendations
<1>4. QED BY <1>3 DEF AgentRecommends, StoreTyped

\* No step breaks a type.
LEMMA TypeStep == TypeInv /\ [Next]_vars => TypeInv'
<1> SUFFICES ASSUME TypeInv, [Next]_vars PROVE TypeInv'
    OBVIOUS
<1>1. CASE Preflight
  <2>1. RunnerTyped'
        BY <1>1
        DEF Preflight, TypeInv, RunnerTyped, RowInv, Dest, Plans, Goto, Tick, runner
  <2>2. RestTyped'
        BY <1>1, DemoAssumption
        DEF Preflight, TypeInv, RestTyped, SquidTyped, AgentInv, Agents, Histories, Goto, Tick,
            bounds
  <2>3. ThreadTyped' /\ StoreTyped'
        BY <1>1, TypesKept DEF Preflight
  <2>4. QED BY <2>1, <2>2, <2>3 DEF TypeInv
<1>2. CASE Reset
      BY <1>2, ResetTyped
<1>3. CASE RunnerSync
  <2>1. RunnerTyped'
        BY <1>3, RunnerSyncs DEF TypeInv, RunnerTyped, RowInv, Dest
  <2>2. RestTyped'
        BY <1>3, RunnerSyncs DEF TypeInv, RestTyped, SquidTyped, AgentInv, bounds
  <2>3. ThreadTyped' /\ StoreTyped'
        BY <1>3, RunnerSyncs, TypesKept
  <2>4. QED BY <2>1, <2>2, <2>3 DEF TypeInv
<1>4. CASE Interrupt
  <2>1. RunnerTyped'
        BY <1>4 DEF Interrupt, TypeInv, RunnerTyped, RowInv, Dest, Plans, runner
  <2>2. ThreadTyped' /\ StoreTyped' /\ RestTyped'
        BY <1>4, TypesKept DEF Interrupt, rest, bounds
  <2>3. QED BY <2>1, <2>2 DEF TypeInv
<1>5. CASE BeginCycle
  <2>1. RunnerTyped'
        BY <1>5, DemoAssumption
        DEF BeginCycle, TypeInv, RunnerTyped, RowInv, Dest, Plans, runner
  <2>2. ThreadTyped' /\ StoreTyped' /\ RestTyped'
        BY <1>5, TypesKept DEF BeginCycle, rest, bounds
  <2>3. QED BY <2>1, <2>2 DEF TypeInv
<1>6. CASE Decide
  <2>1. RunnerTyped'
        BY <1>6, DecideTyped
  <2>2. ThreadTyped' /\ StoreTyped' /\ RestTyped'
        BY <1>6, TypesKept DEF Decide, rest, bounds
  <2>3. QED BY <2>1, <2>2 DEF TypeInv
<1>7. CASE ReadProposed
  <2>1. RunnerTyped' /\ RestTyped'
        BY <1>7, ReadProposedTyped
  <2>2. ThreadTyped' /\ StoreTyped'
        BY <1>7, TypesKept DEF ReadProposed
  <2>3. QED BY <2>1, <2>2 DEF TypeInv
<1>8. CASE SkipRow
  <2>1. RunnerTyped'
        BY <1>8 DEF SkipRow, TypeInv, RunnerTyped, RowInv, Dest, Plans, Filing, runner
  <2>2. ThreadTyped' /\ StoreTyped' /\ RestTyped'
        BY <1>8, TypesKept DEF SkipRow, rest, bounds
  <2>3. QED BY <2>1, <2>2 DEF TypeInv
<1>9. CASE SubmitFinding
  <2>1. StoreTyped'
        BY <1>9, SubmitFindingTyped
  <2>2. RunnerTyped'
        BY <1>9
        DEF SubmitFinding, TypeInv, RunnerTyped, RowInv, Dest, Plans, Filing, Skipped,
            Goto, runner
  <2>3. ThreadTyped' /\ RestTyped'
        BY <1>9, TypesKept DEF SubmitFinding, rest, bounds
  <2>4. QED BY <2>1, <2>2, <2>3 DEF TypeInv
<1>10. CASE RecommendPolicy
  <2>1. StoreTyped'
        BY <1>10, RecommendPolicyTyped
  <2>2. RunnerTyped'
        BY <1>10 DEF RecommendPolicy, TypeInv, RunnerTyped, RowInv, Dest, Plans, runner
  <2>3. ThreadTyped' /\ RestTyped'
        BY <1>10, TypesKept DEF RecommendPolicy, rest, bounds
  <2>4. QED BY <2>1, <2>2, <2>3 DEF TypeInv
<1>11. CASE DecideFails
  <2>1. RunnerTyped' /\ StoreTyped'
        BY <1>11, DecideFailsTyped
  <2>2. RestTyped'
        BY <1>11, DemoAssumption
        DEF DecideFails, TypeInv, RestTyped, SquidTyped, AgentInv, Agents, Histories, Tick, bounds
  <2>3. ThreadTyped'
        BY <1>11, TypesKept DEF DecideFails
  <2>4. QED BY <2>1, <2>2, <2>3 DEF TypeInv
<1>12. CASE Filed
  <2>1. RunnerTyped'
        BY <1>12, FiledTyped
  <2>2. ThreadTyped' /\ StoreTyped' /\ RestTyped'
        BY <1>12, TypesKept DEF Filed, rest, bounds
  <2>3. QED BY <2>1, <2>2 DEF TypeInv
<1>13. CASE ListPending
  <2>1. RunnerTyped'
        BY <1>13, ListPendingTyped
  <2>2. RestTyped'
        BY <1>13, DemoAssumption
        DEF ListPending, TypeInv, RestTyped, SquidTyped, AgentInv, Agents, Histories, Tick, bounds
  <2>3. ThreadTyped' /\ StoreTyped'
        BY <1>13, TypesKept DEF ListPending
  <2>4. QED BY <2>1, <2>2, <2>3 DEF TypeInv
<1>14. CASE ApproveOne
  <2>1. StoreTyped' /\ RestTyped'
        BY <1>14, ApproveOneTyped
  <2>2. RunnerTyped'
        BY <1>14 DEF ApproveOne, TypeInv, RunnerTyped, RowInv, Dest, Plans, runner
  <2>3. ThreadTyped'
        BY <1>14, TypesKept DEF ApproveOne
  <2>4. QED BY <2>1, <2>2, <2>3 DEF TypeInv
<1>15. CASE ApprovedAll
  <2>1. RunnerTyped'
        BY <1>15
        DEF ApprovedAll, TypeInv, RunnerTyped, RowInv, Dest, Plans, Goto, runner
  <2>2. ThreadTyped' /\ StoreTyped' /\ RestTyped'
        BY <1>15, TypesKept DEF ApprovedAll, rest, bounds
  <2>3. QED BY <2>1, <2>2 DEF TypeInv
<1>16. CASE Stop
  <2>1. RunnerTyped'
        BY <1>16 DEF Stop, TypeInv, RunnerTyped, RowInv, Dest, Plans, Goto, runner
  <2>2. ThreadTyped' /\ StoreTyped' /\ RestTyped'
        BY <1>16, TypesKept DEF Stop, rest, bounds
  <2>3. QED BY <2>1, <2>2 DEF TypeInv
<1>17. CASE Result
  <2>1. RunnerTyped'
        BY <1>17 DEF Result, TypeInv, RunnerTyped, RowInv, Dest, Plans, runner
  <2>2. ThreadTyped' /\ StoreTyped' /\ RestTyped'
        BY <1>17, TypesKept DEF Result, rest, bounds
  <2>3. QED BY <2>1, <2>2 DEF TypeInv
<1>18. CASE Attempt
  <2>1. ThreadTyped'
        BY <1>18, AttemptTyped
  <2>2. RunnerTyped' /\ StoreTyped' /\ RestTyped'
        BY <1>18, TypesKept DEF Attempt, rest, bounds
  <2>3. QED BY <2>1, <2>2 DEF TypeInv
<1>19. CASE Admit
  <2>1. ThreadTyped'
        BY <1>19 DEF Admit, TypeInv, ThreadTyped, UploadInv, Uploads, Idle
  <2>2. RestTyped'
        BY <1>19, DemoAssumption
        DEF Admit, TypeInv, RestTyped, SquidTyped, AgentInv, Agents, Histories, Note, bounds
  <2>3. RunnerTyped' /\ StoreTyped'
        BY <1>19, TypesKept DEF Admit
  <2>4. QED BY <2>1, <2>2, <2>3 DEF TypeInv
<1>20. CASE UploadEnds
  <2>1. StoreTyped' /\ RestTyped'
        BY <1>20, UploadEndsTyped
  <2>2. ThreadTyped'
        BY <1>20 DEF UploadEnds, TypeInv, ThreadTyped, UploadInv, Uploads, Idle
  <2>3. RunnerTyped'
        BY <1>20, TypesKept DEF UploadEnds
  <2>4. QED BY <2>1, <2>2, <2>3 DEF TypeInv
<1>21. CASE UploadFails
  <2>1. ThreadTyped' /\ RestTyped'
        BY <1>21, UploadFailsTyped
  <2>2. RunnerTyped' /\ StoreTyped'
        BY <1>21, TypesKept DEF UploadFails
  <2>3. QED BY <2>1, <2>2 DEF TypeInv
<1>22. CASE Traffic
  <2>1. StoreTyped'
        BY <1>22, EventTyped
  <2>2. RunnerTyped' /\ ThreadTyped' /\ RestTyped'
        BY <1>22, TypesKept DEF Traffic, rest, bounds
  <2>3. QED BY <2>1, <2>2 DEF TypeInv
<1>23. CASE SeedRisk
  <2>1. StoreTyped'
        BY <1>23, EventTyped
  <2>2. RunnerTyped' /\ ThreadTyped' /\ RestTyped'
        BY <1>23, TypesKept DEF SeedRisk, rest, bounds
  <2>3. QED BY <2>1, <2>2 DEF TypeInv
<1>24. CASE Analyst
  <2>1. StoreTyped' /\ RestTyped'
        BY <1>24, AnalystTyped
  <2>2. RunnerTyped' /\ ThreadTyped'
        BY <1>24, TypesKept DEF Analyst
  <2>3. QED BY <2>1, <2>2 DEF TypeInv
<1>25. CASE LoopOrSquid
  <2>1. RestTyped'
        BY <1>25, LoopOrSquids DEF TypeInv, RestTyped, SquidTyped, AgentInv
  <2>2. RunnerTyped' /\ ThreadTyped' /\ StoreTyped'
        BY <1>25, LoopOrSquids, TypesKept
  <2>3. QED BY <2>1, <2>2 DEF TypeInv
<1>26. CASE Clear
  <2>1. StoreTyped' /\ RestTyped'
        BY <1>26, ClearTyped, WipeTyped DEF Clear
  <2>2. RunnerTyped' /\ ThreadTyped'
        BY <1>26, TypesKept DEF Clear
  <2>3. QED BY <2>1, <2>2 DEF TypeInv
<1>27. CASE AgentTriage
  <2>1. RestTyped'
        BY <1>27, DemoAssumption
        DEF AgentTriage, TypeInv, RestTyped, SquidTyped, AgentInv, Agents, Histories, Dests, bounds
  <2>2. RunnerTyped' /\ ThreadTyped' /\ StoreTyped'
        BY <1>27, TypesKept DEF AgentTriage
  <2>3. QED BY <2>1, <2>2 DEF TypeInv
<1>28. CASE AgentSubmits
  <2>1. StoreTyped'
        BY <1>28, DemoAssumption
        DEF AgentSubmits, TypeInv, StoreTyped, AgentFinding, FindingIds, Filers
  <2>2. RestTyped'
        BY <1>28, DemoAssumption
        DEF AgentSubmits, TypeInv, RestTyped, SquidTyped, AgentInv, Agents, Histories, bounds
  <2>3. RunnerTyped' /\ ThreadTyped'
        BY <1>28, TypesKept DEF AgentSubmits
  <2>4. QED BY <2>1, <2>2, <2>3 DEF TypeInv
<1>29. CASE AgentRecommends
  <2>1. StoreTyped'
        BY <1>29, AgentRecommendsTyped
  <2>2. RestTyped'
        BY <1>29, DemoAssumption
        DEF AgentRecommends, TypeInv, RestTyped, SquidTyped, AgentInv, Agents, Histories, bounds
  <2>3. RunnerTyped' /\ ThreadTyped'
        BY <1>29, TypesKept DEF AgentRecommends
  <2>4. QED BY <2>1, <2>2, <2>3 DEF TypeInv
<1>30. CASE AgentFails
  <2>1. RestTyped'
        BY <1>30, DemoAssumption
        DEF AgentFails, TypeInv, RestTyped, SquidTyped, AgentInv, Agents, Histories, Tick, bounds
  <2>2. RunnerTyped' /\ ThreadTyped' /\ StoreTyped'
        BY <1>30, TypesKept DEF AgentFails
  <2>3. QED BY <2>1, <2>2 DEF TypeInv
<1>31. CASE UNCHANGED vars
      BY <1>31, TypesKept DEF vars, rest, TypeInv
<1>32. QED
      BY <1>1, <1>2, <1>3, <1>4, <1>5, <1>6, <1>7, <1>8, <1>9, <1>10, <1>11, <1>12,
         <1>13, <1>14, <1>15, <1>16, <1>17, <1>18, <1>19, <1>20, <1>21, <1>22, <1>23,
         <1>24, <1>25, <1>26,
         <1>27, <1>28, <1>29, <1>30, <1>31 DEF Next, RunnerSync, LoopOrSquid

\* The state has its type, whatever is answered, fails, or is cleared meanwhile.
THEOREM DemoTypeCorrect == Spec => []TypeOK
BY TypeInit, TypeStep, TypeInvTypeOK, PTL DEF Spec

-----------------------------------------------------------------------------
(* What the steps do to the queue, to the findings and to the history.     *)

\* Who notes what in the history.
LEMMA HistoryGrows ==
    ASSUME TypeInv, [Next]_vars
    PROVE  /\ seen.wiped \subseteq seen'.wiped
           /\ seen.blind \subseteq seen'.blind
           /\ seen.refused \subseteq seen'.refused
           /\ seen.network => seen'.network
           /\ Reset \/ seen.approved \subseteq seen'.approved
<1> USE DEF Note
<1>0. seen \in Histories
      BY DEF TypeInv, RestTyped
<1>1. CASE UNCHANGED seen
      BY <1>1
<1>2. CASE Reset
      BY <1>0, <1>2 DEF Reset, Histories
<1>3. CASE RunnerSync
      BY <1>3, RunnerSyncs DEF HistoryKept
<1>4. CASE ReadProposed
      BY <1>0, <1>4 DEF ReadProposed, Histories
<1>5. CASE ApproveOne
      BY <1>0, <1>5, Approval DEF Histories
<1>6. CASE LoopOrSquid
      BY <1>6, LoopOrSquids DEF HistoryKept
<1>7. CASE Admit
      BY <1>0, <1>7 DEF Admit, Histories
<1>8. CASE UploadEnds \/ UploadFails
      BY <1>0, <1>8 DEF UploadEnds, UploadFails, Histories
<1>9. CASE Analyst
      BY <1>0, <1>9 DEF Analyst, Histories
<1>10. CASE Clear
      BY <1>0, <1>10 DEF Clear, Histories
<1>11. QED
  <2>1. CASE \/ Preflight \/ Interrupt \/ BeginCycle \/ Decide \/ SkipRow
             \/ SubmitFinding \/ RecommendPolicy \/ DecideFails \/ Filed
             \/ ListPending \/ ApprovedAll \/ Stop \/ Result
        BY <1>1, <2>1
        DEF Preflight, Interrupt, BeginCycle, Decide, SkipRow, SubmitFinding,
            RecommendPolicy, DecideFails, Filed, ListPending, ApprovedAll, Stop, Result
  <2>2. CASE \/ Attempt \/ Traffic \/ SeedRisk \/ AgentTriage \/ AgentSubmits
             \/ AgentRecommends \/ AgentFails \/ UNCHANGED vars
        BY <1>1, <2>2
        DEF Attempt, Traffic, SeedRisk, AgentTriage, AgentSubmits,
            AgentRecommends, AgentFails, vars
  <2>3. QED BY <1>2, <1>3, <1>4, <1>5, <1>6, <1>7, <1>8, <1>9, <1>10, <2>1, <2>2 
         DEF Next, RunnerSync, LoopOrSquid

\* A step leaves the queue alone, empties it, adds what the runner or the agent
\* proposes, or decides something that is pending.
LEMMA QueueSteps ==
    ASSUME TypeInv, [Next]_vars
    PROVE  \/ UNCHANGED recs
           \/ recs' = {} /\ (Reset \/ Clear)
           \/ pc = "recommend" /\ recs' = recs \cup {Proposal}
           \/ /\ agent.pc = "submitted"
              /\ recs' = recs \cup {AgentProposal}
           \/ \E r \in Pending, status \in {"approved", "rejected"} :
                  /\ Decided(r, status)
                  /\ status = "approved" => r.dest \in seen'.approved
<1>0. seen \in Histories
      BY DEF TypeInv, RestTyped
<1>1. CASE Reset \/ Clear
      BY <1>1 DEF Reset, Clear, Wipe, store
<1>2. CASE RecommendPolicy \/ DecideFails
      BY <1>2 DEF RecommendPolicy, DecideFails, store
<1>3. CASE AgentRecommends
      BY <1>3 DEF AgentRecommends
<1>4. CASE ApproveOne
      BY <1>0, <1>4, Approval DEF Histories
<1>5. CASE Analyst
      BY <1>0, <1>5 DEF Analyst, Note, Histories
<1>6. CASE \/ Preflight \/ Interrupt \/ BeginCycle \/ Decide
           \/ ReadProposed \/ SkipRow \/ SubmitFinding \/ Filed \/ ListPending
           \/ ApprovedAll \/ Stop \/ Result
      BY <1>6
      DEF Preflight, Interrupt, BeginCycle, Decide, ReadProposed, SkipRow,
          SubmitFinding, Filed, ListPending, ApprovedAll, Stop, Result, store
<1>7. CASE \/ Attempt \/ Admit \/ UploadEnds \/ UploadFails \/ Traffic \/ SeedRisk
           \/ AgentTriage \/ AgentSubmits \/ AgentFails \/ UNCHANGED vars
      BY <1>7
      DEF Attempt, Admit, UploadEnds, Logged, UploadFails, Traffic, SeedRisk,
          AgentTriage, AgentSubmits, AgentFails, vars, store
<1>8. CASE RunnerSync
      BY <1>8, RunnerSyncs DEF store
<1>9. CASE LoopOrSquid
      BY <1>9, LoopOrSquids DEF store
<1>10. QED
      BY <1>1, <1>2, <1>3, <1>4, <1>5, <1>6, <1>7, <1>8, <1>9
      DEF Next, RunnerSync, LoopOrSquid

\* Where a recommendation of the next state comes from.
LEMMA WhoFiles ==
    ASSUME TypeInv, [Next]_vars, NEW r \in recs'
    PROVE  \/ \E s \in recs : s.finding = r.finding /\ s.dest = r.dest /\ s.read = r.read
           \/ /\ pc = "recommend"
              /\ r.finding = Finding /\ r.dest = Dest /\ r.read = cycle
           \/ /\ agent.pc = "submitted"
              /\ r.finding = AgentFinding /\ r.read = HasRead
<1>1. CASE \E q \in Pending, status \in {"approved", "rejected"} : Decided(q, status)
  <2>1. PICK q \in Pending, status \in {"approved", "rejected"} : Decided(q, status)
        BY <1>1
  <2>2. q \in recs /\ q \in Recommendations
        BY DEF Pending, TypeInv, StoreTyped
  <2>3. r \in recs \/ r = [q EXCEPT !.status = status]
        BY <2>1 DEF Decided
  <2>4. QED BY <2>2, <2>3 DEF Recommendations
<1>2. CASE UNCHANGED recs \/ recs' = {}
      BY <1>2
<1>3. CASE pc = "recommend" /\ recs' = recs \cup {Proposal}
      BY <1>3 DEF Proposal
<1>4. CASE agent.pc = "submitted" /\ recs' = recs \cup
               {AgentProposal}
      BY <1>4 DEF AgentProposal
<1>5. QED BY <1>1, <1>2, <1>3, <1>4, QueueSteps

\* Only a clear takes a rule away, and a rule that comes has been approved.
LEMMA RulesSteps ==
    ASSUME TypeInv, [Next]_vars
    PROVE  \/ Rules' = {} /\ (Reset \/ Clear)
           \/ Rules \subseteq Rules' /\ Rules' \subseteq Rules \cup seen'.approved
<1>0. recs \subseteq Recommendations
      BY DEF TypeInv, StoreTyped
<1>1. CASE UNCHANGED recs
      BY <1>1 DEF Rules
<1>2. CASE recs' = {} /\ (Reset \/ Clear)
      BY <1>2 DEF Rules
<1>3. CASE \/ recs' = recs \cup {Proposal}
           \/ recs' = recs \cup {AgentProposal}
      BY <1>3 DEF Rules, Proposal, AgentProposal
<1>4. CASE \E r \in Pending, status \in {"approved", "rejected"} :
               /\ Decided(r, status)
               /\ status = "approved" => r.dest \in seen'.approved
  <2>1. PICK r \in Pending, status \in {"approved", "rejected"} :
                 /\ Decided(r, status)
                 /\ status = "approved" => r.dest \in seen'.approved
        BY <1>4
  <2> DEFINE q == [r EXCEPT !.status = status]
  <2>2. r \in recs /\ r.status = "pending" /\ q.status = status /\ q.dest = r.dest
        BY <1>0 DEF Pending, Recommendations
  <2>3. recs' = (recs \ {r}) \cup {q}
        BY <2>1 DEF Decided
  <2> HIDE DEF q
  <2>4. QED BY <2>1, <2>2, <2>3 DEF Rules
<1>5. QED BY <1>1, <1>2, <1>3, <1>4, QueueSteps

\* A finding goes only with the whole store, and then it is noted which
\* recommendations were still to come.
LEMMA FindingsStay ==
    ASSUME TypeInv, [Next]_vars
    PROVE  \/ findings \subseteq findings'
           \/ recs' = {} /\ Unfinished \subseteq seen'.wiped
<1>0. seen \in Histories
      BY DEF TypeInv, RestTyped
<1>1. CASE Reset \/ Clear
      BY <1>0, <1>1 DEF Reset, Clear, Wipe, store, Note, Histories
<1>2. CASE \/ Preflight \/ Interrupt \/ BeginCycle \/ Decide
           \/ ReadProposed \/ SkipRow \/ SubmitFinding \/ Filed \/ ListPending
           \/ RecommendPolicy \/ DecideFails
      BY <1>2
      DEF Preflight, Interrupt, BeginCycle, Decide, ReadProposed, SkipRow,
          SubmitFinding, Filed, ListPending, RecommendPolicy, DecideFails, store
<1>3. CASE \/ ApproveOne \/ ApprovedAll \/ Stop \/ Result
           \/ Attempt \/ Admit \/ UploadEnds \/ UploadFails \/ Traffic \/ SeedRisk
      BY <1>3, Approval
      DEF ApprovedAll, Stop, Result, Attempt, Admit, UploadEnds,
          Logged, UploadFails, Traffic, SeedRisk, store
<1>4. CASE \/ Analyst \/ AgentTriage \/ AgentSubmits \/ AgentRecommends
           \/ AgentFails \/ UNCHANGED vars
      BY <1>4
      DEF Analyst, AgentTriage, AgentSubmits, AgentRecommends, AgentFails, vars,
          store
<1>5. CASE RunnerSync \/ LoopOrSquid
      BY <1>5, RunnerSyncs, LoopOrSquids DEF store
<1>6. QED BY <1>1, <1>2, <1>3, <1>4, <1>5 DEF Next, RunnerSync, LoopOrSquid

\* The runner files nothing that it has not read the queue for.
LEMMA RunnerFiles ==
    ASSUME TypeInv, [Next]_vars, pc' \in {"submit", "recommend"}
    PROVE  /\ UNCHANGED cycle
           /\ \/ pc \in {"submit", "recommend"} /\ plan'.handled = plan.handled
              \/ /\ pc' = "submit" /\ UNCHANGED recs
                 /\ cycle \in seen'.blind \/ Proposed \subseteq plan'.handled
           /\ pc' = "recommend" => /\ UNCHANGED row
                                   /\ pc = "recommend" \/ Finding \in findings'
<1> USE DEF Goto, Crash
<1>0. seen \in Histories /\ plan \in Plans
      BY DEF TypeInv, RunnerTyped, RestTyped
<1>1. CASE UNCHANGED runner
      BY <1>1 DEF runner
<1>2. CASE ReadProposed
  <2>1. PICK rules \in BOOLEAN, proposed \in BOOLEAN :
               /\ plan' = [plan EXCEPT !.handled =
                    (IF rules THEN Rules ELSE {}) \cup (IF proposed THEN Proposed ELSE {})]
               /\ proposed \/ seen' = [seen EXCEPT !.blind = @ \cup {cycle}]
        BY <1>2 DEF ReadProposed, Note
  <2>2. Proposed \subseteq plan'.handled \/ cycle \in seen'.blind
        BY <1>0, <2>1 DEF Plans, Histories
  <2>3. QED BY <1>2, <2>2 DEF ReadProposed, store
<1>3. CASE SkipRow \/ SubmitFinding \/ RecommendPolicy
      BY <1>3 DEF SkipRow, SubmitFinding, RecommendPolicy, Filing
<1>4. CASE \/ Preflight \/ Reset \/ Interrupt \/ BeginCycle \/ Decide
           \/ DecideFails \/ Filed \/ ListPending
      BY <1>4
      DEF Preflight, Reset, Interrupt, BeginCycle, Decide, DecideFails,
          Filed,
          ListPending
<1>5. CASE \/ ApproveOne \/ ApprovedAll \/ Stop \/ Result
      BY <1>5, Approval DEF ApprovedAll, Stop, Result
<1>6. CASE RunnerSync
      BY <1>6, RunnerSyncs
<1>7. CASE LoopOrSquid
      BY <1>1, <1>7, LoopOrSquids
<1>8. QED
  <2>1. CASE \/ Attempt \/ Admit \/ UploadEnds \/ UploadFails \/ Traffic \/ SeedRisk
             \/ Analyst \/ Clear \/ AgentTriage \/ AgentSubmits
             \/ AgentRecommends \/ AgentFails \/ UNCHANGED vars
        BY <1>1, <2>1
        DEF Attempt, Admit, UploadEnds, UploadFails, Traffic, SeedRisk, Analyst,
            Clear, AgentTriage, AgentSubmits, AgentRecommends, AgentFails, vars
  <2>2. QED
        BY <1>2, <1>3, <1>4, <1>5, <1>6, <1>7, <2>1 DEF Next, RunnerSync, LoopOrSquid

-----------------------------------------------------------------------------
(* What is proposed.                                                       *)

\* Of a cycle that has not read the queue nothing is filed.
CyclesPast == \A r \in recs : r.finding[1] = "runner" => r.finding[2] <= HasRead

\* Unless it could not read them, the runner knows what was proposed before its
\* cycle read the queue.
HandledKnown ==
    pc \in {"submit", "recommend"} /\ cycle \notin seen.blind =>
        \A r \in recs : r.read < cycle => r.dest \in plan.handled

ProposalInv == CyclesPast /\ HandledKnown /\ OneProposal

LEMMA ProposalInit == Init => ProposalInv
<1> SUFFICES ASSUME Init PROVE ProposalInv
    OBVIOUS
<1>1. \A r \in recs : r.finding[2] = 0 /\ r.read = 0
      BY DEF Init, Leftovers
<1>2. cycle = 0 /\ HasRead = 0 /\ pc \notin {"submit", "recommend"}
      BY DEF Init, HasRead
<1>3. QED BY <1>1, <1>2 DEF ProposalInv, CyclesPast, HandledKnown, OneProposal

\* Cycles are only counted up.
LEMMA CycleSteps ==
    ASSUME [Next]_vars, TypeInv
    PROVE  cycle \in Nat /\ HasRead \in Int /\ HasRead' \in Int /\ HasRead <= HasRead'
<1>1. cycle \in Nat
      BY DemoAssumption DEF TypeInv, RunnerTyped
<1>2. CASE BeginCycle
      BY <1>1, <1>2 DEF BeginCycle, HasRead
<1>3. CASE UNCHANGED cycle /\ (pc' \in {"decide", "read"} => pc \in {"decide", "read"})
      BY <1>1, <1>3 DEF HasRead
<1>4. CASE UNCHANGED runner
      BY <1>1, <1>4 DEF runner, HasRead
<1>5. CASE \/ Attempt \/ Admit \/ UploadEnds \/ UploadFails \/ Traffic \/ SeedRisk
           \/ Analyst \/ Clear \/ AgentTriage \/ AgentSubmits
           \/ AgentRecommends \/ AgentFails \/ UNCHANGED vars
      BY <1>4, <1>5
      DEF Attempt, Admit, UploadEnds, UploadFails, Traffic, SeedRisk, Analyst, Clear,
          AgentTriage, AgentSubmits, AgentRecommends, AgentFails, vars
<1>6. CASE RunnerSync
      BY <1>3, <1>6, RunnerSyncs
<1>7. CASE LoopOrSquid
      BY <1>4, <1>7, LoopOrSquids
<1>8. CASE \/ Preflight \/ Reset \/ Interrupt \/ Decide \/ ReadProposed \/ SkipRow
           \/ SubmitFinding \/ RecommendPolicy \/ DecideFails \/ Filed
           \/ ListPending \/ ApprovedAll \/ Stop \/ Result
      BY <1>3, <1>8
      DEF Preflight, Reset, Interrupt, Decide, ReadProposed, SkipRow, SubmitFinding,
          RecommendPolicy, DecideFails, Filed, ListPending, ApprovedAll, Stop, Result,
          Filing, Goto, Crash
<1>9. CASE ApproveOne
      BY <1>3, <1>9, Approval
<1>10. QED
       BY <1>2, <1>5, <1>6, <1>7, <1>8, <1>9 DEF Next, RunnerSync, LoopOrSquid

LEMMA ProposalStep == TypeInv /\ ProposalInv /\ [Next]_vars => ProposalInv'
<1> SUFFICES ASSUME TypeInv, ProposalInv, [Next]_vars PROVE ProposalInv'
    OBVIOUS
<1> USE DEF ProposalInv
<1> DEFINE Old(r) == \E s \in recs : s.finding = r.finding /\ s.dest = r.dest /\ s.read = r.read
           New(r) == pc = "recommend" /\ r.finding = Finding /\ r.dest = Dest /\ r.read = cycle
           Foreign(r) == agent.pc = "submitted" /\ r.finding = AgentFinding /\ r.read = HasRead
<1>1. \A r \in recs' : Old(r) \/ New(r) \/ Foreign(r)
      BY WhoFiles
<1>2. \A r : New(r) => r.finding[2] = HasRead /\ r.read = HasRead
      BY DEF Finding, HasRead
<1>3. \A r : Foreign(r) => r.finding[1] # "runner" /\ r.read = HasRead
      BY DEF AgentFinding
<1>4. \A r \in recs : r.finding[2] \in Nat
      BY DemoAssumption DEF TypeInv, StoreTyped, Recommendations, FindingIds
<1> HIDE DEF Old, New, Foreign
<1>5. \A r \in recs' : r.finding[1] = "runner" =>
                           r.finding[2] \in Int /\ r.finding[2] <= HasRead
      BY <1>1, <1>2, <1>3, <1>4, CycleSteps DEF CyclesPast, Old
<1>6. CyclesPast'
      BY <1>5, CycleSteps DEF CyclesPast
<1>7. HandledKnown'
  <2> SUFFICES ASSUME pc' \in {"submit", "recommend"}, cycle' \notin seen'.blind,
                      NEW r \in recs', r.read < cycle'
               PROVE  r.dest \in plan'.handled
      BY DEF HandledKnown
  <2>1. UNCHANGED cycle
        BY RunnerFiles
  <2>2. CASE pc \in {"submit", "recommend"} /\ plan'.handled = plan.handled
    <3>1. HasRead = cycle
          BY <2>2 DEF HasRead
    <3>2. Old(r)
          BY <1>1, <1>2, <1>3, <2>1, <3>1, CycleSteps
    <3>3. PICK s \in recs : s.finding = r.finding /\ s.dest = r.dest /\ s.read = r.read
          BY <3>2 DEF Old
    <3>4. QED BY <2>1, <2>2, <3>3, HistoryGrows DEF HandledKnown
  <2>3. CASE UNCHANGED recs /\ Proposed \subseteq plan'.handled
        BY <2>3 DEF Proposed
  <2>4. QED BY <2>1, <2>2, <2>3, RunnerFiles
<1>8. OneProposal'
  <2> SUFFICES ASSUME NEW r \in recs', NEW s \in recs',
                      s.finding[1] = "runner", r.dest = s.dest, r.read < s.finding[2]
               PROVE  s.finding[2] \in seen'.blind
      BY DEF OneProposal
  <2>1. Old(r)
        BY <1>1, <1>2, <1>3, <1>5, CycleSteps
  <2>2. PICK q \in recs : q.finding = r.finding /\ q.dest = r.dest /\ q.read = r.read
        BY <2>1 DEF Old
  <2>3. CASE Old(s)
        BY <2>2, <2>3, HistoryGrows DEF Old, OneProposal
  <2>4. CASE New(s)
    <3>1. /\ s.finding[2] = cycle /\ pc = "recommend"
          /\ Dest \notin plan.handled /\ s.dest = Dest
          BY <2>4 DEF New, Finding, TypeInv, RunnerTyped, RowInv
    <3>2. cycle \in seen.blind
          BY <2>2, <3>1 DEF HandledKnown
    <3>3. QED BY <3>1, <3>2, HistoryGrows
  <2>5. QED BY <1>1, <1>3, <2>3, <2>4
<1>9. QED BY <1>6, <1>7, <1>8


THEOREM NothingProposedTwice == Spec => []OneProposal
<1>1. Init => TypeInv /\ ProposalInv
      BY TypeInit, ProposalInit
<1>2. TypeInv /\ ProposalInv /\ [Next]_vars => (TypeInv /\ ProposalInv)'
      BY TypeStep, ProposalStep
<1>3. ProposalInv => OneProposal
      BY DEF ProposalInv
<1>4. QED BY <1>1, <1>2, <1>3, PTL DEF Spec

-----------------------------------------------------------------------------
(* What explains it.                                                       *)

ExplainedInv ==
    /\ RecommendationsExplained
    /\ pc = "recommend" => Finding \in findings \cup seen.wiped
    /\ agent.pc = "submitted" => AgentFinding \in findings \cup seen.wiped

LEMMA ExplainedInit == Init => ExplainedInv
BY DEF Init, ExplainedInv, RecommendationsExplained

\* The agent, too, files the finding first.
LEMMA AgentSubmitted ==
    ASSUME TypeInv, [Next]_vars, agent'.pc = "submitted"
    PROVE  agent.pc = "submitted" \/ AgentFinding \in findings'
<1>0. agent \in Agents
      BY DEF TypeInv, RestTyped
<1>1. CASE AgentTriage \/ AgentSubmits \/ AgentRecommends \/ AgentFails
      BY <1>0, <1>1 DEF AgentTriage, AgentSubmits, AgentRecommends, AgentFails, Agents
<1>2. CASE \/ Preflight \/ Reset \/ Interrupt \/ BeginCycle \/ Decide
           \/ ReadProposed \/ SkipRow \/ SubmitFinding \/ RecommendPolicy \/ DecideFails
           \/ Filed \/ ListPending \/ ApproveOne \/ ApprovedAll \/ Stop
           \/ Result
      BY <1>2, Approval
      DEF Preflight, Reset, Interrupt, BeginCycle, Decide, ReadProposed,
          SkipRow, SubmitFinding, RecommendPolicy, DecideFails, Filed, ListPending,
          ApprovedAll, Stop, Result
<1>3. CASE \/ Attempt \/ Admit \/ UploadEnds \/ UploadFails \/ Traffic \/ SeedRisk
           \/ Analyst \/ Clear \/ UNCHANGED vars
      BY <1>3
      DEF Attempt, Admit, UploadEnds, UploadFails, Traffic, SeedRisk, Analyst,
          Clear, vars
<1>4. CASE RunnerSync \/ LoopOrSquid
      BY <1>4, RunnerSyncs, LoopOrSquids
<1>5. QED BY <1>1, <1>2, <1>3, <1>4 DEF Next, RunnerSync, LoopOrSquid

LEMMA ExplainedStep == TypeInv /\ ExplainedInv /\ [Next]_vars => ExplainedInv'
<1> SUFFICES ASSUME TypeInv, ExplainedInv, [Next]_vars PROVE ExplainedInv'
    OBVIOUS
<1> USE DEF ExplainedInv
<1>1. pc = "recommend" => Finding \in findings' \cup seen'.wiped
      BY FindingsStay, HistoryGrows DEF Unfinished
<1>2. agent.pc = "submitted" => AgentFinding \in findings' \cup seen'.wiped
      BY FindingsStay, HistoryGrows DEF Unfinished
<1>3. RecommendationsExplained'
  <2> SUFFICES ASSUME NEW r \in recs' PROVE r.finding \in findings' \cup seen'.wiped
      BY DEF RecommendationsExplained
  <2>1. CASE \E s \in recs : s.finding = r.finding
        BY <2>1, FindingsStay, HistoryGrows DEF RecommendationsExplained
  <2>2. QED BY <1>1, <1>2, <2>1, WhoFiles
<1>4. (pc = "recommend" => Finding \in findings \cup seen.wiped)'
      BY <1>1, RunnerFiles DEF Finding
<1>5. (agent.pc = "submitted" => AgentFinding \in findings \cup seen.wiped)'
      BY <1>2, AgentSubmitted DEF AgentFinding
<1>6. QED BY <1>3, <1>4, <1>5

\* Every recommendation has its finding, which submit_finding stores before
\* recommend_policy is called, or the finding was cleared in between.
THEOREM EveryProposalIsExplained == Spec => []RecommendationsExplained
<1>1. Init => TypeInv /\ ExplainedInv
      BY TypeInit, ExplainedInit
<1>2. TypeInv /\ ExplainedInv /\ [Next]_vars => (TypeInv /\ ExplainedInv)'
      BY TypeStep, ExplainedStep
<1>3. ExplainedInv => RecommendationsExplained
      BY DEF ExplainedInv
<1>4. QED BY <1>1, <1>2, <1>3, PTL DEF Spec

-----------------------------------------------------------------------------
(* What success means.                                                     *)

\* A pass that has written its file has no use for its lists, the runner has a
\* pass only where it syncs, and while that is alone squid is not behind.
SyncInv ==
    /\ \A p \in Passers : sync[p].at # "fetched" => sync[p].lists = {}
    /\ ~Syncing => sync["runner"].at = "none"
    /\ seen.alone => /\ Syncing
                     /\ sync["watcher"].at = "none" /\ sync["runner"].at # "none"
                     /\ sync["runner"].at = "fetched" => denied = listed

LEMMA SyncInit == Init => SyncInv
BY DEF Init, SyncInv, Syncing, Passers, NoPass

\* Who does not sync leaves the lists alone.
LEMMA OtherSteps ==
    ASSUME TypeInv, [Next]_vars, ~RunnerSync, ~LoopOrSquid
    PROVE  /\ UNCHANGED squid
           /\ seen'.alone = seen.alone
           /\ Syncing => UNCHANGED pc
<1> USE DEF Note, Syncing, Goto, Crash
<1>0. seen \in Histories
      BY DEF TypeInv, RestTyped
<1>1. CASE \/ Preflight \/ Interrupt \/ BeginCycle \/ Decide \/ SkipRow
           \/ SubmitFinding \/ RecommendPolicy \/ DecideFails \/ Filed
           \/ ListPending \/ ApprovedAll \/ Stop \/ Result
      BY <1>1
      DEF Preflight, Interrupt, BeginCycle, Decide, SkipRow, SubmitFinding,
          RecommendPolicy, DecideFails, Filed, ListPending, ApprovedAll, Stop, Result,
          Filing
<1>2. CASE \/ Attempt \/ Traffic \/ SeedRisk \/ AgentTriage \/ AgentSubmits
           \/ AgentRecommends \/ AgentFails \/ UNCHANGED vars
      BY <1>2
      DEF Attempt, Traffic, SeedRisk, AgentTriage, AgentSubmits, AgentRecommends,
          AgentFails, vars, runner
<1>3. CASE Reset \/ ReadProposed
      BY <1>0, <1>3 DEF Reset, ReadProposed, Histories
<1>4. CASE Admit \/ UploadEnds \/ UploadFails \/ Analyst \/ Clear
      BY <1>0, <1>4
      DEF Admit, UploadEnds, UploadFails, Analyst, Clear, runner, Histories
<1>5. CASE ApproveOne
  <2>1. pc = "approve" /\ UNCHANGED squid
        BY <1>5, Approval
  <2>2. QED BY <1>0, <1>5, <2>1, Approval DEF Histories
<1>6. QED BY <1>1, <1>2, <1>3, <1>4, <1>5 DEF Next, RunnerSync, LoopOrSquid

LEMMA SyncStep == TypeInv /\ SyncInv /\ [Next]_vars => SyncInv'
<1> SUFFICES ASSUME TypeInv, SyncInv, [Next]_vars PROVE SyncInv'
    OBVIOUS
<1> USE DEF SyncInv, Syncing, Passers, Passes, NoPass, Note
<1>0. sync \in Passes /\ seen \in Histories
      BY DEF TypeInv, RestTyped, SquidTyped
<1>1. CASE SyncStarts
  <2>1. /\ sync'["runner"].at = "fetched"
        /\ sync["watcher"].at = "none" => sync'["watcher"] = sync["watcher"]
        /\ sync["watcher"].at # "fetched" => sync'["watcher"] = sync["watcher"]
        /\ sync["watcher"].at = "fetched" => sync'["watcher"].at = "fetched"
        BY <1>0, <1>1 DEF SyncStarts, Fetch, Other
  <2>2. seen'.alone => sync["watcher"].at = "none" /\ denied = listed
        BY <1>0, <1>1 DEF SyncStarts, Histories
  <2>3. QED BY <1>1, <2>1, <2>2 DEF SyncStarts, Fetch, runner
<1>2. CASE SyncMoves
      BY <1>0, <1>2 DEF SyncMoves, Move, Moved, runner
<1>3. CASE SyncEnds
  <2>1. sync' = [sync EXCEPT !["runner"] = NoPass]
        BY <1>3 DEF SyncEnds, Same, Load
  <2>2. ~seen'.alone
        BY <1>0, <1>3 DEF SyncEnds, Histories
  <2>3. QED BY <1>0, <2>1, <2>2
<1>4. CASE SyncFails
  <2>1. sync' = [sync EXCEPT !["runner"] = NoPass]
        BY <1>4 DEF SyncFails, Fail
  <2>2. ~seen'.alone
        BY <1>0, <1>4 DEF SyncFails, Histories
  <2>3. QED BY <1>0, <2>1, <2>2
<1>5. CASE WatchStarts
  <2>1. /\ sync'["watcher"].at = "fetched"
        /\ sync["runner"].at # "fetched" => sync'["runner"] = sync["runner"]
        /\ sync["runner"].at = "fetched" => sync'["runner"].at = "fetched"
        BY <1>0, <1>5 DEF WatchStarts, Fetch, Other
  <2>2. ~seen'.alone /\ UNCHANGED pc
        BY <1>0, <1>5 DEF WatchStarts, Histories, runner
  <2>3. QED BY <2>1, <2>2
<1>6. CASE WatchMoves
  <2>1. /\ sync["watcher"].at = "fetched" /\ sync'["runner"] = sync["runner"]
        /\ sync'["watcher"].at # "fetched" => sync'["watcher"].lists = {}
        BY <1>0, <1>6 DEF WatchMoves, Same, Move, Moved
  <2>2. QED BY <1>6, <2>1 DEF WatchMoves, runner
<1>7. CASE WatchReloads \/ WatchFails
      BY <1>0, <1>7 DEF WatchReloads, WatchFails, Load, Fail, runner
<1>8. CASE SquidRestarts
      BY <1>0, <1>8 DEF SquidRestarts, runner
<1>9. CASE ~RunnerSync /\ ~LoopOrSquid
  <2>1. UNCHANGED squid /\ seen'.alone = seen.alone /\ (Syncing => UNCHANGED pc)
        BY <1>9, OtherSteps
  <2>2. QED BY <2>1
<1>10. QED
       BY <1>1, <1>2, <1>3, <1>4, <1>5, <1>6, <1>7, <1>8, <1>9 DEF RunnerSync, LoopOrSquid

\* What the passes handle stays among some destinations that the rules are of.
LEMMA PassWithin ==
    ASSUME TypeInv, NEW A, NEW p \in Passers,
           Rules \subseteq A, denied \subseteq A, listed \subseteq A,
           \A q \in Passers : \A list \in sync[q].lists : list \subseteq A,
           \/ Fetch(p) \/ Same(p) \/ Move(p) \/ Load(p) \/ Fail(p)
           \/ Moved(p) /\ UNCHANGED <<denied, listed>>
    PROVE  /\ denied' \subseteq A /\ listed' \subseteq A
           /\ \A q \in Passers : \A list \in sync'[q].lists : list \subseteq A
<1> USE DEF Passers, Passes, NoPass
<1>0. sync \in Passes
      BY DEF TypeInv, RestTyped, SquidTyped
<1>1. CASE Fetch(p)
  <2>1. Other(p) \in Passers
        BY DEF Other
  <2>2. \A q \in Passers : \A list \in sync'[q].lists :
            \/ list \in sync[q].lists \/ list \in sync[Other(p)].lists
            \/ list = Rules \/ list = {}
        BY <1>0, <1>1, <2>1 DEF Fetch
  <2>3. QED BY <1>1, <2>1, <2>2 DEF Fetch
<1>2. CASE Same(p) \/ Load(p) \/ Fail(p)
      BY <1>0, <1>2 DEF Same, Load, Fail
<1>3. CASE Move(p) \/ (Moved(p) /\ UNCHANGED <<denied, listed>>)
      BY <1>0, <1>3 DEF Move, Moved
<1>4. QED BY <1>1, <1>2, <1>3

ListsApproved ==
    /\ denied \subseteq seen.approved /\ listed \subseteq seen.approved
    /\ \A p \in Passers : \A list \in sync[p].lists : list \subseteq seen.approved

PassApproved ==
    /\ \A list \in sync["runner"].lists : list \subseteq seen.approved
    /\ sync["runner"].at = "moved" => listed \subseteq seen.approved

\* Until its first sync has ended the threads have not begun; what squid has
\* refused, what it denies and what the file and the passes hold has been
\* approved since the reset, and so has, before, what a pass brings that is
\* alone.
SuccessInv ==
    /\ pc \in {"preflight", "reset", "sync_reset"} =>
           seen.refused = {} /\ upload.pc = "idle"
    /\ pc \in {"preflight", "reset"} => ~seen.clean
    /\ seen.clean => Rules \subseteq seen.approved /\ seen.refused \subseteq seen.approved
    /\ seen.clean /\ pc # "sync_reset" => ListsApproved
    /\ seen.clean /\ pc = "sync_reset" /\ seen.alone => PassApproved

\* A blocked upload was refused or lost to the network, and success takes one.
BlockedInv ==
    /\ upload.pc = "refused" => seen.refused # {}
    /\ counters.blocked # 0 => seen.refused # {} \/ seen.network
    /\ mode = "run" /\ exit = 0 => counters.blocked # 0

LEMMA SuccessInit == Init => SuccessInv /\ BlockedInv
BY DEF Init, SuccessInv, BlockedInv, Idle, None

\* The steps that note a refusal, and those that say that the list is clean.
LEMMA RefusedSteps ==
    ASSUME TypeInv, [Next]_vars
    PROVE  /\ \/ seen'.refused = seen.refused
              \/ /\ Started /\ upload.dest \in denied
                 /\ seen'.refused = seen.refused \cup {upload.dest}
           /\ seen'.clean => seen.clean \/ Reset
<1> USE DEF Note
<1>0. seen \in Histories
      BY DEF TypeInv, RestTyped
<1>1. CASE Reset \/ ReadProposed
      BY <1>0, <1>1 DEF Reset, ReadProposed, Histories
<1>2. CASE ApproveOne
      BY <1>0, <1>2, Approval DEF Histories
<1>3. CASE Admit \/ UploadEnds \/ UploadFails
      BY <1>0, <1>3 DEF Admit, UploadEnds, UploadFails, Histories
<1>4. CASE Analyst \/ Clear
      BY <1>0, <1>4 DEF Analyst, Clear, Histories
<1>5. CASE \/ Preflight \/ Interrupt \/ BeginCycle \/ Decide \/ SkipRow
           \/ SubmitFinding \/ RecommendPolicy \/ DecideFails \/ Filed
           \/ ListPending \/ ApprovedAll \/ Stop \/ Result
      BY <1>5
      DEF Preflight, Interrupt, BeginCycle, Decide, SkipRow, SubmitFinding,
          RecommendPolicy, DecideFails, Filed, ListPending, ApprovedAll, Stop, Result
<1>6. CASE \/ Attempt \/ Traffic \/ SeedRisk \/ AgentTriage \/ AgentSubmits
           \/ AgentRecommends \/ AgentFails \/ UNCHANGED vars
      BY <1>6
      DEF Attempt, Traffic, SeedRisk, AgentTriage, AgentSubmits,
          AgentRecommends, AgentFails, vars
<1>7. CASE RunnerSync \/ LoopOrSquid
      BY <1>7, RunnerSyncs, LoopOrSquids DEF HistoryKept
<1>8. QED
      BY <1>1, <1>2, <1>3, <1>4, <1>5, <1>6, <1>7 DEF Next, RunnerSync, LoopOrSquid

\* The program goes forward from its start, and ends with 0 only when it has seen
\* an upload blocked.
LEMMA RunnerSteps ==
    ASSUME TypeInv, [Next]_vars
    PROVE  /\ UNCHANGED mode
           /\ exit' = 0 /\ mode = "run" =>
                  exit = 0 \/ (counters.blocked # 0 /\ UNCHANGED counters)
           /\ pc' \in {"preflight", "reset"} => pc \in {"preflight", "reset"} /\ ~Reset
           /\ pc' = "sync_reset" => pc = "sync_reset" \/ Reset
<1> USE DEF Goto, Crash
<1>1. CASE \/ Preflight \/ Reset \/ Interrupt \/ BeginCycle \/ Decide
           \/ ReadProposed \/ SkipRow \/ SubmitFinding \/ RecommendPolicy
      BY <1>1
      DEF Preflight, Reset, Interrupt, BeginCycle, Decide, ReadProposed,
          SkipRow, SubmitFinding, RecommendPolicy, Filing, thread
<1>2. CASE \/ DecideFails \/ Filed \/ ListPending \/ ApprovedAll \/ Stop
           \/ Result
      BY <1>2
      DEF DecideFails, Filed, ListPending, ApprovedAll, Stop, Result,
          Reset, thread
<1>3. CASE ApproveOne
      BY <1>3, Approval DEF Reset
<1>4. CASE UNCHANGED runner
      BY <1>4 DEF runner, Reset
<1>5. CASE RunnerSync
      BY <1>5, RunnerSyncs DEF Reset, thread
<1>6. CASE LoopOrSquid
      BY <1>4, <1>6, LoopOrSquids
<1>7. QED
  <2>1. CASE \/ Attempt \/ Admit \/ UploadEnds \/ UploadFails \/ Traffic \/ SeedRisk
             \/ Analyst \/ Clear \/ AgentTriage \/ AgentSubmits
             \/ AgentRecommends \/ AgentFails \/ UNCHANGED vars
        BY <1>4, <2>1
        DEF Attempt, Admit, UploadEnds, UploadFails, Traffic, SeedRisk, Analyst,
            Clear, AgentTriage, AgentSubmits, AgentRecommends, AgentFails, vars
  <2>2. QED BY <1>1, <1>2, <1>3, <1>5, <1>6, <2>1 DEF Next, RunnerSync, LoopOrSquid

\* The thread runs between the first pass of the sync and the end; an upload that
\* is counted as blocked was refused or lost.
LEMMA ThreadSteps ==
    ASSUME TypeInv, [Next]_vars
    PROVE  /\ Started \/ UNCHANGED <<upload, counters>>
           /\ upload'.pc = "refused" =>
                  upload.pc = "refused" \/ seen'.refused # {}
           /\ counters.blocked # 0 => counters'.blocked # 0
           /\ counters'.blocked # 0 =>
                  counters.blocked # 0 \/ upload.pc = "refused" \/ seen'.network
<1>0. upload \in Uploads /\ counters \in [attempted : Nat, delivered : Nat, blocked : Nat]
      BY DEF TypeInv, ThreadTyped
<1>1. seen \in Histories
      BY DEF TypeInv, RestTyped
<1>2. CASE Attempt
      BY <1>0, <1>2 DEF Attempt
<1>3. CASE Admit
      BY <1>0, <1>1, <1>3 DEF Admit, Note, Uploads, Histories
<1>4. CASE UploadEnds
      BY <1>0, <1>4 DEF UploadEnds, Idle
<1>5. CASE UploadFails
      BY <1>0, <1>1, <1>5 DEF UploadFails, Idle, Note, Histories
<1>6. CASE UNCHANGED thread
      BY <1>6 DEF thread
<1>7. CASE RunnerSync \/ LoopOrSquid
      BY <1>6, <1>7, RunnerSyncs, LoopOrSquids
<1>8. QED
  <2>1. CASE \/ Preflight \/ Reset \/ Interrupt \/ BeginCycle \/ Decide
             \/ ReadProposed \/ SkipRow \/ SubmitFinding \/ RecommendPolicy \/ DecideFails
             \/ Filed \/ ListPending \/ ApprovedAll \/ Stop \/ Result
        BY <1>6, <2>1
        DEF Preflight, Reset, Interrupt, BeginCycle, Decide, ReadProposed,
            SkipRow, SubmitFinding, RecommendPolicy, DecideFails, Filed, ListPending,
            ApprovedAll, Stop, Result
  <2>2. CASE \/ Traffic \/ SeedRisk \/ Analyst \/ Clear \/ AgentTriage
             \/ AgentSubmits \/ AgentRecommends \/ AgentFails \/ UNCHANGED vars
        BY <1>6, <2>2
        DEF Traffic, SeedRisk, Analyst, Clear, AgentTriage, AgentSubmits,
            AgentRecommends, AgentFails, vars
  <2>3. CASE ApproveOne
        BY <1>6, <2>3, Approval
  <2>4. QED
        BY <1>2, <1>3, <1>4, <1>5, <1>7, <2>1, <2>2, <2>3
        DEF Next, RunnerSync, LoopOrSquid

\* The lists hold what has been approved once the sync of the reset, having
\* run alone, has ended.
LEMMA ListsStep ==
    ASSUME TypeInv, SyncInv, SuccessInv, [Next]_vars, ~Reset,
           seen.clean, seen.approved \subseteq seen'.approved, seen'.clean,
           pc' # "sync_reset"
    PROVE  ListsApproved'
<1> USE DEF ListsApproved
<1>0. /\ sync \in Passes /\ seen \in Histories
      /\ Rules \subseteq seen.approved
      BY DEF TypeInv, RestTyped, SquidTyped, SuccessInv
<1>1. CASE ~RunnerSync /\ ~LoopOrSquid
  <2>1. UNCHANGED squid /\ pc # "sync_reset"
        BY <1>1, OtherSteps DEF Syncing
  <2>2. QED BY <2>1 DEF SuccessInv
<1>2. CASE LoopOrSquid
  <2>1. pc # "sync_reset" /\ seen'.approved = seen.approved
        BY <1>2, LoopOrSquids DEF HistoryKept, runner
  <2>2. ListsApproved
        BY <2>1 DEF SuccessInv
  <2>3. CASE SquidRestarts
        BY <2>1, <2>2, <2>3 DEF SquidRestarts
  <2>4. CASE WatchStarts \/ WatchMoves \/ WatchReloads \/ WatchFails
    <3>1. \/ Fetch("watcher") \/ Same("watcher") \/ Move("watcher")
          \/ Load("watcher") \/ Fail("watcher")
          \/ Moved("watcher") /\ UNCHANGED <<denied, listed>>
          BY <2>4 DEF WatchStarts, WatchMoves, WatchReloads, WatchFails
    <3>2. "watcher" \in Passers
          BY DEF Passers
    <3>3. QED BY <1>0, <2>1, <2>2, <3>1, <3>2, PassWithin
  <2>5. QED BY <1>2, <2>3, <2>4 DEF LoopOrSquid
<1>3. CASE RunnerSync
  <2>1. seen'.approved = seen.approved
        BY <1>3, RunnerSyncs DEF HistoryKept
  <2>2. CASE pc # "sync_reset"
    <3>1. \/ Fetch("runner") \/ Same("runner") \/ Move("runner")
          \/ Load("runner") \/ Fail("runner")
          BY <1>3 DEF RunnerSync, SyncStarts, SyncMoves, SyncEnds, SyncFails
    <3>2. "runner" \in Passers
          BY DEF Passers
    <3>3. ListsApproved
          BY <2>2 DEF SuccessInv
    <3>4. QED BY <1>0, <2>1, <3>1, <3>2, <3>3, PassWithin
  <2>3. CASE pc = "sync_reset"
    <3>1. SyncEnds /\ seen.alone
          BY <1>0, <1>3, <2>3
          DEF RunnerSync, SyncStarts, SyncMoves, SyncEnds, SyncFails, Note, Histories,
              runner
    <3>2. PassApproved /\ sync["watcher"].lists = {}
          BY <2>3, <3>1 DEF SuccessInv, SyncInv, Passers
    <3>3. denied' \subseteq seen.approved /\ listed' \subseteq seen.approved
          BY <3>1, <3>2 DEF SyncEnds, Same, Load, SyncInv, PassApproved
    <3>4. sync' = [sync EXCEPT !["runner"] = NoPass]
          BY <3>1 DEF SyncEnds, Same, Load
    <3>5. QED BY <1>0, <2>1, <3>2, <3>3, <3>4 DEF Passes, Passers, NoPass
  <2>4. QED BY <2>2, <2>3
<1>4. QED BY <1>1, <1>2, <1>3

\* What a pass of the reset's sync brings that is alone has been approved.
LEMMA PassStep ==
    ASSUME TypeInv, SyncInv, SuccessInv, [Next]_vars, ~Reset,
           seen.clean, seen.approved \subseteq seen'.approved, seen'.clean,
           pc' = "sync_reset", seen'.alone
    PROVE  PassApproved'
<1> USE DEF PassApproved
<1>0. /\ sync \in Passes /\ seen \in Histories
      /\ Rules \subseteq seen.approved
      BY DEF TypeInv, RestTyped, SquidTyped, SuccessInv
<1>1. pc = "sync_reset"
      BY RunnerSteps
<1>2. CASE ~RunnerSync /\ ~LoopOrSquid
  <2>1. UNCHANGED squid /\ seen.alone
        BY <1>2, OtherSteps
  <2>2. QED BY <1>1, <2>1 DEF SuccessInv
<1>3. CASE LoopOrSquid
  <2>1. seen.alone /\ ~WatchStarts
        BY <1>0, <1>3
        DEF LoopOrSquid, WatchStarts, WatchMoves, WatchReloads, WatchFails,
            SquidRestarts, Note, Histories
  <2>2. sync["watcher"].at = "none"
        BY <2>1 DEF SyncInv
  <2>3. SquidRestarts
        BY <1>3, <2>1, <2>2
        DEF LoopOrSquid, WatchMoves, WatchReloads, WatchFails, Same, Move, Load
  <2>4. QED BY <1>1, <2>1, <2>3 DEF SquidRestarts, SuccessInv
<1>4. CASE SyncStarts
  <2>1. sync["watcher"].at = "none"
        BY <1>0, <1>4 DEF SyncStarts, Note, Histories
  <2>2. sync'["runner"] = [at |-> "fetched", lists |-> {Rules}]
        BY <1>0, <1>4, <2>1 DEF SyncStarts, Fetch, Other, Passes
  <2>3. QED BY <1>0, <2>2
<1>5. CASE SyncMoves
  <2>1. PassApproved /\ UNCHANGED seen
        BY <1>1, <1>5 DEF SyncMoves, SuccessInv
  <2>2. QED BY <1>0, <1>5, <2>1 DEF SyncMoves, Move, Moved, Passes
<1>6. CASE SyncEnds \/ SyncFails
      BY <1>0, <1>6 DEF SyncEnds, SyncFails, Note, Histories
<1>7. QED BY <1>2, <1>3, <1>4, <1>5, <1>6 DEF RunnerSync

LEMMA SuccessStep == TypeInv /\ SyncInv /\ SuccessInv /\ [Next]_vars => SuccessInv'
<1> SUFFICES ASSUME TypeInv, SyncInv, SuccessInv, [Next]_vars PROVE SuccessInv'
    OBVIOUS
<1> USE DEF SuccessInv
<1>0. seen \in Histories
      BY DEF TypeInv, RestTyped
<1>1. Reset => /\ pc = "reset" /\ UNCHANGED upload
               /\ seen'.clean => seen'.approved = {} /\ Rules' = {}
  <2>1. recs' = {} => Rules' = {}
        BY DEF Rules
  <2>2. QED BY <1>0, <2>1 DEF Reset, Wipe, Note, Histories, thread
<1>2. (pc \in {"preflight", "reset", "sync_reset"} =>
           seen.refused = {} /\ upload.pc = "idle")'
  <2> SUFFICES ASSUME pc' \in {"preflight", "reset", "sync_reset"}
               PROVE  seen'.refused = {} /\ upload'.pc = "idle"
      OBVIOUS
  <2>1. pc \in {"preflight", "reset", "sync_reset"}
        BY <1>1, RunnerSteps
  <2>2. ~Started
        BY <2>1 DEF Started
  <2>3. QED BY <2>1, <2>2, RefusedSteps, ThreadSteps
<1>3. (pc \in {"preflight", "reset"} => ~seen.clean)'
      BY RunnerSteps, RefusedSteps
<1>4. CASE Reset
  <2>1. seen'.refused = {}
        BY <1>1, <1>4, RefusedSteps DEF Started
  <2>2. seen'.clean => pc' = "sync_reset"
        BY <1>0, <1>4 DEF Reset, Goto, Note, Histories
  <2>3. seen'.alone = FALSE
    <3>1. ~seen.alone
          BY <1>1, <1>4 DEF SyncInv, Syncing
    <3>2. QED BY <1>0, <1>4, <3>1 DEF Reset, Note, Histories
  <2>4. QED BY <1>1, <1>2, <1>3, <1>4, <2>1, <2>2, <2>3
<1>5. CASE ~Reset
  <2>1. seen'.clean => seen.clean /\ seen.approved \subseteq seen'.approved
        BY <1>5, RefusedSteps, HistoryGrows
  <2>2. seen'.clean => Rules' \subseteq seen'.approved
        BY <2>1, RulesSteps
  <2>3. (seen.clean => seen.refused \subseteq seen.approved)'
    <3>1. Started => pc # "sync_reset"
          BY DEF Started
    <3>2. QED BY <2>1, <3>1, RefusedSteps DEF ListsApproved
  <2>4. (seen.clean /\ pc # "sync_reset" => ListsApproved)'
        BY <1>5, <2>1, ListsStep
  <2>5. (seen.clean /\ pc = "sync_reset" /\ seen.alone => PassApproved)'
        BY <1>5, <2>1, PassStep
  <2>6. QED BY <1>2, <1>3, <2>2, <2>3, <2>4, <2>5
<1>6. QED BY <1>4, <1>5

LEMMA BlockedStep == TypeInv /\ BlockedInv /\ [Next]_vars => BlockedInv'
<1> SUFFICES ASSUME TypeInv, BlockedInv, [Next]_vars PROVE BlockedInv'
    OBVIOUS
<1> USE DEF BlockedInv
<1>1. (upload.pc = "refused" => seen.refused # {})'
      BY ThreadSteps, HistoryGrows
<1>2. (counters.blocked # 0 => seen.refused # {} \/ seen.network)'
      BY ThreadSteps, HistoryGrows
<1>3. (mode = "run" /\ exit = 0 => counters.blocked # 0)'
      BY ThreadSteps, RunnerSteps
<1>4. QED BY <1>1, <1>2, <1>3

\* demo run, begun on an empty store and list, exits with 0 only when squid
\* refused an upload, and refused only what has been approved since the reset.
THEOREM SuccessIsReal == Spec => []SuccessIsThisRuns
<1>1. Init => TypeInv /\ SyncInv /\ SuccessInv /\ BlockedInv
      BY TypeInit, SyncInit, SuccessInit
<1>2. TypeInv /\ SyncInv /\ SuccessInv /\ BlockedInv /\ [Next]_vars
          => (TypeInv /\ SyncInv /\ SuccessInv /\ BlockedInv)'
      BY TypeStep, SyncStep, SuccessStep, BlockedStep
<1>3. SuccessInv /\ BlockedInv => SuccessIsThisRuns
      BY DEF SuccessInv, BlockedInv, SuccessIsThisRuns
<1>4. QED BY <1>1, <1>2, <1>3, PTL DEF Spec

-----------------------------------------------------------------------------
(* What is delivered.                                                      *)

\* What has been approved stays a rule; what squid has loaded of it stays in
\* its list, in the file and in what a pass of the loop brings, and an upload
\* begun after that is not admitted to it.  Before, a pass that is alone brings
\* what has been approved.
LateInv ==
    /\ seen.won \subseteq Rules
    /\ seen.base \subseteq Rules \cap denied \cap listed
    /\ \A list \in sync["watcher"].lists : seen.base \subseteq list
    /\ pc \in {"preflight", "reset"} => seen.won = {}
    /\ pc \notin {"enforce", "stop", "done", "crashed"} => seen.base = {}
    /\ upload.after => pc \in {"enforce", "stop", "done", "crashed"}
    /\ upload.pc = "admitted" /\ upload.after => upload.dest \notin seen.base
    /\ ~seen.late
    /\ seen.alone => /\ \A list \in sync["runner"].lists : seen.won \subseteq list
                     /\ sync["runner"].at = "moved" => seen.won \subseteq listed

LEMMA LateInit == Init => LateInv
BY DEF Init, LateInv, Idle, NoPass

\* A clear takes what was approved and loaded with it.
LEMMA ClearLoads ==
    ASSUME TypeInv, Clear
    PROVE  seen'.won = {} /\ seen'.base = {} /\ seen'.late = seen.late
BY DEF TypeInv, RestTyped, Clear, Note, Histories

\* What is won is a rule; only the runner's sync adds to
\* what squid has loaded of it; what is late was loaded.
LEMMA LoadSteps ==
    ASSUME TypeInv, [Next]_vars
    PROVE  /\ seen'.won \subseteq seen.won \cup Rules'
           /\ pc # "approve" => seen'.won \subseteq seen.won
           /\ SyncEnds \/ seen'.base = seen.base \/ seen'.base = {}
           /\ seen'.late =>
                  seen.late \/ (upload.pc = "admitted" /\ upload.after
                                  /\ upload.dest \in seen.base)
<1> USE DEF Note
<1>0. seen \in Histories
      BY DEF TypeInv, RestTyped
<1>1. CASE UNCHANGED seen
      BY <1>1
<1>2. CASE Reset \/ ReadProposed
      BY <1>0, <1>2
      DEF Reset, ReadProposed, Histories
<1>3. CASE ApproveOne
  <2>1. seen'.won \subseteq seen.won \cup Rules'
    <3>1. CASE UNCHANGED <<recs, seen>>
          BY <3>1
    <3>2. ASSUME NEW r \in Pending, Decided(r, "approved"),
                 seen' = [seen EXCEPT !.approved = @ \cup {r.dest}, !.won = @ \cup {r.dest}]
          PROVE  seen'.won \subseteq seen.won \cup Rules'
      <4>1. r \in Recommendations
            BY DEF Pending, TypeInv, StoreTyped
      <4>2. [r EXCEPT !.status = "approved"] \in recs'
            BY <3>2 DEF Decided
      <4>3. r.dest \in Rules'
            BY <4>1, <4>2 DEF Rules, Recommendations
      <4>4. QED BY <1>0, <3>2, <4>3 DEF Histories
    <3>3. QED BY <1>3, <3>1, <3>2, Approval
  <2>2. seen'.base = seen.base /\ seen'.late = seen.late /\ pc = "approve"
        BY <1>0, <1>3, Approval DEF Histories
  <2>3. QED BY <2>1, <2>2
<1>4. CASE Admit \/ UploadEnds \/ UploadFails
      BY <1>0, <1>4 DEF Admit, UploadEnds, UploadFails, Started, Histories
<1>5. CASE Analyst
      BY <1>0, <1>5 DEF Analyst, Histories
<1>6. CASE Clear
      BY <1>6, ClearLoads
<1>7. CASE LoopOrSquid
      BY <1>7, LoopOrSquids DEF HistoryKept
<1>8. CASE RunnerSync
  <2>1. SyncEnds \/ seen'.base = seen.base
        BY <1>0, <1>8 DEF RunnerSync, SyncStarts, SyncMoves, SyncFails, Histories
  <2>2. QED BY <1>8, <2>1, RunnerSyncs DEF HistoryKept
<1>9. QED
  <2>1. CASE \/ Preflight \/ Interrupt \/ BeginCycle \/ Decide \/ SkipRow
             \/ SubmitFinding \/ RecommendPolicy \/ DecideFails \/ Filed
             \/ ListPending \/ ApprovedAll \/ Stop \/ Result
        BY <1>1, <2>1
        DEF Preflight, Interrupt, BeginCycle, Decide, SkipRow, SubmitFinding,
            RecommendPolicy, DecideFails, Filed, ListPending, ApprovedAll, Stop, Result
  <2>2. CASE \/ Attempt \/ Traffic \/ SeedRisk \/ AgentTriage \/ AgentSubmits
             \/ AgentRecommends \/ AgentFails \/ UNCHANGED vars
        BY <1>1, <2>2
        DEF Attempt, Traffic, SeedRisk, AgentTriage, AgentSubmits,
            AgentRecommends, AgentFails, vars
  <2>3. QED
        BY <1>2, <1>3, <1>4, <1>5, <1>6, <1>7, <1>8, <2>1, <2>2
        DEF Next, RunnerSync, LoopOrSquid

\* Squid looks at its list once for each upload.
LEMMA UploadSteps ==
    ASSUME TypeInv, [Next]_vars
    PROVE  /\ upload'.after => upload.after \/ (pc = "enforce" /\ UNCHANGED pc)
           /\ upload'.pc = "admitted" /\ ~UNCHANGED upload =>
                  /\ upload'.dest = upload.dest /\ upload.dest \notin denied
                  /\ UNCHANGED seen
           /\ pc \in {"enforce", "stop", "done", "crashed"} =>
                  pc' \in {"enforce", "stop", "done", "crashed"}
<1> USE DEF Goto, Crash
<1>0. upload \in Uploads
      BY DEF TypeInv, ThreadTyped
<1>1. CASE Attempt
      BY <1>0, <1>1 DEF Attempt, runner, Uploads
<1>2. CASE Admit
      BY <1>0, <1>2 DEF Admit, Uploads, runner
<1>3. CASE UploadEnds \/ UploadFails
      BY <1>0, <1>3 DEF UploadEnds, UploadFails, Idle, runner
<1>4. CASE /\ UNCHANGED upload
           /\ pc \in {"enforce", "stop", "done", "crashed"} =>
                  pc' \in {"enforce", "stop", "done", "crashed"}
      BY <1>4
<1>5. CASE RunnerSync
      BY <1>4, <1>5, RunnerSyncs DEF thread
<1>6. CASE LoopOrSquid
      BY <1>4, <1>6, LoopOrSquids DEF thread, runner
<1>7. QED
  <2>1. CASE \/ Preflight \/ Reset \/ Interrupt \/ BeginCycle \/ Decide
             \/ ReadProposed \/ SkipRow \/ SubmitFinding \/ RecommendPolicy \/ DecideFails
             \/ Filed \/ ListPending \/ ApprovedAll \/ Stop \/ Result
        BY <1>4, <2>1
        DEF Preflight, Reset, Interrupt, BeginCycle, Decide, ReadProposed,
            SkipRow, SubmitFinding, RecommendPolicy, DecideFails, Filed, ListPending,
            ApprovedAll, Stop, Result, Filing, thread
  <2>2. CASE \/ Traffic \/ SeedRisk \/ Analyst \/ Clear \/ AgentTriage
             \/ AgentSubmits \/ AgentRecommends \/ AgentFails \/ UNCHANGED vars
        BY <1>4, <2>2
        DEF Traffic, SeedRisk, Analyst, Clear, AgentTriage, AgentSubmits,
            AgentRecommends, AgentFails, vars, runner, thread
  <2>3. CASE ApproveOne
    <3>1. UNCHANGED upload /\ UNCHANGED pc
          BY <2>3, Approval DEF thread
    <3>2. QED BY <1>4, <3>1
  <2>4. QED
        BY <1>1, <1>2, <1>3, <1>5, <1>6, <2>1, <2>2, <2>3
        DEF Next, RunnerSync, LoopOrSquid

\* What squid has loaded stays in its list, in the file and in what a pass of
\* the loop brings.
LEMMA BaseKept ==
    ASSUME TypeInv, SyncInv, LateInv, [Next]_vars, ~SyncEnds, seen'.base # {}
    PROVE  /\ seen'.base = seen.base
           /\ seen'.base \subseteq Rules' \cap denied' \cap listed'
           /\ \A list \in sync'["watcher"].lists : seen'.base \subseteq list
<1> USE DEF LateInv
<1>0. sync \in Passes
      BY DEF TypeInv, RestTyped, SquidTyped
<1>1. seen'.base = seen.base
      BY LoadSteps
<1>2. pc \in {"enforce", "stop", "done", "crashed"} /\ ~RunnerSync
      BY <1>1, RunnerSyncs
<1>3. ~Reset /\ ~Clear
      BY <1>2, ClearLoads DEF Reset
<1>4. seen'.base \subseteq Rules'
      BY <1>1, <1>3, RulesSteps
<1>5. CASE ~LoopOrSquid
      BY <1>1, <1>2, <1>4, <1>5, OtherSteps
<1>6. CASE LoopOrSquid
  <2>1. sync["runner"].at = "none"
        BY <1>2 DEF SyncInv, Syncing
  <2>2. CASE WatchStarts
        BY <1>0, <1>1, <1>4, <2>1, <2>2 DEF WatchStarts, Fetch, Other, Passes
  <2>3. CASE WatchMoves
        BY <1>0, <1>1, <1>4, <2>3 DEF WatchMoves, Same, Move, Moved, NoPass, Passes
  <2>4. CASE WatchReloads \/ WatchFails
        BY <1>0, <1>1, <1>4, <2>4 DEF WatchReloads, WatchFails, Load, Fail, NoPass, Passes
  <2>5. CASE SquidRestarts
        BY <1>1, <1>4, <2>5 DEF SquidRestarts
  <2>6. QED BY <1>6, <2>2, <2>3, <2>4, <2>5 DEF LoopOrSquid
<1>7. QED BY <1>1, <1>4, <1>5, <1>6

\* The sync of enforce, having run alone, has had squid load what was approved.
LEMMA BaseLoaded ==
    ASSUME TypeInv, SyncInv, LateInv, SyncEnds, seen'.base # {}
    PROVE  /\ pc' = "enforce" /\ UNCHANGED upload /\ ~upload.after
           /\ seen'.base \subseteq Rules' \cap denied' \cap listed'
           /\ sync'["watcher"].lists = {}
<1> USE DEF LateInv
<1>0. sync \in Passes /\ seen \in Histories
      BY DEF TypeInv, RestTyped, SquidTyped
<1>1. pc = "sync_enforce" /\ seen.alone /\ seen'.base = seen.won
      BY <1>0 DEF SyncEnds, Syncing, Note, Histories
<1>2. pc' = "enforce" /\ UNCHANGED <<recs, upload>> /\ ~upload.after
      BY <1>1 DEF SyncEnds, AfterSync, Goto, store, thread
<1>3. seen.won \subseteq Rules'
      BY <1>2 DEF Rules
<1>4. seen.won \subseteq denied' \cap listed'
  <2>1. CASE Same("runner")
        BY <1>1, <2>1 DEF Same, SyncInv
  <2>2. CASE Load("runner")
        BY <1>1, <2>2 DEF Load
  <2>3. QED BY <2>1, <2>2 DEF SyncEnds
<1>5. sync'["watcher"].lists = {}
  <2>1. sync["watcher"].lists = {}
        BY <1>1 DEF SyncInv, Passers
  <2>2. sync' = [sync EXCEPT !["runner"] = NoPass]
        BY DEF SyncEnds, Same, Load
  <2>3. QED BY <1>0, <2>1, <2>2 DEF Passes
<1>6. QED BY <1>1, <1>2, <1>3, <1>4, <1>5

\* A pass that is alone brings what has been approved.
LEMMA WonBrought ==
    ASSUME TypeInv, SyncInv, LateInv, [Next]_vars, seen'.alone
    PROVE  /\ \A list \in sync'["runner"].lists : seen'.won \subseteq list
           /\ sync'["runner"].at = "moved" => seen'.won \subseteq listed'
<1> USE DEF LateInv
<1>0. sync \in Passes /\ seen \in Histories
      BY DEF TypeInv, RestTyped, SquidTyped
<1>1. CASE SyncStarts
  <2>1. sync["watcher"].at = "none" /\ seen'.won = seen.won
        BY <1>0, <1>1 DEF SyncStarts, Note, Histories
  <2>2. sync'["runner"] = [at |-> "fetched", lists |-> {Rules}]
        BY <1>0, <1>1, <2>1 DEF SyncStarts, Fetch, Other, Passes
  <2>3. QED BY <2>1, <2>2
<1>2. CASE SyncMoves
      BY <1>0, <1>2 DEF SyncMoves, Move, Moved, Passes
<1>3. CASE SyncEnds \/ SyncFails
      BY <1>0, <1>3 DEF SyncEnds, SyncFails, Note, Histories
<1>4. CASE LoopOrSquid
  <2>1. seen.alone /\ ~WatchStarts
        BY <1>0, <1>4
        DEF LoopOrSquid, WatchStarts, WatchMoves, WatchReloads, WatchFails,
            SquidRestarts, Note, Histories
  <2>2. sync["watcher"].at = "none"
        BY <2>1 DEF SyncInv
  <2>3. SquidRestarts
        BY <1>4, <2>1, <2>2
        DEF LoopOrSquid, WatchMoves, WatchReloads, WatchFails, Same, Move, Load
  <2>4. QED BY <2>1, <2>3 DEF SquidRestarts
<1>5. CASE ~RunnerSync /\ ~LoopOrSquid
  <2>1. UNCHANGED squid /\ seen.alone
        BY <1>5, OtherSteps
  <2>2. seen'.won \subseteq seen.won
        BY <2>1, LoadSteps DEF SyncInv, Syncing
  <2>3. QED BY <2>1, <2>2
<1>6. QED BY <1>1, <1>2, <1>3, <1>4, <1>5 DEF RunnerSync

LEMMA LateStep == TypeInv /\ SyncInv /\ LateInv /\ [Next]_vars => LateInv'
<1> SUFFICES ASSUME TypeInv, SyncInv, LateInv, [Next]_vars PROVE LateInv'
    OBVIOUS
<1> USE DEF LateInv
<1>1. Reset => pc = "reset"
      BY DEF Reset
<1>2. (seen.won \subseteq Rules)'
      BY <1>1, ClearLoads, LoadSteps, RulesSteps
<1>3. /\ (seen.base \subseteq Rules \cap denied \cap listed)'
      /\ (\A list \in sync["watcher"].lists : seen.base \subseteq list)'
  <2>1. CASE seen'.base = {}
        BY <2>1
  <2>2. CASE seen'.base # {} /\ SyncEnds
        BY <2>2, BaseLoaded
  <2>3. CASE seen'.base # {} /\ ~SyncEnds
        BY <2>3, BaseKept
  <2>4. QED BY <2>1, <2>2, <2>3
<1>4. (pc \in {"preflight", "reset"} => seen.won = {})'
      BY RunnerSteps, LoadSteps
<1>5. (pc \notin {"enforce", "stop", "done", "crashed"} => seen.base = {})'
      BY BaseLoaded, UploadSteps, LoadSteps
<1>6. (upload.after => pc \in {"enforce", "stop", "done", "crashed"})'
      BY UploadSteps
<1>7. (upload.pc = "admitted" /\ upload.after => upload.dest \notin seen.base)'
  <2> SUFFICES ASSUME upload'.pc = "admitted", upload'.after, seen'.base # {}
               PROVE  upload'.dest \notin seen'.base
      OBVIOUS
  <2>1. ~SyncEnds /\ seen'.base = seen.base
        BY BaseLoaded, LoadSteps
  <2>2. CASE UNCHANGED upload
        BY <2>1, <2>2
  <2>3. CASE ~UNCHANGED upload
        BY <2>1, <2>3, UploadSteps
  <2>4. QED BY <2>2, <2>3
<1>8. (~seen.late)'
      BY LoadSteps
<1>9. (seen.alone => /\ \A list \in sync["runner"].lists : seen.won \subseteq list
                     /\ sync["runner"].at = "moved" => seen.won \subseteq listed)'
      BY WonBrought
<1>10. QED BY <1>2, <1>3, <1>4, <1>5, <1>6, <1>7, <1>8, <1>9

\* An upload that begins after squid has loaded what _approve_all got approved is
\* not delivered to it, whatever is filed, decided or synced meanwhile.
THEOREM NothingIsDeliveredLate == Spec => []NoLateDelivery
<1>1. Init => TypeInv /\ SyncInv /\ LateInv
      BY TypeInit, SyncInit, LateInit
<1>2. TypeInv /\ SyncInv /\ LateInv /\ [Next]_vars => (TypeInv /\ SyncInv /\ LateInv)'
      BY TypeStep, SyncStep, LateStep
<1>3. LateInv => NoLateDelivery
      BY DEF LateInv, NoLateDelivery
<1>4. QED BY <1>1, <1>2, <1>3, PTL DEF Spec

=============================================================================
