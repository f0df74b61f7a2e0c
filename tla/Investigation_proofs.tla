------------------------ MODULE Investigation_proofs ------------------------
(***************************************************************************)
(* What holds of investigations for any set of findings and any size of    *)
(* the thread pool.  Type correctness is inductive as it stands and so is  *)
(* OnlyAgentCompletes on top of it.  RunningHasOwner needs one more fact:  *)
(* what a thread works on is in the database, or lost, so that its last    *)
(* write reaches the row.                                                  *)
(***************************************************************************)
EXTENDS Investigation, TLAPS

\* Taking a finding up and putting it down keep the thread records typed.
LEMMA TakeType ==
    ASSUME TypeOK, NEW t \in Threads, NEW f \in Findings, NEW label \in Labels,
           Take(t, f, label)
    PROVE  /\ pc' \in [Threads -> Labels]
           /\ on' \in [Threads -> Findings \cup {NoFinding}]
           /\ \A u \in Threads : pc'[u] # "idle" => on'[u] \in Findings
BY DEF TypeOK, Take, Goto, Labels

LEMMA FinishType ==
    ASSUME TypeOK, NEW t \in Threads, Finish(t)
    PROVE  /\ pc' \in [Threads -> Labels]
           /\ on' \in [Threads -> Findings \cup {NoFinding}]
           /\ \A u \in Threads : pc'[u] # "idle" => on'[u] \in Findings
BY DEF TypeOK, Finish, Goto, Labels

LEMMA GotoType ==
    ASSUME TypeOK, NEW t \in Threads, NEW label \in Labels, pc[t] # "idle",
           Goto(t, label), UNCHANGED on
    PROVE  /\ pc' \in [Threads -> Labels]
           /\ on' \in [Threads -> Findings \cup {NoFinding}]
           /\ \A u \in Threads : pc'[u] # "idle" => on'[u] \in Findings
BY DEF TypeOK, Goto, Labels

LEMMA PutType ==
    ASSUME TypeOK, NEW f \in Findings, NEW status \in RowStatuses,
           PutInvestigation(f, status)
    PROVE  row' \in [Findings -> RowStatuses]
BY DEF TypeOK, PutInvestigation

-----------------------------------------------------------------------------
LEMMA TypeInit == Init => TypeOK
BY DEF Init, TypeOK, RowStatuses, Labels

LEMMA TypeSteadyStep == TypeOK /\ SteadyNext => TypeOK'
<1> SUFFICES ASSUME TypeOK, SteadyNext PROVE TypeOK'
    OBVIOUS
<1>1. CASE Arrive
  <2>1. PICK f \in Findings :
            \/ RecordFinding(f)
            \/ \E t \in Threads : PostFinding(t, f) \/ Request(t, f)
        BY <1>1 DEF Arrive
  <2>2. CASE RecordFinding(f)
        BY <2>2 DEF RecordFinding, TypeOK
  <2>3. ASSUME NEW t \in Threads, PostFinding(t, f) PROVE TypeOK'
        BY <2>3, TakeType DEF PostFinding, TypeOK, Labels
  <2>4. ASSUME NEW t \in Threads, Request(t, f) PROVE TypeOK'
        BY <2>4, TakeType DEF Request, TypeOK, Labels
  <2>5. QED BY <2>1, <2>2, <2>3, <2>4
<1>2. ASSUME NEW t \in Threads, Work(t) PROVE TypeOK'
  <2>1. CASE PostCheck(t)
        BY <2>1, GotoType, FinishType DEF PostCheck, TypeOK, Labels
  <2>2. CASE RequestAnswered(t)
        BY <2>2, FinishType DEF RequestAnswered, TypeOK
  <2>3. CASE RequestUnavailable(t)
    <3>1. on[t] \in Findings
          BY <2>3 DEF RequestUnavailable, TypeOK
    <3>2. QED BY <2>3, <3>1, FinishType, PutType
              DEF RequestUnavailable, TypeOK, RowStatuses
  <2>4. CASE RequestAccepted(t)
        BY <2>4, GotoType DEF RequestAccepted, TypeOK, Labels
  <2>5. CASE Start(t)
    <3>1. on[t] \in Findings
          BY <2>5 DEF Start, TypeOK
    <3>2. QED BY <2>5, <3>1, GotoType, PutType
              DEF Start, TypeOK, RowStatuses, Labels
  <2>6. CASE CallReturns(t)
        BY <2>6, GotoType DEF CallReturns, TypeOK, Labels
  <2>7. CASE CallFails(t)
    <3>1. on[t] \in Findings
          BY <2>7 DEF CallFails, TypeOK
    <3>2. QED BY <2>7, <3>1, GotoType DEF CallFails, TypeOK, Labels
  <2>8. CASE Reread(t)
        BY <2>8, GotoType, FinishType DEF Reread, TypeOK, Labels
  <2>9. CASE Fail(t)
    <3>1. on[t] \in Findings
          BY <2>9 DEF Fail, TypeOK
    <3>2. QED BY <2>9, <3>1, FinishType, PutType DEF Fail, TypeOK, RowStatuses
  <2>10. QED BY <1>2, <2>1, <2>2, <2>3, <2>4, <2>5, <2>6, <2>7, <2>8, <2>9
             DEF Work
<1>3. CASE Agent
  <2>1. PICK f \in Findings :
            \/ \E status \in {"completed", "failed"} : AgentSubmits(f, status)
            \/ AbandonedRunEnds(f)
        BY <1>3 DEF Agent
  <2>2. ASSUME NEW status \in {"completed", "failed"}, AgentSubmits(f, status)
        PROVE  TypeOK'
        BY <2>2, PutType DEF AgentSubmits, TypeOK, RowStatuses
  <2>3. CASE AbandonedRunEnds(f)
        BY <2>3 DEF AbandonedRunEnds, TypeOK
  <2>4. QED BY <2>1, <2>2, <2>3
<1>4. QED BY <1>1, <1>2, <1>3 DEF SteadyNext

LEMMA TypeStep == TypeOK /\ [Next]_vars => TypeOK'
<1> SUFFICES ASSUME TypeOK, [Next]_vars PROVE TypeOK'
    OBVIOUS
<1>1. CASE SteadyNext
      BY <1>1, TypeSteadyStep
<1>2. ASSUME NEW t \in Threads, CallEscapes(t) PROVE TypeOK'
  <2>1. on[t] \in Findings
        BY <1>2 DEF CallEscapes, TypeOK
  <2>2. QED BY <1>2, <2>1, FinishType DEF CallEscapes, TypeOK
<1>3. ASSUME NEW F \in SUBSET Findings, ClearDemoData(F) PROVE TypeOK'
      BY <1>3 DEF ClearDemoData, TypeOK
<1>4. CASE Restart
      BY <1>4 DEF Restart, TypeOK, Labels
<1>5. CASE UNCHANGED vars
      BY <1>5 DEF vars, TypeOK
<1>6. QED BY <1>1, <1>2, <1>3, <1>4, <1>5 DEF Next

\* Every reachable state is well typed, whatever is cleared, restarted or cut
\* off: in particular a thread that is not idle has a finding in hand.
THEOREM InvestigationTypeCorrect == Spec => []TypeOK
BY TypeInit, TypeStep, PTL DEF Spec

-----------------------------------------------------------------------------
(* Only the agent completes an investigation.                              *)

CompletionInv == TypeOK /\ OnlyAgentCompletes

\* A step that completes no row and forgets no analysis keeps the invariant.
LEMMA NoNewCompletion ==
    ASSUME OnlyAgentCompletes, analysed \subseteq analysed',
           \A f \in Findings : row'[f] = "completed" => row[f] = "completed"
    PROVE  OnlyAgentCompletes'
BY DEF OnlyAgentCompletes

\* The service's own writes put another word than "completed" in the row.
LEMMA PutKeepsCompletion ==
    ASSUME TypeOK, NEW f \in Findings, NEW status \in RowStatuses,
           status # "completed", PutInvestigation(f, status)
    PROVE  \A g \in Findings : row'[g] = "completed" => row[g] = "completed"
BY DEF TypeOK, PutInvestigation

LEMMA CompletionStep == CompletionInv /\ [Next]_vars => CompletionInv'
<1> SUFFICES ASSUME TypeOK, OnlyAgentCompletes, [Next]_vars
             PROVE  OnlyAgentCompletes'
    BY TypeStep DEF CompletionInv
<1>1. CASE Arrive
      BY <1>1, NoNewCompletion DEF Arrive, RecordFinding, PostFinding, Request
<1>2. ASSUME NEW t \in Threads, Work(t) PROVE OnlyAgentCompletes'
  <2>1. CASE PostCheck(t) \/ RequestAnswered(t) \/ RequestAccepted(t)
             \/ CallReturns(t) \/ CallFails(t) \/ Reread(t)
        BY <2>1, NoNewCompletion
           DEF PostCheck, RequestAnswered, RequestAccepted, CallReturns,
               CallFails, Reread
  <2>2. CASE RequestUnavailable(t) \/ Start(t) \/ Fail(t)
    <3>1. /\ on[t] \in Findings
          /\ analysed' = analysed
          /\ \E status \in RowStatuses \ {"completed"} :
                 PutInvestigation(on[t], status)
          BY <2>2 DEF TypeOK, RowStatuses, RequestUnavailable, Start, Fail
    <3>2. QED BY <3>1, PutKeepsCompletion, NoNewCompletion
  <2>3. QED BY <1>2, <2>1, <2>2 DEF Work
<1>3. CASE Agent
  <2>1. PICK f \in Findings :
            \/ \E status \in {"completed", "failed"} : AgentSubmits(f, status)
            \/ AbandonedRunEnds(f)
        BY <1>3 DEF Agent
  <2>2. CASE AgentSubmits(f, "completed")
        BY <2>2 DEF AgentSubmits, PutInvestigation, OnlyAgentCompletes, TypeOK
  <2>3. CASE AgentSubmits(f, "failed")
    <3>1. /\ PutInvestigation(f, "failed")
          /\ analysed' = analysed
          BY <2>3 DEF AgentSubmits
    <3>2. "failed" \in RowStatuses /\ "failed" # "completed"
          BY DEF RowStatuses
    <3>3. QED BY <3>1, <3>2, PutKeepsCompletion, NoNewCompletion
  <2>4. CASE AbandonedRunEnds(f)
        BY <2>4, NoNewCompletion DEF AbandonedRunEnds
  <2>5. QED BY <2>1, <2>2, <2>3, <2>4
<1>4. ASSUME NEW t \in Threads, CallEscapes(t) PROVE OnlyAgentCompletes'
      BY <1>4, NoNewCompletion DEF CallEscapes
<1>5. ASSUME NEW F \in SUBSET Findings, ClearDemoData(F)
      PROVE  OnlyAgentCompletes'
      BY <1>5, NoNewCompletion DEF ClearDemoData
<1>6. CASE Restart
      BY <1>6, NoNewCompletion DEF Restart
<1>7. CASE UNCHANGED vars
      BY <1>7, NoNewCompletion DEF vars
<1>8. QED BY <1>1, <1>2, <1>3, <1>4, <1>5, <1>6, <1>7 DEF Next, SteadyNext

\* No investigation of the service reads as completed unless the agent handed
\* in an analysis of that finding: _run_investigation never trusts a call.
THEOREM CompletedByAgent == Spec => []OnlyAgentCompletes
<1>1. Init => CompletionInv
      BY TypeInit DEF Init, CompletionInv, OnlyAgentCompletes
<1>2. CompletionInv => OnlyAgentCompletes
      BY DEF CompletionInv
<1>3. QED BY <1>1, <1>2, CompletionStep, PTL DEF Spec

-----------------------------------------------------------------------------
(* A running investigation has a thread that will settle it, unless it is  *)
(* lost.                                                                   *)

\* A thread only ever works on a finding that is in the database, or lost.
OnIsPresent == \A t \in Threads : pc[t] # "idle" => on[t] \in findings \cup lost

Owns(t, f) == on[t] = f /\ pc[t] \in {"calling", "reread", "fail"}

OwnerInv == TypeOK /\ OnIsPresent /\ RunningHasOwner

\* A step that starts no row running and takes no owner away from one that
\* stays running keeps every running row owned.
LEMMA OwnersKept ==
    ASSUME RunningHasOwner, lost \subseteq lost',
           \A f \in Findings \ lost' : row'[f] = "running" => row[f] = "running",
           \A f \in Findings \ lost', t \in Threads :
                row'[f] = "running" /\ Owns(t, f) => Owns(t, f)'
    PROVE  RunningHasOwner'
BY DEF RunningHasOwner, Owns

LEMMA OwnerArrive == OwnerInv /\ Arrive => OnIsPresent' /\ RunningHasOwner'
<1> SUFFICES ASSUME OwnerInv, Arrive PROVE OnIsPresent' /\ RunningHasOwner'
    OBVIOUS
<1> USE DEF OwnerInv
<1>1. PICK f \in Findings :
          \/ RecordFinding(f)
          \/ \E t \in Threads : PostFinding(t, f) \/ Request(t, f)
      BY DEF Arrive
<1>2. CASE RecordFinding(f)
      BY <1>2, OwnersKept DEF RecordFinding, OnIsPresent, Owns
<1>3. ASSUME NEW t \in Threads, PostFinding(t, f) \/ Request(t, f)
      PROVE  OnIsPresent' /\ RunningHasOwner'
  <2>1. /\ row' = row /\ lost' = lost
        /\ findings \subseteq findings'
        /\ f \in findings'
        /\ pc[t] = "idle"
        /\ \A u \in Threads \ {t} : pc'[u] = pc[u] /\ on'[u] = on[u]
        /\ on'[t] = f
        BY <1>3 DEF PostFinding, Request, Take, Goto, TypeOK
  <2>2. OnIsPresent'
        BY <2>1 DEF OnIsPresent
  <2>3. RunningHasOwner'
        BY <2>1, OwnersKept DEF Owns
  <2>4. QED BY <2>2, <2>3
<1>4. QED BY <1>1, <1>2, <1>3

LEMMA OwnerWork ==
    ASSUME NEW t \in Threads
    PROVE  OwnerInv /\ Work(t) => OnIsPresent' /\ RunningHasOwner'
<1> SUFFICES ASSUME OwnerInv, Work(t) PROVE OnIsPresent' /\ RunningHasOwner'
    OBVIOUS
<1> USE DEF OwnerInv
<1>1. /\ findings' = findings /\ lost' = lost
      /\ \A u \in Threads \ {t} : pc'[u] = pc[u] /\ on'[u] = on[u]
      /\ on'[t] = on[t] \/ pc'[t] = "idle"
      /\ pc[t] # "idle" /\ on[t] \in Findings /\ on[t] \in findings \cup lost
      BY DEF Work, PostCheck, RequestAnswered, RequestUnavailable,
             RequestAccepted, Start, CallReturns, CallFails, Reread, Fail,
             Goto, Finish, TypeOK, OnIsPresent
<1>2. OnIsPresent'
      BY <1>1 DEF OnIsPresent
<1>3. RunningHasOwner'
  <2>1. CASE PostCheck(t) \/ RequestAnswered(t) \/ RequestAccepted(t)
             \/ CallReturns(t) \/ CallFails(t)
    <3>1. /\ row' = row
          /\ Owns(t, on[t]) => pc'[t] \in {"reread", "fail"} /\ on' = on
          BY <2>1 DEF PostCheck, RequestAnswered, RequestAccepted, CallReturns,
                      CallFails, Goto, TypeOK, Owns
    <3>2. QED BY <1>1, <3>1, OwnersKept DEF Owns
  <2>2. CASE RequestUnavailable(t) \/ Fail(t)
    <3>1. \/ on[t] \in lost /\ row' = row
          \/ row' = [row EXCEPT ![on[t]] = "failed"]
          BY <1>1, <2>2 DEF RequestUnavailable, Fail, PutInvestigation
    <3>2. QED BY <1>1, <3>1, OwnersKept DEF Owns, TypeOK
  <2>3. CASE Start(t)
    <3>1. /\ \/ on[t] \in lost /\ row' = row
             \/ row' = [row EXCEPT ![on[t]] = "running"]
          /\ on' = on /\ pc'[t] = "calling" /\ pc[t] = "start"
          BY <1>1, <2>3 DEF Start, PutInvestigation, Goto, TypeOK
    <3>2. QED BY <1>1, <3>1 DEF RunningHasOwner, TypeOK
  <2>4. CASE Reread(t)
    <3>1. /\ row' = row
          /\ row[on[t]] # "completed" => pc'[t] = "fail" /\ on' = on
          BY <2>4 DEF Reread, Goto, TypeOK
    <3>2. QED BY <1>1, <3>1, OwnersKept DEF Owns
  <2>5. QED BY <2>1, <2>2, <2>3, <2>4 DEF Work
<1>4. QED BY <1>2, <1>3

LEMMA OwnerAgent == OwnerInv /\ Agent => OnIsPresent' /\ RunningHasOwner'
<1> SUFFICES ASSUME OwnerInv, Agent PROVE OnIsPresent' /\ RunningHasOwner'
    OBVIOUS
<1> USE DEF OwnerInv
<1>1. /\ UNCHANGED <<findings, pc, on, lost>>
      /\ \A f \in Findings : row'[f] = "running" => row[f] = "running"
      BY DEF Agent, AgentSubmits, AbandonedRunEnds, PutInvestigation, TypeOK
<1>2. QED BY <1>1, OwnersKept DEF OnIsPresent, Owns

LEMMA OwnerStep == OwnerInv /\ [Next]_vars => OwnerInv'
<1> SUFFICES ASSUME OwnerInv, [Next]_vars PROVE OnIsPresent' /\ RunningHasOwner'
    BY TypeStep DEF OwnerInv
<1> USE DEF OwnerInv
<1>1. CASE SteadyNext
      BY <1>1, OwnerArrive, OwnerWork, OwnerAgent DEF SteadyNext
<1>2. ASSUME NEW t \in Threads, CallEscapes(t)
      PROVE  OnIsPresent' /\ RunningHasOwner'
  <2>1. /\ UNCHANGED <<findings, row>>
        /\ lost' = lost \cup {on[t]}
        /\ pc'[t] = "idle"
        /\ \A u \in Threads \ {t} : pc'[u] = pc[u] /\ on'[u] = on[u]
        BY <1>2 DEF CallEscapes, Finish, Goto, TypeOK
  <2>2. OnIsPresent'
        BY <2>1 DEF OnIsPresent
  <2>3. RunningHasOwner'
        BY <2>1, OwnersKept DEF Owns
  <2>4. QED BY <2>2, <2>3
<1>3. ASSUME NEW F \in SUBSET Findings, ClearDemoData(F)
      PROVE  OnIsPresent' /\ RunningHasOwner'
      BY <1>3, OwnersKept DEF ClearDemoData, OnIsPresent, Owns
<1>4. CASE Restart
      BY <1>4 DEF Restart, OnIsPresent, RunningHasOwner
<1>5. CASE UNCHANGED vars
      BY <1>5 DEF vars, OnIsPresent, RunningHasOwner
<1>6. QED BY <1>1, <1>2, <1>3, <1>4, <1>5 DEF Next

\* Every investigation that reads as running and is not lost has a thread at
\* work that will write its outcome.
THEOREM RunningIsOwned == Spec => []RunningHasOwner
<1>1. Init => OwnerInv
      BY TypeInit DEF Init, OwnerInv, OnIsPresent, RunningHasOwner
<1>2. OwnerInv => RunningHasOwner
      BY DEF OwnerInv
<1>3. QED BY <1>1, <1>2, OwnerStep, PTL DEF Spec

=============================================================================
