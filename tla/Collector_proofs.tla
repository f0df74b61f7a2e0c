--------------------------- MODULE Collector_proofs ---------------------------
(***************************************************************************)
(* What holds of the collector for any log and any source.                 *)
(*                                                                         *)
(* That the tail's lines are stored once is not inductive: it needs that a *)
(* line is read once, because the tail never goes back, and that a request *)
(* which has not been carried out is in one place only, on its way or      *)
(* among those given up.                                                   *)
(***************************************************************************)
EXTENDS Collector, TLAPS

\* What the type invariant rests on: the command is at most one line behind
\* the log's end, and what is posted is a record that has been read.
Reach ==
    /\ at <= log + 1
    /\ pc = "posting" => hand \in Records /\ hand < next

TypeInv == TypeOK /\ Reach

LEMMA TypeInvHolds == Spec => []TypeInv
<1> USE CollectorAssumption DEF Lines
<1>1. Init => TypeInv
  <2> SUFFICES ASSUME Init
               PROVE  TypeInv
      OBVIOUS
  <2>1. retry \in BOOLEAN
        BY Zenon DEF Init
  <2>2. runs \in 1..MaxRuns /\ next \in 1..at
        BY DEF Init
  <2>3. at <= log + 1 /\ at \in 1..(LastLine + 1) /\ log \in 0..LastLine
        BY DEF Init
  <2>4. /\ source \in Sources /\ attached = FALSE
        /\ pc = "attaching" /\ hand = 0 /\ request = "gone" /\ late = {}
        /\ events = [l \in Lines |-> 0]
        /\ posted = {} /\ dropped = {} /\ exit = "none"
        BY Zenon DEF Init
  <2>5. attached \in BOOLEAN
        BY <2>4
  <2>6. TypeOK
        BY <2>1, <2>2, <2>3, <2>4, <2>5 DEF TypeOK
  <2>7. QED BY <2>3, <2>4, <2>6 DEF TypeInv, Reach
<1>2. TypeInv /\ [Next]_vars => TypeInv'
  <2> SUFFICES ASSUME TypeInv, [Next]_vars
               PROVE  TypeInv'
      OBVIOUS
  <2> USE DEF TypeInv, TypeOK, Reach, log_vars, counts
  <2>1. CASE Log
        BY <2>1 DEF Log
  <2>2. CASE Forward
        BY <2>2 DEF Forward
  <2>3. CASE SourceEnds
        BY <2>3 DEF SourceEnds
  <2>4. CASE Attach
    <3>1. CASE source = "file"
          BY <2>4, <3>1 DEF Attach
    <3>2. CASE source # "file"
          BY <2>4, <3>2 DEF Attach
    <3>3. QED BY <3>1, <3>2
  <2>5. CASE Read
    <3>1. CASE next \in Records
          BY <2>5, <3>1 DEF Read
    <3>2. CASE next \notin Records
          BY <2>5, <3>2 DEF Read
    <3>3. QED BY <3>1, <3>2
  <2>6. CASE PostAccepted
        BY <2>6 DEF PostAccepted
  <2>7. CASE PostFails
        BY <2>7 DEF PostFails, GiveUp
  <2>8. CASE PostEscapes
    <3>1. late' \subseteq Records
          BY <2>8 DEF PostEscapes, GiveUp
    <3>2. at' \in 1..(LastLine + 1) /\ next' \in 1..at' /\ at' <= log' + 1
          BY <2>8 DEF PostEscapes
    <3>3. QED BY <2>8, <3>1, <3>2 DEF PostEscapes, GiveUp
  <2>9. CASE EndOfSource
        BY <2>9 DEF EndOfSource, StartAgain, Stop, at_the_end
  <2>10. CASE Rerun
        BY <2>10 DEF Rerun
  <2>11. CASE Ingest
        BY <2>11 DEF Ingest, AddEvent
  <2>12. CASE IngestLate
        BY <2>12 DEF IngestLate, AddEvent
  <2>13. CASE IngestionRestarts
        BY <2>13 DEF IngestionRestarts
  <2>14. CASE UNCHANGED vars
        BY <2>14 DEF vars
  <2>15. QED
        BY <2>1, <2>2, <2>3, <2>4, <2>5, <2>6, <2>7, <2>8, <2>9, <2>10, <2>11,
           <2>12, <2>13, <2>14 DEF Next, Environment, Work
<1>3. QED BY <1>1, <1>2, PTL DEF Spec

\* TypeOK for any number of lines and runs.
THEOREM CollectorTypeCorrect == Spec => []TypeOK
<1>1. TypeInv => TypeOK
      BY DEF TypeInv
<1>2. QED BY <1>1, TypeInvHolds, PTL

-----------------------------------------------------------------------------
\* An answer comes after the commit.
AnswerAfterCommit ==
    /\ PostedIsStored
    /\ pc = "posting" /\ request = "stored" => events[hand] >= 1

\* What post_event counts as posted is in the events table, whatever is lost,
\* late or restarted.
THEOREM PostedLinesAreStored == Spec => []PostedIsStored
<1> USE CollectorAssumption DEF Lines
<1>1. Init => AnswerAfterCommit
      BY DEF Init, AnswerAfterCommit, PostedIsStored
<1>2. TypeInv /\ AnswerAfterCommit /\ [Next]_vars => AnswerAfterCommit'
  <2> SUFFICES ASSUME TypeInv, AnswerAfterCommit, [Next]_vars
               PROVE  AnswerAfterCommit'
      OBVIOUS
  <2> USE DEF AnswerAfterCommit, PostedIsStored, TypeInv, TypeOK, Reach,
              log_vars, counts
  <2>1. CASE Log \/ Forward \/ SourceEnds \/ Attach
        BY <2>1 DEF Log, Forward, SourceEnds, Attach
  <2>2. CASE Read
    <3>1. CASE next \in Records
          BY <2>2, <3>1 DEF Read
    <3>2. CASE next \notin Records
          BY <2>2, <3>2 DEF Read
    <3>3. QED BY <3>1, <3>2
  <2>3. CASE PostAccepted
        BY <2>3 DEF PostAccepted
  <2>4. CASE PostFails \/ PostEscapes
        BY <2>4 DEF PostFails, PostEscapes, GiveUp
  <2>5. CASE EndOfSource
        BY <2>5 DEF EndOfSource, StartAgain, Stop, at_the_end
  <2>6. CASE Rerun
        BY <2>6 DEF Rerun
  <2>7. CASE Ingest
        BY <2>7 DEF Ingest, AddEvent
  <2>8. CASE IngestLate
        BY <2>8 DEF IngestLate, AddEvent
  <2>9. CASE IngestionRestarts
        BY <2>9 DEF IngestionRestarts
  <2>10. CASE UNCHANGED vars
        BY <2>10 DEF vars
  <2>11. QED
        BY <2>1, <2>2, <2>3, <2>4, <2>5, <2>6, <2>7, <2>8, <2>9, <2>10
        DEF Next, Environment, Work
<1>3. AnswerAfterCommit => PostedIsStored
      BY DEF AnswerAfterCommit
<1>4. QED BY <1>1, <1>2, <1>3, TypeInvHolds, PTL DEF Spec

-----------------------------------------------------------------------------
\* What is still to be read has no event and no request; a request that waits,
\* given up or not, is for a line without an event, and is the only one.
OneRequest ==
    /\ \A l \in Lines : events[l] <= 1
    /\ \A l \in Lines : next <= l => events[l] = 0 /\ l \notin late
    /\ \A l \in late : events[l] = 0
    /\ pc = "posting" /\ request = "sent"
          => events[hand] = 0 /\ hand \notin late

\* With the tail as its source no line is stored twice.
THEOREM TailNeverStoresTwice == Spec => []TailStoresOnce
<1> USE CollectorAssumption DEF Lines
<1> DEFINE Once == source = "tail" => OneRequest
<1>1. Init => Once
      BY DEF Init, OneRequest
<1>2. TypeInv /\ Once /\ [Next]_vars => Once'
  <2> SUFFICES ASSUME TypeInv, Once, [Next]_vars, source' = "tail"
               PROVE  OneRequest'
      OBVIOUS
  <2> USE DEF TypeInv, TypeOK, Reach, log_vars, counts
  <2>1. source = "tail" /\ OneRequest
        BY DEF Next, Environment, Work, Log, Forward, SourceEnds, Attach, Read,
               PostAccepted, PostFails, PostEscapes, EndOfSource, at_the_end,
               Rerun, Ingest, IngestLate, IngestionRestarts, vars
  <2> USE <2>1 DEF OneRequest
  <2>2. CASE Log \/ Forward \/ SourceEnds
        BY <2>2 DEF Log, Forward, SourceEnds
  <2>3. CASE Attach
    <3>1. next' >= next
          BY <2>3 DEF Attach
    <3>2. QED BY <2>3, <3>1 DEF Attach
  <2>4. CASE Read
    <3>1. CASE next \in Records
          BY <2>4, <3>1 DEF Read
    <3>2. CASE next \notin Records
          BY <2>4, <3>2 DEF Read
    <3>3. QED BY <3>1, <3>2
  <2>5. CASE PostAccepted
        BY <2>5 DEF PostAccepted
  <2>6. CASE PostFails \/ PostEscapes
    <3>1. /\ events' = events /\ next' = next /\ pc' # "posting"
          /\ hand < next /\ pc = "posting"
          BY <2>6 DEF PostFails, PostEscapes
    <3>2. late' = late \/ (request = "sent" /\ late' = late \cup {hand})
          BY <2>6 DEF PostFails, PostEscapes, GiveUp
    <3>3. CASE late' = late
          BY <3>1, <3>3
    <3>4. CASE request = "sent" /\ late' = late \cup {hand}
      <4>1. events[hand] = 0 /\ hand \in Nat
            BY <3>1, <3>4
      <4>2. \A l \in late' : events'[l] = 0
            BY <3>1, <3>4, <4>1
      <4>3. \A l \in Lines : next' <= l => events'[l] = 0 /\ l \notin late'
            BY <3>1, <3>4, <4>1
      <4>4. QED BY <3>1, <4>2, <4>3
    <3>5. QED BY <3>2, <3>3, <3>4
  <2>7. CASE EndOfSource
        BY <2>7 DEF EndOfSource, StartAgain, Stop, at_the_end
  <2>8. CASE Rerun
        BY <2>8 DEF Rerun
  <2>9. CASE Ingest
        BY <2>9 DEF Ingest, AddEvent
  <2>10. CASE IngestLate
        BY <2>10 DEF IngestLate, AddEvent
  <2>11. CASE IngestionRestarts
        BY <2>11 DEF IngestionRestarts
  <2>12. CASE UNCHANGED vars
        BY <2>12 DEF vars
  <2>13. QED
        BY <2>2, <2>3, <2>4, <2>5, <2>6, <2>7, <2>8, <2>9, <2>10, <2>11, <2>12
        DEF Next, Environment, Work
<1>3. Once => TailStoresOnce
      BY DEF OneRequest, TailStoresOnce
<1> HIDE DEF Once
<1>4. QED BY <1>1, <1>2, <1>3, TypeInvHolds, PTL DEF Spec

=============================================================================
