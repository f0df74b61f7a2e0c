----------------------------- MODULE LiveScoring -----------------------------
(***************************************************************************)
(* The live scorer of the processing service, and the event feed it polls. *)
(*                                                                         *)
(* One thread asks ingestion for the events after the last one it saw,     *)
(* runs the detector on a sliding window after each of them, posts the     *)
(* event's assessment and, when the window is over the threshold, a        *)
(* finding.  Ingestion serves the newest events by timestamp, and refuses  *)
(* a cursor that is not among them.                                        *)
(*                                                                         *)
(* Timestamps are taken to be distinct.  The detector is abstracted to     *)
(* whether the window holds a suspicious event; a finding is identified,   *)
(* as in the code, by the events of its window.                            *)
(***************************************************************************)
EXTENDS Naturals, Sequences, FiniteSets

CONSTANTS
    Events,       \* event ids
    Stamp,        \* Stamp[e]: the timestamp of e
    Suspicious,   \* events that bring a window over the threshold
    DemoEvents,   \* events a demo clear removes
    Limit,        \* how many events one poll is served (1000)
    WindowSize,   \* maxlen of the scorer's deque (20)
    NoEvent       \* the cursor of a scorer that has seen nothing

ASSUME FeedAssumption ==
    /\ Stamp \in [Events -> Nat]
    /\ \A d, e \in Events : Stamp[d] = Stamp[e] => d = e
    /\ Suspicious \subseteq Events
    /\ DemoEvents \subseteq Events
    /\ Limit \in Nat \ {0}
    /\ WindowSize \in Nat \ {0}
    /\ NoEvent \notin Events

VARIABLES
    stored,     \* the events table
    assessed,   \* the events with a row in event_assessments
    found,      \* the findings table
    pc,         \* where the scorer thread is
    cursor,     \* after_id
    window,     \* the deque, oldest event first
    fetched,    \* events of the current poll still to be scored
    scored      \* history: the events the detector has been run on

feed == <<stored, assessed, found>>

scorer == <<pc, cursor, window, fetched, scored>>

vars == <<stored, assessed, found, pc, cursor, window, fetched, scored>>

TypeOK ==
    /\ stored \subseteq Events
    /\ assessed \subseteq Events
    /\ found \subseteq SUBSET Events
    /\ pc \in {"waiting", "scoring", "assess", "report", "stopped"}
    /\ cursor \in Events \cup {NoEvent}
    /\ window \in Seq(Events) /\ Len(window) <= WindowSize
    /\ fetched \subseteq Events
    /\ scored \subseteq Events

Init ==
    /\ stored = {} /\ assessed = {} /\ found = {}
    /\ pc = "waiting"
    /\ cursor = NoEvent
    /\ window = <<>>
    /\ fetched = {}
    /\ scored = {}

-----------------------------------------------------------------------------
(* The feed.                                                               *)

Arrive(e) ==
    /\ stored' = stored \cup {e}
    /\ UNCHANGED <<assessed, found, scorer>>

\* Events come in the order of their timestamps when one collector posts
\* one log.
InOrder(e) == \A d \in stored : Stamp[d] < Stamp[e]

\* ORDER BY ts DESC LIMIT.
Newest ==
    {e \in stored : Cardinality({d \in stored : Stamp[d] > Stamp[e]}) < Limit}

\* DELETE /v1/demo-data: the demo events, their assessments, and the findings
\* over nothing else.
ClearDemoData ==
    /\ stored' = stored \ DemoEvents
    /\ assessed' = assessed \ (DemoEvents \cap stored)
    /\ found' = {F \in found : ~ F \subseteq (DemoEvents \cap stored)}
    /\ UNCHANGED scorer

-----------------------------------------------------------------------------
(* The scorer.                                                             *)

\* Mutant: the slice starts at the cursor instead of after it.
Poll_AtCursor ==
    /\ pc = "waiting"
    /\ cursor \in Newest \cup {NoEvent}
    /\ fetched' = {e \in Newest :
                    cursor = NoEvent \/ Stamp[e] >= Stamp[cursor]}
    /\ pc' = IF fetched' = {} THEN "waiting" ELSE "scoring"
    /\ UNCHANGED <<feed, cursor, window, scored>>

\* Mutant: the slice starts two places after the cursor.
Poll_SkipsOne ==
    /\ pc = "waiting"
    /\ cursor \in Newest \cup {NoEvent}
    /\ fetched' = {e \in Newest :
                    \/ cursor = NoEvent
                    \/ \E d \in Newest : /\ Stamp[cursor] < Stamp[d]
                                         /\ Stamp[d] < Stamp[e]}
    /\ pc' = IF fetched' = {} THEN "waiting" ELSE "scoring"
    /\ UNCHANGED <<feed, cursor, window, scored>>

\* GET /v1/events?after_id=.
Poll ==
    /\ pc = "waiting"
    /\ cursor \in Newest \cup {NoEvent}
    /\ fetched' = {e \in Newest :
                    cursor = NoEvent \/ Stamp[e] > Stamp[cursor]}
    /\ pc' = IF fetched' = {} THEN "waiting" ELSE "scoring"
    /\ UNCHANGED <<feed, cursor, window, scored>>

\* A cursor that is not served is refused with 400; run catches the
\* RuntimeError and waits for the next interval, as after any failed poll.
PollRefused ==
    /\ pc = "waiting"
    /\ cursor \notin Newest \cup {NoEvent}
    /\ UNCHANGED vars

Push(w, e) == Append(IF Len(w) = WindowSize THEN Tail(w) ELSE w, e)

Earliest(e) == e \in fetched /\ \A d \in fetched : Stamp[e] <= Stamp[d]

\* Mutant: events are taken in the order the database returns them.
Score_NewestFirst(e) ==
    /\ pc = "scoring"
    /\ e \in fetched /\ \A d \in fetched : Stamp[e] >= Stamp[d]
    /\ window' = Push(window, e)
    /\ cursor' = e
    /\ fetched' = fetched \ {e}
    /\ scored' = scored \cup {e}
    /\ pc' = "assess"
    /\ UNCHANGED feed

\* Mutant: the deque has no bound.
Score_Unbounded(e) ==
    /\ pc = "scoring"
    /\ Earliest(e)
    /\ window' = Append(window, e)
    /\ cursor' = e
    /\ fetched' = fetched \ {e}
    /\ scored' = scored \cup {e}
    /\ pc' = "assess"
    /\ UNCHANGED feed

\* Mutant: the cursor goes to the end of the batch with its first event.
Score_CursorAhead(e) ==
    /\ pc = "scoring"
    /\ Earliest(e)
    /\ window' = Push(window, e)
    /\ cursor' = CHOOSE d \in fetched : \A b \in fetched : Stamp[b] <= Stamp[d]
    /\ fetched' = fetched \ {e}
    /\ scored' = scored \cup {e}
    /\ pc' = "assess"
    /\ UNCHANGED feed

\* The window takes the next event, the cursor moves to it, and the detector
\* runs, all before anything is posted.
Score(e) ==
    /\ pc = "scoring"
    /\ Earliest(e)
    /\ window' = Push(window, e)
    /\ cursor' = e
    /\ fetched' = fetched \ {e}
    /\ scored' = scored \cup {e}
    /\ pc' = "assess"
    /\ UNCHANGED feed

Members(w) == {w[i] : i \in 1..Len(w)}

Alarming == Members(window) \cap Suspicious # {}

Onward == IF fetched = {} THEN "waiting" ELSE "scoring"

\* POST /v1/event-assessments for the event at the cursor.
Assess ==
    /\ pc = "assess"
    /\ assessed' = assessed \cup {cursor}
    /\ pc' = IF Alarming THEN "report" ELSE Onward
    /\ UNCHANGED <<stored, found, cursor, window, fetched, scored>>

\* POST /v1/findings for the window.
Report ==
    /\ pc = "report"
    /\ found' = found \cup {Members(window)}
    /\ pc' = Onward
    /\ UNCHANGED <<stored, assessed, cursor, window, fetched, scored>>

\* What a post that fails may have done: nothing, or all of it when only the
\* response is lost.
PostMayApply ==
    /\ \/ UNCHANGED <<assessed, found>>
       \/ pc = "assess" /\ assessed' = assessed \cup {cursor} /\ UNCHANGED found
       \/ pc = "report" /\ found' = found \cup {Members(window)} /\ UNCHANGED assessed
    /\ UNCHANGED stored

\* A post raises RuntimeError: the rest of the batch is dropped, and run goes
\* on at the next interval.
PostFails ==
    /\ pc \in {"assess", "report"}
    /\ PostMayApply
    /\ fetched' = {}
    /\ pc' = "waiting"
    /\ UNCHANGED <<cursor, window, scored>>

\* A poll or a post raises an error that is neither HTTPError nor URLError, as
\* a connection closed or timed out before its response does: run does not
\* catch it, and the thread ends.
Stops ==
    /\ pc \in {"waiting", "assess", "report"}
    /\ PostMayApply
    /\ fetched' = {}
    /\ pc' = "stopped"
    /\ UNCHANGED <<cursor, window, scored>>

\* The processing service is restarted; the cursor was only in memory.
Restart ==
    /\ pc' = "waiting"
    /\ cursor' = NoEvent
    /\ window' = <<>>
    /\ fetched' = {}
    /\ UNCHANGED <<feed, scored>>

-----------------------------------------------------------------------------
Work == Poll \/ PollRefused \/ (\E e \in Events : Score(e)) \/ Assess \/ Report

Next ==
    \/ \E e \in Events : Arrive(e)
    \/ ClearDemoData
    \/ Work
    \/ PostFails
    \/ Stops
    \/ Restart

Spec == Init /\ [][Next]_vars

\* A feed in order, no demo clears, and an ingestion that may refuse or fail
\* a request but answers it.
SteadyNext ==
    \/ \E e \in Events : InOrder(e) /\ Arrive(e)
    \/ Work
    \/ PostFails

SteadySpec == Init /\ [][SteadyNext]_vars

\* The thread polls at every interval and every request has a timeout.
Fairness == WF_vars(Work)

FairSteadySpec == SteadySpec /\ Fairness

\* The same with events posted late, or with demo clears.
FairLateSpec ==
    Init /\ [][(\E e \in Events : Arrive(e)) \/ Work]_vars /\ Fairness

FairClearSpec ==
    Init /\ [][SteadyNext \/ ClearDemoData]_vars /\ Fairness

-----------------------------------------------------------------------------
(* Properties.                                                             *)

\* The detector's window is in the order of time, without repetition, however
\* late events arrive and whatever is cleared, fails or restarts: resuming
\* after the cursor never goes back.
WindowChronological ==
    \A i, j \in 1..Len(window) : i < j => Stamp[window[i]] < Stamp[window[j]]

\* Unless the service restarts, one suspicious event is reported at most once
\* for each place it can have in the window, whichever posts fail; each report
\* is a finding, and each finding an investigation.
FindingsPerEvent ==
    \A e \in Events : Cardinality({F \in found : e \in F}) <= WindowSize

\* With a feed in order, and no more events than a first poll is served, the
\* detector has run on everything up to the cursor: a batch that a failing
\* post cuts short is taken up where it stopped.
NothingSkipped ==
    cursor # NoEvent =>
        \A e \in stored : Stamp[e] <= Stamp[cursor] => e \in scored

\* Every event of the feed is scored in the end.
EventuallyScored ==
    \A e \in Events : e \in stored ~> (e \in scored \/ e \notin stored)

-----------------------------------------------------------------------------
(* What the documents and comments say.                                    *)

\* The scorer does not lose its worker thread (comment in LiveScorer.run).
ScorerKeepsRunning == pc # "stopped"

\* The scorer resumes after a failure (the same comment): a suspicious event
\* that was scored is part of a finding in the end.
SuspicionReported ==
    \A e \in Suspicious : e \in scored ~> \E F \in found : e \in F

=============================================================================
