------------------------- MODULE LiveScoring_proofs -------------------------
(***************************************************************************)
(* What holds of the live scorer for any feed, limit and window size.      *)
(*                                                                         *)
(* The window is chronological because three facts are kept together: it   *)
(* is, its last event is the cursor, and what is still to be scored of a   *)
(* poll is later than the cursor.  Nothing is skipped because, besides,    *)
(* what is still to be scored has no gap after the cursor.  An event is    *)
(* reported a bounded number of times because every finding is a run of    *)
(* the events scored, and the runs over one event can be numbered.         *)
(***************************************************************************)
EXTENDS LiveScoring, FiniteSetTheorems, TLAPS

Chronological(w) ==
    \A i, j \in 1..Len(w) : i < j => Stamp[w[i]] < Stamp[w[j]]

\* Pushing an event later than those of the window, the oldest leaving a full
\* one, keeps the order, and the event is the last.
LEMMA PushChronological ==
    ASSUME NEW w \in Seq(Events), Len(w) <= WindowSize, Chronological(w),
           NEW e \in Events, \A i \in 1..Len(w) : Stamp[w[i]] < Stamp[e]
    PROVE  /\ Push(w, e) \in Seq(Events)
           /\ Len(Push(w, e)) \in 1..WindowSize
           /\ Push(w, e)[Len(Push(w, e))] = e
           /\ Chronological(Push(w, e))
<1>1. WindowSize \in Nat \ {0} /\ Stamp \in [Events -> Nat]
      BY FeedAssumption
<1> DEFINE kept == IF Len(w) = WindowSize THEN Tail(w) ELSE w
<1>2. /\ kept \in Seq(Events)
      /\ Len(kept) < WindowSize
      /\ Chronological(kept)
      /\ \A i \in 1..Len(kept) : Stamp[kept[i]] < Stamp[e]
  <2>1. CASE Len(w) = WindowSize
    <3>1. w # <<>> /\ kept = Tail(w)
          BY <1>1, <2>1
    <3>2. /\ kept \in Seq(Events)
          /\ Len(kept) = Len(w) - 1
          /\ \A i \in 1..Len(kept) : kept[i] = w[i + 1]
          BY <3>1
    <3>3. \A i \in 1..Len(kept) : i + 1 \in 1..Len(w)
          BY <3>2
    <3>4. QED BY <1>1, <2>1, <3>2, <3>3 DEF Chronological
  <2>2. CASE Len(w) # WindowSize
        BY <1>1, <2>2
  <2>3. QED BY <2>1, <2>2
<1> HIDE DEF kept
<1> DEFINE new == Append(kept, e)
<1>3. /\ new \in Seq(Events)
      /\ Len(new) = Len(kept) + 1
      /\ new[Len(new)] = e
      /\ \A i \in 1..Len(kept) : new[i] = kept[i]
      BY <1>2
<1>4. Chronological(new)
  <2>1. SUFFICES ASSUME NEW i \in 1..Len(new), NEW j \in 1..Len(new), i < j
                 PROVE  Stamp[new[i]] < Stamp[new[j]]
        BY DEF Chronological
  <2>2. i \in 1..Len(kept) /\ new[i] = kept[i]
        BY <1>2, <1>3, <2>1
  <2>3. CASE j = Len(new)
        BY <1>2, <1>3, <2>2, <2>3
  <2>4. CASE j # Len(new)
    <3>1. j \in 1..Len(kept) /\ new[j] = kept[j]
          BY <1>2, <1>3, <2>1, <2>4
    <3>2. QED BY <1>2, <2>1, <2>2, <3>1 DEF Chronological
  <2>5. QED BY <2>3, <2>4
<1>5. Push(w, e) = new
      BY DEF Push, kept
<1>6. QED BY <1>1, <1>2, <1>3, <1>4, <1>5

-----------------------------------------------------------------------------
(* The inductive invariant of the scorer thread.                           *)

WindowEndsAtCursor ==
    IF cursor = NoEvent
    THEN window = <<>>
    ELSE Len(window) > 0 /\ window[Len(window)] = cursor

FetchedIsAhead ==
    cursor # NoEvent => \A e \in fetched : Stamp[cursor] < Stamp[e]

CursorAtPost == pc \in {"assess", "report"} => cursor # NoEvent

ScorerInv ==
    /\ TypeOK
    /\ Chronological(window)
    /\ WindowEndsAtCursor
    /\ FetchedIsAhead
    /\ CursorAtPost

LEMMA ScorerInit == Init => ScorerInv
BY FeedAssumption
   DEF Init, ScorerInv, TypeOK, Chronological, WindowEndsAtCursor,
       FetchedIsAhead, CursorAtPost

\* All that is in the window is no later than the cursor.
LEMMA WindowBehind ==
    ASSUME ScorerInv, NEW e \in Events,
           cursor # NoEvent => Stamp[cursor] < Stamp[e]
    PROVE  \A i \in 1..Len(window) : Stamp[window[i]] < Stamp[e]
<1> SUFFICES ASSUME NEW i \in 1..Len(window)
             PROVE  Stamp[window[i]] < Stamp[e]
    OBVIOUS
<1>1. window \in Seq(Events) /\ Len(window) \in Nat /\ window[i] \in Events
      BY DEF ScorerInv, TypeOK
<1>2. cursor # NoEvent /\ window[Len(window)] = cursor /\ cursor \in Events
      BY <1>1 DEF ScorerInv, WindowEndsAtCursor, TypeOK
<1>3. Stamp[window[i]] <= Stamp[cursor]
  <2>1. CASE i = Len(window)
        BY <1>1, <1>2, <2>1, FeedAssumption
  <2>2. CASE i # Len(window)
    <3>1. Len(window) \in 1..Len(window) /\ i < Len(window)
          BY <1>1, <2>2
    <3>2. QED BY <1>1, <1>2, <3>1, FeedAssumption DEF ScorerInv, Chronological
  <2>3. QED BY <2>1, <2>2
<1>4. Stamp[window[i]] \in Nat /\ Stamp[cursor] \in Nat /\ Stamp[e] \in Nat
      BY <1>1, <1>2, FeedAssumption
<1>5. QED BY <1>2, <1>3, <1>4

\* A step of the feed does not touch the scorer.
LEMMA FeedStep ==
    ASSUME ScorerInv, UNCHANGED scorer,
           stored' \subseteq Events, assessed' \subseteq Events,
           found' \subseteq SUBSET Events
    PROVE  ScorerInv'
BY DEF ScorerInv, scorer, TypeOK, Chronological, WindowEndsAtCursor,
       FetchedIsAhead, CursorAtPost

LEMMA ScoreStep ==
    ASSUME ScorerInv, NEW e \in Events, Score(e)
    PROVE  ScorerInv'
<1>1. /\ e \in fetched
      /\ \A d \in fetched : Stamp[e] <= Stamp[d]
      /\ window' = Push(window, e)
      /\ cursor' = e
      /\ fetched' = fetched \ {e}
      /\ pc' = "assess"
      /\ scored' = scored \cup {e}
      /\ UNCHANGED feed
      BY DEF Score, Earliest
<1>2. cursor # NoEvent => Stamp[cursor] < Stamp[e]
      BY <1>1 DEF ScorerInv, FetchedIsAhead
<1>3. /\ window \in Seq(Events) /\ Len(window) <= WindowSize
      /\ Chronological(window)
      /\ \A i \in 1..Len(window) : Stamp[window[i]] < Stamp[e]
      BY <1>2, WindowBehind DEF ScorerInv, TypeOK
<1>4. /\ window' \in Seq(Events)
      /\ Len(window') \in 1..WindowSize
      /\ window'[Len(window')] = e
      /\ Chronological(window)'
      BY <1>1, <1>3, PushChronological DEF Chronological
<1>5. TypeOK'
      BY <1>1, <1>4, FeedAssumption DEF ScorerInv, TypeOK, feed
<1>6. WindowEndsAtCursor'
      BY <1>1, <1>4, FeedAssumption DEF WindowEndsAtCursor
<1>7. FetchedIsAhead'
  <2>1. ASSUME NEW d \in fetched \ {e} PROVE Stamp[e] < Stamp[d]
    <3>1. /\ d \in Events /\ Stamp[e] <= Stamp[d] /\ d # e
          /\ Stamp[d] \in Nat /\ Stamp[e] \in Nat
          BY <1>1, <2>1, FeedAssumption DEF ScorerInv, TypeOK
    <3>2. Stamp[e] # Stamp[d]
          BY <3>1, FeedAssumption
    <3>3. QED BY <3>1, <3>2
  <2>2. QED BY <1>1, <2>1 DEF FetchedIsAhead
<1>8. CursorAtPost'
      BY <1>1, FeedAssumption DEF CursorAtPost
<1>9. QED BY <1>4, <1>5, <1>6, <1>7, <1>8 DEF ScorerInv

\* A step that keeps cursor and window, and drops what is still to be scored
\* or leaves it alone.
LEMMA PostStep ==
    ASSUME ScorerInv, UNCHANGED <<cursor, window, scored>>,
           fetched' \subseteq fetched,
           pc' \in {"waiting", "scoring", "report", "stopped"},
           pc' = "report" => cursor # NoEvent,
           stored' \subseteq Events, assessed' \subseteq Events,
           found' \subseteq SUBSET Events
    PROVE  ScorerInv'
BY DEF ScorerInv, TypeOK, Chronological, WindowEndsAtCursor, FetchedIsAhead,
       CursorAtPost

LEMMA MembersAreEvents ==
    ASSUME TypeOK PROVE Members(window) \subseteq Events
BY DEF TypeOK, Members

LEMMA MayApplyType ==
    ASSUME ScorerInv, PostMayApply
    PROVE  /\ stored' \subseteq Events
           /\ assessed' \subseteq Events
           /\ found' \subseteq SUBSET Events
BY MembersAreEvents DEF ScorerInv, PostMayApply, TypeOK, CursorAtPost

LEMMA ScorerWork == ScorerInv /\ Work => ScorerInv'
<1> SUFFICES ASSUME ScorerInv, Work PROVE ScorerInv'
    OBVIOUS
<1>1. CASE Poll
  <2>1. /\ fetched' \subseteq stored
        /\ cursor # NoEvent => \A e \in fetched' : Stamp[cursor] < Stamp[e]
    <3>1. ASSUME cursor # NoEvent, NEW e \in fetched'
          PROVE  Stamp[cursor] < Stamp[e]
      <4>1. /\ e \in Events /\ cursor \in Events
            /\ Stamp[e] > Stamp[cursor]
            BY <1>1, <3>1 DEF Poll, Newest, ScorerInv, TypeOK
      <4>2. Stamp[e] \in Nat /\ Stamp[cursor] \in Nat
            BY <4>1, FeedAssumption
      <4>3. QED BY <4>1, <4>2
    <3>2. fetched' \subseteq stored
          BY <1>1 DEF Poll, Newest
    <3>3. QED BY <3>1, <3>2
  <2>2. QED BY <1>1, <2>1
        DEF Poll, feed, ScorerInv, TypeOK, Chronological, WindowEndsAtCursor,
            FetchedIsAhead, CursorAtPost
<1>2. CASE PollRefused
      BY <1>2, FeedStep DEF PollRefused, vars, scorer, ScorerInv, TypeOK
<1>3. ASSUME NEW e \in Events, Score(e) PROVE ScorerInv'
      BY <1>3, ScoreStep
<1>4. CASE Assess
  <2>1. /\ cursor \in Events
        /\ pc' \in {"waiting", "scoring", "report"}
        BY <1>4 DEF Assess, Onward, ScorerInv, TypeOK, CursorAtPost
  <2>2. QED BY <1>4, <2>1, PostStep, FeedAssumption
            DEF Assess, ScorerInv, TypeOK
<1>5. CASE Report
      BY <1>5, PostStep, MembersAreEvents DEF Report, Onward, ScorerInv, TypeOK
<1>6. QED BY <1>1, <1>2, <1>3, <1>4, <1>5 DEF Work

LEMMA ScorerStep == ScorerInv /\ [Next]_vars => ScorerInv'
<1> SUFFICES ASSUME ScorerInv, [Next]_vars PROVE ScorerInv'
    OBVIOUS
<1>1. ASSUME NEW e \in Events, Arrive(e) PROVE ScorerInv'
      BY <1>1, FeedStep DEF Arrive, ScorerInv, TypeOK
<1>2. CASE ClearDemoData
      BY <1>2, FeedStep DEF ClearDemoData, ScorerInv, TypeOK
<1>3. CASE Work
      BY <1>3, ScorerWork
<1>4. CASE PostFails
      BY <1>4, PostStep, MayApplyType DEF PostFails
<1>5. CASE Stops
      BY <1>5, PostStep, MayApplyType DEF Stops
<1>6. CASE Restart
      BY <1>6, FeedAssumption
         DEF Restart, feed, ScorerInv, TypeOK, Chronological,
             WindowEndsAtCursor, FetchedIsAhead, CursorAtPost
<1>7. CASE UNCHANGED vars
      BY <1>7, FeedStep DEF vars, scorer, ScorerInv, TypeOK
<1>8. QED BY <1>1, <1>2, <1>3, <1>4, <1>5, <1>6, <1>7 DEF Next

\* Every reachable state is well typed and the window within its bound, for
\* any feed.
THEOREM ScorerTypeCorrect == Spec => []TypeOK
<1>1. ScorerInv => TypeOK
      BY DEF ScorerInv
<1>2. QED BY <1>1, ScorerInit, ScorerStep, PTL DEF Spec

\* The detector only ever sees windows in the order of time, whatever comes
\* late, is cleared, fails or restarts.
THEOREM WindowIsChronological == Spec => []WindowChronological
<1>1. ScorerInv => WindowChronological
      BY DEF ScorerInv, Chronological, WindowChronological
<1>2. QED BY <1>1, ScorerInit, ScorerStep, PTL DEF Spec

-----------------------------------------------------------------------------
(* With a feed in order that one poll can serve whole, nothing is skipped. *)

NoGap ==
    \A d \in fetched, e \in stored :
        /\ Stamp[e] <= Stamp[d]
        /\ cursor # NoEvent => Stamp[cursor] < Stamp[e]
        => e \in fetched

ResumeInv ==
    /\ ScorerInv
    /\ cursor \in stored \cup {NoEvent}
    /\ fetched \subseteq stored
    /\ NoGap
    /\ NothingSkipped

\* Every stored event is among the newest when there are no more events than
\* one poll is served.
LEMMA AllAreNewest ==
    ASSUME IsFiniteSet(Events), Cardinality(Events) <= Limit,
           stored \subseteq Events
    PROVE  Newest = stored
<1> SUFFICES ASSUME NEW e \in stored
             PROVE  Cardinality({d \in stored : Stamp[d] > Stamp[e]}) < Limit
    BY DEF Newest
<1> DEFINE later == {d \in stored : Stamp[d] > Stamp[e]}
<1>1. e \in Events /\ Stamp[e] \in Nat
      BY FeedAssumption
<1>2. later \subseteq Events \ {e}
      BY <1>1
<1>3. IsFiniteSet(Events \ {e}) /\ Cardinality(Events \ {e}) = Cardinality(Events) - 1
      BY <1>1, FS_RemoveElement
<1>4. IsFiniteSet(later) /\ Cardinality(later) <= Cardinality(Events \ {e})
      BY <1>2, <1>3, FS_Subset
<1>5. /\ Cardinality(later) \in Nat
      /\ Cardinality(Events) \in Nat
      /\ Limit \in Nat
      BY <1>4, FS_CardinalityType, FeedAssumption
<1>6. QED BY <1>3, <1>4, <1>5

LEMMA ResumeScore ==
    ASSUME ResumeInv, NEW e \in Events, Score(e)
    PROVE  ResumeInv'
<1>1. /\ e \in fetched /\ fetched \subseteq stored /\ stored' = stored
      /\ \A d \in fetched : Stamp[e] <= Stamp[d]
      /\ cursor' = e
      /\ fetched' = fetched \ {e}
      /\ scored' = scored \cup {e}
      BY DEF Score, Earliest, feed, ResumeInv
<1>2. /\ stored \subseteq Events
      /\ \A d \in stored : Stamp[d] \in Nat
      /\ cursor # NoEvent => Stamp[cursor] \in Nat /\ Stamp[cursor] < Stamp[e]
      /\ e # NoEvent
      BY <1>1, FeedAssumption DEF ResumeInv, ScorerInv, TypeOK, FetchedIsAhead
<1>3. ScorerInv'
      BY ScoreStep DEF ResumeInv
<1>4. NoGap'
  <2>1. SUFFICES ASSUME NEW d \in fetched \ {e}, NEW g \in stored,
                        Stamp[g] <= Stamp[d], Stamp[e] < Stamp[g]
                 PROVE  g \in fetched \ {e}
        BY <1>1, <1>2 DEF NoGap
  <2>2. cursor # NoEvent => Stamp[cursor] < Stamp[g]
        BY <1>1, <1>2, <2>1
  <2>3. g \in fetched
        BY <2>1, <2>2 DEF ResumeInv, NoGap
  <2>4. g # e
        BY <1>1, <1>2, <2>1
  <2>5. QED BY <2>3, <2>4
<1>5. NothingSkipped'
  <2>1. SUFFICES ASSUME NEW g \in stored, Stamp[g] <= Stamp[e]
                 PROVE  g \in scored \cup {e}
        BY <1>1 DEF NothingSkipped
  <2>2. CASE cursor # NoEvent /\ Stamp[g] <= Stamp[cursor]
        BY <2>1, <2>2 DEF ResumeInv, NothingSkipped
  <2>3. CASE cursor # NoEvent => Stamp[cursor] < Stamp[g]
    <3>1. g \in fetched
          BY <1>1, <2>1, <2>3 DEF ResumeInv, NoGap
    <3>2. Stamp[g] = Stamp[e] /\ g \in Events
          BY <1>1, <1>2, <2>1, <3>1
    <3>3. g = e
          BY <3>2, FeedAssumption
    <3>4. QED BY <3>3
  <2>4. Stamp[g] \in Nat
        BY <1>2, <2>1
  <2>5. QED BY <1>2, <2>2, <2>3, <2>4
<1>6. cursor' \in stored' \cup {NoEvent} /\ fetched' \subseteq stored'
      BY <1>1
<1>7. QED BY <1>3, <1>4, <1>5, <1>6 DEF ResumeInv

LEMMA ResumeStep ==
    ASSUME IsFiniteSet(Events), Cardinality(Events) <= Limit
    PROVE  ResumeInv /\ [SteadyNext]_vars => ResumeInv'
<1> SUFFICES ASSUME ResumeInv, [SteadyNext]_vars PROVE ResumeInv'
    OBVIOUS
<1>1. SteadyNext => ScorerInv'
      BY ScorerStep DEF ResumeInv, SteadyNext, Next
<1>2. ASSUME NEW e \in Events, InOrder(e), Arrive(e) PROVE ResumeInv'
  <2>1. /\ stored' = stored \cup {e}
        /\ UNCHANGED <<cursor, fetched, scored>>
        /\ \A d \in stored : Stamp[d] < Stamp[e]
        /\ Stamp[e] \in Nat /\ \A d \in stored : Stamp[d] \in Nat
        BY <1>2, FeedAssumption
           DEF InOrder, Arrive, scorer, ResumeInv, ScorerInv, TypeOK
  <2>2. NoGap'
        BY <2>1 DEF NoGap, ResumeInv
  <2>3. NothingSkipped'
        BY <2>1 DEF NothingSkipped, ResumeInv
  <2>4. SteadyNext
        BY <1>2 DEF SteadyNext
  <2>5. QED BY <1>1, <2>1, <2>2, <2>3, <2>4 DEF ResumeInv
<1>3. CASE Poll
  <2>1. /\ stored' = stored
        /\ UNCHANGED <<cursor, scored>>
        /\ fetched' = {e \in stored : cursor = NoEvent \/ Stamp[e] > Stamp[cursor]}
        BY <1>3, AllAreNewest DEF Poll, feed, ResumeInv, ScorerInv, TypeOK
  <2>2. \A e \in stored : cursor # NoEvent =>
            (Stamp[cursor] < Stamp[e] => Stamp[e] > Stamp[cursor])
        BY FeedAssumption DEF ResumeInv, ScorerInv, TypeOK
  <2>3. NoGap'
        BY <2>1, <2>2 DEF NoGap
  <2>4. NothingSkipped'
        BY <2>1 DEF NothingSkipped, ResumeInv
  <2>5. SteadyNext
        BY <1>3 DEF SteadyNext, Work
  <2>6. QED BY <1>1, <2>1, <2>3, <2>4, <2>5 DEF ResumeInv
<1>4. ASSUME NEW e \in Events, Score(e) PROVE ResumeInv'
      BY <1>4, ResumeScore
<1>5. CASE PollRefused \/ Assess \/ Report \/ PostFails
  <2>1. /\ UNCHANGED <<stored, cursor, scored>>
        /\ fetched' \subseteq fetched
        /\ fetched' = fetched \/ fetched' = {}
        BY <1>5 DEF PollRefused, Assess, Report, PostFails, PostMayApply, vars
  <2>2. SteadyNext
        BY <1>5 DEF SteadyNext, Work
  <2>3. NoGap' /\ NothingSkipped'
        BY <2>1 DEF NoGap, NothingSkipped, ResumeInv
  <2>4. QED BY <1>1, <2>1, <2>2, <2>3 DEF ResumeInv
<1>6. CASE UNCHANGED vars
  <2>1. ScorerInv'
        BY <1>6, ScorerStep DEF ResumeInv
  <2>2. QED BY <1>6, <2>1 DEF vars, ResumeInv, NoGap, NothingSkipped
<1>7. QED BY <1>2, <1>3, <1>4, <1>5, <1>6 DEF SteadyNext, Work

\* When one poll can serve the whole feed, the feed is in order and nothing is
\* cleared, failing posts never make the scorer pass an event over.
THEOREM ScorerSkipsNothing ==
    ASSUME IsFiniteSet(Events), Cardinality(Events) <= Limit
    PROVE  SteadySpec => []NothingSkipped
<1>1. Init => ResumeInv
  <2>1. ASSUME Init PROVE ScorerInv
        BY <2>1, ScorerInit
  <2>2. QED BY <2>1 DEF Init, ResumeInv, NoGap, NothingSkipped
<1>2. ResumeInv /\ [SteadyNext]_vars => ResumeInv'
      BY ResumeStep
<1>3. ResumeInv => NothingSkipped
      BY DEF ResumeInv
<1>4. QED BY <1>1, <1>2, <1>3, PTL DEF SteadySpec

-----------------------------------------------------------------------------
(* Without a restart, an event is reported once for each place it can have *)
(* in the window.  The findings over it are runs of what has been scored,  *)
(* full windows or beginnings; two of them with equally many events from   *)
(* it on are the same, so that counting those events numbers them from 1   *)
(* to WindowSize.                                                          *)

\* Every step but a restart: events may be late, and the store be cleared.
RunningNext ==
    \/ \E e \in Events : Arrive(e)
    \/ ClearDemoData
    \/ Work
    \/ PostFails
    \/ Stops

RunningSpec == Init /\ [][RunningNext]_vars

\* No scored event is missing between two of F.
Convex(F) ==
    \A x \in scored, a, b \in F : Stamp[a] <= Stamp[x] /\ Stamp[x] <= Stamp[b] => x \in F

\* No scored event is missing before the last of F.
Beginning(F) == \A x \in scored, b \in F : Stamp[x] <= Stamp[b] => x \in F

\* What the window of a scorer that has not restarted can hold.
Run(F) ==
    /\ F \subseteq scored
    /\ IsFiniteSet(F) /\ Cardinality(F) <= WindowSize
    /\ Convex(F)
    /\ Cardinality(F) = WindowSize \/ Beginning(F)

\* Of two runs that begin at the same event one has all the other has.
LEMMA RunsNest ==
    ASSUME scored \subseteq Events, NEW F, NEW G, Run(F), Run(G),
           NEW e \in F \cap G
    PROVE  \/ {x \in F : Stamp[e] <= Stamp[x]} \subseteq {x \in G : Stamp[e] <= Stamp[x]}
           \/ {x \in G : Stamp[e] <= Stamp[x]} \subseteq {x \in F : Stamp[e] <= Stamp[x]}
<1>1. \A x \in scored : Stamp[x] \in Nat
      BY FeedAssumption
<1>2. F \subseteq scored /\ G \subseteq scored /\ Convex(F) /\ Convex(G)
      BY DEF Run
<1> SUFFICES ASSUME NEW x \in F, Stamp[e] <= Stamp[x], x \notin G,
                    NEW y \in G, Stamp[e] <= Stamp[y]
             PROVE  y \in F
    OBVIOUS
<1>3. ~ (Stamp[x] <= Stamp[y])
      BY <1>2 DEF Convex
<1>4. Stamp[y] <= Stamp[x]
      BY <1>1, <1>2, <1>3
<1>5. QED BY <1>2, <1>4 DEF Convex

\* Two runs that agree from an event on are one: were an earlier event in only
\* one of them, the other would not be full, nor a beginning.
LEMMA RunsAgree ==
    ASSUME scored \subseteq Events, NEW F, NEW G, Run(F), Run(G),
           NEW e \in F \cap G,
           {x \in F : Stamp[e] <= Stamp[x]} = {x \in G : Stamp[e] <= Stamp[x]}
    PROVE  F \subseteq G
<1>1. \A x \in scored : Stamp[x] \in Nat
      BY FeedAssumption
<1>2. F \subseteq scored /\ G \subseteq scored /\ Convex(F) /\ Convex(G)
      BY DEF Run
<1> SUFFICES ASSUME NEW x \in F, x \notin G PROVE FALSE
    OBVIOUS
<1>3. ~ (Stamp[e] <= Stamp[x])
      OBVIOUS
<1>4. Stamp[x] <= Stamp[e]
      BY <1>1, <1>2, <1>3
<1>5. G \subseteq F
  <2> SUFFICES ASSUME NEW y \in G PROVE y \in F
      OBVIOUS
  <2>1. CASE Stamp[e] <= Stamp[y]
        BY <2>1
  <2>2. CASE ~ (Stamp[e] <= Stamp[y])
    <3>1. ~ (Stamp[y] <= Stamp[x])
          BY <1>2, <1>4 DEF Convex
    <3>2. Stamp[x] <= Stamp[y] /\ Stamp[y] <= Stamp[e]
          BY <1>1, <1>2, <2>2, <3>1
    <3>3. QED BY <1>2, <3>2 DEF Convex
  <2>3. QED BY <2>1, <2>2
<1>6. Cardinality(G) < Cardinality(F)
  <2>1. IsFiniteSet(F) /\ Cardinality(F) \in Nat /\ Cardinality(G) \in Nat
        BY FS_CardinalityType DEF Run
  <2>2. Cardinality(G) <= Cardinality(F) /\ (Cardinality(F) = Cardinality(G) => F = G)
        BY <1>5, <2>1, FS_Subset
  <2>3. QED BY <2>1, <2>2
<1>7. Cardinality(G) # WindowSize
  <2>1. Cardinality(F) \in Nat /\ Cardinality(G) \in Nat /\ Cardinality(F) <= WindowSize
        BY FS_CardinalityType DEF Run
  <2>2. QED BY <1>6, <2>1, FeedAssumption
<1>8. QED BY <1>2, <1>4, <1>7 DEF Run, Beginning

\* Hence an event is in at most as many runs as the window has places.
LEMMA RunsPerEvent ==
    ASSUME scored \subseteq Events, NEW S, \A F \in S : Run(F), NEW e
    PROVE  Cardinality({F \in S : e \in F}) <= WindowSize
<1> DEFINE R == {F \in S : e \in F}
           from(F) == {x \in F : Stamp[e] <= Stamp[x]}
           g == [F \in R |-> Cardinality(from(F))]
<1>1. WindowSize \in Nat \ {0}
      BY FeedAssumption
<1>2. ASSUME NEW F \in R
      PROVE  IsFiniteSet(from(F)) /\ Cardinality(from(F)) \in 1..WindowSize
  <2>1. IsFiniteSet(F) /\ Cardinality(F) \in Nat /\ Cardinality(F) <= WindowSize
        BY FS_CardinalityType DEF Run
  <2>2. IsFiniteSet(from(F)) /\ Cardinality(from(F)) <= Cardinality(F)
        BY <2>1, FS_Subset
  <2>3. Cardinality(from(F)) \in Nat
        BY <2>2, FS_CardinalityType
  <2>4. e \in from(F)
    <3>1. e \in Events
          BY DEF Run
    <3>2. Stamp[e] \in Nat
          BY <3>1, FeedAssumption
    <3>3. QED BY <3>2
  <2>5. Cardinality(from(F)) # 0
        BY <2>2, <2>4, FS_EmptySet
  <2>6. QED BY <1>1, <2>1, <2>2, <2>3, <2>5
<1>3. ASSUME NEW F \in R, NEW G \in R, g[F] = g[G] PROVE F = G
  <2>1. Run(F) /\ Run(G) /\ e \in F \cap G
        OBVIOUS
  <2>2. from(F) \subseteq from(G) \/ from(G) \subseteq from(F)
        BY <2>1, RunsNest
  <2>3. /\ IsFiniteSet(from(F)) /\ IsFiniteSet(from(G))
        /\ Cardinality(from(F)) = Cardinality(from(G))
        BY <1>2, <1>3
  <2>4. from(F) = from(G)
    <3>1. CASE from(F) \subseteq from(G)
          BY <2>3, <3>1, FS_Subset
    <3>2. CASE from(G) \subseteq from(F)
          BY <2>3, <3>2, FS_Subset
    <3>3. QED BY <2>2, <3>1, <3>2
  <2>5. F \subseteq G
        BY <2>1, <2>4, RunsAgree
  <2>6. G \subseteq F
        BY <2>1, <2>4, RunsAgree
  <2>7. QED BY <2>5, <2>6
<1>4. g \in Injection(R, 1..WindowSize)
  <2>1. g \in [R -> 1..WindowSize]
        BY <1>2
  <2>2. \A F, G \in R : g[F] = g[G] => F = G
        BY <1>3
  <2> HIDE DEF g, R
  <2>3. QED BY <2>1, <2>2 DEF Injection, IsInjective
<1>5. IsFiniteSet(1..WindowSize) /\ Cardinality(1..WindowSize) = WindowSize
      BY <1>1, FS_Interval
<1>6. QED BY <1>4, <1>5, FS_Injection

\* A chronological window has as many events as places.
LEMMA MembersCount ==
    ASSUME NEW w \in Seq(Events), Chronological(w)
    PROVE  IsFiniteSet(Members(w)) /\ Cardinality(Members(w)) = Len(w)
<1>1. Len(w) \in Nat /\ \A i \in 1..Len(w) : w[i] \in Events /\ Stamp[w[i]] \in Nat
      BY FeedAssumption
<1> DEFINE f == [i \in 1..Len(w) |-> w[i]]
<1>2. \A i, j \in 1..Len(w) : i # j => w[i] # w[j]
  <2> SUFFICES ASSUME NEW i \in 1..Len(w), NEW j \in 1..Len(w), i < j
               PROVE  w[i] # w[j]
      BY <1>1
  <2>1. QED BY <1>1 DEF Chronological
<1>3. f \in Bijection(1..Len(w), Members(w))
  <2>1. f \in [1..Len(w) -> Members(w)]
        BY DEF Members
  <2>2. \A i, j \in 1..Len(w) : f[i] = f[j] => i = j
        BY <1>2
  <2>3. \A y \in Members(w) : \E i \in 1..Len(w) : f[i] = y
        BY DEF Members
  <2> HIDE DEF f
  <2>4. QED BY <2>1, <2>2, <2>3 DEF Bijection, Injection, Surjection, IsInjective
<1>4. ExistsBijection(1..Len(w), Members(w))
      BY <1>3 DEF ExistsBijection
<1>5. QED BY <1>1, <1>4, FS_NatBijection, FS_CountingElements

\* A run stays one when a later event is scored.
LEMMA RunKept ==
    ASSUME scored \subseteq Events, NEW F, Run(F), NEW e \in Events,
           \A x \in scored : Stamp[x] < Stamp[e], scored' = scored \cup {e}
    PROVE  Run(F)'
<1>1. \A x \in scored : Stamp[x] \in Nat /\ Stamp[e] \in Nat
      BY FeedAssumption
<1>2. \A b \in F : b \in scored /\ ~ (Stamp[e] <= Stamp[b])
      BY <1>1 DEF Run
<1>3. Convex(F)'
      BY <1>2 DEF Run, Convex
<1>4. Beginning(F) => Beginning(F)'
      BY <1>2 DEF Beginning
<1>5. QED BY <1>3, <1>4 DEF Run

-----------------------------------------------------------------------------
\* Nothing after the cursor has been scored; the window is a run, and each
\* finding was one.
RunInv ==
    /\ ScorerInv
    /\ \A x \in scored : cursor # NoEvent /\ Stamp[x] <= Stamp[cursor]
    /\ Run(Members(window))
    /\ \A F \in found : Run(F)

LEMMA RunInit == Init => RunInv
<1> SUFFICES ASSUME Init PROVE RunInv
    OBVIOUS
<1>1. Members(window) = {}
      BY DEF Init, Members
<1>2. Run({})
      BY FS_EmptySet, FeedAssumption DEF Init, Run, Convex, Beginning
<1>3. QED BY <1>1, <1>2, ScorerInit DEF Init, RunInv

\* The window that takes the event after the cursor is a run again.
LEMMA RunPushed ==
    ASSUME RunInv, NEW e \in Events, Score(e)
    PROVE  Run(Members(window))'
<1> DEFINE M == Members(window)
           N == Members(window)'
<1>0. ScorerInv /\ ScorerInv' /\ Run(M)
      BY ScoreStep DEF RunInv
<1>1. /\ e \in fetched /\ window' = Push(window, e) /\ scored' = scored \cup {e}
      /\ cursor # NoEvent => Stamp[cursor] < Stamp[e]
      BY <1>0 DEF Score, Earliest, ScorerInv, FetchedIsAhead
<1>2. /\ window \in Seq(Events) /\ window' \in Seq(Events) /\ Len(window) <= WindowSize
      /\ scored \subseteq Events /\ cursor \in Events \cup {NoEvent}
      /\ Chronological(window) /\ Chronological(window')
      BY <1>0 DEF ScorerInv, TypeOK, Chronological
<1>3. /\ \A x \in scored \cup {e} : Stamp[x] \in Nat
      /\ WindowSize \in Nat \ {0} /\ Len(window) \in Nat
      BY <1>2, FeedAssumption
<1>4. \A x \in scored : cursor \in M /\ cursor \in scored /\ Stamp[x] <= Stamp[cursor]
  <2> SUFFICES ASSUME NEW x \in scored
               PROVE  cursor \in M /\ cursor \in scored /\ Stamp[x] <= Stamp[cursor]
      OBVIOUS
  <2>1. cursor # NoEvent /\ Stamp[x] <= Stamp[cursor]
        BY DEF RunInv
  <2>2. Len(window) > 0 /\ window[Len(window)] = cursor
        BY <1>0, <2>1 DEF ScorerInv, WindowEndsAtCursor
  <2>3. cursor \in M
        BY <1>3, <2>2 DEF Members
  <2>4. M \subseteq scored
        BY <1>0 DEF Run
  <2>5. QED BY <2>1, <2>3, <2>4
<1>5. \A x \in scored : Stamp[x] < Stamp[e]
  <2> SUFFICES ASSUME NEW x \in scored PROVE Stamp[x] < Stamp[e]
      OBVIOUS
  <2>1. cursor \in scored /\ Stamp[x] <= Stamp[cursor] /\ cursor # NoEvent
        BY <1>4 DEF RunInv
  <2>2. QED BY <1>1, <1>3, <2>1
<1>6. /\ Len(window) # WindowSize => N = M \cup {e} /\ Len(window') = Len(window) + 1
      /\ Len(window) = WindowSize =>
             N = {window[i] : i \in 2..Len(window)} \cup {e} /\ Len(window') = WindowSize
  <2>1. CASE Len(window) # WindowSize
    <3>1. window' = Append(window, e)
          BY <1>1, <2>1 DEF Push
    <3>2. /\ Len(window') = Len(window) + 1
          /\ window'[Len(window) + 1] = e
          /\ \A i \in 1..Len(window) : window'[i] = window[i]
          BY <1>2, <3>1
    <3>3. N = {window'[i] : i \in 1..(Len(window) + 1)}
          BY <3>2 DEF Members
    <3>4. N = {window[i] : i \in 1..Len(window)} \cup {e}
          BY <1>3, <3>2, <3>3
    <3>5. QED BY <2>1, <3>2, <3>4 DEF Members
  <2>2. CASE Len(window) = WindowSize
    <3>1. window' = Append(Tail(window), e) /\ window # <<>>
          BY <1>1, <1>3, <2>2 DEF Push
    <3>2. /\ Len(window') = Len(window)
          /\ window'[Len(window)] = e
          /\ \A i \in 1..(Len(window) - 1) : window'[i] = window[i + 1]
          BY <1>2, <1>3, <2>2, <3>1
    <3>3. N = {window'[i] : i \in 1..Len(window)}
          BY <3>2 DEF Members
    <3>4. \A y : y \in N <=> y = e \/ \E i \in 1..(Len(window) - 1) : y = window[i + 1]
          BY <1>3, <2>2, <3>2, <3>3
    <3>5. \A y : (\E i \in 1..(Len(window) - 1) : y = window[i + 1])
                     <=> \E i \in 2..Len(window) : y = window[i]
      <4>1. \A i \in 2..Len(window) : i - 1 \in 1..(Len(window) - 1) /\ (i - 1) + 1 = i
            BY <1>3
      <4>2. \A i \in 1..(Len(window) - 1) : i + 1 \in 2..Len(window)
            BY <1>3
      <4>3. QED BY <4>1, <4>2
    <3>6. QED BY <2>2, <3>2, <3>4, <3>5
  <2>3. QED BY <2>1, <2>2
<1>7. N \subseteq M \cup {e} /\ e \in N
  <2>1. 2..Len(window) \subseteq 1..Len(window)
        BY <1>3
  <2>2. QED BY <1>6, <2>1 DEF Members
\* What leaves the window is earlier than all that stays.
<1>8. \A a \in N \ {e}, x \in M : Stamp[a] <= Stamp[x] => x \in N
  <2> SUFFICES ASSUME Len(window) = WindowSize,
                      NEW a \in {window[i] : i \in 2..Len(window)}, NEW x \in M,
                      Stamp[a] <= Stamp[x]
               PROVE  x \in {window[i] : i \in 2..Len(window)}
      BY <1>6
  <2>1. PICK i \in 2..Len(window) : a = window[i]
        OBVIOUS
  <2>2. PICK j \in 1..Len(window) : x = window[j]
        BY DEF Members
  <2>3. CASE j = 1
    <3>1. i \in 1..Len(window) /\ 1 \in 1..Len(window) /\ 1 < i
          BY <1>3
    <3>2. Stamp[x] < Stamp[a]
          BY <1>2, <2>1, <2>2, <2>3, <3>1 DEF Chronological
    <3>3. Stamp[x] \in Nat /\ Stamp[a] \in Nat
          BY <1>2, <2>1, <2>2, <3>1, FeedAssumption
    <3>4. QED BY <3>2, <3>3
  <2>4. CASE j # 1
        BY <1>3, <2>2, <2>4
  <2>5. QED BY <2>3, <2>4
<1>9. Convex(Members(window))'
  <2> SUFFICES ASSUME NEW x \in scored \cup {e}, NEW a \in N, NEW b \in N,
                      Stamp[a] <= Stamp[x], Stamp[x] <= Stamp[b]
               PROVE  x \in N
      BY <1>1 DEF Convex
  <2>1. CASE x = e
        BY <1>7, <2>1
  <2>2. CASE x \in scored
    <3>1. M \subseteq scored
          BY <1>0 DEF Run
    <3>2. a # e /\ a \in M
          BY <1>3, <1>5, <1>7, <2>2
    <3>3. x \in M
      <4>1. cursor \in M /\ Stamp[x] <= Stamp[cursor]
            BY <1>4, <2>2
      <4>2. QED BY <1>0, <2>2, <3>2, <4>1 DEF Run, Convex
    <3>4. QED BY <1>8, <3>2, <3>3
  <2>3. QED BY <2>1, <2>2
<1>10. IsFiniteSet(M) /\ Cardinality(M) = Len(window)
       BY <1>2, MembersCount
<1>11. IsFiniteSet(N) /\ Cardinality(N) = Len(window')
       BY <1>2, MembersCount DEF Members
<1>12. Cardinality(N) = WindowSize \/ Beginning(Members(window))'
  <2>1. CASE Len(window) = WindowSize
        BY <1>6, <1>11, <2>1
  <2>2. CASE Len(window) # WindowSize
    <3>1. Beginning(M)
          BY <1>0, <1>10, <2>2 DEF Run
    <3>2. \A x \in scored : x \in M
          BY <1>4, <3>1 DEF Beginning
    <3>3. QED BY <1>1, <1>6, <2>2, <3>2 DEF Beginning
  <2>3. QED BY <2>1, <2>2
<1>13. N \subseteq scored'
       BY <1>0, <1>1, <1>7 DEF Run
<1>14. Len(window') <= WindowSize
       BY <1>0 DEF ScorerInv, TypeOK
<1>15. QED BY <1>9, <1>11, <1>12, <1>13, <1>14 DEF Run

LEMMA RunStep == RunInv /\ [RunningNext]_vars => RunInv'
<1> SUFFICES ASSUME RunInv, [RunningNext]_vars PROVE RunInv'
    OBVIOUS
<1>1. ScorerInv'
      BY ScorerStep DEF RunInv, RunningNext, Next
<1>2. CASE /\ UNCHANGED <<cursor, window, scored>>
           /\ found' \subseteq found \cup {Members(window)}
      BY <1>1, <1>2 DEF RunInv, Run, Convex, Beginning, Members
<1>3. ASSUME NEW e \in Events, Score(e) PROVE RunInv'
  <2>1. /\ cursor' = e /\ found' = found /\ scored' = scored \cup {e}
        /\ cursor # NoEvent => Stamp[cursor] < Stamp[e]
        /\ scored \subseteq Events /\ cursor \in Events \cup {NoEvent}
        BY <1>3 DEF Score, Earliest, feed, RunInv, ScorerInv, TypeOK, FetchedIsAhead
  <2>2. \A x \in scored : Stamp[x] \in Nat /\ Stamp[x] < Stamp[e]
        BY <2>1, FeedAssumption DEF RunInv
  <2>3. \A F \in found : Run(F)'
        BY <2>1, <2>2, RunKept DEF RunInv
  <2>4. \A x \in scored' : cursor' # NoEvent /\ Stamp[x] <= Stamp[cursor']
        BY <2>1, <2>2, FeedAssumption
  <2>5. QED BY <1>1, <1>3, <2>1, <2>3, <2>4, RunPushed DEF RunInv
<1>4. CASE \/ \E e \in Events : Arrive(e)
           \/ ClearDemoData \/ Poll \/ PollRefused \/ Assess \/ UNCHANGED vars
      BY <1>2, <1>4 DEF Arrive, ClearDemoData, Poll, PollRefused, Assess, vars, scorer, feed
<1>5. CASE Report \/ PostFails \/ Stops
      BY <1>2, <1>5 DEF Report, PostFails, Stops, PostMayApply
<1>6. QED BY <1>3, <1>4, <1>5 DEF RunningNext, Work

\* A suspicious event is in at most as many findings as the window has places,
\* whichever posts fail, events come late and demo data are cleared, as long as
\* the processing service is not restarted.
THEOREM FindingsAreBounded == RunningSpec => []FindingsPerEvent
<1>1. RunInv => FindingsPerEvent
  <2> SUFFICES ASSUME RunInv, NEW e \in Events
               PROVE  Cardinality({F \in found : e \in F}) <= WindowSize
      BY DEF FindingsPerEvent
  <2>1. scored \subseteq Events /\ \A F \in found : Run(F)
        BY DEF RunInv, ScorerInv, TypeOK
  <2>2. QED BY <2>1, RunsPerEvent
<1>2. QED BY <1>1, RunInit, RunStep, PTL DEF RunningSpec

\* In particular with a feed in order and no clears.
THEOREM SteadyFindingsAreBounded == SteadySpec => []FindingsPerEvent
<1>1. SteadyNext => RunningNext
      BY DEF SteadyNext, RunningNext
<1>2. [SteadyNext]_vars => [RunningNext]_vars
      BY <1>1
<1>3. SteadySpec => RunningSpec
      BY <1>2, PTL DEF SteadySpec, RunningSpec
<1>4. QED BY <1>3, FindingsAreBounded, PTL

=============================================================================
