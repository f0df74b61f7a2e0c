------------------------------ MODULE Detection ------------------------------
(***************************************************************************)
(* What processing makes of a window of events: features, rule scores, the *)
(* risk with an anomaly model's share in it, a finding, and a policy       *)
(* recommendation whose text an investigator may write.                    *)
(*                                                                         *)
(* Of an event there remain its destination, its request bytes and the     *)
(* indicators that its action and attributes give.  The features that only *)
(* the anomaly model reads are left out with its arithmetic: its score is  *)
(* any number from 0 to 100.  A risk is counted in fifths of a point,      *)
(* since the model's score enters with the factor 0.2.                     *)
(***************************************************************************)
EXTENDS Integers, Sequences, SequencesExt

CONSTANTS
    Events,         \* the events there may be
    Known,          \* known_destinations
    Proxies,        \* destinations with ":3128" in them
    NoDestination,  \* of an event without a destination
    Large,          \* total bytes whose log1p is 16 or more (8886110)
    Threshold,      \* the risk a finding takes (70)
    WindowSize,     \* maxlen of the scorer's window (20)
    Scores,         \* what the anomaly model may answer
    NoModel,        \* in place of a score: no model is loaded
    Answers         \* what an investigator may answer: records with a failed
                    \* flag, and an action and a target that it may add

Indicators ==
    {"outside_work_hours", "sensitive_access", "archive_activity",
     "egress_activity", "upload_activity", "sensitive_json_fields",
     "blocked_activity"}

ASSUME DetectionAssumption ==
    /\ \A e \in Events : e.bytes \in Int /\ e.signs \subseteq Indicators
    /\ Large \in Nat /\ Threshold \in Nat /\ WindowSize \in Nat \ {0}
    /\ Scores \subseteq 0..100 /\ NoModel \notin Scores

-----------------------------------------------------------------------------
(* features.py                                                             *)

\* The destinations outside, in the order of the events.
External(window) ==
    SelectSeq([i \in DOMAIN window |-> window[i].destination],
              LAMBDA d : d # NoDestination /\ d \notin Proxies)

\* Mutant: the largest request alone.
TotalBytes_Largest(window) ==
    FoldLeft(LAMBDA most, e : IF e.bytes > most THEN e.bytes ELSE most, 0, window)

\* A negative count of bytes counts as none.
TotalBytes(window) ==
    FoldLeft(LAMBDA sum, e : sum + (IF e.bytes > 0 THEN e.bytes ELSE 0), 0, window)

Signs(window) == UNION {window[i].signs : i \in DOMAIN window}

\* The destination a recommendation denies: the last one.
Candidate(window) ==
    LET external == External(window)
    IN  IF external = <<>> THEN NoDestination ELSE Last(external)

ExtractFeatures(window) ==
    [total |-> TotalBytes(window),
     new   |-> ToSet(External(window)) \ Known # {},
     signs |-> Signs(window),
     destination |-> Candidate(window)]

-----------------------------------------------------------------------------
(* rules.py                                                                *)

Points ==
    [sensitive_access |-> 15, staging_activity |-> 15, egress_attempt |-> 10,
     new_destination |-> 15, large_transfer |-> 25, outside_work_hours |-> 10,
     sensitive_field_indicator |-> 10, policy_enforcement |-> 5]

\* Which contributions the features make.
Contributions(f) ==
    LET upload == "upload_activity" \in f.signs
        holds ==
            [sensitive_access   |-> "sensitive_access" \in f.signs,
             staging_activity   |-> "archive_activity" \in f.signs,
             egress_attempt     |-> "egress_activity" \in f.signs,
             new_destination    |-> f.new /\ upload,
             large_transfer     |-> f.total >= Large /\ upload,
             outside_work_hours |-> "outside_work_hours" \in f.signs,
             sensitive_field_indicator |-> "sensitive_json_fields" \in f.signs,
             policy_enforcement |-> "blocked_activity" \in f.signs]
    IN  {d \in DOMAIN Points : holds[d]}

Part(d, contributions) == IF d \in contributions THEN Points[d] ELSE 0

SumOfPoints(c) ==
    Part("sensitive_access", c) + Part("staging_activity", c)
    + Part("egress_attempt", c) + Part("new_destination", c)
    + Part("large_transfer", c) + Part("outside_work_hours", c)
    + Part("sensitive_field_indicator", c) + Part("policy_enforcement", c)

AtMost(bound, n) == IF n > bound THEN bound ELSE n

\* Mutant: the sum is not cut off.
RuleScore_Uncapped(contributions) == SumOfPoints(contributions)

RuleScore(contributions) == AtMost(100, SumOfPoints(contributions))

-----------------------------------------------------------------------------
(* pipeline.py                                                             *)

\* Mutant: the model's share has no bound of its own.
ModelFifths_Unbounded(score) == IF score = NoModel THEN 0 ELSE 5 * score

\* The model's share: a fifth of its score, at most 20 points.
ModelFifths(score) == IF score = NoModel THEN 0 ELSE AtMost(100, score)

Severity(risk) ==
    CASE risk >= 450 -> "critical"
      [] risk >= 350 /\ risk < 450 -> "high"
      [] risk >= 200 /\ risk < 350 -> "medium"
      [] risk < 200 -> "low"

\* Mutant: any two rules make a finding when there is a model.
IsFinding_ModelConfirms(rules, risk, score) ==
    risk >= 5 * Threshold \/ (score # NoModel /\ rules >= 40)

IsFinding(rules, risk, score) == risk >= 5 * Threshold

DetectWindow(window, score) ==
    LET features == ExtractFeatures(window)
        contributions == Contributions(features)
        rules == RuleScore(contributions)
        risk == AtMost(500, 5 * rules + ModelFifths(score))
    IN  [destination |-> features.destination,
         contributions |-> contributions,
         rules |-> rules,
         risk |-> risk,
         severity |-> Severity(risk),
         finding |-> IsFinding(rules, risk, score)]

\* Only the texts of a recommendation come from the investigator.
Policy(detection, answer) ==
    [action |-> "deny_destination",
     target |-> detection.destination,
     reason |-> IF answer.failed THEN "rules" ELSE "investigator"]

-----------------------------------------------------------------------------
VARIABLES
    window,          \* the scorer's deque
    detection,       \* what detect_window returned for it
    recommendation   \* the set of at most one recommendation made from it

detection_vars == <<window, detection, recommendation>>

\* The scorer's window keeps its bound, and both scores and the severity keep
\* to their ranges.
DetectionTypeOK ==
    /\ window \in Seq(Events) /\ Len(window) <= WindowSize
    /\ detection.contributions \subseteq DOMAIN Points
    /\ detection.rules \in 0..100
    /\ detection.risk \in 0..500
    /\ detection.severity \in {"low", "medium", "high", "critical"}
    /\ detection.finding \in BOOLEAN

DetectionInit ==
    /\ window = <<>>
    /\ detection = DetectWindow(<<>>, NoModel)
    /\ recommendation = {}

\* The scorer takes an event, the oldest leaving a full window, and scores.
Observe ==
    \E e \in Events, score \in Scores \cup {NoModel} :
        /\ window' = Append(IF Len(window) = WindowSize THEN Tail(window)
                            ELSE window, e)
        /\ detection' = DetectWindow(window', score)
        /\ recommendation' = {}

\* recommend_policy, which refuses what has no finding or no destination.
Recommend ==
    \E answer \in Answers :
        /\ detection.finding /\ detection.destination # NoDestination
        /\ recommendation' = {Policy(detection, answer)}
        /\ UNCHANGED <<window, detection>>

DetectionNext == Observe \/ Recommend

DetectionSpec == DetectionInit /\ [][DetectionNext]_detection_vars

-----------------------------------------------------------------------------
(* Properties.                                                             *)

\* A finding rests on three kinds of evidence or more, whatever the model adds.
ThreeKindsOfEvidence ==
    detection.finding =>
        \E a, b, c \in detection.contributions : a # b /\ b # c /\ a # c

\* The model is worth 20 points and takes none away: it can lift to critical
\* only what the rules alone give 70 points, which is a high finding by itself,
\* and where the rules alone reach the threshold there is a finding whatever
\* the model says.
RulesStayAuthoritative ==
    /\ detection.severity = "critical" => detection.rules >= 70
    /\ detection.rules >= Threshold => detection.finding

\* What the uploads of a window carry, whatever its other events do.
UploadBytes(events) ==
    FoldLeft(LAMBDA sum, e :
                 sum + (IF "upload_activity" \in e.signs /\ e.bytes > 0
                        THEN e.bytes ELSE 0),
             0, events)

\* An upload over the limit is seen even when it is split over events.
SplitTransferIsSeen ==
    /\ \E i \in DOMAIN window : "upload_activity" \in window[i].signs
    /\ UploadBytes(window) >= Large
    => "large_transfer" \in detection.contributions

=============================================================================
