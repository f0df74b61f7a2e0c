-------------------------- MODULE Processing_proofs --------------------------
(***************************************************************************)
(* What holds of the processing service, of what it makes of a window of   *)
(* events (Detection) and of the models that may have a share in that      *)
(* (ModelRegistry), for any events, models, versions, trainers and         *)
(* operators.                                                              *)
(*                                                                         *)
(* The invariant of a detection says where it comes from: it is that of    *)
(* the window, with some score.  The rest is arithmetic over the eight     *)
(* contributions: any two give at most 40 points, and the model adds 20.   *)
(*                                                                         *)
(* That `current` resolves is not inductive: it needs that whoever is on   *)
(* its way to the pointer has an artifact behind the name, and that, while *)
(* writes of the pointer have not crossed, the temporary file holds the    *)
(* name of the one actor that is about to move it.  That what is in the    *)
(* registry passed its gates rests on the candidate file being still the   *)
(* model that was evaluated: while the trainings have not mixed, one of    *)
(* them has the file between its opening and its copy.                     *)
(***************************************************************************)
EXTENDS Detection, ModelRegistry, FiniteSetTheorems, TLAPS

-----------------------------------------------------------------------------
(* Detections.                                                             *)

\* A detection is what its window and some answer of the model make it.
DetectionOfWindow ==
    \E score \in Scores \cup {NoModel} : detection = DetectWindow(window, score)

WindowBounded == window \in Seq(Events) /\ Len(window) <= WindowSize

DetectionInv == WindowBounded /\ DetectionOfWindow

Detectors ==
    {"sensitive_access", "staging_activity", "egress_attempt",
     "new_destination", "large_transfer", "outside_work_hours",
     "sensitive_field_indicator", "policy_enforcement"}

-----------------------------------------------------------------------------
LEMMA PointsOfDetectors ==
    /\ DOMAIN Points = Detectors
    /\ \A d \in Detectors : Points[d] \in {5, 10, 15, 25}
    /\ \A d \in Detectors : Points[d] > 15 => d = "large_transfer"
BY DEF Points, Detectors

LEMMA PartBounds ==
    ASSUME NEW c, NEW d \in Detectors
    PROVE  /\ Part(d, c) \in {0, Points[d]}
           /\ Part(d, c) \in 0..25
           /\ d # "large_transfer" => Part(d, c) \in 0..15
           /\ d \notin c => Part(d, c) = 0
BY PointsOfDetectors DEF Part

LEMMA SumIsNat ==
    ASSUME NEW c
    PROVE  SumOfPoints(c) \in Nat
<1>1. \A d \in Detectors : Part(d, c) \in Nat
      BY PartBounds
<1>2. QED BY <1>1 DEF SumOfPoints, Detectors

LEMMA RuleScoreBounds ==
    ASSUME NEW c
    PROVE  /\ RuleScore(c) \in 0..100
           /\ RuleScore(c) <= SumOfPoints(c)
BY SumIsNat DEF RuleScore, AtMost

\* The contributions of at most two detectors are worth 40 points.
LEMMA TwoKindsGiveForty ==
    ASSUME NEW c,
           ~ \E x, y, z \in Detectors \cap c : x # y /\ y # z /\ x # z
    PROVE  SumOfPoints(c) <= 40
<1> DEFINE p(d) == Part(d, c)
<1>1. \A d \in Detectors : /\ p(d) \in 0..25
                           /\ d # "large_transfer" => p(d) \in 0..15
                           /\ p(d) # 0 => d \in c
      BY PartBounds
<1>2. \A x, y, z \in Detectors :
          x # y /\ y # z /\ x # z => p(x) = 0 \/ p(y) = 0 \/ p(z) = 0
      BY <1>1
<1> HIDE DEF p
<1>3. SumOfPoints(c) =
          p("sensitive_access") + p("staging_activity") + p("egress_attempt")
          + p("new_destination") + p("large_transfer")
          + p("outside_work_hours") + p("sensitive_field_indicator")
          + p("policy_enforcement")
      BY DEF SumOfPoints, p
<1>4. QED BY <1>1, <1>2, <1>3, SMTT(60) DEF Detectors

LEMMA ModelBounds ==
    ASSUME NEW score \in Scores \cup {NoModel}
    PROVE  ModelFifths(score) \in 0..100
BY DetectionAssumption DEF ModelFifths, AtMost

-----------------------------------------------------------------------------
(* One detection.                                                          *)

LEMMA DetectWindowFacts ==
    ASSUME NEW w, NEW score \in Scores \cup {NoModel}
    PROVE  LET d == DetectWindow(w, score)
           IN  /\ d.contributions \subseteq Detectors
               /\ d.rules = RuleScore(d.contributions)
               /\ d.rules \in 0..100
               /\ d.risk = AtMost(500, 5 * d.rules + ModelFifths(score))
               /\ d.risk \in 0..500
               /\ d.severity = Severity(d.risk)
               /\ d.finding \in BOOLEAN
               /\ d.finding <=> d.risk >= 5 * Threshold
<1> DEFINE c == Contributions(ExtractFeatures(w))
           r == RuleScore(c)
           k == AtMost(500, 5 * r + ModelFifths(score))
<1>1. /\ DetectWindow(w, score).contributions = c
      /\ DetectWindow(w, score).rules = r
      /\ DetectWindow(w, score).risk = k
      /\ DetectWindow(w, score).severity = Severity(k)
      /\ DetectWindow(w, score).finding = IsFinding(r, k, score)
      BY DEF DetectWindow
<1>2. c \subseteq Detectors
      BY PointsOfDetectors DEF Contributions
<1>3. r \in 0..100
      BY RuleScoreBounds
<1>4. k \in 0..500
      BY <1>3, ModelBounds DEF AtMost
<1>5. /\ IsFinding(r, k, score) \in BOOLEAN
      /\ IsFinding(r, k, score) <=> k >= 5 * Threshold
      BY DEF IsFinding
<1> HIDE DEF c, r, k
<1>6. QED BY <1>1, <1>2, <1>3, <1>4, <1>5 DEF r, k

LEMMA SeverityNames ==
    ASSUME NEW risk \in 0..500
    PROVE  /\ Severity(risk) \in {"low", "medium", "high", "critical"}
           /\ Severity(risk) = "critical" => risk >= 450
BY DEF Severity

-----------------------------------------------------------------------------
LEMMA DetectionInvInit == DetectionInit => DetectionInv
<1>1. WindowSize \in Nat \ {0}
      BY DetectionAssumption
<1>2. QED BY <1>1 DEF DetectionInit, DetectionInv, WindowBounded, DetectionOfWindow

LEMMA DetectionInvStep == DetectionInv /\ [DetectionNext]_detection_vars => DetectionInv'
<1> SUFFICES ASSUME DetectionInv, [DetectionNext]_detection_vars
             PROVE  DetectionInv'
    OBVIOUS
<1>1. CASE Observe
  <2>1. PICK e \in Events, score \in Scores \cup {NoModel} :
            /\ window' = Append(IF Len(window) = WindowSize THEN Tail(window)
                                ELSE window, e)
            /\ detection' = DetectWindow(window', score)
        BY <1>1 DEF Observe
  <2>2. WindowBounded'
    <3>1. WindowSize \in Nat \ {0} /\ window \in Seq(Events)
          /\ Len(window) <= WindowSize
          BY DetectionAssumption DEF DetectionInv, WindowBounded
    <3>2. CASE Len(window) = WindowSize
      <4>1. Tail(window) \in Seq(Events) /\ Len(Tail(window)) = WindowSize - 1
            BY <3>1, <3>2
      <4>2. window' = Append(Tail(window), e)
            BY <2>1, <3>2
      <4>3. QED BY <3>1, <4>1, <4>2 DEF WindowBounded
    <3>3. CASE Len(window) # WindowSize
      <4>1. window' = Append(window, e)
            BY <2>1, <3>3
      <4>2. QED BY <3>1, <3>3, <4>1 DEF WindowBounded
    <3>4. QED BY <3>2, <3>3
  <2>3. DetectionOfWindow'
        BY <2>1 DEF DetectionOfWindow
  <2>4. QED BY <2>2, <2>3 DEF DetectionInv
<1>2. CASE Recommend
      BY <1>2 DEF Recommend, DetectionInv, WindowBounded, DetectionOfWindow
<1>3. CASE UNCHANGED detection_vars
      BY <1>3 DEF detection_vars, DetectionInv, WindowBounded, DetectionOfWindow
<1>4. QED BY <1>1, <1>2, <1>3 DEF DetectionNext

\* What the inductive invariant says of a detection, without the window.
LEMMA DetectionFacts ==
    ASSUME DetectionInv
    PROVE  \E score \in Scores \cup {NoModel} :
               /\ detection.contributions \subseteq Detectors
               /\ detection.rules = RuleScore(detection.contributions)
               /\ detection.rules \in 0..100
               /\ detection.risk
                    = AtMost(500, 5 * detection.rules + ModelFifths(score))
               /\ detection.risk \in 0..500
               /\ detection.severity = Severity(detection.risk)
               /\ detection.finding \in BOOLEAN
               /\ detection.finding <=> detection.risk >= 5 * Threshold
<1>1. PICK score \in Scores \cup {NoModel} :
          detection = DetectWindow(window, score)
      BY DEF DetectionInv, DetectionOfWindow
<1>2. QED BY <1>1, DetectWindowFacts

LEMMA DetectionInvTyped == DetectionInv => DetectionTypeOK
<1> SUFFICES ASSUME DetectionInv
             PROVE  DetectionTypeOK
    OBVIOUS
<1>1. PICK score \in Scores \cup {NoModel} :
          /\ detection.contributions \subseteq Detectors
          /\ detection.rules \in 0..100
          /\ detection.risk \in 0..500
          /\ detection.severity = Severity(detection.risk)
          /\ detection.finding \in BOOLEAN
          /\ detection.finding <=> detection.risk >= 5 * Threshold
      BY DetectionFacts
<1>2. detection.severity \in {"low", "medium", "high", "critical"}
      BY <1>1, SeverityNames
<1>3. QED BY <1>1, <1>2, PointsOfDetectors DEF DetectionTypeOK, DetectionInv, WindowBounded

LEMMA DetectionInvThreeKinds ==
    ASSUME Threshold > 60, DetectionInv
    PROVE  ThreeKindsOfEvidence
<1>1. PICK score \in Scores \cup {NoModel} :
          /\ detection.contributions \subseteq Detectors
          /\ detection.rules = RuleScore(detection.contributions)
          /\ detection.rules \in 0..100
          /\ detection.risk
               = AtMost(500, 5 * detection.rules + ModelFifths(score))
          /\ detection.finding \in BOOLEAN
          /\ detection.finding <=> detection.risk >= 5 * Threshold
      BY DetectionFacts
<1>2. SUFFICES ASSUME detection.finding
               PROVE  \E a, b, c \in detection.contributions :
                          a # b /\ b # c /\ a # c
      BY DEF ThreeKindsOfEvidence
<1>3. detection.rules > 40
      BY <1>1, <1>2, ModelBounds, DetectionAssumption DEF AtMost
<1>4. SumOfPoints(detection.contributions) > 40
      BY <1>1, <1>3, RuleScoreBounds, SumIsNat
<1>5. \E a, b, c \in Detectors \cap detection.contributions :
          a # b /\ b # c /\ a # c
      BY <1>4, TwoKindsGiveForty, SumIsNat
<1>6. QED BY <1>5

LEMMA DetectionInvAuthoritative == DetectionInv => RulesStayAuthoritative
<1> SUFFICES ASSUME DetectionInv
             PROVE  RulesStayAuthoritative
    OBVIOUS
<1>1. PICK score \in Scores \cup {NoModel} :
          /\ detection.rules \in 0..100
          /\ detection.risk
               = AtMost(500, 5 * detection.rules + ModelFifths(score))
          /\ detection.risk \in 0..500
          /\ detection.severity = Severity(detection.risk)
          /\ detection.finding \in BOOLEAN
          /\ detection.finding <=> detection.risk >= 5 * Threshold
      BY DetectionFacts
<1>2. ModelFifths(score) \in 0..100
      BY ModelBounds
<1>3. ASSUME detection.severity = "critical"
      PROVE  detection.rules >= 70
      BY <1>1, <1>2, <1>3, SeverityNames DEF AtMost
<1>4. ASSUME detection.rules >= Threshold
      PROVE  detection.finding
  <2>1. Threshold \in Nat
      BY DetectionAssumption
  <2>2. /\ 500 >= 5 * Threshold
        /\ 5 * detection.rules + ModelFifths(score) >= 5 * Threshold
      <3>1. detection.rules \in 0..100 /\ ModelFifths(score) \in 0..100
          BY <1>1, <1>2
      <3>2. QED BY <3>1, <1>4, <2>1
  <2>3. detection.risk >= 5 * Threshold
      BY <1>1, <2>2 DEF AtMost
  <2>4. QED BY <1>1, <2>3
<1>5. QED BY <1>3, <1>4 DEF RulesStayAuthoritative

-----------------------------------------------------------------------------
(* What the uploads of a window carry is part of its total.                *)

\* A set of naturals has a least member: the inductions below are each the
\* absence of a least counterexample.
LEMMA LeastNatural ==
    ASSUME NEW T \in SUBSET Nat, T # {}
    PROVE  \E x \in T : \A y \in T : x <= y
<1>1. \E x \in T : \A y \in T : ~(<<y, x>> \in OpToRel(<, Nat))
      BY NatLessThanWellFounded, WFMin
<1>2. PICK x \in T : \A y \in T : ~(<<y, x>> \in OpToRel(<, Nat))
      BY <1>1
<1>3. ASSUME NEW y \in T
      PROVE  x <= y
  <2>1. ~(<<y, x>> \in {ss \in Nat \X Nat : ss[1] < ss[2]})
        BY <1>2 DEF OpToRel
  <2>2. <<y, x>> \in Nat \X Nat
        OBVIOUS
  <2>3. ~(y < x)
        BY <2>1, <2>2
  <2>4. QED BY <2>3
<1>4. QED BY <1>2, <1>3

\* The function that a fold over n numbers goes through: for every set of
\* places, the sum of what is there, the largest place added last.
IsSum(it, n, val) ==
    it = [s \in SUBSET (1..n) |->
              IF s = {} THEN 0 ELSE it[s \ {Max(s)}] + val[Max(s)]]

LEMMA MaxOfTop ==
    ASSUME NEW n \in Nat, NEW s \in SUBSET (1..n), n \in s
    PROVE  Max(s) = n
<1>1. \A y \in s : n >= y
      OBVIOUS
<1>2. \A x \in s : (\A y \in s : x >= y) => x = n
      OBVIOUS
<1>3. QED BY <1>1, <1>2 DEF Max

LEMMA MaxIsMember ==
    ASSUME NEW n \in Nat, NEW s \in SUBSET (1..n), s # {}
    PROVE  Max(s) \in s
<1> DEFINE above == {m \in Nat : \A y \in s : m >= y}
<1>1. n \in above
      OBVIOUS
<1>2. PICK m \in above : \A k \in above : m <= k
      BY <1>1, LeastNatural
<1>3. m \in s
  <2> SUFFICES ASSUME m \notin s PROVE FALSE
      OBVIOUS
  <2>0. \A y \in s : m >= y /\ y >= 1 /\ y # m /\ y \in Nat
        BY <1>2
  <2>1. m >= 1
    <3>1. PICK y \in s : TRUE
          OBVIOUS
    <3>2. QED BY <3>1, <2>0
  <2>2. \A y \in s : m - 1 >= y
        BY <2>0
  <2>3. m - 1 \in above
        BY <2>1, <2>2
  <2>4. QED BY <2>3, <1>2
<1>4. QED BY <1>2, <1>3 DEF Max

\* There is such a function, or the fold would not be known to be one.
LEMMA SumExists ==
    ASSUME NEW n \in Nat, NEW val \in [1..n -> Nat]
    PROVE  \E it : IsSum(it, n, val)
<1> DEFINE none == {m \in 0..n : ~ \E it : IsSum(it, m, val)}
<1>0. ASSUME none = {} PROVE \E it : IsSum(it, n, val)
  <2>1. n \in 0..n
        OBVIOUS
  <2>2. QED BY <2>1, <1>0
<1> SUFFICES ASSUME none # {} PROVE FALSE
    BY <1>0
<1>1. none \in SUBSET Nat
      OBVIOUS
<1>2. PICK m \in none : \A k \in none : m <= k
  <2> HIDE DEF none
  <2>1. QED BY <1>1, LeastNatural
<1>3. ASSUME m = 0 PROVE FALSE
  <2>1. SUBSET (1..0) = {{}}
        OBVIOUS
  <2>2. IsSum([s \in SUBSET (1..0) |-> 0], 0, val)
        BY <2>1 DEF IsSum
  <2>3. QED BY <2>2, <1>2, <1>3
<1>4. ASSUME m # 0 PROVE FALSE
  <2>1. PICK f : IsSum(f, m - 1, val)
        BY <1>2, <1>4
  <2> DEFINE g == [s \in SUBSET (1..m) |->
                       IF m \in s THEN f[s \ {m}] + val[m] ELSE f[s]]
  <2>2. ASSUME NEW s \in SUBSET (1..m)
        PROVE  g[s] = IF s = {} THEN 0 ELSE g[s \ {Max(s)}] + val[Max(s)]
    <3>1. CASE m \in s
      <4>1. Max(s) = m
            BY <3>1, <1>2, MaxOfTop
      <4>2. g[s \ {m}] = f[s \ {m}]
            OBVIOUS
      <4>3. QED BY <4>1, <4>2, <3>1
    <3>2. CASE m \notin s
      <4>1. s \in SUBSET (1..(m - 1))
            BY <3>2, <1>2, <1>4
      <4>2. g[s] = f[s] /\ g[s \ {Max(s)}] = f[s \ {Max(s)}]
            BY <3>2
      <4>3. f[s] = IF s = {} THEN 0 ELSE f[s \ {Max(s)}] + val[Max(s)]
            BY <2>1, <4>1 DEF IsSum
      <4>4. QED BY <4>2, <4>3
    <3>3. QED BY <3>1, <3>2
  <2>3. IsSum(g, m, val)
        BY <2>2 DEF IsSum
  <2>4. QED BY <2>3, <1>2
<1>5. QED BY <1>3, <1>4

\* Adding up more at every place gives no less.
LEMMA SumsOrdered ==
    ASSUME NEW n \in Nat, NEW u \in [1..n -> Nat], NEW v \in [1..n -> Nat],
           \A i \in 1..n : u[i] <= v[i],
           NEW f, NEW g, IsSum(f, n, u), IsSum(g, n, v)
    PROVE  f[1..n] \in Nat /\ g[1..n] \in Nat /\ f[1..n] <= g[1..n]
<1> DEFINE Ordered(s) == f[s] \in Nat /\ g[s] \in Nat /\ f[s] <= g[s]
           bad == {m \in 0..n : \E s \in SUBSET (1..m) : ~ Ordered(s)}
<1>0. ASSUME bad = {} PROVE Ordered(1..n)
  <2>1. n \in 0..n /\ (1..n) \in SUBSET (1..n)
        OBVIOUS
  <2>2. QED BY <2>1, <1>0
<1> SUFFICES ASSUME bad # {} PROVE FALSE
    BY <1>0
<1>1. bad \in SUBSET Nat
      OBVIOUS
<1>2. PICK m \in bad : \A k \in bad : m <= k
  <2> HIDE DEF bad
  <2>1. QED BY <1>1, LeastNatural
<1>2a. m - 1 \notin bad
  <2> HIDE DEF bad
  <2>1. m \in Nat /\ ~ (m <= m - 1)
        BY <1>1
  <2>2. QED BY <2>1, <1>2
<1>3. PICK s \in SUBSET (1..m) : ~ Ordered(s)
      BY <1>2
<1>4. s \in SUBSET (1..n)
      BY <1>2, <1>3
<1>5. s # {}
      BY <1>3, <1>4 DEF IsSum
<1>6. /\ f[s] = f[s \ {Max(s)}] + u[Max(s)]
      /\ g[s] = g[s \ {Max(s)}] + v[Max(s)]
      BY <1>4, <1>5 DEF IsSum
<1>7. m # 0 /\ m \in s
  <2> SUFFICES ASSUME m = 0 \/ m \notin s PROVE FALSE
      OBVIOUS
  <2>1. m # 0
    <3>1. 1..0 = {}
          OBVIOUS
    <3>2. QED BY <3>1, <1>5
  <2>2. s \in SUBSET (1..(m - 1)) /\ m - 1 \in 0..n
        BY <2>1, <1>2
  <2>3. m - 1 \in bad
        BY <2>2, <1>3
  <2>4. QED BY <2>3, <1>2a
<1>8. Max(s) = m
      BY <1>7, <1>2, MaxOfTop
<1>9. Ordered(s \ {m})
  <2>1. s \ {m} \in SUBSET (1..(m - 1)) /\ m - 1 \in 0..n
        BY <1>7
  <2>2. QED BY <2>1, <1>2a
<1>10. QED BY <1>3, <1>6, <1>8, <1>9, <1>7, <1>2

\* Both folds over a window are sums of this kind.
LEMMA TotalIsSum ==
    ASSUME NEW w \in Seq(Events)
    PROVE  LET val == [i \in 1..Len(w) |->
                           IF w[i].bytes > 0 THEN w[i].bytes ELSE 0]
           IN  \E it : IsSum(it, Len(w), val) /\ TotalBytes(w) = it[1..Len(w)]
<1> DEFINE n == Len(w)
           val == [i \in 1..n |-> IF w[i].bytes > 0 THEN w[i].bytes ELSE 0]
           Step(it) ==
               it = [s \in SUBSET (DOMAIN w) |->
                         IF s = {} THEN 0
                         ELSE it[s \ {Max(s)}]
                              + (IF w[Max(s)].bytes > 0 THEN w[Max(s)].bytes ELSE 0)]
<1>1. n \in Nat /\ DOMAIN w = 1..n
      OBVIOUS
<1>2. ASSUME NEW it
      PROVE  Step(it) <=> IsSum(it, n, val)
  <2>1. ASSUME NEW s \in SUBSET (1..n), s # {}
        PROVE  val[Max(s)] = IF w[Max(s)].bytes > 0 THEN w[Max(s)].bytes ELSE 0
    <3>1. Max(s) \in 1..n
          BY <1>1, <2>1, MaxIsMember
    <3>2. QED BY <3>1
  <2>2. [s \in SUBSET (1..n) |-> IF s = {} THEN 0 ELSE it[s \ {Max(s)}]
             + (IF w[Max(s)].bytes > 0 THEN w[Max(s)].bytes ELSE 0)]
        = [s \in SUBSET (1..n) |->
             IF s = {} THEN 0 ELSE it[s \ {Max(s)}] + val[Max(s)]]
    <3> HIDE DEF val
    <3>1. QED BY <2>1
  <2>3. QED BY <1>1, <2>2 DEF IsSum
<1>3. TotalBytes(w) = (CHOOSE it : Step(it))[DOMAIN w]
      BY DEF TotalBytes, FoldLeft, MapThenFoldSet
<1>4. val \in [1..n -> Nat]
      BY DetectionAssumption
<1>5. \E it : Step(it)
  <2> HIDE DEF Step, val
  <2>1. QED BY <1>1, <1>2, <1>4, SumExists
<1>6. Step(CHOOSE it : Step(it))
  <2> HIDE DEF Step
  <2>1. QED BY <1>5
<1> HIDE DEF Step
<1>7. QED BY <1>1, <1>2, <1>3, <1>6

LEMMA UploadsAreSum ==
    ASSUME NEW w \in Seq(Events)
    PROVE  LET val == [i \in 1..Len(w) |->
                           IF "upload_activity" \in w[i].signs /\ w[i].bytes > 0
                           THEN w[i].bytes ELSE 0]
           IN  \E it : IsSum(it, Len(w), val) /\ UploadBytes(w) = it[1..Len(w)]
<1> DEFINE n == Len(w)
           val == [i \in 1..n |->
                       IF "upload_activity" \in w[i].signs /\ w[i].bytes > 0
                       THEN w[i].bytes ELSE 0]
           Step(it) ==
               it = [s \in SUBSET (DOMAIN w) |->
                         IF s = {} THEN 0
                         ELSE it[s \ {Max(s)}]
                              + (IF "upload_activity" \in w[Max(s)].signs
                                    /\ w[Max(s)].bytes > 0
                                 THEN w[Max(s)].bytes ELSE 0)]
<1>1. n \in Nat /\ DOMAIN w = 1..n
      OBVIOUS
<1>2. ASSUME NEW it
      PROVE  Step(it) <=> IsSum(it, n, val)
  <2>1. ASSUME NEW s \in SUBSET (1..n), s # {}
        PROVE  val[Max(s)] = IF "upload_activity" \in w[Max(s)].signs
                                /\ w[Max(s)].bytes > 0
                             THEN w[Max(s)].bytes ELSE 0
    <3>1. Max(s) \in 1..n
          BY <1>1, <2>1, MaxIsMember
    <3>2. QED BY <3>1
  <2>2. [s \in SUBSET (1..n) |-> IF s = {} THEN 0 ELSE it[s \ {Max(s)}]
             + (IF "upload_activity" \in w[Max(s)].signs /\ w[Max(s)].bytes > 0
                THEN w[Max(s)].bytes ELSE 0)]
        = [s \in SUBSET (1..n) |->
             IF s = {} THEN 0 ELSE it[s \ {Max(s)}] + val[Max(s)]]
    <3> HIDE DEF val
    <3>1. QED BY <2>1
  <2>3. QED BY <1>1, <2>2 DEF IsSum
<1>3. UploadBytes(w) = (CHOOSE it : Step(it))[DOMAIN w]
      BY DEF UploadBytes, FoldLeft, MapThenFoldSet
<1>4. val \in [1..n -> Nat]
      BY DetectionAssumption
<1>5. \E it : Step(it)
  <2> HIDE DEF Step, val
  <2>1. QED BY <1>1, <1>2, <1>4, SumExists
<1>6. Step(CHOOSE it : Step(it))
  <2> HIDE DEF Step
  <2>1. QED BY <1>5
<1> HIDE DEF Step
<1>7. QED BY <1>1, <1>2, <1>3, <1>6

\* No event takes away from the total what the uploads add to it.
LEMMA UploadsAreInTotal ==
    ASSUME NEW w \in Seq(Events)
    PROVE  /\ UploadBytes(w) \in Nat /\ TotalBytes(w) \in Nat
           /\ UploadBytes(w) <= TotalBytes(w)
<1> DEFINE n == Len(w)
           all == [i \in 1..n |-> IF w[i].bytes > 0 THEN w[i].bytes ELSE 0]
           uploads == [i \in 1..n |->
                           IF "upload_activity" \in w[i].signs /\ w[i].bytes > 0
                           THEN w[i].bytes ELSE 0]
<1>1. n \in Nat
      OBVIOUS
<1>2. \A i \in 1..n : w[i].bytes \in Int
      BY DetectionAssumption
<1>3. /\ all \in [1..n -> Nat] /\ uploads \in [1..n -> Nat]
      /\ \A i \in 1..n : uploads[i] <= all[i]
      BY <1>2
<1>4. PICK f : IsSum(f, n, uploads) /\ UploadBytes(w) = f[1..n]
      BY UploadsAreSum
<1>5. PICK g : IsSum(g, n, all) /\ TotalBytes(w) = g[1..n]
      BY TotalIsSum
<1> HIDE DEF n, all, uploads
<1>6. QED BY <1>1, <1>3, <1>4, <1>5, SumsOrdered

LEMMA DetectionInvSplit == DetectionInv => SplitTransferIsSeen
<1>1. SUFFICES ASSUME DetectionInv,
                      \E i \in DOMAIN window : "upload_activity" \in window[i].signs,
                      UploadBytes(window) >= Large
               PROVE  "large_transfer" \in detection.contributions
      BY DEF SplitTransferIsSeen
<1>2. TotalBytes(window) >= Large
      BY <1>1, UploadsAreInTotal, DetectionAssumption DEF DetectionInv, WindowBounded
<1>3. "upload_activity" \in Signs(window)
      BY <1>1 DEF Signs
<1>4. /\ ExtractFeatures(window).total >= Large
      /\ "upload_activity" \in ExtractFeatures(window).signs
      BY <1>2, <1>3 DEF ExtractFeatures
<1>5. ASSUME NEW f, f.total >= Large, "upload_activity" \in f.signs
      PROVE  "large_transfer" \in Contributions(f)
      BY <1>5, PointsOfDetectors DEF Contributions, Detectors
<1>6. detection.contributions = Contributions(ExtractFeatures(window))
      BY <1>1 DEF DetectionInv, DetectionOfWindow, DetectWindow
<1>7. QED BY <1>4, <1>5, <1>6

-----------------------------------------------------------------------------
LEMMA DetectionInvariance == DetectionSpec => []DetectionInv
BY DetectionInvInit, DetectionInvStep, PTL DEF DetectionSpec

\* The window keeps its bound and the scores keep to their ranges, for any
\* events, window size and answers of the model.
THEOREM DetectionTypeCorrect == DetectionSpec => []DetectionTypeOK
BY DetectionInvariance, DetectionInvTyped, PTL

\* With a threshold over 60 no finding rests on fewer than three kinds of
\* evidence: a model's 20 points cannot complete two rules.
THEOREM FindingsNeedThreeKinds ==
    ASSUME Threshold > 60
    PROVE  DetectionSpec => []ThreeKindsOfEvidence
<1>1. DetectionInv => ThreeKindsOfEvidence
      BY DetectionInvThreeKinds
<1>2. QED BY DetectionInvariance, <1>1, PTL

\* The model cannot make a finding critical that has less than 70 points of
\* rules, nor suppress one that the rules make, for any threshold.
THEOREM RulesAreAuthoritative == DetectionSpec => []RulesStayAuthoritative
BY DetectionInvariance, DetectionInvAuthoritative, PTL

\* An upload of Large bytes or more is among the contributions however it is
\* split over the window's events and whatever the others report, for any
\* limit and any counts of bytes, negative ones too.
THEOREM SplitTransfersAreSeen == DetectionSpec => []SplitTransferIsSeen
BY DetectionInvariance, DetectionInvSplit, PTL

-----------------------------------------------------------------------------
(* The registry.                                                           *)

LEMMA TypeHolds == Spec => []TypeOK
<1>1. Init => TypeOK
  BY DEF Init, TypeOK, Labels
<1>2. TypeOK /\ [Next]_vars => TypeOK'
  <2> SUFFICES ASSUME TypeOK, [Next]_vars
               PROVE  TypeOK'
      OBVIOUS
  <2> USE DEF TypeOK, Labels, files, names, history, Goto, End, Actors
  <2>1. ASSUME NEW a \in Trainers, NEW m \in Models, NEW v \in Versions,
               Train(a, m, v)
        PROVE  TypeOK'
        BY <2>1 DEF Train
  <2>2. ASSUME NEW a \in Trainers, OpenCandidate(a)
        PROVE  TypeOK'
        BY <2>2 DEF OpenCandidate
  <2>3. ASSUME NEW a \in Trainers, SaveCandidate(a)
        PROVE  TypeOK'
        BY <2>3 DEF SaveCandidate
  <2>4. ASSUME NEW a \in Trainers, Gate(a)
        PROVE  TypeOK'
    <3>1. CASE Passes(model[a])
          BY <2>4, <3>1 DEF Gate
    <3>2. CASE ~ Passes(model[a])
          BY <2>4, <3>2 DEF Gate
    <3>3. QED BY <3>1, <3>2
  <2>5. ASSUME NEW a \in Trainers, OpenArtifact(a)
        PROVE  TypeOK'
        BY <2>5 DEF OpenArtifact
  <2>6. ASSUME NEW a \in Trainers, CopyArtifact(a)
        PROVE  TypeOK'
        BY <2>6 DEF CopyArtifact
  <2>7. ASSUME NEW a \in Trainers, Report(a)
        PROVE  TypeOK'
        BY <2>7 DEF Report
  <2>8. ASSUME NEW a \in Operators, NEW v \in Versions, Rollback(a, v)
        PROVE  TypeOK'
        BY <2>8 DEF Rollback
  <2>9. ASSUME NEW a \in Actors, OpenPointer(a)
         PROVE  TypeOK'
    <3>1. crossed' \in BOOLEAN
          BY <2>9 DEF OpenPointer
    <3>2. QED BY <2>9, <3>1 DEF OpenPointer
  <2>10. ASSUME NEW a \in Actors, WritePointer(a)
         PROVE  TypeOK'
         BY <2>10 DEF WritePointer
  <2>11. ASSUME NEW a \in Actors, ReplacePointer(a)
         PROVE  TypeOK'
    <3>1. CASE pointer = Absent
          BY <2>11, <3>1 DEF ReplacePointer
    <3>2. CASE pointer # Absent
          BY <2>11, <3>2 DEF ReplacePointer
    <3>3. QED BY <3>1, <3>2
  <2>12. ASSUME NEW a \in Actors, Die(a)
         PROVE  TypeOK'
         BY <2>12 DEF Die
  <2>13. CASE UNCHANGED vars
         BY <2>13 DEF vars
  <2>14. QED
    BY <2>1, <2>2, <2>3, <2>4, <2>5, <2>6, <2>7, <2>8, <2>9, <2>10, <2>11,
       <2>12, <2>13 DEF Next, WritesPointer
<1>3. QED
  BY <1>1, <1>2, PTL DEF Spec

\* The registry's files and the actors' memories are well formed in every
\* reachable state: whatever two writers make of `current` and .current.tmp,
\* there is nothing in them but the name of a version, or a torn one.
THEOREM RegistryTypeCorrect == Spec => []TypeOK
BY TypeHolds

-----------------------------------------------------------------------------
(* The pointer.                                                            *)

Training == {"save", "saved", "gate", "copy", "copied"}
Pointing == {"write", "replace"}

\* What a training holds, and what is behind the name that is being written.
Backed ==
    /\ \A a \in Trainers :
        /\ pc[a] \in Training => model[a] \in Models /\ version[a] \in Versions
        /\ pc[a] \in Training \ {"save"} => candidate # Absent
    /\ \A a \in Actors :
        pc[a] \in {"open", "write", "replace"} =>
            version[a] \in Versions /\ artifact[version[a]] # Absent

\* While no two writes of the pointer have crossed.
Alone ==
    ~ crossed =>
        /\ \A a, b \in Actors :
            pc[a] \in Pointing /\ pc[b] \in Pointing => a = b
        /\ \A a \in Actors :
            /\ pc[a] = "write" => handle[a] = "tmp"
            /\ pc[a] = "replace" => pointer = version[a]

PointerInv == Backed /\ Alone /\ PointerResolves

LEMMA PointerStep ==
    ASSUME TypeOK, PointerInv, [Next]_vars
    PROVE  PointerInv'
<1> USE RegistryAssumption
    DEF TypeOK, Labels, files, names, history, Goto, End, Actors, PointerInv,
        Backed, Alone, PointerResolves, CurrentArtifact, Training, Pointing
<1>1. ASSUME NEW a \in Trainers, NEW m \in Models, NEW v \in Versions,
             Train(a, m, v)
      PROVE  PointerInv'
      BY <1>1 DEF Train
<1>2. ASSUME NEW a \in Trainers, OpenCandidate(a)
      PROVE  PointerInv'
      BY <1>2 DEF OpenCandidate
<1>3. ASSUME NEW a \in Trainers, SaveCandidate(a)
      PROVE  PointerInv'
      BY <1>3 DEF SaveCandidate
<1>4. ASSUME NEW a \in Trainers, Gate(a)
      PROVE  PointerInv'
  <2>1. CASE Passes(model[a])
        BY <1>4, <2>1 DEF Gate
  <2>2. CASE ~ Passes(model[a])
    <3>1. /\ pc' = [pc EXCEPT ![a] = "idle"]
          /\ model' = [model EXCEPT ![a] = Absent]
          /\ version' = [version EXCEPT ![a] = Absent]
          /\ UNCHANGED <<candidate, artifact, current, pointer, handle, crossed>>
          BY <1>4, <2>2 DEF Gate
    <3>2. Backed'
          BY <3>1
    <3>3. Alone'
          BY <3>1
    <3>4. PointerResolves'
          BY <3>1
    <3>5. QED BY <3>2, <3>3, <3>4
  <2>3. QED BY <2>1, <2>2
<1>5. ASSUME NEW a \in Trainers, OpenArtifact(a)
      PROVE  PointerInv'
      BY <1>5 DEF OpenArtifact
<1>6. ASSUME NEW a \in Trainers, CopyArtifact(a)
      PROVE  PointerInv'
      BY <1>6 DEF CopyArtifact
<1>7. ASSUME NEW a \in Trainers, Report(a)
      PROVE  PointerInv'
      BY <1>7 DEF Report
<1>8. ASSUME NEW a \in Operators, NEW v \in Versions, Rollback(a, v)
      PROVE  PointerInv'
      BY <1>8 DEF Rollback
<1>9. ASSUME NEW a \in Actors, OpenPointer(a)
       PROVE  PointerInv'
       BY <1>9 DEF OpenPointer
<1>10. ASSUME NEW a \in Actors, WritePointer(a)
       PROVE  PointerInv'
       BY <1>10 DEF WritePointer
<1>11. ASSUME NEW a \in Actors, ReplacePointer(a)
       PROVE  PointerInv'
  <2>1. CASE pointer = Absent
    <3>1. /\ pc' = [pc EXCEPT ![a] = "idle"]
          /\ model' = [model EXCEPT ![a] = Absent]
          /\ version' = [version EXCEPT ![a] = Absent]
          /\ UNCHANGED <<candidate, artifact, current, pointer, handle, crossed>>
          BY <1>11, <2>1 DEF ReplacePointer
    <3>2. Backed'
          BY <3>1
    <3>3. Alone'
          BY <3>1
    <3>4. PointerResolves'
          BY <3>1
    <3>5. QED BY <3>2, <3>3, <3>4
  <2>2. CASE pointer # Absent
    <3>1. /\ pc[a] = "replace"
          /\ current' = pointer /\ pointer' = Absent
          /\ \A b \in Actors : b # a => /\ pc'[b] = pc[b]
                                       /\ model'[b] = model[b]
                                       /\ version'[b] = version[b]
          /\ pc'[a] \in {"report", "idle"}
          /\ UNCHANGED <<candidate, artifact, crossed>>
          BY <1>11, <2>2 DEF ReplacePointer
    <3>2. Backed'
          BY <3>1
    <3>3. Alone'
          BY <3>1
    <3>4. PointerResolves'
          BY <3>1
    <3>5. QED BY <3>2, <3>3, <3>4
  <2>3. QED BY <2>1, <2>2
<1>12. ASSUME NEW a \in Actors, Die(a)
       PROVE  PointerInv'
       BY <1>12 DEF Die
<1>13. CASE UNCHANGED vars
       BY <1>13 DEF vars
<1>14. QED
  BY <1>1, <1>2, <1>3, <1>4, <1>5, <1>6, <1>7, <1>8, <1>9, <1>10, <1>11,
     <1>12, <1>13 DEF Next, WritesPointer

\* However many trainings and rollbacks go on and die, `current` names an
\* artifact that is there, unless two of them have written the pointer
\* together.
THEOREM PointerAlwaysResolves == Spec => []PointerResolves
<1>1. Init => PointerInv
  BY DEF Init, PointerInv, Backed, Alone, PointerResolves,
         CurrentArtifact, Training, Pointing, Actors
<1>2. TypeOK /\ PointerInv /\ [Next]_vars => PointerInv'
  BY PointerStep
<1>3. PointerInv => PointerResolves
  BY DEF PointerInv
<1>4. QED
  BY <1>1, <1>2, <1>3, TypeHolds, PTL DEF Spec

-----------------------------------------------------------------------------
(* The gates.                                                              *)

Holding == {"saved", "gate", "copy", "copied"}

\* While the trainings have not mixed: one at a time has the candidate file
\* between its opening and its copy, what it holds there is what was evaluated,
\* and what is in the registry passed.
Gated ==
    ~ mixed =>
        /\ \A v \in Versions : artifact[v] \in Models => Passes(artifact[v])
        /\ \A a, b \in Trainers :
            pc[a] \in Holding /\ pc[b] \in Holding => a = b
        /\ \A a \in Trainers :
            /\ pc[a] \in {"gate", "copy", "copied"} => candidate = model[a]
            /\ pc[a] \in {"copy", "copied"} => Passes(model[a])

LEMMA GatedStep ==
    ASSUME TypeOK, Gated, [Next]_vars
    PROVE  Gated'
<1> USE RegistryAssumption
    DEF TypeOK, Labels, files, names, history, Goto, End, Actors, Gated,
        Holding
<1>1. ASSUME NEW a \in Trainers, NEW m \in Models, NEW v \in Versions,
             Train(a, m, v)
      PROVE  Gated'
      BY <1>1 DEF Train
<1>2. ASSUME NEW a \in Trainers, OpenCandidate(a)
      PROVE  Gated'
      BY <1>2 DEF OpenCandidate
<1>3. ASSUME NEW a \in Trainers, SaveCandidate(a)
      PROVE  Gated'
      BY <1>3 DEF SaveCandidate
<1>4. ASSUME NEW a \in Trainers, Gate(a)
      PROVE  Gated'
  <2>1. CASE Passes(model[a])
        BY <1>4, <2>1 DEF Gate
  <2>2. CASE ~ Passes(model[a])
        BY <1>4, <2>2 DEF Gate
  <2>3. QED BY <2>1, <2>2
<1>5. ASSUME NEW a \in Trainers, OpenArtifact(a)
      PROVE  Gated'
      BY <1>5 DEF OpenArtifact
<1>6. ASSUME NEW a \in Trainers, CopyArtifact(a)
      PROVE  Gated'
      BY <1>6 DEF CopyArtifact
<1>7. ASSUME NEW a \in Trainers, Report(a)
      PROVE  Gated'
      BY <1>7 DEF Report
<1>8. ASSUME NEW a \in Operators, NEW v \in Versions, Rollback(a, v)
      PROVE  Gated'
      BY <1>8 DEF Rollback
<1>9. ASSUME NEW a \in Actors, OpenPointer(a)
       PROVE  Gated'
       BY <1>9 DEF OpenPointer
<1>10. ASSUME NEW a \in Actors, WritePointer(a)
       PROVE  Gated'
       BY <1>10 DEF WritePointer
<1>11. ASSUME NEW a \in Actors, ReplacePointer(a)
       PROVE  Gated'
  <2>1. CASE pointer = Absent
        BY <1>11, <2>1 DEF ReplacePointer
  <2>2. CASE pointer # Absent
        BY <1>11, <2>2 DEF ReplacePointer
  <2>3. QED BY <2>1, <2>2
<1>12. ASSUME NEW a \in Actors, Die(a)
       PROVE  Gated'
       BY <1>12 DEF Die
<1>13. CASE UNCHANGED vars
       BY <1>13 DEF vars
<1>14. QED
  BY <1>1, <1>2, <1>3, <1>4, <1>5, <1>6, <1>7, <1>8, <1>9, <1>10, <1>11,
     <1>12, <1>13 DEF Next, WritesPointer

\* However many trainings and rollbacks go on and die, every whole model in the
\* registry passed its gates, unless a training has overwritten the candidate
\* file while another was between its opening and its copy.
THEOREM RegistryHoldsGatedModels == Spec => []RegistryIsGated
<1>1. Init => Gated
  BY RegistryAssumption DEF Init, Gated, Holding, Actors
<1>2. TypeOK /\ Gated /\ [Next]_vars => Gated'
  BY GatedStep
<1>3. Gated => RegistryIsGated
  BY DEF Gated, RegistryIsGated
<1>4. QED
  BY <1>1, <1>2, <1>3, TypeHolds, PTL DEF Spec

-----------------------------------------------------------------------------
(* The threshold.                                                          *)

\* Above the place CutoffIndex names lies less than a twentieth of the scores.
LEMMA CutoffPlace ==
    ASSUME NEW n \in Nat \ {0}
    PROVE  /\ CutoffIndex(n) \in 1..n
           /\ (n - CutoffIndex(n)) * 20 <= n
<1> DEFINE q == (n * 95) \div 100
<1>1. q \in Int /\ 100 * q <= n * 95 /\ n * 95 < 100 * q + 100
  OBVIOUS
<1>2. q >= 0
  BY <1>1
<1>3. CASE q < n - 1
  <2>1. CutoffIndex(n) = 1 + q
        BY <1>3 DEF CutoffIndex
  <2>2. QED BY <1>1, <1>2, <1>3, <2>1
<1>4. CASE ~ (q < n - 1)
  <2>1. CutoffIndex(n) = n
        BY <1>1, <1>4 DEF CutoffIndex
  <2>2. QED BY <2>1
<1>5. QED
  BY <1>3, <1>4

\* Scores that are sorted and over the threshold lie behind its place.
LEMMA CutoffAlarms == \A m \in Models : NormalPasses(m)
<1> SUFFICES ASSUME NEW m \in Models
             PROVE  NormalPasses(m)
    OBVIOUS
<1> DEFINE n == Len(m.normal)
           c == CutoffIndex(n)
           over == {i \in 1..n : m.normal[i] > m.normal[c]}
<1>1. /\ m.normal \in Seq(Nat) /\ n \in Nat \ {0}
      /\ \A i \in 1..n : m.normal[i] \in Nat
      /\ \A i, j \in 1..n : i < j => m.normal[i] <= m.normal[j]
  BY RegistryAssumption
<1>2. c \in 1..n /\ (n - c) * 20 <= n
  BY <1>1, CutoffPlace
<1> HIDE DEF c
<1>3. over \subseteq (c + 1)..n
  <2> SUFFICES ASSUME NEW i \in 1..n, m.normal[i] > m.normal[c], ~ (i > c)
               PROVE  FALSE
      BY <1>1, <1>2
  <2>1. i < c \/ i = c
        BY <1>1, <1>2
  <2>2. m.normal[i] <= m.normal[c]
        BY <1>1, <1>2, <2>1
  <2>3. m.normal[i] \in Nat /\ m.normal[c] \in Nat
        BY <1>1, <1>2
  <2>4. QED BY <2>2, <2>3
<1>4. IsFiniteSet((c + 1)..n) /\ Cardinality((c + 1)..n) <= n - c
  <2>1. c + 1 \in Int /\ n \in Int
        BY <1>1, <1>2
  <2>2. /\ IsFiniteSet((c + 1)..n)
        /\ Cardinality((c + 1)..n) = IF c + 1 > n THEN 0 ELSE n - (c + 1) + 1
        BY <2>1, FS_Interval
  <2>3. QED BY <1>1, <1>2, <2>2
<1>5. /\ IsFiniteSet(over)
      /\ Cardinality(over) <= Cardinality((c + 1)..n)
  BY <1>3, <1>4, FS_Subset
<1>6. /\ Cardinality(over) \in Nat
      /\ Cardinality((c + 1)..n) \in Nat
  BY <1>4, <1>5, FS_CardinalityType
<1>7. Cardinality(over) * 20 <= n
  BY <1>1, <1>2, <1>4, <1>5, <1>6
<1>8. Alerts(m, m.normal) = Cardinality(over)
  BY DEF Alerts, c
<1>9. QED
  BY <1>7, <1>8 DEF NormalPasses

\* The threshold taken from the normal windows never makes the gate on false
\* positives refuse a model, however many windows there are.
THEOREM FalseAlarmsAreBounded == Spec => []CutoffBoundsFalseAlarms
<1> DEFINE Trained == \A a \in Trainers : pc[a] \in Training => model[a] \in Models
<1>1. PointerInv => Trained
  BY DEF PointerInv, Backed
<1>2. Trained => CutoffBoundsFalseAlarms
  BY CutoffAlarms DEF CutoffBoundsFalseAlarms, Training
<1>3. Init => PointerInv
  BY DEF Init, PointerInv, Backed, Alone, PointerResolves,
         CurrentArtifact, Training, Pointing, Actors
<1>4. TypeOK /\ PointerInv /\ [Next]_vars => PointerInv'
  BY PointerStep
<1>5. QED
  BY <1>1, <1>2, <1>3, <1>4, TypeHolds, PTL DEF Spec


=============================================================================
