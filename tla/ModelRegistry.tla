---------------------------- MODULE ModelRegistry ----------------------------
(***************************************************************************)
(* The registry of anomaly models: train_bundle trains, evaluates and      *)
(* promotes a model, and an operator rolls back.  They share a directory   *)
(* and nothing else.  What a scorer loads is outside: the command line     *)
(* takes the path of any model file, in the registry or not.               *)
(*                                                                         *)
(* A model is what the evaluation sees of it: its scores of the normal     *)
(* windows, in ascending order, and of the suspicious ones.                *)
(***************************************************************************)
EXTENDS Integers, FiniteSets, Sequences

CONSTANTS
    Models,      \* what a training can result in
    Versions,    \* version names
    Trainers,    \* processes that run train_bundle
    Operators,   \* processes that call rollback
    Absent,      \* no such file
    Torn         \* a file that is not wholly written

Actors == Trainers \cup Operators

ASSUME RegistryAssumption ==
    /\ \A m \in Models : /\ m.normal \in Seq(Nat) /\ m.normal # <<>>
                         /\ m.suspicious \in Seq(Nat) /\ m.suspicious # <<>>
                         /\ \A i, j \in 1..Len(m.normal) :
                                i < j => m.normal[i] <= m.normal[j]
    /\ Absent \notin Models \cup Versions \cup {Torn}
    /\ Torn \notin Models \cup Versions
    /\ Trainers \cap Operators = {}

VARIABLES
    candidate,  \* isolation-forest-candidate.pkl
    artifact,   \* artifact[v]: the registry's v.pkl
    current,    \* the name in the file `current`
    pointer,    \* the name in .current.tmp
    pc, model, version, \* where each actor is, and with what
    handle,     \* handle[a]: where the pointer file it has open is now
    promoted,   \* history: the models that were promoted
    mixed,      \* history: whether two trainings had the candidate between them
    crossed     \* history: whether two actors wrote the pointer together

files == <<candidate, artifact>>
names == <<current, pointer, handle, crossed>>
history == <<promoted, mixed>>
vars == <<files, names, pc, model, version, history>>

Labels ==
    {"idle", "save", "saved", "gate", "copy", "copied", "open", "write",
     "replace", "report"}

TypeOK ==
    /\ candidate \in Models \cup {Absent, Torn}
    /\ artifact \in [Versions -> Models \cup {Absent, Torn}]
    /\ current \in Versions \cup {Absent, Torn}
    /\ pointer \in Versions \cup {Absent, Torn}
    /\ pc \in [Actors -> Labels]
    /\ model \in [Actors -> Models \cup {Absent}]
    /\ version \in [Actors -> Versions \cup {Absent}]
    /\ handle \in [Actors -> {"tmp", "current", "gone"}]
    /\ promoted \subseteq Models
    /\ mixed \in BOOLEAN
    /\ crossed \in BOOLEAN

Init ==
    /\ candidate = Absent
    /\ artifact = [v \in Versions |-> Absent]
    /\ current = Absent
    /\ pointer = Absent
    /\ pc = [a \in Actors |-> "idle"]
    /\ model = [a \in Actors |-> Absent]
    /\ version = [a \in Actors |-> Absent]
    /\ handle = [a \in Actors |-> "gone"]
    /\ promoted = {}
    /\ mixed = FALSE
    /\ crossed = FALSE

Goto(a, label) == pc' = [pc EXCEPT ![a] = label]

End(a) ==
    /\ Goto(a, "idle")
    /\ model' = [model EXCEPT ![a] = Absent]
    /\ version' = [version EXCEPT ![a] = Absent]

-----------------------------------------------------------------------------
(* Evaluation.                                                             *)

\* Mutant: one place further down.
CutoffIndex_OneLower(n) ==
    IF (n * 95) \div 100 < n - 1 THEN (n * 95) \div 100 ELSE n - 1

\* The place in 1..n of the normal score that the threshold is just above.
CutoffIndex(n) ==
    1 + (IF (n * 95) \div 100 < n - 1 THEN (n * 95) \div 100 ELSE n - 1)

\* How many of the scores are at or over the threshold.
Alerts(m, scores) ==
    Cardinality({i \in 1..Len(scores) :
                    scores[i] > m.normal[CutoffIndex(Len(m.normal))]})

NormalPasses(m) == Alerts(m, m.normal) * 20 <= Len(m.normal)

SuspiciousPasses(m) == Alerts(m, m.suspicious) * 10 >= 9 * Len(m.suspicious)

Passes(m) == NormalPasses(m) /\ SuspiciousPasses(m)

-----------------------------------------------------------------------------
(* train_bundle, and promote within it.                                    *)

\* When the rules fail their own gates on the windows, it ends before this.
Train(a, m, v) ==
    /\ pc[a] = "idle"
    /\ Goto(a, "save")
    /\ model' = [model EXCEPT ![a] = m]
    /\ version' = [version EXCEPT ![a] = v]
    /\ UNCHANGED <<files, names, history>>

OpenCandidate(a) ==
    /\ pc[a] = "save"
    /\ candidate' = Torn
    /\ mixed' = (mixed \/ \E b \in Trainers :
                            pc[b] \in {"saved", "gate", "copy", "copied"})
    /\ Goto(a, "saved")
    /\ UNCHANGED <<artifact, names, model, version, promoted>>

SaveCandidate(a) ==
    /\ pc[a] = "saved"
    /\ candidate' = model[a]
    /\ Goto(a, "gate")
    /\ UNCHANGED <<artifact, names, model, version, history>>

\* Mutant: the evaluation is reported, not enforced.
Gate_Skipped(a) ==
    /\ pc[a] = "gate"
    /\ Goto(a, "copy")
    /\ UNCHANGED <<files, names, model, version, history>>

\* promote refuses a candidate that failed.
Gate(a) ==
    /\ pc[a] = "gate"
    /\ IF Passes(model[a])
       THEN Goto(a, "copy") /\ UNCHANGED <<model, version>>
       ELSE End(a)
    /\ UNCHANGED <<files, names, history>>

\* copyfile empties the destination before it fills it.
OpenArtifact(a) ==
    /\ pc[a] = "copy"
    /\ artifact' = [artifact EXCEPT ![version[a]] = Torn]
    /\ Goto(a, "copied")
    /\ UNCHANGED <<candidate, names, model, version, history>>

CopyArtifact(a) ==
    /\ pc[a] = "copied"
    /\ artifact' = [artifact EXCEPT ![version[a]] = candidate]
    /\ promoted' = promoted \cup ({candidate} \cap Models)
    /\ Goto(a, "open")
    /\ UNCHANGED <<candidate, names, model, version, mixed>>

\* v.json, the autoencoder and its files, and training-report.json: no program
\* reads them again.
Report(a) ==
    /\ pc[a] = "report"
    /\ End(a)
    /\ UNCHANGED <<files, names, history>>

-----------------------------------------------------------------------------
(* rollback, and the writing of the pointer it shares with promote.        *)

\* Mutant: whether there is such an artifact is not looked at.
Rollback_Unchecked(a, v) ==
    /\ pc[a] = "idle"
    /\ version' = [version EXCEPT ![a] = v]
    /\ Goto(a, "open")
    /\ UNCHANGED <<files, names, model, history>>

Rollback(a, v) ==
    /\ pc[a] = "idle"
    /\ artifact[v] # Absent
    /\ version' = [version EXCEPT ![a] = v]
    /\ Goto(a, "open")
    /\ UNCHANGED <<files, names, model, history>>

OpenPointer(a) ==
    /\ pc[a] = "open"
    /\ pointer' = Torn
    /\ handle' = [handle EXCEPT ![a] = "tmp"]
    /\ crossed' = (crossed \/ \E b \in Actors : pc[b] \in {"write", "replace"})
    /\ Goto(a, "write")
    /\ UNCHANGED <<files, current, model, version, history>>

\* Mutant: what is written is what was trained, not the name of the version.
WritePointer_Model(a) ==
    /\ pc[a] = "write"
    /\ pointer' = IF handle[a] = "tmp" THEN model[a] ELSE pointer
    /\ current' = IF handle[a] = "current" THEN model[a] ELSE current
    /\ handle' = [handle EXCEPT ![a] = "gone"]
    /\ Goto(a, "replace")
    /\ UNCHANGED <<files, crossed, model, version, history>>

\* The name goes into the file that was opened, under whichever name it is.
WritePointer(a) ==
    /\ pc[a] = "write"
    /\ pointer' = IF handle[a] = "tmp" THEN version[a] ELSE pointer
    /\ current' = IF handle[a] = "current" THEN version[a] ELSE current
    /\ handle' = [handle EXCEPT ![a] = "gone"]
    /\ Goto(a, "replace")
    /\ UNCHANGED <<files, crossed, model, version, history>>

\* Fails when another actor has moved the temporary file.
ReplacePointer(a) ==
    /\ pc[a] = "replace"
    /\ IF pointer = Absent
       THEN End(a) /\ UNCHANGED names
       ELSE /\ current' = pointer
            /\ pointer' = Absent
            /\ handle' = [b \in Actors |->
                            IF handle[b] = "tmp" THEN "current" ELSE "gone"]
            /\ IF a \in Trainers
               THEN Goto(a, "report") /\ UNCHANGED <<model, version>>
               ELSE End(a)
            /\ UNCHANGED crossed
    /\ UNCHANGED <<files, history>>

\* An actor is killed, or one of its writes fails.
Die(a) ==
    /\ pc[a] # "idle"
    /\ End(a)
    /\ handle' = [handle EXCEPT ![a] = "gone"]
    /\ UNCHANGED <<files, current, pointer, crossed, history>>

\* current_artifact: nothing when the name or the file is not there.
CurrentArtifact ==
    IF current \in Versions /\ artifact[current] # Absent
    THEN current ELSE Absent

-----------------------------------------------------------------------------
WritesPointer(a) == OpenPointer(a) \/ WritePointer(a) \/ ReplacePointer(a)

Next ==
    \/ \E a \in Trainers :
        \/ \E m \in Models, v \in Versions : Train(a, m, v)
        \/ OpenCandidate(a) \/ SaveCandidate(a) \/ Gate(a)
        \/ OpenArtifact(a) \/ CopyArtifact(a) \/ Report(a)
    \/ \E a \in Operators, v \in Versions : Rollback(a, v)
    \/ \E a \in Actors : WritesPointer(a) \/ Die(a)

Spec == Init /\ [][Next]_vars

-----------------------------------------------------------------------------
(* Properties.                                                             *)

\* Unless another training has overwritten the candidate file between a save
\* and its copy, every whole model in the registry is one that passed the
\* promotion gates: promote copies the file, whose content was evaluated
\* before, and a version can be copied over while a rollback to it is going on.
RegistryIsGated ==
    ~ mixed => \A v \in Versions : artifact[v] \in Models => Passes(artifact[v])

\* Unless two actors have written the pointer together, `current` is absent
\* or names an artifact that is there (the order of promote's writes).
PointerResolves == ~ crossed => CurrentArtifact = current

\* The threshold that train_bundle takes from the normal windows leaves at
\* most one in twenty of them above it, so that the gate on false positives
\* never refuses a model that is evaluated on those windows.
CutoffBoundsFalseAlarms ==
    \A a \in Trainers : pc[a] = "gate" => NormalPasses(model[a])

-----------------------------------------------------------------------------
(* What the documents say.                                                 *)

\* Every promoted model is versioned and supports rollback
\* (exfiltration-protection-architecture.md).
PromotedStaysAvailable ==
    (\A v \in Versions : artifact[v] # Torn) =>
        \A m \in promoted : \E v \in Versions : artifact[v] = m

=============================================================================
