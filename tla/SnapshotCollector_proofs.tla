---------------------- MODULE SnapshotCollector_proofs ----------------------
(***************************************************************************)
(* What holds of the snapshot collector for any sources, CVEs, processes,  *)
(* configurations and bounds.                                              *)
(*                                                                         *)
(* Three arguments.  Merging keeps what each source says of a record, and  *)
(* every file holds merged records or none.  The pid of a run that took    *)
(* the lock alone stays in it, so whoever comes later finds its owner      *)
(* alive.  And a run that collects alone publishes each file with its own  *)
(* number, which is the highest, before the next.                          *)
(***************************************************************************)
EXTENDS SnapshotCollector, TLAPS

-----------------------------------------------------------------------------
(* Records.                                                                *)

\* What a record says is what its sources say.
WellDescribed(r) ==
    IF Telling(r) = {} THEN r.description = ""
    ELSE /\ r.description \in Telling(r)
         /\ r.description = "cisa_kev" => Telling(r) = {"cisa_kev"}

Faithful(r) ==
    /\ r.listed <=> ("cisa_kev" \in r.sources)
    /\ r.severity = IF "nvd" \in r.sources THEN Severity(Score[r.id])
                    ELSE "unknown"
    /\ r.title = IF "cveproject" \in r.sources /\ r.id \in Titled["cveproject"]
                 THEN "cveproject"
                 ELSE IF r.listed THEN Text("cisa_kev", r.id, Titled) ELSE ""
    /\ WellDescribed(r)

Faithfuls == {r \in Records : Faithful(r)}

\* Records that some source is behind.
Known == {r \in Faithfuls : r.sources # {}}

LEMMA SeverityTyped ==
    ASSUME NEW i \in Ids
    PROVE  Severity(Score[i]) \in Severities
<1>1. Score[i] \in 0..10
  BY RecordsAssumption
<1>2. QED
  BY <1>1 DEF Severity, Severities

LEMMA EmptyFaithful ==
    ASSUME NEW i \in Ids
    PROVE  EmptyRecord(i) \in Faithfuls /\ EmptyRecord(i).id = i
<1>1. EmptyRecord(i) \in Records
  BY DEF EmptyRecord, Records, Severities
<1>2. EmptyRecord(i).id = i /\ Faithful(EmptyRecord(i))
  BY DEF EmptyRecord, Faithful, WellDescribed, Telling
<1>3. QED
  BY <1>1, <1>2 DEF Faithfuls

\* What a record of the CVE list or NVD does to the description.
LEMMA AddedText ==
    ASSUME NEW i \in Ids, NEW s \in Sources \ {"cisa_kev"},
           NEW old \in Records, old.id = i, WellDescribed(old),
           NEW r, r.id = i, r.sources = old.sources \cup {s},
           r.description = Field(old.description, Text(s, i, Described))
    PROVE  WellDescribed(r)
<1>1. CASE i \in Described[s]
  <2>1. s \in Telling(r) /\ r.description = s
        BY <1>1 DEF Telling, Field, Text, Sources
  <2>2. QED BY <2>1 DEF WellDescribed
<1>2. CASE i \notin Described[s]
  <2>1. Telling(r) = Telling(old) /\ r.description = old.description
        BY <1>2 DEF Telling, Field, Text
  <2>2. QED BY <2>1 DEF WellDescribed
<1>3. QED
  BY <1>1, <1>2

\* And one of KEV.
LEMMA AddedListing ==
    ASSUME NEW i \in Ids,
           NEW old \in Records, old.id = i, WellDescribed(old),
           NEW r, r.id = i, r.sources = old.sources \cup {"cisa_kev"},
           r.description = Field(Text("cisa_kev", i, Described), old.description)
    PROVE  WellDescribed(r)
<1>1. Telling(old) \subseteq Sources /\ "" \notin Telling(old) /\ "unknown" \notin Telling(old)
  BY DEF Telling, Records, Sources
<1>2. Telling(r) = Telling(old) \cup
                   (IF i \in Described["cisa_kev"] THEN {"cisa_kev"} ELSE {})
  BY DEF Telling
<1>3. CASE Telling(old) = {}
  <2>1. r.description = Text("cisa_kev", i, Described)
        BY <1>3 DEF WellDescribed, Field
  <2>2. QED BY <1>2, <1>3, <2>1 DEF WellDescribed, Text
<1>4. CASE Telling(old) # {}
  <2>1. r.description = old.description /\ old.description \in Telling(old)
        BY <1>1, <1>4 DEF WellDescribed, Field
  <2>2. QED BY <1>2, <1>4, <2>1 DEF WellDescribed
<1>5. QED
  BY <1>3, <1>4

\* Merging an entry of the CVE list.
LEMMA MergeCveproject ==
    ASSUME NEW i \in Ids, NEW old \in Faithfuls, old.id = i
    PROVE  /\ Merge(old, ParseCveproject(i)) \in Faithfuls
           /\ Merge(old, ParseCveproject(i)).sources # {}
<1> DEFINE new == ParseCveproject(i)
           r == Merge(old, new)
<1>1. /\ new.sources = {"cveproject"} /\ new.listed = FALSE
      /\ new.title = Text("cveproject", i, Titled)
      /\ new.description = Text("cveproject", i, Described)
      /\ new.modified = Stamp["cveproject"][i]
  BY DEF ParseCveproject, EmptyRecord
<1>2. Stamp["cveproject"][i] \in Nat
  BY RecordsAssumption DEF Sources
<1> HIDE DEF new
<1>3. old \in Records /\ Faithful(old)
  BY DEF Faithfuls
<1>4. /\ r.id = i /\ r.listed = old.listed /\ r.added = old.added
      /\ r.severity = old.severity
      /\ r.sources = old.sources \cup {"cveproject"}
      /\ r.modified = Stamp["cveproject"][i]
      /\ r.title = Field(old.title, new.title)
      /\ r.description = Field(old.description, Text("cveproject", i, Described))
  BY <1>1, <1>3 DEF Merge, Records
<1>5. r \in Records
  <2>1. r = [old EXCEPT !.title = r.title, !.description = r.description,
                        !.modified = r.modified, !.severity = r.severity,
                        !.listed = r.listed, !.added = r.added,
                        !.sources = r.sources]
        BY <1>3 DEF Merge, Records
  <2>2. /\ r.title \in {""} \cup Sources /\ r.description \in {""} \cup Sources
        /\ r.modified \in Nat /\ r.severity \in Severities
        /\ r.listed \in BOOLEAN /\ r.added \in Nat /\ r.sources \in SUBSET Sources
        BY <1>1, <1>2, <1>3, <1>4 DEF Records, Field, Text, Sources
  <2> HIDE DEF r
  <2>3. QED BY <1>3, <2>1, <2>2 DEF Records
<1>6. WellDescribed(r)
  BY <1>3, <1>4, AddedText DEF Faithful, Sources
<1>7. r.title = IF i \in Titled["cveproject"] THEN "cveproject"
                ELSE IF old.listed THEN Text("cisa_kev", i, Titled) ELSE ""
  BY <1>1, <1>3, <1>4 DEF Field, Faithful, Text
<1>8. Faithful(r)
  BY <1>3, <1>4, <1>6, <1>7 DEF Faithful
<1>9. QED
  BY <1>4, <1>5, <1>8 DEF Faithfuls, new

\* Merging an entry of NVD.
LEMMA MergeNvd ==
    ASSUME NEW i \in Ids, NEW old \in Faithfuls, old.id = i
    PROVE  /\ Merge(old, ParseNvd(i)) \in Faithfuls
           /\ Merge(old, ParseNvd(i)).sources # {}
<1> DEFINE new == ParseNvd(i)
           r == Merge(old, new)
<1>1. /\ new.sources = {"nvd"} /\ new.listed = FALSE
      /\ new.title = "" /\ new.description = Text("nvd", i, Described)
      /\ new.modified = Stamp["nvd"][i]
      /\ new.severity = Severity(Score[i])
  BY DEF ParseNvd, EmptyRecord
<1>2. Stamp["nvd"][i] \in Nat /\ Severity(Score[i]) \in Severities
  BY RecordsAssumption, SeverityTyped DEF Sources
<1> HIDE DEF new
<1>3. old \in Records /\ Faithful(old)
  BY DEF Faithfuls
<1>4. /\ r.id = i /\ r.listed = old.listed /\ r.added = old.added
      /\ r.severity = Field(old.severity, Severity(Score[i]))
      /\ r.sources = old.sources \cup {"nvd"}
      /\ r.modified = Stamp["nvd"][i]
      /\ r.title = old.title
      /\ r.description = Field(old.description, Text("nvd", i, Described))
  BY <1>1, <1>3 DEF Merge, Records, Field
<1>5. r \in Records
  <2>1. r = [old EXCEPT !.title = r.title, !.description = r.description,
                        !.modified = r.modified, !.severity = r.severity,
                        !.listed = r.listed, !.added = r.added,
                        !.sources = r.sources]
        BY <1>3 DEF Merge, Records
  <2>2. /\ r.title \in {""} \cup Sources /\ r.description \in {""} \cup Sources
        /\ r.modified \in Nat /\ r.severity \in Severities
        /\ r.listed \in BOOLEAN /\ r.added \in Nat /\ r.sources \in SUBSET Sources
        BY <1>1, <1>2, <1>3, <1>4 DEF Records, Field, Text, Sources
  <2> HIDE DEF r
  <2>3. QED BY <1>3, <2>1, <2>2 DEF Records
<1>6. WellDescribed(r)
  BY <1>3, <1>4, AddedText DEF Faithful, Sources
<1>7. r.severity = Severity(Score[i])
  <2>1. old.severity \in {"unknown", Severity(Score[i])}
        BY <1>3 DEF Faithful
  <2>2. Severity(Score[i]) # ""
        BY <1>2 DEF Severities
  <2>3. QED BY <1>4, <2>1, <2>2 DEF Field
<1>8. Faithful(r)
  BY <1>3, <1>4, <1>6, <1>7 DEF Faithful
<1>9. QED
  BY <1>4, <1>5, <1>8 DEF Faithfuls, new

\* Merging an entry of KEV.
LEMMA MergeKev ==
    ASSUME NEW i \in Ids, NEW old \in Faithfuls, old.id = i
    PROVE  /\ Merge(old, ParseKev(i)) \in Faithfuls
           /\ Merge(old, ParseKev(i)).sources # {}
<1> DEFINE new == ParseKev(i)
           r == Merge(old, new)
<1>1. /\ new.sources = {"cisa_kev"} /\ new.listed = TRUE
      /\ new.title = Text("cisa_kev", i, Titled)
      /\ new.description = Text("cisa_kev", i, Described)
      /\ new.added = Stamp["cisa_kev"][i]
  BY DEF ParseKev, EmptyRecord
<1>2. Stamp["cisa_kev"][i] \in Nat
  BY RecordsAssumption DEF Sources
<1> HIDE DEF new
<1>3. old \in Records /\ Faithful(old)
  BY DEF Faithfuls
<1>4. /\ r.id = i /\ r.listed = TRUE /\ r.modified = old.modified
      /\ r.severity = old.severity
      /\ r.sources = old.sources \cup {"cisa_kev"}
      /\ r.added = Stamp["cisa_kev"][i]
      /\ r.title = Field(Text("cisa_kev", i, Titled), old.title)
      /\ r.description = Field(Text("cisa_kev", i, Described), old.description)
  BY <1>1, <1>3 DEF Merge, Records
<1>5. r \in Records
  <2>1. r = [old EXCEPT !.title = r.title, !.description = r.description,
                        !.modified = r.modified, !.severity = r.severity,
                        !.listed = r.listed, !.added = r.added,
                        !.sources = r.sources]
        BY <1>3 DEF Merge, Records
  <2>2. /\ r.title \in {""} \cup Sources /\ r.description \in {""} \cup Sources
        /\ r.modified \in Nat /\ r.severity \in Severities
        /\ r.listed \in BOOLEAN /\ r.added \in Nat /\ r.sources \in SUBSET Sources
        BY <1>1, <1>2, <1>3, <1>4 DEF Records, Field, Text, Sources
  <2> HIDE DEF r
  <2>3. QED BY <1>3, <2>1, <2>2 DEF Records
<1>6. WellDescribed(r)
  BY <1>3, <1>4, AddedListing DEF Faithful
<1>7. r.title = IF "cveproject" \in old.sources /\ i \in Titled["cveproject"]
                THEN "cveproject" ELSE Text("cisa_kev", i, Titled)
  BY <1>3, <1>4 DEF Field, Faithful, Text
<1>8. Faithful(r)
  BY <1>3, <1>4, <1>6, <1>7 DEF Faithful
<1>9. QED
  BY <1>4, <1>5, <1>8 DEF Faithfuls, new

\* One answer of a source.
LEMMA MergeAllFaithful ==
    ASSUME NEW records \in SUBSET Known, NEW s \in Sources,
           NEW ids \in SUBSET Ids, NEW limit
    PROVE  MergeAll(records, s, ids, limit) \subseteq Known
<1> DEFINE parsed == Latest({Parse(s, i) : i \in ids}, limit)
           old(i) == {r \in records : r.id = i}
           base(i) == IF old(i) = {} THEN EmptyRecord(i)
                      ELSE CHOOSE r \in old(i) : TRUE
<1>1. parsed \subseteq {Parse(s, i) : i \in ids}
  BY DEF Latest
<1>2. ASSUME NEW i \in ids
      PROVE  Merge(base(i), Parse(s, i)) \in Known
  <2>1. base(i) \in Faithfuls /\ base(i).id = i
    <3>1. CASE old(i) = {}
          BY <3>1, EmptyFaithful
    <3>2. CASE old(i) # {}
          BY <3>2 DEF Known
    <3>3. QED BY <3>1, <3>2
  <2>2. Parse(s, i) \in {ParseCveproject(i), ParseNvd(i), ParseKev(i)}
        BY DEF Parse, Sources
  <2> HIDE DEF base
  <2>3. QED BY <2>1, <2>2, MergeCveproject, MergeNvd, MergeKev DEF Known
<1>3. ASSUME NEW i \in ids
      PROVE  Parse(s, i).id = i
  BY DEF Parse, Sources, ParseCveproject, ParseNvd, ParseKev, EmptyRecord
<1>4. ASSUME NEW new \in parsed
      PROVE  Merge(base(new.id), new) \in Known
  <2>1. PICK i \in ids : new = Parse(s, i)
        BY <1>1
  <2>2. new.id = i
        BY <1>3, <2>1
  <2>3. QED BY <1>2, <2>1, <2>2
<1>5. MergeAll(records, s, ids, limit) =
        {r \in records : \A new \in parsed : new.id # r.id}
        \cup {Merge(base(new.id), new) : new \in parsed}
  BY DEF MergeAll
<1> HIDE DEF parsed, base
<1>6. QED
  BY <1>4, <1>5

LEMMA LatestSubset ==
    ASSUME NEW R, NEW limit
    PROVE  Latest(R, limit) \subseteq R
BY DEF Latest

-----------------------------------------------------------------------------
(* Types.                                                                  *)

LEMMA NoJobTyped == NoJob \in Jobs /\ NoJob.step = 1 /\ NoJob.records = {}
BY DEF NoJob, Jobs, Locks

LEMMA OutputTyped ==
    ASSUME TypeOK, NEW p \in Procs
    PROVE  Output(p) \in Outputs
BY DEF TypeOK, Output, Outputs, Jobs

LEMMA MovedTyped ==
    ASSUME TypeOK, NEW f \in Files
    PROVE  /\ Moved(f) \in [Procs -> Jobs]
           /\ \A q \in Procs : /\ Moved(f)[q].step = job[q].step
                               /\ Moved(f)[q].no = job[q].no
                               /\ Moved(f)[q].records = job[q].records
                               /\ pc[q] # "write" => Moved(f)[q] = job[q]
<1> DEFINE handle(q) == IF job[q].handle = "tmp" THEN "file" ELSE "gone"
           moved(q) == IF pc[q] # "write" \/ job[q].step # f THEN job[q]
                       ELSE [job[q] EXCEPT !.handle = handle(q)]
<1>1. ASSUME NEW q \in Procs
      PROVE  /\ moved(q) \in Jobs /\ moved(q).step = job[q].step
             /\ moved(q).no = job[q].no /\ moved(q).records = job[q].records
             /\ pc[q] # "write" => moved(q) = job[q]
  <2>1. job[q] \in Jobs
        BY DEF TypeOK
  <2>2. handle(q) \in {"file", "gone"}
        OBVIOUS
  <2> HIDE DEF handle
  <2>3. QED BY <2>1, <2>2 DEF Jobs
<1>2. Moved(f) = [q \in Procs |-> moved(q)]
  BY DEF Moved
<1> HIDE DEF moved
<1>3. QED
  BY <1>1, <1>2

\* The updates of a job that the actions make.
LEMMA NumberedJob ==
    ASSUME NEW q \in Jobs, NEW n \in Nat
    PROVE  /\ [q EXCEPT !.no = n] \in Jobs
           /\ [q EXCEPT !.no = n].no = n
           /\ [q EXCEPT !.no = n].step = q.step
           /\ [q EXCEPT !.no = n].records = q.records
           /\ [q EXCEPT !.no = n].handle = q.handle
BY DEF Jobs

LEMMA SelectedJob ==
    ASSUME NEW q \in Jobs, NEW records \in SUBSET Records
    PROVE  LET j == [q EXCEPT !.records = records, !.step = 1]
           IN  /\ j \in Jobs /\ j.no = q.no /\ j.step = 1
               /\ j.records = records /\ j.handle = q.handle
BY DEF Jobs

LEMMA SteppedJob ==
    ASSUME NEW q \in Jobs, NEW step \in Nat
    PROVE  LET j == [q EXCEPT !.step = step]
           IN  /\ j \in Jobs /\ j.no = q.no /\ j.step = step
               /\ j.records = q.records /\ j.handle = q.handle
BY DEF Jobs

LEMMA HandledJob ==
    ASSUME NEW q \in Jobs, NEW h \in {"tmp", "file", "gone"}
    PROVE  LET j == [q EXCEPT !.handle = h]
           IN  /\ j \in Jobs /\ j.no = q.no /\ j.step = q.step
               /\ j.records = q.records /\ j.errors = q.errors /\ j.handle = h
BY DEF Jobs

LEMMA NextSourceTyped ==
    ASSUME TypeOK, NEW p \in Procs, At(p) \in Sources,
           NEW records \in SUBSET Records, NEW errors \in SUBSET Sources,
           NextSource(p, records, errors)
    PROVE  /\ job' \in [Procs -> Jobs]
           /\ job'[p].step = job[p].step + 1
           /\ job'[p].records = records /\ job'[p].no = job[p].no
           /\ \A q \in Procs : q # p => job'[q] = job[q]
<1> DEFINE step == job[p].step + 1
           j == [job[p] EXCEPT !.records = records, !.errors = errors,
                               !.step = step]
<1>1. job' = [job EXCEPT ![p] = j]
  BY DEF NextSource
<1>2. job[p] \in Jobs /\ step \in Nat
  BY DEF TypeOK, Jobs
<1> HIDE DEF step
<1>3. /\ j \in Jobs /\ j.step = step /\ j.records = records
      /\ j.no = job[p].no
  <2>1. ASSUME NEW q \in Jobs
        PROVE  LET k == [q EXCEPT !.records = records, !.errors = errors,
                                  !.step = step]
               IN  /\ k \in Jobs /\ k.step = step /\ k.records = records
                   /\ k.no = q.no
        BY <1>2 DEF Jobs
  <2>2. QED BY <1>2, <2>1
<1> HIDE DEF j
<1>4. QED
  BY <1>1, <1>3 DEF TypeOK, step

\* What is collected, written or published of a CVE is what its sources say.
AllKnown ==
    /\ \A p \in Procs : job[p].records \subseteq Known
    /\ \A f \in Files : /\ tmp[f].snapshot \subseteq Known
                        /\ file[f].snapshot \subseteq Known

\* A run counts its sources and files from one, and has three files.
StepInFiles ==
    \A p \in Procs :
        /\ pc[p] \in {"open", "write", "replace"} => job[p].step \in Files
        /\ job[p].step >= 1

LEMMA TypeStep ==
    ASSUME TypeOK, StepInFiles, AllKnown, [Next]_vars
    PROVE  TypeOK' /\ StepInFiles'
<1> USE RecordsAssumption, CollectorAssumption
<1> USE DEF TypeOK, StepInFiles, Goto, disk, history, Labels, Files
<1>1. ASSUME NEW p \in Procs, Start(p)
      PROVE  TypeOK' /\ StepInFiles'
      BY <1>1 DEF Start
<1>2. ASSUME NEW p \in Procs, CreateLock(p)
      PROVE  TypeOK' /\ StepInFiles'
      BY <1>2 DEF CreateLock, Locks
<1>3. ASSUME NEW p \in Procs, ReadLock(p)
      PROVE  TypeOK' /\ StepInFiles'
  <2>1. /\ pc' \in [Procs -> Labels]
        /\ pc'[p] \in {"probe", "unlink"}
        /\ \A q \in Procs : q # p => pc'[q] = pc[q]
        BY <1>3 DEF ReadLock
  <2>2. /\ job' \in [Procs -> Jobs]
        /\ \A q \in Procs : job'[q].step = job[q].step
    <3> DEFINE j == [job[p] EXCEPT !.seen = lock]
    <3>1. j \in Jobs /\ j.step = job[p].step
          BY DEF Jobs
    <3>2. job' = [job EXCEPT ![p] = j] \/ job' = job
          BY <1>3 DEF ReadLock
    <3> HIDE DEF j
    <3>3. QED BY <3>1, <3>2
  <2>3. QED BY <1>3, <2>1, <2>2 DEF ReadLock
<1>4. ASSUME NEW p \in Procs, ProbeOwner(p)
      PROVE  TypeOK' /\ StepInFiles'
      BY <1>4, NoJobTyped DEF ProbeOwner
<1>5. ASSUME NEW p \in Procs, UnlinkLock(p)
      PROVE  TypeOK' /\ StepInFiles'
      BY <1>5 DEF UnlinkLock, Locks
<1>6. ASSUME NEW p \in Procs, RecreateLock(p)
      PROVE  TypeOK' /\ StepInFiles'
      BY <1>6 DEF RecreateLock, Locks
<1>7. ASSUME NEW p \in Procs, WritePid(p)
      PROVE  TypeOK' /\ StepInFiles'
  <2> DEFINE j == [job[p] EXCEPT !.no = runs + 1]
  <2>1. j \in Jobs /\ j.step = job[p].step
    <3>1. job[p] \in Jobs /\ runs + 1 \in Nat
          OBVIOUS
    <3>2. QED BY <3>1, NumberedJob
  <2>2. job' = [job EXCEPT ![p] = j]
        BY <1>7 DEF WritePid
  <2> HIDE DEF j
  <2>3. job' \in [Procs -> Jobs] /\ \A q \in Procs : job'[q].step = job[q].step
        BY <2>1, <2>2
  <2>4. lock' \in Locks /\ runs' \in Nat /\ settled' \subseteq Procs
        BY <1>7 DEF WritePid, Locks
  <2>5. overlapped' \in BOOLEAN
        BY <1>7 DEF WritePid
  <2>6. /\ pc' = [pc EXCEPT ![p] = "fetch"]
        /\ pc[p] = "write_pid"
        /\ UNCHANGED <<config, tmp, file, deaths>>
        BY <1>7 DEF WritePid
  <2>7. job'[p].step >= 1
        BY <2>3, <2>6
  <2>8. QED BY <2>3, <2>4, <2>5, <2>6, <2>7
<1>8. ASSUME NEW p \in Procs, SourceAnswers(p)
      PROVE  TypeOK' /\ StepInFiles'
  <2> DEFINE records == MergeAll(job[p].records, At(p), Entries[At(p)], Limit)
  <2>1. At(p) \in Sources /\ job[p].step + 1 \in Nat /\ job[p].step + 1 >= 1
        BY <1>8 DEF SourceAnswers, Fetching, At, Jobs
  <2>2. records \in SUBSET Records
        BY <2>1, MergeAllFaithful DEF AllKnown, Known, Faithfuls
  <2>3. NextSource(p, records, job[p].errors)
        BY <1>8 DEF SourceAnswers
  <2> HIDE DEF records
  <2>4. /\ job' \in [Procs -> Jobs]
        /\ job'[p].step >= 1
        /\ \A q \in Procs : q # p => job'[q] = job[q]
        BY <2>1, <2>2, <2>3, NextSourceTyped DEF Jobs
  <2>5. QED BY <1>8, <2>4 DEF SourceAnswers, Fetching
<1>9. ASSUME NEW p \in Procs, SourceFails(p)
      PROVE  TypeOK' /\ StepInFiles'
  <2>1. At(p) \in Sources /\ job[p].step + 1 \in Nat /\ job[p].step + 1 >= 1
        BY <1>9 DEF SourceFails, Fetching, At, Jobs
  <2>2. NextSource(p, job[p].records, job[p].errors \cup {At(p)})
        BY <1>9 DEF SourceFails
  <2> DEFINE errors == job[p].errors \cup {At(p)}
  <2>a. job[p].records \in SUBSET Records /\ errors \in SUBSET Sources
        BY <2>1 DEF Jobs
  <2> HIDE DEF errors
  <2>3. /\ job' \in [Procs -> Jobs]
        /\ job'[p].step >= 1
        /\ \A q \in Procs : q # p => job'[q] = job[q]
        BY <2>1, <2>2, <2>a, NextSourceTyped DEF errors
  <2>4. QED BY <1>9, <2>3 DEF SourceFails, Fetching
<1>10. ASSUME NEW p \in Procs, SourceEscapes(p)
       PROVE  TypeOK' /\ StepInFiles'
       BY <1>10, NoJobTyped DEF SourceEscapes
<1>11. ASSUME NEW p \in Procs, Select(p)
       PROVE  TypeOK' /\ StepInFiles'
  <2> DEFINE snapshot == Latest(job[p].records, Limit)
             j == [job[p] EXCEPT !.records = snapshot, !.step = 1]
  <2>1. snapshot \subseteq Records
        BY LatestSubset DEF Jobs
  <2>2. /\ UNCHANGED <<config, lock, disk, history>>
        /\ \/ /\ pc' = [pc EXCEPT ![p] = "open"]
              /\ job' = [job EXCEPT ![p] = j]
           \/ /\ pc' = [pc EXCEPT ![p] = "release"]
              /\ job' = [job EXCEPT ![p] = NoJob]
        BY <1>11 DEF Select
  <2> HIDE DEF snapshot
  <2>3. j \in Jobs /\ j.step = 1
    <3>1. job[p] \in Jobs /\ snapshot \in SUBSET Records
          BY <2>1
    <3>2. QED BY <3>1, SelectedJob
  <2> HIDE DEF j
  <2>4. job' \in [Procs -> Jobs] /\ \A q \in Procs : job'[q].step >= 1
    <3>1. \A q \in Procs : job[q] \in Jobs /\ job[q].step >= 1
          OBVIOUS
    <3>2. NoJob \in Jobs /\ NoJob.step >= 1 /\ j \in Jobs /\ j.step >= 1
          BY <2>3, NoJobTyped
    <3>3. \A q \in Procs : job'[q] \in {j, NoJob, job[q]}
          BY <2>2
    <3>4. job' = [q \in Procs |-> job'[q]]
          BY <2>2
    <3>5. \A q \in Procs : job'[q] \in Jobs /\ job'[q].step >= 1
          BY <3>1, <3>2, <3>3
    <3>6. QED BY <3>4, <3>5
  <2>5. /\ pc' \in [Procs -> Labels]
        /\ pc'[p] = "open" => job'[p].step = 1
        /\ pc'[p] # "write" /\ pc'[p] # "replace"
        /\ \A q \in Procs : q # p => pc'[q] = pc[q] /\ job'[q] = job[q]
        BY <2>2, <2>3
  <2>6. QED BY <2>2, <2>4, <2>5
<1>12. ASSUME NEW p \in Procs, OpenTemporary(p)
       PROVE  TypeOK' /\ StepInFiles'
       BY <1>12 DEF OpenTemporary, Contents, Jobs
<1>13. ASSUME NEW p \in Procs, WriteTemporary(p)
       PROVE  TypeOK' /\ StepInFiles'
  <2> DEFINE f == job[p].step
             j == [job[p] EXCEPT !.handle = "gone"]
  <2>1. f \in Files /\ pc[p] = "write"
        BY <1>13 DEF WriteTemporary
  <2>2. \A old : Written(p, old) \subseteq Contents
        BY OutputTyped DEF Written, Contents
  <2>3. tmp' \in [Files -> Contents] /\ file' \in [Files -> Contents]
    <3>1. \/ tmp' = tmp
          \/ \E c \in Written(p, tmp[f]) : tmp' = [tmp EXCEPT ![f] = c]
          BY <1>13 DEF WriteTemporary
    <3>2. \/ file' = file
          \/ \E c \in Written(p, file[f]) : file' = [file EXCEPT ![f] = c]
          BY <1>13 DEF WriteTemporary
    <3>3. tmp' \in [Files -> Contents]
          BY <2>2, <3>1
    <3>4. file' \in [Files -> Contents]
          BY <2>2, <3>2
    <3>5. QED BY <3>3, <3>4
  <2>4. j \in Jobs /\ j.step = f
        BY DEF Jobs
  <2>5. /\ job' = [job EXCEPT ![p] = j]
        /\ pc' = [pc EXCEPT ![p] = "replace"]
        /\ UNCHANGED <<config, lock, history>>
        BY <1>13 DEF WriteTemporary
  <2> HIDE DEF j
  <2>6. QED BY <2>1, <2>3, <2>4, <2>5
<1>14. ASSUME NEW p \in Procs, Replace(p)
       PROVE  TypeOK' /\ StepInFiles'
  <2> DEFINE f == job[p].step
             moved == Moved(f)
             j == [moved[p] EXCEPT !.step = f + 1]
  <2>1. f \in Files /\ pc[p] = "replace" /\ f \in Nat
        BY <1>14 DEF Replace
  <2>2. /\ moved \in [Procs -> Jobs]
        /\ \A q \in Procs : moved[q].step = job[q].step
        BY <2>1, MovedTyped
  <2>3. tmp' \in [Files -> Contents] /\ file' \in [Files -> Contents]
        BY <1>14, <2>1 DEF Replace, Contents
  <2>4. /\ UNCHANGED <<config, lock, history>>
        /\ \/ /\ pc' = [pc EXCEPT ![p] = "release"]
              /\ job' = [moved EXCEPT ![p] = NoJob]
           \/ /\ f # 3
              /\ pc' = [pc EXCEPT ![p] = "open"]
              /\ job' = [moved EXCEPT ![p] = j]
        BY <1>14 DEF Replace
  <2> HIDE DEF moved
  <2>5. j \in Jobs /\ j.step = f + 1
    <3>1. moved[p] \in Jobs /\ f + 1 \in Nat
          BY <2>1, <2>2
    <3>2. QED BY <3>1, SteppedJob
  <2> HIDE DEF j
  <2>6. job' \in [Procs -> Jobs]
        BY <2>2, <2>4, <2>5, NoJobTyped
  <2>7. \A q \in Procs : job'[q].step >= 1
    <3>1. \A q \in Procs : moved[q].step >= 1
          BY <2>2
    <3>2. j.step >= 1 /\ NoJob.step >= 1
          BY <2>1, <2>5, NoJobTyped
    <3>3. QED BY <2>2, <2>4, <3>1, <3>2
  <2>8. /\ pc' \in [Procs -> Labels]
        /\ pc'[p] = "open" => job'[p].step = f + 1 /\ f # 3
        /\ pc'[p] # "write" /\ pc'[p] # "replace"
        /\ \A q \in Procs : q # p => /\ pc'[q] = pc[q]
                                     /\ job'[q].step = job[q].step
        BY <2>2, <2>4, <2>5
  <2>9. QED BY <2>1, <2>3, <2>4, <2>6, <2>7, <2>8
<1>15. ASSUME NEW p \in Procs, PublishFails(p)
       PROVE  TypeOK' /\ StepInFiles'
       BY <1>15, NoJobTyped DEF PublishFails
<1>16. ASSUME NEW p \in Procs, Release(p)
       PROVE  TypeOK' /\ StepInFiles'
       BY <1>16 DEF Release, Locks
<1>17. ASSUME NEW p \in Procs, Die(p)
       PROVE  TypeOK' /\ StepInFiles'
       BY <1>17, NoJobTyped DEF Die, Locks
<1>18. CASE UNCHANGED vars
       BY <1>18 DEF vars
<1>19. QED
  BY <1>1, <1>2, <1>3, <1>4, <1>5, <1>6, <1>7, <1>8, <1>9, <1>10, <1>11,
     <1>12, <1>13, <1>14, <1>15, <1>16, <1>17, <1>18
     DEF Next, Run, Acquire, Collect, Publish

LEMMA KnownStep ==
    ASSUME TypeOK, StepInFiles, AllKnown, [Next]_vars
    PROVE  AllKnown'
<1> USE RecordsAssumption, CollectorAssumption
<1> USE DEF TypeOK, StepInFiles, AllKnown, disk, Files
<1>0. NoJob.records = {} /\ None.snapshot = {} /\ Torn.snapshot = {}
  BY DEF NoJob, None, Torn
<1>1. ASSUME NEW p \in Procs,
             \/ Start(p) \/ CreateLock(p) \/ UnlinkLock(p) \/ RecreateLock(p)
             \/ Release(p)
      PROVE  AllKnown'
      BY <1>1 DEF Start, CreateLock, UnlinkLock, RecreateLock, Release
<1>2. ASSUME NEW p \in Procs, ReadLock(p) \/ WritePid(p)
      PROVE  AllKnown'
  <2>1. /\ UNCHANGED disk
        /\ \/ job' = job
           \/ job' = [job EXCEPT ![p] = [job[p] EXCEPT !.seen = lock]]
           \/ job' = [job EXCEPT ![p] = [job[p] EXCEPT !.no = runs + 1]]
        BY <1>2 DEF ReadLock, WritePid
  <2>2. /\ [job[p] EXCEPT !.seen = lock].records = job[p].records
        /\ [job[p] EXCEPT !.no = runs + 1].records = job[p].records
        BY DEF Jobs
  <2>3. QED BY <2>1, <2>2
<1>3. ASSUME NEW p \in Procs,
             \/ ProbeOwner(p) \/ SourceEscapes(p) \/ PublishFails(p) \/ Die(p)
      PROVE  AllKnown'
  <2>1. job' = [job EXCEPT ![p] = NoJob] /\ UNCHANGED disk
        BY <1>3 DEF ProbeOwner, SourceEscapes, PublishFails, Die
  <2>2. QED BY <1>0, <2>1
<1>4. ASSUME NEW p \in Procs, SourceAnswers(p)
      PROVE  AllKnown'
  <2> DEFINE records == MergeAll(job[p].records, At(p), Entries[At(p)], Limit)
  <2>1. At(p) \in Sources
        BY <1>4 DEF SourceAnswers, Fetching, At, Jobs
  <2>2. records \subseteq Known
        BY <2>1, MergeAllFaithful
  <2>3. NextSource(p, records, job[p].errors) /\ UNCHANGED disk
        BY <1>4 DEF SourceAnswers
  <2> HIDE DEF records
  <2>4. job'[p].records = records /\ \A q \in Procs : q # p => job'[q] = job[q]
        BY <2>3 DEF NextSource, Jobs
  <2>5. QED BY <2>2, <2>3, <2>4
<1>5. ASSUME NEW p \in Procs, SourceFails(p)
      PROVE  AllKnown'
  <2>1. NextSource(p, job[p].records, job[p].errors \cup {At(p)})
        BY <1>5 DEF SourceFails
  <2>2. \A q \in Procs : job'[q].records = job[q].records
        BY <2>1 DEF NextSource, Jobs
  <2>3. QED BY <1>5, <2>2 DEF SourceFails
<1>6. ASSUME NEW p \in Procs, Select(p)
      PROVE  AllKnown'
  <2> DEFINE snapshot == Latest(job[p].records, Limit)
             j == [job[p] EXCEPT !.records = snapshot, !.step = 1]
  <2>1. snapshot \subseteq Known
        BY LatestSubset
  <2>2. /\ UNCHANGED disk
        /\ \/ job' = [job EXCEPT ![p] = j]
           \/ job' = [job EXCEPT ![p] = NoJob]
        BY <1>6 DEF Select
  <2> HIDE DEF snapshot
  <2>3. j.records = snapshot
        BY DEF Jobs
  <2> HIDE DEF j
  <2>4. QED BY <1>0, <2>1, <2>2, <2>3
<1>7. ASSUME NEW p \in Procs, OpenTemporary(p)
      PROVE  AllKnown'
  <2>1. \A q \in Procs : job'[q].records = job[q].records
        BY <1>7 DEF OpenTemporary, Jobs
  <2>2. tmp' = [tmp EXCEPT ![job[p].step] = Torn] /\ UNCHANGED file
        BY <1>7 DEF OpenTemporary
  <2>3. QED BY <1>0, <2>1, <2>2
<1>8. ASSUME NEW p \in Procs, WriteTemporary(p)
      PROVE  AllKnown'
  <2> DEFINE f == job[p].step
  <2>1. \A q \in Procs : job'[q].records = job[q].records
        BY <1>8 DEF WriteTemporary, Jobs
  <2>2. \A old : \A c \in Written(p, old) : c.snapshot \subseteq Known
        BY <1>0 DEF Written, Output
  <2>3. \/ tmp' = tmp
        \/ \E c \in Written(p, tmp[f]) : tmp' = [tmp EXCEPT ![f] = c]
        BY <1>8 DEF WriteTemporary
  <2>4. \/ file' = file
        \/ \E c \in Written(p, file[f]) : file' = [file EXCEPT ![f] = c]
        BY <1>8 DEF WriteTemporary
  <2>5. \A g \in Files : tmp'[g].snapshot \subseteq Known
        BY <2>2, <2>3
  <2>6. \A g \in Files : file'[g].snapshot \subseteq Known
        BY <2>2, <2>4
  <2>7. QED BY <2>1, <2>5, <2>6
<1>9. ASSUME NEW p \in Procs, Replace(p)
      PROVE  AllKnown'
  <2> DEFINE f == job[p].step
             moved == Moved(f)
             j == [moved[p] EXCEPT !.step = f + 1]
  <2>1. f \in Files
        BY <1>9 DEF Replace
  <2>2. /\ moved \in [Procs -> Jobs]
        /\ \A q \in Procs : moved[q].records = job[q].records
        BY <2>1, MovedTyped
  <2>3. /\ file' = [file EXCEPT ![f] = tmp[f]]
        /\ tmp' = [tmp EXCEPT ![f] = None]
        /\ \/ job' = [moved EXCEPT ![p] = NoJob]
           \/ job' = [moved EXCEPT ![p] = j]
        BY <1>9 DEF Replace
  <2> HIDE DEF moved
  <2>4. j.records = job[p].records
        BY <2>2 DEF Jobs
  <2> HIDE DEF j
  <2>5. QED BY <1>0, <2>1, <2>2, <2>3, <2>4
<1>10. CASE UNCHANGED vars
       BY <1>10 DEF vars
<1>11. QED
  BY <1>1, <1>2, <1>3, <1>4, <1>5, <1>6, <1>7, <1>8, <1>9, <1>10
     DEF Next, Run, Acquire, Collect, Publish

LEMMA TypeHolds == Spec => [](TypeOK /\ StepInFiles /\ AllKnown)
<1>1. Init => TypeOK /\ StepInFiles /\ AllKnown
  <2> SUFFICES ASSUME Init
               PROVE  TypeOK /\ StepInFiles /\ AllKnown
      OBVIOUS
  <2>1. None \in Contents
        BY DEF Contents
  <2>2. lock \in Locks /\ deaths \in 0..MaxDeaths
        BY CollectorAssumption DEF Init, Locks
  <2>3. TypeOK
        BY <2>1, <2>2, NoJobTyped DEF Init, TypeOK, Labels
  <2>4. StepInFiles
        BY NoJobTyped DEF Init, StepInFiles
  <2>5. AllKnown
        BY DEF Init, AllKnown, NoJob, None
  <2>6. QED BY <2>3, <2>4, <2>5
<1>2. TypeOK /\ StepInFiles /\ AllKnown /\ [Next]_vars
        => (TypeOK /\ StepInFiles /\ AllKnown)'
  BY TypeStep, KnownStep
<1>3. QED
  BY <1>1, <1>2, PTL DEF Spec

\* The lock, the files and what every run holds are well formed in every
\* reachable state, whichever runs overlap or die.
THEOREM SnapshotTypeCorrect == Spec => []TypeOK
BY TypeHolds, PTL

\* Whichever sources answer, in whichever order and however often, a published
\* record has the listing of KEV, the severity of NVD, the title of the CVE
\* list, of KEV when that has none, and a description if one of its sources has
\* one, whichever entries lack which text.
THEOREM EvidenceIsKept == Spec => []MergeKeepsEvidence
<1>1. AllKnown => MergeKeepsEvidence
  <2> SUFFICES ASSUME AllKnown, NEW r \in file[1].snapshot
               PROVE  Faithful(r)
      BY DEF MergeKeepsEvidence, Faithful, WellDescribed
  <2>1. r \in Known
        BY DEF AllKnown, Files
  <2>2. QED BY <2>1 DEF Known, Faithfuls, Faithful
<1>2. QED
  BY <1>1, TypeHolds, PTL

-----------------------------------------------------------------------------
(* The lock.                                                               *)

\* Whose pid was settled in the lock still has it there, and every other
\* process is on its way to finding it or has yet to look.
Settled ==
    \A p \in settled :
        /\ Collecting(p)
        /\ lock = <<"pid", p>>
        /\ \A q \in Procs \ {p} :
            /\ pc[q] \in {"idle", "create", "read", "probe"}
            /\ pc[q] = "probe" => job[q].seen = <<"pid", p>>

LEMMA SettledStep ==
    ASSUME TypeOK, Settled, [Next]_vars
    PROVE  Settled'
<1> USE DEF TypeOK, Settled, Collecting, Goto, disk, history, Labels
<1>1. ASSUME NEW p \in Procs, Start(p)
      PROVE  Settled'
      BY <1>1 DEF Start
<1>2. ASSUME NEW p \in Procs, CreateLock(p)
      PROVE  Settled'
      BY <1>2 DEF CreateLock
<1>3. ASSUME NEW p \in Procs, ReadLock(p)
      PROVE  Settled'
  <2>1. CASE lock[1] = "pid"
    <3>1. [job[p] EXCEPT !.seen = lock].seen = lock
          BY DEF Jobs
    <3>2. /\ pc' = [pc EXCEPT ![p] = "probe"]
          /\ job' = [job EXCEPT ![p] = [job[p] EXCEPT !.seen = lock]]
          /\ pc[p] = "read" /\ UNCHANGED <<lock, settled>>
          BY <1>3, <2>1 DEF ReadLock
    <3>3. QED BY <3>1, <3>2
  <2>2. CASE lock[1] # "pid"
    <3>1. settled = {}
          BY <2>2
    <3>2. QED BY <1>3, <3>1 DEF ReadLock
  <2>3. QED BY <2>1, <2>2
<1>4. ASSUME NEW p \in Procs, ProbeOwner(p)
      PROVE  Settled'
  <2>1. /\ pc[p] = "probe"
        /\ pc' = [pc EXCEPT ![p] = IF pc[job[p].seen[2]] # "idle"
                                   THEN "idle" ELSE "unlink"]
        /\ job' = [job EXCEPT ![p] = NoJob] /\ UNCHANGED <<lock, settled>>
        BY <1>4 DEF ProbeOwner
  <2>2. ASSUME NEW q \in settled
        PROVE  q # p /\ pc[job[p].seen[2]] # "idle"
        BY <2>1
  <2>3. QED BY <2>1, <2>2
<1>5. ASSUME NEW p \in Procs,
             UnlinkLock(p) \/ RecreateLock(p) \/ Release(p)
      PROVE  Settled'
  <2>1. settled' = {}
        BY <1>5 DEF UnlinkLock, RecreateLock, Release
  <2>2. QED BY <2>1
<1>6. ASSUME NEW p \in Procs, WritePid(p)
      PROVE  Settled'
  <2>1. settled = {} /\ pc[p] = "write_pid" /\ pc' = [pc EXCEPT ![p] = "fetch"]
        BY <1>6 DEF WritePid
  <2>2. CASE lock = <<"empty", p>> /\ \A q \in Procs \ {p} : pc[q] = "idle"
    <3>1. settled' = {p} /\ lock' = <<"pid", p>>
          BY <1>6, <2>1, <2>2 DEF WritePid
    <3>2. QED BY <2>1, <2>2, <3>1
  <2>3. CASE ~ (lock = <<"empty", p>> /\ \A q \in Procs \ {p} : pc[q] = "idle")
    <3>1. settled' = {}
          BY <1>6, <2>1, <2>3 DEF WritePid
    <3>2. QED BY <3>1
  <2>4. QED BY <2>2, <2>3
<1>7. ASSUME NEW p \in Procs, Collect(p)
      PROVE  Settled'
  <2>1. /\ pc[p] = "fetch" /\ UNCHANGED <<lock, settled>>
        /\ pc' \in [Procs -> Labels]
        /\ pc'[p] \in {"fetch", "open", "release"}
        /\ \A q \in Procs : q # p => pc'[q] = pc[q] /\ job'[q] = job[q]
        BY <1>7 DEF Collect, SourceAnswers, SourceFails, SourceEscapes, Select,
                    Fetching, NextSource
  <2>2. QED BY <2>1
<1>8. ASSUME NEW p \in Procs,
             \/ OpenTemporary(p) \/ WriteTemporary(p) \/ Replace(p)
             \/ PublishFails(p)
      PROVE  Settled'
  <2>1. /\ Collecting(p) /\ pc[p] \in {"open", "write", "replace"}
        /\ UNCHANGED <<lock, settled>>
        /\ pc' \in [Procs -> Labels]
        /\ pc'[p] \in {"write", "replace", "open", "release"}
        /\ \A q \in Procs : q # p => pc'[q] = pc[q]
        BY <1>8 DEF OpenTemporary, WriteTemporary, Replace, PublishFails
  <2>2. \A q \in Procs : q # p /\ pc[q] # "write" => job'[q] = job[q]
        BY <1>8 DEF OpenTemporary, WriteTemporary, Replace, PublishFails, Moved
  <2>3. QED BY <2>1, <2>2
<1>9. ASSUME NEW p \in Procs, Die(p)
      PROVE  Settled'
  <2>1. /\ pc[p] # "idle" /\ pc' = [pc EXCEPT ![p] = "idle"]
        /\ job' = [job EXCEPT ![p] = NoJob] /\ settled' = settled \ {p}
        /\ \A q \in Procs : lock = <<"pid", q>> /\ q # p => lock' = lock
        BY <1>9 DEF Die
  <2>2. QED BY <2>1
<1>10. CASE UNCHANGED vars
       BY <1>10 DEF vars
<1>11. QED
  BY <1>1, <1>2, <1>3, <1>4, <1>5, <1>6, <1>7, <1>8, <1>9, <1>10
     DEF Next, Run, Acquire, Publish

\* However many processes start, die and take over locks, a run whose pid was
\* in the lock before another process began collects alone until it ends.
THEOREM SettledRunsAlone == Spec => []SettledLockExcludes
<1>1. Init => Settled
  BY DEF Init, Settled
<1>2. TypeOK /\ Settled /\ [Next]_vars => Settled'
  BY SettledStep
<1>3. TypeOK /\ Settled => SettledLockExcludes
  BY DEF TypeOK, Settled, SettledLockExcludes, Collecting
<1>4. QED
  BY <1>1, <1>2, <1>3, TypeHolds, PTL DEF Spec

-----------------------------------------------------------------------------
(* The files.                                                              *)

\* At most one run collects.
Sole ==
    \A p, q \in Procs : Collecting(p) /\ Collecting(q) => p = q

\* No published file is ahead of the one written before it.
Ordered ==
    /\ \A f \in Files : file[f] # Torn /\ file[f].no <= runs
    /\ file[3].no <= file[2].no
    /\ file[2].no <= file[1].no

\* The run that collects is the latest; it has published the files before the
\* one it is at and is writing that one's temporary file.
Foremost(p) ==
    /\ pc[p] \in {"fetch", "open", "write", "replace"} => job[p].no = runs
    /\ pc[p] \in {"open", "write", "replace"} =>
        \A g \in Files : g < job[p].step => file[g].no = runs
    /\ pc[p] = "write" => tmp[job[p].step] = Torn /\ job[p].handle = "tmp"
    /\ pc[p] = "replace" => tmp[job[p].step] = Output(p)

InOrder == ~ overlapped => Sole /\ Ordered /\ \A p \in Procs : Foremost(p)

\* A step that publishes nothing and takes no lock.
LEMMA QuietStep ==
    ASSUME TypeOK, InOrder, UNCHANGED <<tmp, file, runs, overlapped>>,
           \A q \in Procs :
             \/ pc'[q] \in {"idle", "create", "read", "probe", "unlink",
                            "recreate", "write_pid"}
             \/ pc'[q] = "release" /\ Collecting(q)
             \/ pc'[q] = pc[q] /\ job'[q] = job[q]
    PROVE  InOrder'
<1> SUFFICES ASSUME ~ overlapped
             PROVE  Sole' /\ Ordered' /\ \A p \in Procs : Foremost(p)'
    BY DEF InOrder
<1>1. Sole'
  BY DEF InOrder, Sole, Collecting
<1>2. Ordered'
  BY DEF InOrder, Ordered
<1>3. ASSUME NEW p \in Procs
      PROVE  Foremost(p)'
  BY DEF InOrder, Foremost, Output
<1>4. QED
  BY <1>1, <1>2, <1>3

LEMMA OrderStep ==
    ASSUME TypeOK, StepInFiles, InOrder, [Next]_vars
    PROVE  InOrder'
<1> USE DEF Goto, disk, history
<1>1. ASSUME NEW p \in Procs,
             \/ Start(p) \/ CreateLock(p) \/ ReadLock(p) \/ ProbeOwner(p)
             \/ UnlinkLock(p) \/ RecreateLock(p)
             \/ SourceEscapes(p) \/ PublishFails(p) \/ Release(p) \/ Die(p)
      PROVE  InOrder'
  <2>1. UNCHANGED <<tmp, file, runs, overlapped>>
        BY <1>1 DEF Start, CreateLock, ReadLock, ProbeOwner, UnlinkLock,
                    RecreateLock, SourceEscapes, PublishFails, Release, Die
  <2>2. \A q \in Procs : q # p => pc'[q] = pc[q] /\ job'[q] = job[q]
        BY <1>1 DEF TypeOK, Start, CreateLock, ReadLock, ProbeOwner, UnlinkLock,
                    RecreateLock, SourceEscapes, PublishFails, Release, Die
  <2>3. \/ pc'[p] \in {"idle", "create", "read", "probe", "unlink", "recreate",
                       "write_pid"}
        \/ pc'[p] = "release" /\ Collecting(p)
        BY <1>1 DEF TypeOK, Start, CreateLock, ReadLock, ProbeOwner, UnlinkLock,
                    RecreateLock, SourceEscapes, PublishFails, Release, Die,
                    Fetching, Collecting
  <2>4. QED BY <2>1, <2>2, <2>3, QuietStep
<1>2. ASSUME NEW p \in Procs, WritePid(p)
      PROVE  InOrder'
  <2> SUFFICES ASSUME ~ overlapped'
               PROVE  Sole' /\ Ordered' /\ \A q \in Procs : Foremost(q)'
      BY DEF InOrder
  <2>1. /\ runs' = runs + 1 /\ UNCHANGED <<tmp, file>> /\ ~ overlapped
        /\ pc' = [pc EXCEPT ![p] = "fetch"]
        /\ \A q \in Procs \ {p} : ~ Collecting(q)
        BY <1>2 DEF WritePid
  <2>2. job'[p].no = runs + 1
    <3>1. [job[p] EXCEPT !.no = runs + 1].no = runs + 1
          BY DEF TypeOK, Jobs
    <3>2. QED BY <1>2, <3>1 DEF WritePid, TypeOK
  <2>3. Sole'
        BY <2>1 DEF Sole, Collecting, TypeOK
  <2>4. Ordered'
    <3>1. \A f \in Files : file[f].no <= runs /\ file[f].no \in Int
          BY <2>1 DEF InOrder, Ordered, TypeOK, Contents, Outputs, None, Torn
    <3>2. QED BY <2>1, <3>1 DEF InOrder, Ordered, TypeOK
  <2>5. ASSUME NEW q \in Procs
        PROVE  Foremost(q)'
        BY <2>1, <2>2 DEF Foremost, Collecting, TypeOK
  <2>6. QED BY <2>3, <2>4, <2>5
<1>3. ASSUME NEW p \in Procs, SourceAnswers(p) \/ SourceFails(p)
      PROVE  InOrder'
  <2> SUFFICES ASSUME ~ overlapped'
               PROVE  Sole' /\ Ordered' /\ \A q \in Procs : Foremost(q)'
      BY DEF InOrder
  <2>1. /\ UNCHANGED <<pc, tmp, file, runs, overlapped>> /\ pc[p] = "fetch"
        /\ \A q \in Procs : q # p => job'[q] = job[q]
        BY <1>3 DEF SourceAnswers, SourceFails, Fetching, NextSource, TypeOK
  <2>2. job'[p].no = job[p].no
        BY <1>3 DEF SourceAnswers, SourceFails, NextSource, TypeOK, Jobs
  <2>3. Sole' /\ Ordered'
        BY <2>1 DEF InOrder, Sole, Ordered, Collecting
  <2>4. ASSUME NEW q \in Procs
        PROVE  Foremost(q)'
        BY <2>1, <2>2 DEF InOrder, Foremost, Output
  <2>5. QED BY <2>3, <2>4
<1>4. ASSUME NEW p \in Procs, Select(p)
      PROVE  InOrder'
  <2> SUFFICES ASSUME ~ overlapped'
               PROVE  Sole' /\ Ordered' /\ \A q \in Procs : Foremost(q)'
      BY DEF InOrder
  <2> DEFINE j == [job[p] EXCEPT !.records = Latest(job[p].records, Limit),
                                 !.step = 1]
  <2>1. /\ UNCHANGED <<tmp, file, runs, overlapped>> /\ pc[p] = "fetch"
        /\ \A q \in Procs : q # p => pc'[q] = pc[q] /\ job'[q] = job[q]
        /\ \/ pc'[p] = "open" /\ job'[p] = j
           \/ pc'[p] = "release"
        BY <1>4 DEF Select, TypeOK
  <2>2. j.no = job[p].no /\ j.step = 1
        BY DEF TypeOK, Jobs
  <2> HIDE DEF j
  <2>3. Sole' /\ Ordered'
        BY <2>1 DEF InOrder, Sole, Ordered, Collecting
  <2>4. ASSUME NEW q \in Procs
        PROVE  Foremost(q)'
    <3>1. CASE q # p
          BY <2>1, <3>1 DEF InOrder, Foremost, Output
    <3>2. CASE q = p
      <4>1. job[p].no = runs
            BY <2>1 DEF InOrder, Foremost
      <4>2. \A g \in Files : ~ (g < 1)
            BY DEF Files
      <4>3. QED BY <2>1, <2>2, <3>2, <4>1, <4>2 DEF Foremost
    <3>3. QED BY <3>1, <3>2
  <2>5. QED BY <2>3, <2>4
<1>5. ASSUME NEW p \in Procs, OpenTemporary(p)
      PROVE  InOrder'
  <2> SUFFICES ASSUME ~ overlapped'
               PROVE  Sole' /\ Ordered' /\ \A q \in Procs : Foremost(q)'
      BY DEF InOrder
  <2> DEFINE j == [job[p] EXCEPT !.handle = "tmp"]
  <2>1. /\ UNCHANGED <<file, runs, overlapped>> /\ pc[p] = "open"
        /\ tmp' = [tmp EXCEPT ![job[p].step] = Torn]
        /\ pc' = [pc EXCEPT ![p] = "write"] /\ job' = [job EXCEPT ![p] = j]
        BY <1>5 DEF OpenTemporary
  <2>2. j.no = job[p].no /\ j.step = job[p].step /\ j.handle = "tmp"
        BY DEF TypeOK, Jobs
  <2> HIDE DEF j
  <2>3. Sole' /\ Ordered'
        BY <2>1 DEF InOrder, Sole, Ordered, Collecting, TypeOK
  <2>4. \A q \in Procs : q # p => ~ Collecting(q)
        BY <2>1 DEF InOrder, Sole, Collecting
  <2>5. job[p].step \in Files
        BY <2>1 DEF StepInFiles
  <2>6. ASSUME NEW q \in Procs
        PROVE  Foremost(q)'
        BY <2>1, <2>2, <2>4, <2>5 DEF InOrder, Foremost, Collecting, TypeOK
  <2>7. QED BY <2>3, <2>6
<1>6. ASSUME NEW p \in Procs, WriteTemporary(p)
      PROVE  InOrder'
  <2> SUFFICES ASSUME ~ overlapped'
               PROVE  Sole' /\ Ordered' /\ \A q \in Procs : Foremost(q)'
      BY DEF InOrder
  <2> DEFINE f == job[p].step
             j == [job[p] EXCEPT !.handle = "gone"]
  <2>1. /\ UNCHANGED <<runs, overlapped>> /\ pc[p] = "write"
        /\ pc' = [pc EXCEPT ![p] = "replace"] /\ job' = [job EXCEPT ![p] = j]
        BY <1>6 DEF WriteTemporary
  <2>2. f \in Files /\ tmp[f] = Torn /\ job[p].handle = "tmp"
        BY <2>1 DEF StepInFiles, InOrder, Foremost
  <2>3. UNCHANGED file /\ tmp' = [tmp EXCEPT ![f] = Output(p)]
        BY <1>6, <2>2 DEF WriteTemporary, Written
  <2>4. /\ j.no = job[p].no /\ j.step = f /\ j.records = job[p].records
        /\ j.errors = job[p].errors
        BY DEF TypeOK, Jobs
  <2> HIDE DEF j
  <2>5. Sole' /\ Ordered'
        BY <2>1, <2>3 DEF InOrder, Sole, Ordered, Collecting, TypeOK
  <2>6. \A q \in Procs : q # p => ~ Collecting(q)
        BY <2>1 DEF InOrder, Sole, Collecting
  <2>7. ASSUME NEW q \in Procs
        PROVE  Foremost(q)'
        BY <2>1, <2>2, <2>3, <2>4, <2>6
           DEF InOrder, Foremost, Collecting, Output, TypeOK
  <2>8. QED BY <2>5, <2>7
<1>7. ASSUME NEW p \in Procs, Replace(p)
      PROVE  InOrder'
  <2> SUFFICES ASSUME ~ overlapped'
               PROVE  Sole' /\ Ordered' /\ \A q \in Procs : Foremost(q)'
      BY DEF InOrder
  <2> DEFINE f == job[p].step
             moved == Moved(f)
             j == [moved[p] EXCEPT !.step = f + 1]
  <2>1. /\ UNCHANGED <<runs, overlapped>> /\ pc[p] = "replace"
        /\ file' = [file EXCEPT ![f] = tmp[f]]
        /\ tmp' = [tmp EXCEPT ![f] = None]
        /\ \/ /\ pc' = [pc EXCEPT ![p] = "release"]
              /\ job' = [moved EXCEPT ![p] = NoJob]
           \/ /\ f # 3
              /\ pc' = [pc EXCEPT ![p] = "open"]
              /\ job' = [moved EXCEPT ![p] = j]
        BY <1>7 DEF Replace
  <2>2. f \in Files /\ tmp[f] = Output(p) /\ job[p].no = runs
        BY <2>1 DEF StepInFiles, InOrder, Foremost
  <2>3. /\ moved \in [Procs -> Jobs] /\ moved[p].no = job[p].no
        BY <2>2, MovedTyped
  <2> HIDE DEF moved
  <2>4. j.no = runs /\ j.step = f + 1
        BY <2>2, <2>3 DEF Jobs
  <2> HIDE DEF j
  <2>5. \A q \in Procs : q # p => ~ Collecting(q)
        BY <2>1 DEF InOrder, Sole, Collecting
  <2>6. Sole'
        BY <2>1, <2>5 DEF Sole, Collecting, TypeOK
  <2>7. /\ file'[f].no = runs /\ file'[f] # Torn
        /\ \A g \in Files : g # f => file'[g] = file[g]
        BY <2>1, <2>2 DEF Output, Torn, TypeOK
  <2>8. \A g \in Files : g < f => file[g].no = runs
        BY <2>1 DEF InOrder, Foremost
  <2>9. Ordered'
    <3>1. \A g \in Files : file[g].no \in Int
          BY DEF TypeOK, Contents, Outputs, None, Torn
    <3>2. QED BY <2>1, <2>2, <2>7, <2>8, <3>1 DEF InOrder, Ordered, Files, TypeOK
  <2>10. ASSUME NEW q \in Procs
         PROVE  Foremost(q)'
    <3>1. CASE q # p
          BY <2>1, <2>5, <3>1 DEF Foremost, Collecting, TypeOK
    <3>2. CASE q = p
          BY <2>1, <2>2, <2>3, <2>4, <2>7, <2>8, <3>2 DEF Foremost, Files, TypeOK
    <3>3. QED BY <3>1, <3>2
  <2>11. QED BY <2>6, <2>9, <2>10
<1>8. CASE UNCHANGED vars
  BY <1>8, QuietStep DEF vars
<1>9. QED
  BY <1>1, <1>2, <1>3, <1>4, <1>5, <1>6, <1>7, <1>8
     DEF Next, Run, Acquire, Collect, Publish

\* As long as no two runs have collected together, a reader finds each of the
\* three files absent or whole, and none ahead of the one written before it,
\* however many runs died or failed on the way.
THEOREM FilesAppearInOrder == Spec => []PublishedInOrder
<1>1. Init => InOrder
  <2>1. None # Torn /\ None.no = 0
        BY DEF None, Torn
  <2>2. QED BY <2>1 DEF Init, InOrder, Sole, Ordered, Foremost, Collecting, Files
<1>2. TypeOK /\ StepInFiles /\ InOrder /\ [Next]_vars => InOrder'
  BY OrderStep
<1>3. InOrder => PublishedInOrder
  BY DEF InOrder, Ordered, PublishedInOrder
<1>4. QED
  BY <1>1, <1>2, <1>3, TypeHolds, PTL DEF Spec

=============================================================================
