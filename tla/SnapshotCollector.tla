-------------------------- MODULE SnapshotCollector --------------------------
(***************************************************************************)
(* Runs of vulnerability_collector.py, started by cron and besides it by   *)
(* hand or by the agent, which share an output directory: the lock file,   *)
(* the three published files and the temporary file each is written to     *)
(* first.                                                                  *)
(*                                                                         *)
(* A process runs as itself until it ends; the pid of one that died is not *)
(* given to another process while it is in the lock.                       *)
(***************************************************************************)
EXTENDS SnapshotRecords, Sequences

CONSTANTS
    Procs,       \* processes that run the collector
    Limit,       \* records kept of each source, and in the snapshot
    Configs,     \* the enabled sources, in the order of the configuration
    Entries,     \* Entries[s]: the ids source s lists
    MaxRuns,     \* bound: no run starts after this many have got the lock
    MaxDeaths    \* bound on the processes that die

ASSUME CollectorAssumption ==
    /\ Limit \in Nat \ {0}
    /\ Configs \subseteq Seq(Sources)
    /\ Entries \in [Sources -> SUBSET Ids]
    /\ MaxRuns \in Nat
    /\ MaxDeaths \in Nat

VARIABLES
    config,    \* the configuration
    lock,      \* what .collector.lock is: see Locks
    pc,        \* pc[p]: where process p is
    job,       \* job[p]: what it holds
    tmp,       \* tmp[f]: what is in f's temporary file
    file,      \* file[f]: what is in published file f
    runs,      \* how many runs have got the lock
    deaths,    \* how many have died
    settled,   \* history: runs whose pid was in the lock before another began
    overlapped \* history: whether two runs have collected at the same time

vars == <<config, lock, pc, job, tmp, file, runs, deaths, settled, overlapped>>

\* vulnerabilities.json, health.json and last-run.json, in this order.
Files == 1..3

\* No file, one whose process is dead, one that a live process has created
\* but not yet written, or one with its pid.
Locks == {<<"none">>, <<"stale">>} \cup ({"empty", "pid"} \X Procs)

\* What a run writes: its number, its snapshot and the sources that failed.
Outputs == [no : Nat, snapshot : SUBSET Records, errors : SUBSET Sources]

\* No file, or one that is not a whole document.
None == [no |-> 0, snapshot |-> {}, errors |-> {}]
Torn == [no |-> -1, snapshot |-> {}, errors |-> {}]

Contents == Outputs \cup {None, Torn}

Labels ==
    {"idle", "create", "read", "probe", "unlink", "recreate", "write_pid",
     "fetch", "open", "write", "replace", "release"}

\* Where the process is between acquire_lock and the end of collect.
Collecting(p) == pc[p] \in {"fetch", "open", "write", "replace", "release"}

Jobs ==
    [seen : Locks,               \* what it read from the lock
     no : Nat,                   \* its number among the runs
     step : Nat,                 \* the source or the file it is at
     records : SUBSET Records, errors : SUBSET Sources,
     handle : {"tmp", "file", "gone"}]  \* where the file it has open is now

NoJob ==
    [seen |-> <<"none">>, no |-> 0, step |-> 1, records |-> {},
     errors |-> {}, handle |-> "gone"]

TypeOK ==
    /\ config \in Configs
    /\ lock \in Locks
    /\ pc \in [Procs -> Labels]
    /\ job \in [Procs -> Jobs]
    /\ tmp \in [Files -> Contents]
    /\ file \in [Files -> Contents]
    /\ runs \in Nat
    /\ deaths \in 0..MaxDeaths
    /\ settled \subseteq Procs
    /\ overlapped \in BOOLEAN

Init ==
    /\ config \in Configs
    /\ lock = <<"none">>
    /\ pc = [p \in Procs |-> "idle"]
    /\ job = [p \in Procs |-> NoJob]
    /\ tmp = [f \in Files |-> None]
    /\ file = [f \in Files |-> None]
    /\ runs = 0
    /\ deaths = 0
    /\ settled = {}
    /\ overlapped = FALSE

Goto(p, label) == pc' = [pc EXCEPT ![p] = label]

-----------------------------------------------------------------------------
(* acquire_lock.                                                           *)

disk == <<tmp, file>>
history == <<runs, deaths, settled, overlapped>>

Start(p) ==
    /\ pc[p] = "idle"
    /\ runs < MaxRuns
    /\ Goto(p, "create")
    /\ UNCHANGED <<config, lock, job, disk, history>>

\* O_CREAT | O_EXCL.
CreateLock(p) ==
    /\ pc[p] = "create"
    /\ IF lock = <<"none">>
       THEN lock' = <<"empty", p>> /\ Goto(p, "write_pid")
       ELSE UNCHANGED lock /\ Goto(p, "read")
    /\ UNCHANGED <<config, job, disk, history>>

\* Mutant: only an empty or missing file is taken for a stale one.
ReadLock_StaleHolds(p) ==
    /\ pc[p] = "read"
    /\ Goto(p, CASE lock[1] = "pid" -> "probe"
                 [] lock[1] = "stale" -> "idle"
                 [] OTHER -> "unlink")
    /\ job' = [job EXCEPT ![p].seen = lock]
    /\ UNCHANGED <<config, lock, disk, history>>

\* Reading a pid; a file that is gone or empty is taken for a stale one.
ReadLock(p) ==
    /\ pc[p] = "read"
    /\ IF lock[1] = "pid"
       THEN Goto(p, "probe") /\ job' = [job EXCEPT ![p].seen = lock]
       ELSE Goto(p, "unlink") /\ UNCHANGED job
    /\ UNCHANGED <<config, lock, disk, history>>

\* Mutant: a lock with a pid in it is taken for a stale one.
ProbeOwner_Unchecked(p) ==
    /\ pc[p] = "probe"
    /\ Goto(p, "unlink")
    /\ job' = [job EXCEPT ![p] = NoJob]
    /\ UNCHANGED <<config, lock, disk, history>>

\* os.kill(owner, 0): when the owner runs, this run ends (already_running).
ProbeOwner(p) ==
    /\ pc[p] = "probe"
    /\ Goto(p, IF pc[job[p].seen[2]] # "idle" THEN "idle" ELSE "unlink")
    /\ job' = [job EXCEPT ![p] = NoJob]
    /\ UNCHANGED <<config, lock, disk, history>>

\* Whichever lock is there by now goes.
UnlinkLock(p) ==
    /\ pc[p] = "unlink"
    /\ lock' = <<"none">>
    /\ Goto(p, "recreate")
    /\ UNCHANGED <<config, job, disk, history>>

\* The second O_EXCL; when another was faster this run ends.
RecreateLock(p) ==
    /\ pc[p] = "recreate"
    /\ IF lock = <<"none">>
       THEN lock' = <<"empty", p>> /\ Goto(p, "write_pid")
       ELSE UNCHANGED lock /\ Goto(p, "idle")
    /\ UNCHANGED <<config, job, disk, history>>

\* The pid goes into the file this run created, wherever that is by now.
WritePid(p) ==
    /\ pc[p] = "write_pid"
    /\ lock' = IF lock = <<"empty", p>> THEN <<"pid", p>> ELSE lock
    /\ runs' = runs + 1
    /\ job' = [job EXCEPT ![p].no = runs + 1]
    /\ Goto(p, "fetch")
    /\ settled' = IF /\ lock = <<"empty", p>>
                     /\ \A q \in Procs \ {p} : pc[q] = "idle"
                  THEN settled \cup {p} ELSE settled
    /\ overlapped' = (overlapped \/ \E q \in Procs \ {p} : Collecting(q))
    /\ UNCHANGED <<config, disk, deaths>>

-----------------------------------------------------------------------------
(* The loop of collect over the sources.                                   *)

At(p) == config[job[p].step]

Fetching(p) == pc[p] = "fetch" /\ job[p].step <= Len(config)

NextSource(p, records, errors) ==
    job' = [job EXCEPT ![p].records = records, ![p].errors = errors,
                       ![p].step = @ + 1]

\* The first, second or third request of fetch_url is answered.
SourceAnswers(p) ==
    /\ Fetching(p)
    /\ NextSource(p, MergeAll(job[p].records, At(p), Entries[At(p)], Limit),
                  job[p].errors)
    /\ UNCHANGED <<config, lock, pc, disk, history>>

\* The third request fails, or one with an error that does not pass, of the
\* kinds the loop expects: the source is noted as failed.
SourceFails(p) ==
    /\ Fetching(p)
    /\ NextSource(p, job[p].records, job[p].errors \cup {At(p)})
    /\ UNCHANGED <<config, lock, pc, disk, history>>

\* Any other error, a body cut short for instance, ends the run.
SourceEscapes(p) ==
    /\ Fetching(p)
    /\ Goto(p, "release")
    /\ job' = [job EXCEPT ![p] = NoJob]
    /\ UNCHANGED <<config, lock, disk, history>>

\* After the last source.  Without records, nothing is published.
Select(p) ==
    /\ pc[p] = "fetch"
    /\ job[p].step > Len(config)
    /\ LET snapshot == Latest(job[p].records, Limit) IN
       IF snapshot # {} /\ Valid(snapshot)
       THEN /\ Goto(p, "open")
            /\ job' = [job EXCEPT ![p].records = snapshot, ![p].step = 1]
       ELSE Goto(p, "release") /\ job' = [job EXCEPT ![p] = NoJob]
    /\ UNCHANGED <<config, lock, disk, history>>

-----------------------------------------------------------------------------
(* atomic_json, for each of the three files.                               *)

Output(p) ==
    [no |-> job[p].no, snapshot |-> job[p].records, errors |-> job[p].errors]

OpenTemporary(p) ==
    /\ pc[p] = "open"
    /\ tmp' = [tmp EXCEPT ![job[p].step] = Torn]
    /\ job' = [job EXCEPT ![p].handle = "tmp"]
    /\ Goto(p, "write")
    /\ UNCHANGED <<config, lock, file, history>>

\* A file that someone has written to since it was opened may end up with
\* parts of both.
Written(p, old) == IF old = Torn THEN {Output(p)} ELSE {Output(p), Torn}

WriteTemporary(p) ==
    /\ pc[p] = "write"
    /\ LET f == job[p].step
           handle == job[p].handle IN
       /\ \/ handle # "tmp" /\ UNCHANGED tmp
          \/ /\ handle = "tmp"
             /\ \E c \in Written(p, tmp[f]) : tmp' = [tmp EXCEPT ![f] = c]
       /\ \/ handle # "file" /\ UNCHANGED file
          \/ /\ handle = "file"
             /\ \E c \in Written(p, file[f]) : file' = [file EXCEPT ![f] = c]
    /\ job' = [job EXCEPT ![p].handle = "gone"]
    /\ Goto(p, "replace")
    /\ UNCHANGED <<config, lock, history>>

\* What the files that processes have open become when f is replaced.
Moved(f) ==
    [q \in Procs |->
        IF pc[q] # "write" \/ job[q].step # f THEN job[q]
        ELSE [job[q] EXCEPT !.handle = IF @ = "tmp" THEN "file" ELSE "gone"]]

\* Mutant: health.json is published first.
Replace_HealthFirst(p) ==
    /\ pc[p] = "replace"
    /\ LET f == job[p].step
           g == IF f = 1 THEN 2 ELSE IF f = 2 THEN 1 ELSE 3 IN
       /\ tmp[f] # None
       /\ file' = [file EXCEPT ![g] = tmp[f]]
       /\ tmp' = [tmp EXCEPT ![f] = None]
       /\ IF f = 3
          THEN Goto(p, "release") /\ job' = [Moved(f) EXCEPT ![p] = NoJob]
          ELSE Goto(p, "open") /\ job' = [Moved(f) EXCEPT ![p].step = f + 1]
    /\ UNCHANGED <<config, lock, history>>

Replace(p) ==
    /\ pc[p] = "replace"
    /\ LET f == job[p].step IN
       /\ tmp[f] # None
       /\ file' = [file EXCEPT ![f] = tmp[f]]
       /\ tmp' = [tmp EXCEPT ![f] = None]
       /\ IF f = 3
          THEN Goto(p, "release") /\ job' = [Moved(f) EXCEPT ![p] = NoJob]
          ELSE Goto(p, "open") /\ job' = [Moved(f) EXCEPT ![p].step = f + 1]
    /\ UNCHANGED <<config, lock, history>>

\* The disk is full, or another run has taken the temporary file.
PublishFails(p) ==
    /\ \/ pc[p] \in {"open", "write"}
       \/ pc[p] = "replace" /\ tmp[job[p].step] = None
    /\ Goto(p, "release")
    /\ job' = [job EXCEPT ![p] = NoJob]
    /\ UNCHANGED <<config, lock, disk, history>>

\* The finally clause: whichever lock is there goes.
Release(p) ==
    /\ pc[p] = "release"
    /\ lock' = <<"none">>
    /\ settled' = settled \ {p}
    /\ Goto(p, "idle")
    /\ UNCHANGED <<config, job, disk, runs, deaths, overlapped>>

\* The process is killed, by cron's timeout or with the machine.
Die(p) ==
    /\ pc[p] # "idle"
    /\ deaths < MaxDeaths
    /\ deaths' = deaths + 1
    /\ lock' = IF lock \in {<<"empty", p>>, <<"pid", p>>}
               THEN <<"stale">> ELSE lock
    /\ settled' = settled \ {p}
    /\ Goto(p, "idle")
    /\ job' = [job EXCEPT ![p] = NoJob]
    /\ UNCHANGED <<config, disk, runs, overlapped>>

-----------------------------------------------------------------------------
Acquire(p) ==
    \/ CreateLock(p) \/ ReadLock(p) \/ ProbeOwner(p)
    \/ UnlinkLock(p) \/ RecreateLock(p) \/ WritePid(p)

Collect(p) ==
    \/ SourceAnswers(p) \/ SourceFails(p) \/ SourceEscapes(p)
    \/ Select(p)

Publish(p) ==
    \/ OpenTemporary(p) \/ WriteTemporary(p) \/ Replace(p) \/ PublishFails(p)
    \/ Release(p)

Run(p) == Start(p) \/ Acquire(p) \/ Collect(p) \/ Publish(p)

Next == \E p \in Procs : Run(p) \/ Die(p)

Spec == Init /\ [][Next]_vars

\* Processes run, requests time out, and cron starts the next run.
FairSpec == Spec /\ \A p \in Procs : WF_vars(Run(p))

-----------------------------------------------------------------------------
(* Properties.                                                             *)

\* A run whose pid was in the lock before another process began has the
\* output directory to itself until it ends, whatever starts and dies
\* meanwhile (test_lock_rejects_overlapping_run).
SettledLockExcludes ==
    \A p \in settled : \A q \in Procs \ {p} : ~ Collecting(q)

\* As long as no two runs have collected together, a reader finds each file
\* absent or whole, and none that is ahead of the one written before it,
\* through crashes, full disks and failed runs (collect's order of writes).
PublishedInOrder ==
    ~ overlapped =>
        /\ \A f \in Files : file[f] # Torn
        /\ file[3].no <= file[2].no /\ file[2].no <= file[1].no

\* The sources of a record that describe it.
Telling(r) == {s \in r.sources : r.id \in Described[s]}

\* A record in the snapshot says of a CVE what its sources say, in whichever
\* order they were merged: the listing of KEV; the severity of NVD; the title
\* of the CVE list, or of KEV when that has none; and, if a source describes
\* it, a description, of KEV only when no other has one.  A source that lacks
\* a text takes none away (merge).
MergeKeepsEvidence ==
    \A r \in file[1].snapshot :
        /\ r.listed <=> ("cisa_kev" \in r.sources)
        /\ r.severity = IF "nvd" \in r.sources THEN Severity(Score[r.id])
                        ELSE "unknown"
        /\ r.title = IF "cveproject" \in r.sources /\ r.id \in Titled["cveproject"]
                     THEN "cveproject"
                     ELSE IF r.listed THEN Text("cisa_kev", r.id, Titled) ELSE ""
        /\ IF Telling(r) = {} THEN r.description = ""
           ELSE /\ r.description \in Telling(r)
                /\ r.description = "cisa_kev" => Telling(r) = {"cisa_kev"}

\* The lock of a dead run does not keep later ones out, nor does one that
\* nobody holds (test_stale_lock_is_recovered).
LockIsRecovered ==
    lock # <<"none">> ~> (lock = <<"none">> \/ runs >= MaxRuns)

-----------------------------------------------------------------------------
(* What the notes on the design say.                                       *)

\* Records of a source that fails in a later run are preserved
\* (promptlog.md, Design Decisions of Entry 001).
PriorRecordsPreserved ==
    [][ \A s \in Sources : \A r \in file[1].snapshot :
            (s \in r.sources /\ s \in file'[1].errors)
                => \E q \in file'[1].snapshot : q.id = r.id ]_vars

=============================================================================
