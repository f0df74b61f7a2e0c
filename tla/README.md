# Squidward: the egress loop in TLA+

This directory specifies, model-checks and proves properties of the control
logic of Squidward, an appliance that watches the egress of AI agents through
squid, scores it, has a local agent investigate what is suspicious, and denies a
destination after a human has approved it.

1. [The system](#1-the-system)
2. [Modules](#2-modules)
3. [Policy decisions](#3-policy-decisions)
4. [Investigations](#4-investigations)
5. [Live scoring](#5-live-scoring)
6. [Denylist](#6-denylist)
7. [Collector](#7-collector)
8. [Detection](#8-detection)
9. [Snapshot collector](#9-snapshot-collector)
10. [Model registry](#10-model-registry)
11. [Demo runner](#11-demo-runner)
12. [Proofs](#12-proofs)
13. [Where code and documents disagree](#13-where-code-and-documents-disagree)
14. [What is not modelled](#14-what-is-not-modelled)
15. [Plan](#15-plan)
16. [Running it](#16-running-it)

## 1. The system

```
 agents ──▶ squid ──access.log──▶ collector ──POST events──▶ ingestion (SQLite)
              ▲                                                 │  ▲   ▲  ▲
              │ reconfigure                      GET events ────┘  │   │  │ decisions
        sync-denylist.sh ◀── GET rules.txt ──┐    LiveScorer ──────┘   │  └── dashboard (analyst)
              │                              │    assessments, findings│
              └─── domains.txt               └─ rules                  │ MCP: submit_investigation,
                                                ingestion ──call──▶ OpenClaw agent   recommend_policy
```

| component | source | state it keeps | operations |
|---|---|---|---|
| ingestion: policy tables | `services/ingestion/.../store.py`, `app.py` | `events`, `findings`, `recommendations`, `decisions`, `rules` in SQLite behind one shared connection | post events, findings, recommendations; `decide`; `clear_demo_data` |
| ingestion: investigations | `app.py`, `store.py`, `openclaw.py` | the `investigations` row of a finding | start on a severe finding or on request; `_run_investigation`; `submit_investigation` |
| ingestion: other tables | `store.py` | notes, labels, enforcement results, snapshots, CVE policies | single-statement inserts and reads |
| ingestion: vulnerability feed | `vulnerabilities.py` | cached catalog and its age, under a lock | `get` |
| ingestion: telemetry | `runtime.py` | cached GPU reading | `collect`, `inference_status` |
| processing: live scorer | `services/processing/.../live.py`, `client.py` | cursor `after_id`, window of 20 events, both in memory | `poll_once`, `run` |
| processing: detection | `features.py`, `rules.py`, `pipeline.py` | none (pure) | `extract_features`, `score_rules`, `detect_window`, `recommend_policy` |
| processing: models | `anomaly.py`, `autoencoder.py`, `training.py`, ... | a candidate file, trained artifacts, a report | `train_bundle`, evaluation, `safe_load`, scoring |
| processing: registry | `lifecycle.py` | artifacts, evaluations, `current` pointer on disk | `promote`, `rollback`, `current_artifact` |
| collector | `services/collector` | the attached command, the line in hand, two counters | `run`, `follow`, `post_event` |
| denylist sync | `infra/gb10/squid/sync-denylist.sh` | `.domains.tmp`, `domains.txt`, and what squid has read | `sync_once`, once or in a loop |
| acl helper | `infra/gb10/squid/check-policy` | none | asks `/v1/rules/check` |
| OpenClaw tools | `infra/openclaw/workspace/tools` | lock file, three output files and their temporary files | `acquire_lock`, `collect`, `merge`, `atomic_json`, generators |
| dashboard | `services/dashboard` | the open incident, polled data | open an incident, decide, CVE policies |
| demo | `services/demo` | the runner's phase and counters, its upload and traffic threads | reset, decide, file, approve, sync; `demo agent`; `seed_risk` |
| agents, agentkit, contracts, fixtures, scripts, infra, deck, docs | | | manifests, schemas, deployment |

How they interact, and what makes them hard:

- **Ingestion's handlers are synchronous functions on a thread pool that share
  one SQLite connection.** A handler is a sequence of statements; another
  handler's statements can run between any two of them, and since the connection
  has one transaction, *whichever handler commits first commits everybody's
  writes*. A process that dies keeps what was committed.
- **A decision is check-then-write** over three tables, a demo clear is
  select-then-delete over five.
- **An investigation is a long HTTP call** (600 s timeout) on a pool thread. Its
  result comes back by another way, an MCP call of the agent, so the answer can
  come before, after or without the result, and a restart forgets the caller
  but not the row.
- **The scorer is a cursor over a feed** that is ordered by event time, cut off
  at 1000 events, and from which a demo clear deletes.
- **The collector's post can time out and be carried out all the same**, later,
  and a log line has no identity by which a second post would be recognised.
- **The sync script is a shell script run by several callers** over fixed file
  names, next to a container that restarts by itself.
- **The snapshot collector is started by cron and killed by its timeout.** Its lock
  is a file that a later run takes over when its owner is dead, and what it
  publishes is three files, moved into place one after the other.
- **Trainings and rollbacks share a directory and nothing else**: fixed
  names for the candidate and for the pointer's temporary file.
- **The demo runner drives the whole loop** while the analyst, an agent, the watching
  script and other programs do the same, and it looks at few of the results it gets.

What makes each component correct:

- policy: no destination is denied without an analyst's approval of it; what is
  approved is denied; what is rejected is not; a restart keeps what was
  acknowledged; a demo clear removes the demo's data and nothing else.
- investigations: each ends; none reads as completed without an analysis; an
  analysis is not lost or repeated.
- scoring: every event is scored, in the order of time; what is suspicious is
  reported, a bounded number of times.
- collector: a line is stored at most once, what is counted as posted is stored,
  what is read is counted, and the collector outlives its source.
- denylist: every change of the rules reaches the file and, unless its reload is lost,
  squid; no denial that stands is lifted; squid and ingestion agree about what a rule
  covers.
- detection: a finding rests on several kinds of evidence, the rules outrank the
  model, and what is spread over events is seen.
- snapshot collector: a settled run works alone, readers see whole files in order, a
  merged record says what its sources say, and a dead run's lock goes.
- registry: what is in it passed its gates, and `current` names something.
- demo: what stands in the queue is not proposed again, nothing is proposed unexplained,
  and after an undisturbed sync success means that this run got an upload refused, and
  nothing approved is delivered late.

`PROJECT.json` lists the hazards at their source lines.

## 2. Modules

| module | what it is |
|---|---|
| `PolicyTables` | rows, the database, and one operator per SQL statement |
| `ApprovalLedger` | abstract: each request is one atomic step on the tables |
| `PolicyStore` | the handlers as threads that interleave statement by statement over one shared transaction; crashes |
| `PolicyStore_proofs` | proofs of its invariants, and that with one thread it implements the ledger |
| `Investigation`, `Investigation_proofs` | investigations, the agent, restarts |
| `LiveScoring`, `LiveScoring_proofs` | feed and scorer |
| `DenyMatching` | pure: what a rule denies, to ingestion and to squid |
| `Denylist`, `Denylist_proofs` | the sync script's processes, the files, squid |
| `Collector`, `Collector_proofs` | the access log, the collector, ingestion's end of a post |
| `Detection` | features, rule scores, findings and recommendations of a window |
| `SnapshotRecords` | pure: how a source's entry becomes a record, and how records are merged and chosen |
| `SnapshotCollector`, `SnapshotCollector_proofs` | its processes, the lock, the three files |
| `ModelRegistry` | training, promotion and rollback, file by file |
| `Processing_proofs` | proofs of the invariants of `Detection` and `ModelRegistry` |
| `DemoRun`, `DemoRun_proofs` | the demo runner, its upload thread, and everyone it shares the appliance with |
| `MC...` | small instances of each |

A definition whose name has a suffix after `_` (`Score_CursorAhead`) is a mutant:
a plausible slip in the code that the definition after it translates. Each
property that is checked to hold is paired in `PROJECT.json` with a mutant that
breaks it; mutants appear in no specification.

`PROJECT.json` lists the runs. The further configurations
(`..._v_<name>.cfg`) are small counterexamples, section 13, run in the same way.

Conventions: a `pc` per thread names the statement that comes next; the effect of
a statement, a file operation or a request is one step; an action is named after
the handler and the statement. What a handler has read and uses later is a
variable of its own (`req`, `doomed`, `on`, `got`, `fetched`).

## 3. Policy decisions

`PolicyTables` models the five tables as one record `db` of functions from keys to
rows or `NoRow`. Payload columns, timestamps and texts are left out: no property
tells them apart. A finding is the set of its event ids.

| code | action |
|---|---|
| `add_event`, `put_finding`, `put_recommendation` (upsert keyed by id: new content, old status) | `AddEvent`, `PutFinding`, `PutRecommendation`, then `Commit` |
| `decide`, statement by statement | `DecideSelect`, `DecideCheck`, `DecideStatus`, `DecideDecision`, `DecideRule`, `Commit` |
| `clear_demo_data` | `ClearSelect`, `ClearSelectRecs`, one `Clear...` per `DELETE` that concerns these tables, `Commit` |
| `conn.commit()` and the end of `with conn` | `Commit`: `disk' = db`, for everybody |
| the process dies | `Crash`: `db' = disk`, every handler gone |

The history variable `asked` collects every decision request with the target its
recommendation had when the handler read it. Two of `ClearSelect`'s reads are one
step because nothing in between can be told apart. The tables a clear deletes from
and that nothing here reads (assessments, notes, labels, enforcement results) are
left out.

`ApprovalLedger` is what a reader of the API expects: `Propose`, `Decide`,
`ClearDemoData`, ... each atomic, over one variable `store`. `PolicyStore`
instantiates it with `store <- disk`, so a refinement means that every commit is
one whole request.

| run | instance | shows |
|---|---|---|
| `race` | 2 threads, 1 recommendation, 2 destinations, a demo event | under any overlap, with clears and crashes: `TypeOK`; every rule was approved for that destination by the analyst it names (`HumanApproved`); when nobody is working, everything is committed (`AtRestCommitted`) |
| `serial` | 1 thread, all operations, 2 recommendations on one destination, demo and captured events | the refinement `LedgerImplemented`; `RuleBacked` |
| `v_reject` | 2 threads | what two overlapping decisions break, section 13 |

Beside these, `v_restart`, `v_orphan`, `v_retarget` and `v_clear` show what does not
hold; that without clears no commit or crash leaves a rule without a decision
(`RuleHasDecision`) is proved, section 12.

Two threads and one or two rows suffice for these: each hazard is one handler
between two statements of another; a second recommendation matters only where two
share a destination, a second destination only where one recommendation changes
its target. One thread is not an artificial restriction in `serial`: it is a deployment in which requests do not overlap, and the difference between one
and two threads *is* the result.

Deployments differ in how ids are made. The processing service hashes the window
into the id, so that an id has one target (`SharedTarget`); the HTTP endpoint
accepts any id (`AnyTargets`).

## 4. Investigations

`row[f]` is the status of the finding's investigation (`"none"` for no row); a
thread is at `post_check` or `request_check` after the handler's lookup, at
`start`, `calling` (inside the HTTP call), `reread` or `fail`. A background task is
the same thread going on, which is how Starlette runs it. `abandoned` holds the
findings whose agent is still at work although nobody waits for it any more, after
a client timeout or a restart. `gateway` says whether OpenClaw is configured; it
can change with a restart.

The call ends in one of three ways: it returns; it fails with an `OpenClawError`;
or an exception escapes that the client does not translate
(`http.client.IncompleteRead`). The agent may submit at any moment of the call, or
after it.

`lost` is a history: the findings that a clear removed, or whose call was cut off or
left by a restart, while their investigation ran.

| run | shows |
|---|---|
| `investigation_all` | 2 threads, 2 findings, clears, restarts and escapes, under fairness: `TypeOK`, `OnlyAgentCompletes`, `RunningHasOwner`: nothing but a clear, a cut-off call or a restart leaves a running row without a thread that will settle it; `RunningSettles`: what is not lost in these ways ends |

Fairness: `WF(Work(t))` for each thread. The pool schedules a runnable handler, and
the call itself ends because of the client's timeout; nothing is assumed of the
agent, of requests, of clears or of restarts. `MCInvestigation_v_stuck.cfg` adds `SF`
on an analyst who keeps asking, so that what its trace shows is not mere absence of
requests.

`OnlyAgentCompletes` matters because a call that returns 200 says nothing about
what the agent has done: `_run_investigation` reads the row again, and
`CallReturns_Trusted` is the slip of not doing so.

## 5. Live scoring

`stored` is the events table; `Stamp` gives each event its own time, distinct for
distinct events. `Newest` is what a poll is served (newest `Limit`, oldest first).
A poll from a cursor that is not served is refused with 400 (`PollRefused`).
`Score(e)` is everything the loop does before it posts: window, cursor, detector.
`Assess` and `Report` are the two posts; `PostFails` is a post that ends in
`RuntimeError`, with or without effect on the server (a response can be lost);
`Stops` is an exception that `run` does not catch. The detector is abstracted to
"the window holds a suspicious event", which is what makes one suspicious event be
reported once per place in the window, as in the code.

| run | bounds | shows |
|---|---|---|
| `scoring_full` | 4 events, limit 3, window 2; late events, clears, failures, restarts | `TypeOK`; `WindowChronological` |
| `scoring_steady` | 5 events in order, limit 5, failing posts, under fairness | `NothingSkipped`; `FindingsPerEvent`: a suspicious event is in at most `WindowSize` findings; `EventuallyScored` |

The limit (1000 in the code) is below the number of events in `full`, so that polls
are cut off; the window (20) is below it, so that it slides. In `steady` the limit is
at least the number of events, which is its premise: `MCLiveScoring_v_backlog.cfg`
shows what happens beyond it, and `_v_stopped` and `_v_lost` what the premises of no
uncaught errors and no failing posts are for.

Fairness: `WF(Work)`. The thread polls at every interval and requests have a
timeout. Nothing is assumed about arrivals or failures. `EventuallyScored` holds in
spite of posts that fail for ever, since each failure leaves the cursor further on.

## 6. Denylist

A host is the sequence of its labels. A rule is what was approved: labels, and the
form it was posted in (`lower`, `capitals`, or with a `port`). `IsDenied` is
`store.is_denied`; `Entries` what the script's `VALID` lets through; `SquidDenies`
what a dotted `dstdomain` entry matches (external, from the script's comment and
squid's behaviour it describes).

Each process that runs the script goes through `Fetch`, `Open` (the redirection
truncates), `Write`, `Compare`, then `Remove`, or `Move` and `Reload`. Since a file
that is open keeps its identity when it is renamed, `out[w]` says under which name
the file is now that `w` writes to. `Dies` ends a run at any command, between the move
and the reload too. `w \in Watchers` matters in one place, `MoveFails`: a run by hand
ends when `mv` fails, but in the loop `sync_once || true` disables `errexit`, so the
script goes on to the reload.

`Write` is one step and leaves exactly the list: the order of lines, the header and
torn writes are left out. Since `rules.txt` is ordered by time, an approval that
is repeated can change the order alone and cause one more reload, which changes
nothing here.

A list is `Loadable` when no entry of it is a subdomain of another: the script's comment
calls that fatal, and says that squid then aborts the reconfigure. `Reload` needs such a
list and a squid that is up; `ReloadFails` is every other end of the command, a failing
`docker exec` with squid up included, and it can happen to any reload. A container that
starts (`SquidStarts`) needs such a list too. The history `lost` says that the last list
moved into place was not loaded, because its reload failed or the run died before it,
and that no start or reload has loaded the file since.

| run | bounds | shows |
|---|---|---|
| `denylist_watch` | a watcher whose runs may die at any command, the reload included, and whose `mv` and reload may fail, rules on a domain and on its subdomain, which squid does not load together, stops and starts of squid, under fairness | `SettledIsLoaded`: between runs squid has read the file, unless `lost`; `SquidAndHelperAgree` for six hosts: the domain, sub- and sub-subdomain, another domain, a bare label, a domain that only ends alike; `DenialsStay`, lost or not; `RulesReachSquid`: an approved destination comes to be denied and a withdrawn one to be lifted, or the file has the change and its reload is `lost` |

`withdrawn` remembers what a demo clear has ever taken out of the rules, so that
`DenialsStay` can say that squid stops denying nothing else.

Two processes are the real case: the `--watch` loop, and the demo's reset and enforce
phases (`run.py`, `seed_risk.py`), which call the script themselves. What is checked
and proved of one is broken by two, as `MCDenylist_v_two.cfg` shows. That a lost reload
is never tried again, so that the strict `RulesTakeEffect` is false, is shown by
`MCDenylist_v_reload.cfg`.

Fairness: `WF` on a watcher's `Fetch`, since it loops for ever, `SF` on each of its
other commands, and `WF(SquidStarts)` (`restart: unless-stopped`). `Fetch` stands for
an iteration in which ingestion can be reached, so the assumption is that ingestion
comes back; an iteration in which it cannot ends at once, and changes nothing. A run
may die at any command and the next one starts over; the strong fairness says that
not run after run dies at the same command, nor does `mv` fail again and again. Of the
reload it only says that the command ends, well or not: nothing is assumed of its
success.

## 7. Collector

Lines are numbered as squid writes them. `at` is the next line the source command
puts out, `next` the next one the collector reads: the lines between are in the pipe
and survive the command, which may end at any moment (`SourceEnds`: the squid
container is recreated). `Attach` starts a command, the default `tail -n 0 -F` at the
log's end, or one that reads a file from its beginning, as the tests do.

`post_event` is a request (`Read`) and one of three outcomes: `PostAccepted`,
`PostFails` (any `URLError` or `OSError`: refused, timed out, an error status) and
`PostEscapes` (an `http.client.HTTPException`, which neither clause catches). A
request that was given up may stay with ingestion (`late`) and be carried out later,
after the next lines; `Ingest` is `add_event` up to its commit, which precedes the
answer. `events[l]` counts the events of line `l`; `parse_line` is the set `Records`.
A file is taken to be read with `--no-retry`: without it the collector reads and posts
the same file again every three seconds, and nothing could be said of counts. Log
rotation is left to `tail -F`.

| run | bounds | shows |
|---|---|---|
| `collector_full` | 4 lines, 3 of them records, 2 runs; both kinds of source; restarts of both services | `TypeOK`; `TailStoresOnce`; `PostedIsStored`; under fairness `LinesAreCounted`: what was read is counted in the end, as posted or as dropped |

Four lines allow one in the pipe, one in hand, one late and one not yet logged at the
same time, and two runs a restart between any two of them. `CHECK_DEADLOCK FALSE`,
because a collector over a file ends.

Fairness: `WF(Work)`, the collector's thread; its post ends within five seconds. The
source may end again and again, the log may stop, ingestion may never answer.

## 8. Detection

`Observe` is one turn of the scorer's loop: an event enters the window, the oldest
leaving a full one, and `DetectWindow` makes of it features, contributions, risk,
severity and the verdict whether there is a finding. `Recommend` is `recommend_policy`,
which `demo_live.py` calls; where the code raises it is not enabled.

An event is its destination, its request bytes and its indicators (`signs`): which of
the seven yes/no features its action and attributes give. The features that only the
anomaly model reads (count, distinct destinations, span) are left out with the model,
whose score is any of `Scores`, afresh for each window, or `NoModel`. Risks are counted
in fifths of a point, since the model's score enters with 0.2; the rounding of floats is
left out. `Large` stands for 8886110, the least sum of bytes whose `log1p` is 16.

| run | bounds | shows |
|---|---|---|
| `detection_windows` | every window of up to 4 out of 7 kinds of event; no model, or a score of 0, 50, 99, 100 | `DetectionTypeOK`; `ThreeKindsOfEvidence`; `RulesStayAuthoritative`; `SplitTransferIsSeen` |

The kinds of event contain all eight rules, so that four events reach 105 points, two
halves of a large upload, an upload to the proxy, a count below zero and an event that
shows nothing; 70, 40 and 90 are met from both sides. `RulesStayAuthoritative` says how
far the comment of `pipeline.py:52` goes: a critical finding has 70 points of rules at
least, and rules at the threshold make a finding whatever the model says. It is not that
the rules alone decide on critical: 70 points are high by themselves, and critical with
the model's 20. `ThreeKindsOfEvidence` is what those 20 points come to with a
threshold of 70. The target of a recommendation is the window's *last* destination,
which need not be the one that made the evidence, so that no property is stated of it.

## 9. Snapshot collector

`SnapshotRecords` translates `empty_record`, the three parsers, `merge`, `latest` and
`validate`. A text is represented by the source it comes from and a time by a number,
which is what the merge tells apart; references, CWE ids and affected products follow
the same rules and are left out. A source may list a CVE without a title or a description
(`Titled`, `Described`), whose text then is `""`: a rejected CVE has no English
description, and a KEV entry may lack `shortDescription`. `MergeKeepsEvidence` says which
source each field comes from, and that one without a text takes none away. Unlike the
code, `Latest` is a set: the order inside a
file has no reader here.

`SnapshotCollector` runs several processes over one directory. `lock` is what
`.collector.lock` is: absent, of a dead process, created and still empty, or with a
live process's pid. `acquire_lock` is six steps, because each of its system calls can
be overtaken: `CreateLock`, `ReadLock`, `ProbeOwner`, `UnlinkLock`, `RecreateLock`,
`WritePid`. A source `SourceAnswers` (with the retries of `fetch_url` behind it),
`SourceFails`, or `SourceEscapes` with an error the loop does not catch. Each of the
three files goes through `OpenTemporary`, `WriteTemporary`, `Replace`; a file a process
has open keeps its identity when another renames it (`handle`), and a file two have
written may hold parts of both. `Die` is cron's timeout or a power cut, at any step.

| run | bounds | shows |
|---|---|---|
| `snapshot` | 2 processes, 2 runs, 1 death, 3 CVEs of which each source lists two, room for two records, 2 configurations of two sources with KEV first and last, under fairness | `TypeOK`; `SettledLockExcludes`; `PublishedInOrder`; `MergeKeepsEvidence`; `LockIsRecovered` |

Two runs do overlap in this code, and the run meets it: both can find the same stale
lock, and the second removes the first one's fresh one; the empty lock of a process
between `open` and `write` reads as stale. So exclusion is stated of a run whose pid
was in the lock before another process began (`settled`), and the order of the files of
the time before two runs collected together (`overlapped`). That the third process
would change nothing is proved, section 12. `CHECK_DEADLOCK FALSE`, because no run
starts after `MaxRuns`.

Fairness: `WF(Run(p))`. Requests time out, and cron starts the next run; nobody has to
die. `LockIsRecovered` has to say `runs >= MaxRuns` because of the bound.

## 10. Model registry

A model is what the evaluation sees of it: its scores of the normal windows, sorted,
and of the suspicious ones. `CutoffIndex` is the place `train_bundle` takes its
threshold from, `Passes` the two gates of `promote`. Each file operation is a step:
`copyfile` and `pickle` truncate before they write, so `candidate` and `artifact[v]`
pass through `Torn`. The pointer's temporary file has one name for everybody, so
`handle[a]` follows it through a rename. `Die` ends an actor at any step, which also
stands for a write that fails. `CurrentArtifact` is `current_artifact`, an operator: no
program calls it. What is loaded for scoring is not modelled, and no property speaks of
it: the command line takes any file that `--model` names, ungated ones of
`train-iforest` included, and the service's scorer has no model. `evaluation` and
`report` are written and read by nobody; they are kept because writing them is part of
the handler.

| run | bounds | shows |
|---|---|---|
| `registry` | 2 trainers, 1 operator, 2 versions, a model that passes and one that does not; trainers and versions interchangeable | `TypeOK`; `RegistryIsGated`; `PointerResolves`; `CutoffBoundsFalseAlarms` |

Twenty-one normal windows are the fewest on which the place of the threshold matters.
With two trainers the candidate file that is copied need not be the one whose gates were
computed (`training.py:81`); the history `mixed` says that a training has overwritten it
while another was between its save and its copy, and `RegistryIsGated` excepts what
follows. With two actors that write the pointer together (`crossed`), one can publish the
other's half-written name. Both happen in the run. The versions and the trainers are
declared symmetric: no definition or property tells them apart, and no liveness is
checked here.

## 11. Demo runner

`DemoRun` is the composition: `demo run` or `demo continuous` with its upload thread, the
ingestion store reduced to events, findings and recommendations, squid and its list, the
analyst, `demo agent`, the watching loop of the sync script, `seed_risk`, routine traffic
and a clear by another program. A decision with its rule is one step here; `PolicyStore`
models its steps.

The cycle is `Decide` (the destinations shown to the model, and any answer it may give,
or the fallback's ranking), `ReadProposed` (`already_proposed`, whose reads may fail and
then count as empty), for each row `SkipRow` or `SubmitFinding` and `RecommendPolicy`,
then for `demo run` `ListPending`, `ApproveOne`, the sync, `Stop`, `Result`. The
upload thread is `Attempt`, `Admit` (squid decides once), and `UploadEnds` or
`UploadFails`. Where the code prints a result and goes on, the step has both outcomes.

The runner (`sync_squid`, after its reset and in `enforce`) and the loop run one script.
`sync[p]` is the pass of each: `Fetch` reads the rules, and from then on the pass has the
list of that moment; `Same` ends it without a reload when the file holds that list
already; `Move` puts it into place; `Load` makes squid read what the file holds by then;
`Fail` ends it anywhere, without a reload if it came to the move. The two share the
temporary file, so when both have fetched, `lists` holds the lists of either, and an
empty one, for what may be moved into place; `Denylist` has every command. A stale pass,
a list moved between another pass's move and its reload, and a file that is equal though
squid has not read it are all behaviours of the run.

They make success and denial unreliable, which the two properties about them say:
`alone` holds of a sync of the runner's that no pass of the loop overlapped and before
which squid was not behind its file (`denied = listed`). `SuccessIsThisRuns` is stated of
a run whose reset emptied the store and was followed by such a sync to its end (`clean`);
`NoLateDelivery` of what `enforce`'s sync, being such a one, had squid load (`base`).
Neither assumes anything of what comes *after* that sync: passes of the loop that fetch
at any time, fail or are killed, restarts of squid, approvals and clears. Without the
premise both are false: an older list that a pass of the loop brings back lets an upload
through, or refuses one on an earlier run's account, and a sync beside it ends with 0.

| run | bounds | shows |
|---|---|---|
| `demo` | a pool of one destination, which an earlier run left denied, and one with a history, a model that may also make one up, 2 cycles, answers of 1 row, the newest event kept; for `demo run` 1 upload, 1 pass of the loop beside the runner's two, 1 failing call or clear; for `demo continuous` 2 of these and no upload or pass | `TypeOK`; `OneProposal`; `RecommendationsExplained`; `SuccessIsThisRuns`; `NoLateDelivery` |

A second cycle is what a repeated proposal needs, and only `demo continuous` has one; its
list is synced after the reset only and bears on none of the properties, so that it has no
upload and no pass of the loop here. One pass of the loop is enough to be under way when
the runner's begins, to begin in its midst, or to follow it; failing passes and restarts of
squid are not counted. One failing call is what any of these
needs to go wrong through an error; each property is broken by a mutant within these
bounds. The window of events (1000 in the code) only limits which evidence a cycle sees.
The history `seen` records what the properties need of the past. No fairness is stated,
since no promise of the runner's is of that kind, and `CHECK_DEADLOCK FALSE`, because
programs end.

`OneProposal` is what `already_proposed` achieves and no more: the runner does not propose
what had a recommendation in the queue, of anyone and of any status, when its cycle read
it, unless the read failed. What the agent files after that read, and a destination that
one answer names twice, are proposed twice, in the code and in the model (the latter with
`MaxRows` over 1).

Three things a reader might expect are false of the code and defined at the end of the
module, without a run: `BlockedMeansRefused` (any network error is counted as blocked,
`run.py:173`), `NeverComesBack` (the agent of `demo agent` does not ask what was proposed
before, the runner asks once before it files several, and a read that fails counts as an
empty one, `run.py:111-112`) and
`RoutineStaysOpen` (that the model does not block a destination with a history is asked
of it in words, `llm.py:41-42`, and not checked).

## 12. Proofs

TLC checks the instances above; the following hold for every value of the constants
(any number of threads, findings, events, rules, hosts, processes, models), with the
named assumptions of the modules.

| theorem | states |
|---|---|
| `TypeCorrect` | `PolicyStore`: `Spec => []TypeOK` |
| `RulesAreHumanApproved` | `Spec => []HumanApproved` |
| `AtRestIsCommitted` | `Spec => []AtRestCommitted` |
| `DecisionBeforeRule` | `SpecNoClear => []RuleHasDecision` |
| `SerialStoreImplementsLedger` | with one thread, `Spec => LedgerImplemented` |
| `SerialRulesBacked` | with one thread, `Spec => []RuleBacked` |
| `InvestigationTypeCorrect`, `CompletedByAgent`, `RunningIsOwned` | `[]TypeOK`, `[]OnlyAgentCompletes`, `[]RunningHasOwner`, clears and restarts included |
| `ScorerTypeCorrect`, `WindowIsChronological`, `ScorerSkipsNothing` | `[]TypeOK`, `[]WindowChronological`, `[]NothingSkipped` |
| `FindingsAreBounded`, `SteadyFindingsAreBounded` | `[]FindingsPerEvent` without restarts, with late events and demo clears, and in `SteadySpec` |
| `DenylistTypeCorrect` | `Spec => []TypeOK` for any number of processes |
| `ProperRulesAgree`, `HelperAgreesWithSquid` | for rules in lower case, without port, of two labels or more, helper and squid agree on *every* host |
| `SingleWorkerSettles`, `SingleWorkerKeepsDenials` | with one worker, whose runs die anywhere and whose reloads fail, `[]SettledIsLoaded` and `DenialsStay` |
| `CollectorTypeCorrect`, `PostedLinesAreStored`, `TailNeverStoresTwice` | `[]TypeOK`, `[]PostedIsStored`, `[]TailStoresOnce` |
| `DetectionTypeCorrect`, `FindingsNeedThreeKinds`, `RulesAreAuthoritative` | `[]DetectionTypeOK`; for a threshold over 60 `[]ThreeKindsOfEvidence`; `[]RulesStayAuthoritative` |
| `SnapshotTypeCorrect`, `EvidenceIsKept`, `SettledRunsAlone`, `FilesAppearInOrder` | `[]TypeOK`, `[]MergeKeepsEvidence`, `[]SettledLockExcludes`, `[]PublishedInOrder`, for any processes, sources' entries and configurations |
| `RegistryTypeCorrect`, `PointerAlwaysResolves` | `[]TypeOK`, `[]PointerResolves` for any number of trainers and operators |
| `RegistryHoldsGatedModels` | `[]RegistryIsGated` for any number of trainers and operators |
| `SplitTransfersAreSeen` | `[]SplitTransferIsSeen` for any window, limit and counts of bytes |
| `FalseAlarmsAreBounded` | `[]CutoffBoundsFalseAlarms` for any number of normal windows and any scores |
| `DemoTypeCorrect` | `DemoRun`: `Spec => []TypeOK` for any catalog, answers of the model, leftovers, cycles, uploads, passes and troubles |
| `NothingProposedTwice`, `EveryProposalIsExplained` | `[]OneProposal`, `[]RecommendationsExplained` |
| `SuccessIsReal`, `NothingIsDeliveredLate` | `[]SuccessIsThisRuns`, `[]NoLateDelivery` |

How they go:

- *HumanApproved* is not inductive: a rule is written from what a handler
  remembers. The invariant adds that a handler between its lookup and its rule
  holds a request that is in `asked`, and that past the check of the verdict only
  an approval is on its way to `rule`. `asked` only grows, and a commit or crash
  copies one of the two databases onto the other.
- *RuleHasDecision* needs that a handler at `rule` has its decision in `db`, which
  nothing deletes without demo clears.
- *The refinement* goes through an invariant that describes, label by label, by how
  much `db` is ahead of `disk`: exactly the writes of the statements before. Then
  `Commit` is the ledger's step, and every other step, a crash included, changes
  nothing committed. With two threads the invariant is false, and so is the
  theorem.
- *RunningHasOwner*: a thread at `calling` may find the row no longer running; what
  has to be excluded is a running row whose thread has left without settling it.
- *WindowChronological* needs that the last event of the window is the cursor, and
  that what remains of the batch is later than it.
- *NothingSkipped* needs that what was fetched and not yet scored is all that lies
  between the cursor and the end of the batch.
- *FindingsPerEvent*: the window of a scorer that has not restarted is a run of what has
  been scored, without a gap, and full unless it reaches back to the first event; later
  events leave a run one, so every finding is one. Two runs over an event with equally
  many events from it on are the same run, so this count maps the findings over an event
  one to one into `1..WindowSize`. `Limit` plays no part, since events that a poll leaves
  out are not scored.
- *SettledIsLoaded* needs that a single worker writes to the file it has opened
  (`out`), which is false as soon as two share it; and that between the move and the end
  of the reload the run is at `reload`, which it leaves with squid up to date or `lost`.
- *DenialsStay*: but for what has been withdrawn, what squid has read is in the file,
  and the file is contained in what the run on its way has fetched and in the rules.
- *TailStoresOnce*: a line still to be read has neither an event nor a request, and a
  request that waits, given up or not, is the only one of a line without an event.
- *ThreeKindsOfEvidence*: a detection is always that of the window with some score, and
  any two contributions give at most 40 points, to which the model adds 20.
- *SplitTransferIsSeen*: both byte counts are folds, and a fold is a recursive function
  that the provers know nothing of until there is shown to be one (`SumExists`). That the
  larger addends have the larger sum (`SumsOrdered`) is an induction over the window,
  which goes without a schema: among the places up to which it could fail there would be
  a least one (`LeastNatural`).
- *MergeKeepsEvidence* is closed under merging once it is stated of the empty record
  too; each parser has a lemma of its own, and every file and every run holds merged
  records only. The order of the sources does not matter for the listing and the severity,
  which one source sets, nor for the title, which two set in a fixed rank; of the
  description only that KEV's gives way to any other.
- *SettledLockExcludes*: a settled run's pid is still in the lock, and every other
  process is idle, about to find the lock there, or about to probe that very pid.
- *PublishedInOrder*: the run that collects alone has the highest number, has published
  the files before the one it is at, and the temporary file it has open is its own.
- *PointerResolves*: whoever is on its way to the pointer has an artifact behind the
  name, and before two of them cross, the temporary file is absent, torn or holds the
  name of the one that is about to move it.
- *RegistryIsGated*: from its save to its copy, the candidate is a training's own model,
  as long as nothing is `mixed`, and from the gate to the copy one that passed.
- *CutoffBoundsFalseAlarms* is arithmetic on `CutoffIndex` and the cardinality of an
  interval: behind its place lies less than a twentieth of the scores.
- `DemoRun` has thirty-seven actions, so its steps are first summed up by what they do to
  each part of the state: to the queue (`QueueSteps`, `WhoFiles`, `RulesSteps`), the
  findings (`FindingsStay`), the history (`HistoryGrows`, `LoadSteps`), the program
  (`RunnerFiles`, `RunnerSteps`), the upload (`ThreadSteps`, `UploadSteps`) and the list
  (`RunnerSyncs`, `LoopOrSquids`). The invariants rest on these summaries, beside the
  types.
- *OneProposal* needs that between `ReadProposed` and the next cycle `plan.handled`
  still covers what was in the queue at the read (`HandledKnown`): a decision keeps the
  destination of a recommendation, a clear only takes recommendations away, and what
  is filed after the read carries the cycle in `read`.
- *RecommendationsExplained*: whoever is between the two calls has its finding in the
  store or in `wiped`.
- *SuccessIsThisRuns* and *NoLateDelivery* rest on `SyncInv`, which follows the runner's
  pass: as long as it is `alone`, no pass of the loop has anything in hand, and squid has
  read the file or the pass is about to make it. After the sync of the reset, every list
  that squid has read, the file holds or a pass carries was fetched since, so it holds only
  what has been approved since (`PassWithin`, `ListsStep`); and a count of blocked uploads
  comes from a refusal or a network error. After that of `enforce`, every one of them
  contains `base`, because every later pass fetches rules that contain it and only a clear
  takes rules away (`BaseKept`, `BaseLoaded`); so an upload begun later is not admitted.

Only model-checked: everything under fairness (`RunningSettles`, `EventuallyScored`,
`RulesReachSquid`, `LinesAreCounted`, `LockIsRecovered`), because TLAPS reasons about
neither fairness nor `ENABLED`. Every invariant and action property of the passing runs
has a theorem. No module here uses a RECURSIVE operator.

## 13. Where code and documents disagree

Each of these configurations has one property, taken from a test, a comment, a
docstring, an assertion or a document, and ends in a counterexample. The first is a run
of `PROJECT.json`, whose finding quotes the line in full.

| run | what happens | what says otherwise |
|---|---|---|
| `v_reject` | an approval and a rejection overlap; both succeed, and the destination of a rejected recommendation is denied | `ingestion/tests/test_app.py:325` |

The others:

| configuration | what happens | what says otherwise |
|---|---|---|
| `MCPolicyStore_v_restart` | another request commits half of an approval, the process dies: the decision is recorded, the rule is not, and asking again changes nothing | `ingestion/tests/test_app.py:315`, `[r["destination"] for r in rules] == ["evil.test"]` of an approved recommendation |
| `MCPolicyStore_v_retarget` | an approved recommendation is posted again with another target, which now is an approved policy nobody approved or enforces | `docs/modular-implementation-plan.md:486`, "Only predefined, analyst-approved policy actions reach the infrastructure adapter." |
| `MCPolicyStore_v_clear` | a demo approval takes over the rule row of a captured one; the demo clear deletes it | `ingestion/app.py:307`, "Remove synthetic demo records without touching captured production data." |
| `MCPolicyStore_v_orphan` | a demo clear passes a decision in flight; its rule is inserted afterwards | `README.md:53-55`, demo cleanup removes "rules derived exclusively from those events" |
| `MCInvestigation_v_stuck` | a restart or a truncated response leaves the row running for ever | `ingestion/tests/test_app.py:476-480` |
| `MCInvestigation_v_twice` | two starts overlap; a completed investigation goes back to running | `ingestion/tests/test_app.py:491`, `openclaw.calls == ["finding-001"]` |
| `MCInvestigation_v_lost` | the call fails after the agent has submitted; its analysis is overwritten | `ingestion/app.py:177`, "Persist the local security agent's analysis for a finding." |
| `MCLiveScoring_v_stopped` | a connection reset while the answer is awaited ends the scorer's thread | `processing/live.py:80-81`, "the scorer resumes on the next interval rather than losing its worker thread" |
| `MCLiveScoring_v_lost` | the cursor has moved on when the finding's post fails | the same lines |
| `MCLiveScoring_v_backlog` | a cursor that is too old is refused for ever | `docs/modular-implementation-plan.md:157`, "Poll new canonical events for the MVP" |
| `MCDenylist_v_two` | two runs of the script share the temporary file, whose content moves into place after the reload that was meant for it | `docs/exfiltration-protection-architecture.md:283`, "The worker then safely validates and reloads Squid." |
| `MCDenylist_v_reload` | a reload that fails, or is not reached by a run that is killed, is never tried again | the same line |
| `MCDenylist_v_port` | a destination with its port is never denied | the same line, and `ingestion/tests/test_app.py:98`, "`uri` of a CONNECT reduces to the destination the rules key on." |
| `MCCollector_v_replay` | a file read a second time is stored a second time, since ids are random | `docs/epics/2jb-ingestion.md:57-59`, "Stable event ids derived from record content are what make replay safe" |
| `MCSnapshotCollector_v_prior` | a run starts from empty records (`vulnerability_collector.py:379`), so what a source that fails had given is gone from the snapshot | `infra/openclaw/promptlog.md:24`, "preserve prior records during partial source failures" |
| `MCModelRegistry_v_rollback` | every training promotes under the version `isolation-forest-001`, so the second overwrites the first and there is nothing to roll back to | `docs/exfiltration-protection-architecture.md:342`, "Every promoted model is versioned and supports rollback." |

`SquidAndHelperAgree` is checked and proved for rules in lower case of two labels or
more: of a bare label, or with capitals, helper and squid do not agree, against the
docstring of `is_denied` (`ingestion/store.py:870-871`).

## 14. What is not modelled

- The numerical models, their training and the synthetic data: real numbers and
  third-party code. What is evaluated, gated, saved and loaded of them is in
  `ModelRegistry`.
- The dashboard: a page over polled data, with state no other component reads. Its
  hazard, a slow answer that is shown in another incident's drawer, is listed.
- The vulnerability feed (one cache behind one lock, read by a page), telemetry, and
  the tables beside the decision path (notes, labels, enforcement results, snapshots,
  CVE policies): single-statement writes and reads.
- `processing/cli.py`, `demo_live.py`, the scripts that seed or generate events, the
  scripted anomalies of `demo simulate` and the sink they reach: sequential programs
  over the interfaces that are modelled.
- Deployment (compose, ansible, LiteLLM), contracts, fixtures and their validators, and
  the agents, which so far load a manifest and answer health checks.
- `check-policy`: it is not deployed, and its answer is `IsDenied`.
- Of the modelled parts: texts, timestamps of rows, HTTP validation, tables nothing
  reads back into the loop, writes of the sync script that are cut short, SQLite's own
  locking errors, and in `DemoRun` the coincidence of event ids that `seed_risk.py:107`
  may make up.

## 15. Plan

What is modelled first was chosen by what the system is for: decisions, then what leads
to them and follows from them. What is left, in this order:

1. `Dashboard`: the incident drawer, whose callbacks set state after awaits, and the
   polling hook, which is torn down and set up again while loads are in flight.
   Promise: what is shown and decided belongs to the incident that is open.
2. `VulnerabilityFeed`: cache, lifetime, lock, and the CVE policies beside it. Promise:
   an answer is no older than it says, and requests do not fetch at once.
3. `Egress`: the composition finding, recommendation, decision, rule, file, squid,
   refining an abstract `ApprovedEgress`; `DemoRun` has its parts as single steps.
4. Proofs: `ApprovedEnforced` for ids that keep their target.

## 16. Running it

```
tlc -workers 2 -config MCPolicyStore_race.cfg MCPolicyStore.tla
tlapm PolicyStore_proofs.tla
```

Each run in `PROJECT.json` names its module and cfg. Most runs take seconds,
`snapshot` and `demo` one to two minutes, the proofs under a minute each.
