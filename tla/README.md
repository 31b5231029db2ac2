# TLA+ models of Vestigo

Vestigo is a log-investigation server: analysts upload evidence files into
cases, the server parses them into events, derives fields, and answers queries
and detectors over them. This directory holds TLA+ modules translated from its
backend (`src/src/vestigo/`), the TLC runs that check them on small instances,
and proofs checked by TLAPS. Everything below refers to that backend unless a
path says otherwise.

## 1. The system

One process (FastAPI on one asyncio loop, blocking calls in worker threads)
over three stores and a disk:

* **Postgres** - metadata: cases, sources, timelines, run markers, staged
  enrichment rows, provenance, field statistics, caches, stories, audit;
* **ClickHouse** - events, one partition per (case, source);
* **Qdrant** - vectors; **disk** - retained originals, one file per hash.

What lives in memory (jobs, run slots, locks, scan gates, event queues, login
counters) is gone after a restart; what is in a store is not. There is no
transaction across stores, so every operation that touches two of them is a
sequence of steps that a crash, an exception or another request can split.

### Inventory

| Component | State | Operations | What is hard | What makes it correct |
|---|---|---|---|---|
| Enrichment jobs (`enrichers/jobs.py`, enrichment routes of `api/routers/cases.py`) | run slots, apply locks, markers, staged rows, provenance, scratch tables, partitions | run, automatic trigger, resume, boot recovery, re-run, apply, cleanup | check-then-claim across awaits; rewrite of a partition from a snapshot; crash or failure between any two of a dozen steps; source deleted meanwhile | one owner per slot; applies exclusive per source and per job id; staged work never lost; provenance true of the events |
| Source lifecycle (`api/routers/cases.py`, `core/retention.py`, `ingestion/pipeline.py`, `api/main.py`) | source row and status, partition, retained file, interrupted ingests | upload, register, ingest, roll back, delete, reconcile at boot | two stores and a disk without a transaction; the file is shared by hash; recovery runs while the app serves | visible sources are complete; failures leave nothing; originals stay; nothing stays "ingesting" |
| Field statistics and caches (`db/field_stats.py`, `db/analysis_cache.py`, `db/viz_cache.py`) | rows keyed by source or fingerprint | compute on a miss, refresh, purge, evict | a fill that is overtaken by a rewrite | a row of the current version describes the source |
| Scan admission (`db/_scan.py`, `api/scan_exec.py`) | three semaphores, waiting counters, cancel flag, ClickHouse query ids | wait by polling, acquire, release, cancel, kill, divide the memory budget | cancellation racing admission; nested gated scans; the thread pool full of waiters; the gates share one budget | slots match the work they are held for; waits end; a KILL gets out; what is admitted fits the budget |
| Job store (`core/jobs.py`) | jobs and their status | create, create under a cap, update, evict | cap checked against concurrent creators; eviction of finished jobs only | active jobs are never evicted; the cap holds |
| Event bus (`core/events_bus.py`) | subscriber queues (100) | publish, subscribe | slow subscriber | one subscriber never blocks or starves the others |
| Converters (`converters/job.py`, `converters/runner.py`) | script rows, attempt trails, sources, the one retained copy of a raw file | generate and repair, version, accept, run, register, fail | concurrent jobs over one raw file and one script; races for a version number; the clean-up of a copy others count on; failures of the record of a failure | one source per script and raw file; an acceptance is final; what was sent and what became of it is on record |
| Column recommendations (`columns/jobs.py`, readers in `api/routers/cases.py`) | claim and dirty mark in memory, payload in the timeline row | schedule, read, place a marker, answer, undo, re-run; settle at boot and by readers | a burst of triggers collapses into one job; a crash leaves "running" in the row | no trigger is lost; an answer is not taken away nor dated wrongly; "running" ends |
| Agent turns (`api/routers/agent.py`, `agent/`) | conversation row with a history, turn reservations, cancel events | send, checkpoint, re-run after an overflow, stop, fail, complete, delete | reservation taken and pruned around streams nobody may start; writes of a turn that was overtaken | one turn at a time; interrupted work is stored; a stop reaches its turn; no lock for ever |
| Stories (`stories/`) | blocks, exports | edit, embed, export | concurrent edits of the order | order is a permutation; exports are frozen |
| Demo case (`core/demo_case.py`, `demo/`) | seed claim, counter | claim, seed, release | two first requests | one demo case per user, the cap holds |
| Login back-off (`core/login_backoff.py`), sessions, OIDC (`api/routers/auth.py`) | counters, sessions | attempt, expire | clock and concurrency | delays grow and reset |
| Runtime settings (`core/runtime_settings.py`) | overrides | load, set | reload during use | effective value is override else environment |
| Sigma rules (`sigma/runner.py`) | hits in a bounded queue between the scan and its writer, rule outcome | scan, annotate, finish | the writer fails while the scan is blocked on the queue, holding a slot | a rule is "evaluated" only with all its hits |
| Value-inventory export (`api/routers/events.py`, `db/queries.py`) | the export slot, a stream | admit, audit, stream, drain | a response that is dropped before its first row; a download at browser speed | the heavy slot is back before the first row is sent; the export slot has an owner |
| Dispositions, detectors (`anomaly_stats`), queries, visualisations | result rows | run, dispose | numeric code over ClickHouse SQL | results follow their definitions |
| Import and export (`transfer/`) | archives, new case | export, import, undo a failed import | failure half way | an import is whole or absent |
| Parsers, CLI, frontend | - | - | - | out of scope |

## 2. Modules

| Module | What it is |
|---|---|
| `Enrichment` | the enrichment subsystem, its races with deletes and field-stats readers, crashes and failures |
| `EnrichedEvidence` | what enrichment promises about the events, with no jobs, locks or staging |
| `EnrichmentInvariant` | the inductive invariant of `Enrichment`, in named parts |
| `Ingest` | upload, ingestion, rollback, retention, delete, boot reconciliation |
| `ScanBudget` | the division of the memory budget as operators |
| `ScanGate` | admission, cancellation and KILL of scans, the export stream, the rule queue |
| `ColumnJobs` | the column recommendation of one timeline |
| `AgentTurns` | the turns of one conversation |
| `ConverterJob` | the jobs that convert one raw file |
| `XProofs` | the theorems about `Enrichment`, `Ingest`, `ScanGate`, `ColumnJobs`, `AgentTurns` and `ConverterJob` |
| `EnrichmentRefinement` | the proof that `Enrichment` implements `EnrichedEvidence` |
| `EnrichmentOutcomes` | the proofs of what a reader finds: provenance rows that are true, statistics that are looked after |
| `MCX` | instances of the same six modules for TLC |

Conventions shared by all of them. An action is the code from one await (or, in
`ScanGate`, one blocking call) to the next, with all it changes. `pc` names the
step that comes next. Failures, crashes and deletes are actions of their own
that may fall between any two steps; `fails`, `faults`, `crashes`, `restarts`,
`deletes` count them and the `Max...` constants bound them (`Enrichment` keeps
`withdrawn`, the set of sources somebody asked to delete: a delete that failed
may be tried again). A crash resets what the process keeps in memory and keeps
what a store keeps. Operators named
`<definition>_<Change>` are deliberate defects, listed under `mutants`: with the
definition replaced by one of them the named property fails, which shows that
the property depends on that code. No specification uses them.

### Enrichment

A task is a coroutine: a request handler that becomes a job, a resume, or one
turn of boot recovery. `task[w].pc` is the await it is at:

| Code | Actions |
|---|---|
| `run_timeline_enricher` | `RunTimelineEnricher` (early slot check), `CheckUnfinished` (409 on a marker), `PlanAndClaim` (provenance skip, then `try_claim_enricher_run` and spawn with no await), `RefuseRun` |
| `_trigger_automatic_enrichments` | `TriggerAutomatic`, `AutoCheckUnfinished`, `AutoClaim` |
| `run_enrichment_job` | `StartJobRun`, `FailToStart`, `OpenSource`, `ReadBatch`, `StageBatch`, `FinishSource`, `MarkSourceStaged`, then the apply, `FinishJobRun`, `ReleaseRun`; its `except` is `Fail` (kind `run` becomes `cleanup`) |
| `_apply_staged_rows` | `ListStagedSources`, `LockSource` or `SkipDeletedSource`, `StageRows`, `BuildCopy`, `ReplacePartition`, `RecheckSource`, `DropResurrected`, `RecordSourceEnrichment`, `DeleteStagedRows`, `RefreshFieldStats` |
| `resume_timeline_enricher`, `run_resume_job` | `ResumeTimelineEnricher`, `ClaimResume`, then the apply |
| `reconcile_orphaned_enrichment_jobs`, `schedule_enrichment_reruns` | `ListOrphans`, `ReconcileOrphan`, `SkipOrphan`, `Rerun`, `SkipRerun` |
| `delete_source` | `DeleteSource`, `DropSourceEvents`, `DeleteSourceRow`, `AbortDelete` (502) |
| `ensure_source_field_stats` | `ComputeFill`, `StoreFill` |

A source is a set of batches of events; a partition maps each batch to the data
version that derived the enricher's keys on it, 0 for none. `Resolves` says
which batches a version derives a value for. `Merge` is the
`mapFilter`/`mapUpdate` select of `finalize_enrichment_apply`: it strips the
enricher's keys from *every* event and adds the staged ones. A field-stats row
is `none`, `fresh`, `stale` or `reported`: stale, with the audit row
`source.field_stats_stale` to say so. It becomes that when the refresh fails and
the compensating delete fails as well (`StatsAfterFailure`); readers trust it
like any other.

`EnrichedEvidence` has four steps. `Enrich`: the keys of one enricher on one
source are replaced, in one swap, by what one version derives for some of the
batches. `Certify`: a provenance row is recorded that is true when it is
written. `Withdraw`: the delete of a source is requested; from then on nothing
is promised about that source (an apply under way may bring its partition
back), but `Disturb`, all that may happen to it, touches no other source.
`Enrichment` implements it with the provenance row mapped to the version its
job had pinned.

Left out: an enricher that is unknown or unavailable; all other audit rows
(`record_audit` swallows its errors and nothing reads them back); how many of
the three tries of the compensating field-stats delete fail; creation, drop and sweep of scratch tables (a
failing call is `Fail`); Qdrant. `RefreshFieldStats` is one step: under the
apply lock only a delete could come between its two halves.

### Ingest

An upload is one coroutine that registers a source and then becomes its job.
`Handler` is the map from the step that raised to the code that catches it. The
four steps that take a source out again - drop the partition, delete the row,
ask `source_hash_in_use`, unlink the retained file - are shared by the rollback
of a job, the rollback of a registration and the boot reconciliation (`Undo`),
as they are the same calls in the code. `kept[h]` is `partial` while
`shutil.copy2` writes across file systems.

Left out: parsing and hashing; the isolated steps after a source is ready
(field statistics, columns, automatic enrichment), which cannot fail the job;
references to a retained file by converters (they are in `ConverterJob`);
embeddings; deletion of a case.

### ScanGate and ScanBudget

A scan is one caller, of one of six kinds: a chart, a sweep or a field-stats
fill for a request, a heavy scan of a job, the scan of a Sigma rule, an export.

| Code | Actions |
|---|---|
| `run_scan` (`api/scan_exec.py`) | `Submit`, `TakeThread` (a token of the one thread pool), `Cancel` (the client leaves), `Unwind` |
| `acquire_scan_slot` (`db/_scan.py`) | `Try`, `Acquire`, `PollAgain`, `GiveUp`, `Expire` (the bound of a chart or a fill) |
| the gated scan | `StartQuery`, `FinishQuery`, `FailQuery`; two queries one after the other |
| `kill_scan_queries`, `_kill_detached` | `KillScanQueries` (on a thread outside the pool), `FailKill` |
| `export_field_inventory`, `_stream_field_inventory` | `AcquireExportSlot`, `AuditExport`, `DropResponse`, `StartDownload`, `ReadFirstBlock` (the heavy slot goes back here), `EndDownload` |
| `_stream_rule_hits`, `_scan_and_annotate` | `ReadHits`, `Put` (blocks on a full queue, gives up on the stop event), `Finish`, `Take`, `Annotate`, `FailAnnotate` |

`holds[g]` is who holds a slot of gate `g`, `waiting[g]` is the counter of the
code, which is kept next to it and not derived from it. `ScanBudget` is
`resolve_clickhouse_ceiling`, `scan_memory_ceiling`, `detect_scan_memory_budget`
and `detect_foreground_memory_budget`: the limit found among the settings and
facts, less the caches, the divisor over both gates, the floors.
A download that drains has given its heavy slot back and still runs a query with
a heavy cap: `Used` counts it, the divisor does not. `NoLimit` and `DefaultRatio`
stand for the constants of `resolve_clickhouse_ceiling`.

That a gated scan never calls another gated one is a convention about which
functions carry the decorator. It is taken as given, like the rest of the call
graph, and not checked: `StartQuery` needs no slot beyond the one its scan holds.

Left out: thread widths, spill thresholds, the budget report; several rules one
after the other; the SQL.

### ColumnJobs

Jobs are numbered as they are created; a payload in the timeline row carries
its status, the columns, the job and sources they were derived from, the job of
a placeholder, and the date the code carries forward, as the number of the job
it stands for.

| Code | Actions |
|---|---|
| ingestion hook, request | `BecomeReady`, `ScheduleForSource`, `Ask`, each through `Spawn`/`FailToSpawn` (claim, or mark when the claim is taken) |
| `run_column_recommendation_job` | `ReadTimeline`, `ClearMark`, `ListSources`, `KeepAnswer`, `StoreInsufficient`, `StorePlaceholder`, `StoreAnswer`, `RecordAudit`, `FailJob`, `CheckPlaceholder`, `RestorePrevious`, `FailRestore`, `Release` (gives the claim back and runs again on a mark) |
| boot | `Crash`, `Boot` (`clear_stale_running_recommendations`) |
| `get_timeline`, `_settle_dead_recommendations` | `ReadPayload`, `JudgePayload`, `SelectRunning`, `UpdateSettled` |
| the rest | `DeleteSource`, `DeleteTimeline`, `Evict` (a finished job leaves the job store) |

The history variable `overtaken` marks the one case in which a reader that
settles commits a row older than the answer of a later job. Scoring is: do the
sources that were listed include one that suggests columns (`Telling`)? Left
out: the opt-in model call, and the command line, which runs the job in another
process.

### AgentTurns

| Code | Actions |
|---|---|
| `send_message` | `SendRead` (the conversation), `Reserve` (`turn_is_active`, then the reservation) |
| `_message_stream` | `Start`, `NeverStart` (the client left first), `Release`, `Drop` |
| `_message_stream_inner` | `BeginAttempt`, `Checkpoint`, `Stop`, `FailWrite` (the write of either raises), `Overflow` (the re-run with a fresh recorder), `Answer`, `StoreHistory`, `Fail`, `Finish` |
| others | `Look` and `CancelTurn` (both prune), `Age` (the limit of a reservation passes), `Delete`, `Crash` |

A history is a sequence of turns, each with the attempt and the revision its
work stands at; `conv.partial` is `history_partial_at`. `rec.saved` is
`persisted_revision`: the revision *marked* as stored, which the code does
before it writes. After `FailWrite` the stage is `failing`: the except branch
has still to run and finds nothing due. Left out: texts, tools,
window budgets, the transcript (append-only), and proposals.

### ConverterJob

All jobs convert one raw file. A generation has a script written for it, a
reuse runs a saved one; they meet in the script rows (with their names and
version numbers), the attempt trails, the sources and the retained copy.

| Code | Actions |
|---|---|
| `_generate_loop` | `StartGeneration`, `ModelUnavailable`, `ModelError`, `DraftArrives`, `RetainForRow`, `CreateRow` with `AskAgain` (the version was lost to another job), `Bind`, `Judge`, `GiveUp` |
| `regenerate_case_converter` | `Regenerate` |
| `run_convert_ingest_job` | `StartReuse`, `Run`, `Reject`, `Accept`, `KeepRaw`, `Register`, `IngestSucceeds`, `IngestFails` |
| its handlers | `Fault`, `RecordFailure`, `LoseRecord`, `AskInUse`, `Unlink` |
| others | `Restart` (with `fail_stale_converter_generations`), `RemoveOrphan`, `DeleteSource` |

What the model writes and how a script fares are choices: a draft is good or
bad, a run succeeds or fails. The ingestion of the product is `Ingest`, here one
of two outcomes. `CreateRow` asks for a new version as often as it loses one;
that the code raises after the eighth is one of the raises of `Fault`, which may
befall a job at that step whatever it lost before. `raced` marks that a failing job unlinked the copy between
another job's finding it and its referring to it.

## 3. Runs

| Run | Instance | Question |
|---|---|---|
| `enrich_recovery` | 2 sources, 2 batches, 2 jobs, 2 tasks, 1 failure and 1 crash, or 1 delete | slot ownership, no stranded staging, the inductive invariants (`ScansAreWhole`), refinement of `EnrichedEvidence` |
| `enrich_shared` | 2 timelines sharing a source, 3 jobs, 2 data versions (the second resolves less), a stats reader, no failure | applies are exclusive and provenance is true |
| `enrich_failures` | 1 source, 2 jobs, one fault (failure, crash or delete), fairness | slots come back, markers are cleared, rows of a deleted source are discarded; outdated statistics are refreshed, dropped or reported |
| `enrich_v_partial` | 1 failure | **violated**: provenance after a failed re-run |
| `ingest` | 2 uploads of the same bytes to 2 cases, linked or copied; 1 failure, 1 crash, 1 delete, fairness | visible sources are complete, no events without a row, no source stays "ingesting", orphans are tried one by one |
| `ingest_v_recovery` | 1 crash | **violated**: recovery removes an ingest of the new process |
| `ingest_v_retained` | 1 failure | **violated**: a ready source whose original was unlinked |
| `scans` | 3 scans in five mixes, gates of 1 slot, 2 threads, 2 queries, 3 batches, a queue of 1, 1 failure, fairness; six budget settings | accounts of the gates, budget, complete rules; waits end, KILLs get out, stopped producers let go |
| `columns` | 2 sources (one suggests columns), 3 jobs, 1 request, 2 failures, 1 crash, fairness | claims and marks, dates, surviving answers, every ready source covered, "running" ends |
| `agent` | 2 turns, 2 checkpoints per attempt, 1 expired reservation, 1 restart, a delete, fairness | reservation, partial flag, interrupted work, stops, completions, locks |
| `agent_v_lost` | 2 turns, 1 checkpoint | **violated**: every completed turn is in the history |
| `convert` | 2 generations, 1 reuse, 1 saved script, 2 attempts, 1 fault, restart or delete, fairness | one source per conversion, fair judgement, records, the retained copy, final acceptance, "generating" ends |

**Why the bounds are enough.** The hazards are pairwise: two actors over one
slot, source, file, row or gate, or one actor against a delete, a reader or
recovery. Two actors and a third where two must finish before another begins
(three jobs in `enrich_shared` and `columns`, three scans, three converter jobs)
reach each of them. One or two batches are "some" and "all" of the events; a
gate of one slot is full with one scan, two threads are full with two, and a
queue of one is full with one batch while another is in hand. `enrich_recovery`
explores failures with crashes, and deletes without either (`DeletesAlone`): all
three together are beyond its time, and the theorems of section 4 have no such
bound. A fault can fall
at every step; two failures are allowed where a clean-up can fail too and the
code has an answer to it (`columns`). Two attempts are a first draft and its
repair; two checkpoints are one that is stored and one that the throttle or an
equal revision skips. The mixes of `scans` are those in which kinds contend:
sweep with charts (two gates), with a sweep and a fill (one gate, a bound),
with a job and a rule (no client to leave, a queue), with two exports (the
third gate), with a chart and an export (all three). Its first scan is `Endless`: only a KILL ends it, so that liveness
does not rest on the scan in front being short. Counters that the code leaves
unbounded (revisions, numbers of jobs, ages) are bounded by the constants named
in each module; TLC explores every behaviour within them to its end.

**Symmetry** is used in safety runs only; `enrich_shared` leaves out the sets
that `ResolvesLessLater` chooses from. `RecoveryView`
of `enrich_recovery` leaves out what no step of that instance reads any more:
the field statistics (it has no reader) and scratch tables outside an apply.
**Deadlock** is checked in the
enrichment runs, where a request is always possible; elsewhere every upload,
scan, turn or job may be over, which is the end of the behaviour
(`CHECK_DEADLOCK FALSE`), and the liveness properties say what may not hang.

**Fairness.** asyncio runs every task that is scheduled, and the calls they
await return or raise, so a task's own steps are weakly fair. What is not owed:
requests, deletes, failures, crashes, a client that leaves.

* `Enrichment`: weak for `Handle`, `Scan` and `Apply` of each task; strong for
  `Recover`, one background task that here has to find one of the two `Workers`
  idle, a bound of the model.
* `Ingest`: weak for each upload's `Work` and for `Recover`.
* `ScanGate`: weak for `Proceed` of each scan as a whole (threads run, time
  passes, a query that can end does), for the KILL, whose thread is its own, and
  for the writer of a rule. Nobody is promised a thread or a slot: another
  caller may always take the token first, and polling again satisfies the
  fairness of a caller at a full gate. Starting and ending a download is the
  client's and not owed.
* `ColumnJobs`: weak for each job, for the hooks of ingestion, for the boot
  sweep and for `Read`: an explorer that shows "running" polls.
* `AgentTurns`: weak for the steps of a turn, for time (`Age`) and for `Look`:
  a conversation is read before it is written to again.
* `ConverterJob`: weak for jobs that have started; whether a generation is
  asked for at all is not owed.

**Exceptions stated in properties.** Some properties hold except where the code
gives up something knowingly or where a hazard of its own is listed:
`Undisturbed` in `Ingest` (no crash, no delete, one failure: with a delete in
flight, events may stay); `withdrawn` in `Settled` and `StaleStatsAreRefreshed`
(a source whose delete was requested, see below), and `crashes` in the latter (a
crash between the delete of the staged rows and the refresh); `Overtaken` in `AgentTurns` (a reservation expired
under a running turn, which the comment on `_turn_stale_after` accepts);
the stage `failing` in `InterruptionsKeepTheWork` (the failed write of a
snapshot) and one heavy cap in `OneDownloadAboveTheBudget` (a download that
drains), both described below; `reported` in `StaleStatsAreRefreshed`;
`overtaken` in `ColumnJobs` and `raced` in `ConverterJob` (see above);
`Unpublished` (a flush that fails before the row's id is known to its job) and
`fails > 0`, `fails > 1` in liveness (a clean-up that fails as well).

### What the violated runs show

* `enrich_v_partial` - a source was enriched completely; a later forced run
  fails after staging part of it. The cleanup applies that part: `Merge` strips
  the enricher's keys from all events and puts back the staged ones. The
  provenance row of the first run stays and still matches, so later runs skip
  the source.
* `ingest_v_recovery` - the boot reconciliation lists "ingesting" sources
  after the server has begun to accept uploads; one of those is taken for an
  interrupted ingest and removed under its running job.
* `ingest_v_retained` - upload B finds the retained file of A and keeps it; A
  is rolled back, nobody else refers to the hash yet, A unlinks the file; B
  creates its row and completes without an original.
* `agent_v_lost` - a second message reads the conversation, then the running
  turn stores its history and gives its reservation back, then the second
  message asks whether a turn is active. It is let in with the old history, and
  its first checkpoint overwrites the first turn.

### Seen in the models and kept out of the runs

Each is a hazard in `PROJECT.json` or part of one.

* The first checkpoint of a turn is due, its revision is marked as stored
  (`api/routers/agent.py:737`), the write raises. The except branch asks for a
  forced write, which "is worth paying unconditionally"; the revision is already
  marked, so nothing is written (line 732), and the turn ends as interrupted with
  none of its work in the history. The same happens when the write of a stop
  raises. TLC shows it (`SendRead`, `Reserve`, `Start`, `BeginAttempt`,
  `FailWrite`, `Fail`) when `InterruptionsKeepTheWork` is stated without its
  condition on `pc`.
* A download has its first block, gives its heavy slot back and streams on; a
  sweep takes that slot and a chart the other gate. The three queries may use the
  whole divided budget and one heavy cap more, although the comment on the export
  gate counts "live result streams against the same ClickHouse memory budget"
  (`db/_scan.py:1081`). TLC shows it when `OneDownloadAboveTheBudget` is stated
  without its last summand; it is never more than that one cap.
* A failed refresh of the field statistics whose compensating deletes fail as
  well leaves a stale row that readers trust; the code reports it.
* A delete whose DROP PARTITION precedes the swap of an apply and whose row
  delete follows the re-check leaves a partition and a provenance row behind.
* A delete that empties a source in the middle of a scan and is undone by the
  swap of another apply, and then fails before it removes the row: the scan ends
  early, its source counts as fully staged, and a partial scan is certified.
* A new data file that resolves nothing for a source: no row is staged, so the
  source keeps the keys and the provenance of the older version.
* A reader that computed field statistics before the swap stores them after it.
* A delete during ingestion leaves events without a row; a copy cut off by a
  crash is taken for the original by later uploads.
* A response that is dropped before its first row was asked for loses the only
  export slot until a restart. `GatesAddUp` states exactly this loss and no
  other.
* A recommendation job that fails after its placeholder, and whose undoing
  fails as well, leaves a failed record in the job store;
  `_recommendation_is_dead` then judges the job alive enough, although its
  docstring says the store "covers one that finished without writing", and the
  explorer polls until the record is evicted or the process restarts.
* A reader that settles overwrites the answer that a new job stored between its
  read and its commit.
* A failing conversion unlinks the raw copy that another job has just found.

## 4. Proofs

Each theorem holds for every value of the constants that satisfies the
assumptions of its module; the bounds of the runs play no part (the counters of
faults may be any natural number).

| Module | Theorems | Assumption |
|---|---|---|
| `EnrichmentProofs` | `TypeCorrect`, `InductiveInvariant`, `LiveRunsHoldTheirSlot`, `AppliesAreExclusive`, `StagingIsNeverStranded`, `SlotLeaksAreUnstartedRuns` | `ConstantsAssumption` |
| `EnrichmentRefinement` | `AppliesWriteWholeScans`, `EvidenceIsImplemented` | `ConstantsAssumption` |
| `EnrichmentOutcomes` | `ProvenanceIsTrue`, `StaleStatsAreMinded` | `ConstantsAssumption` |
| `IngestProofs` | `TypeCorrect`, `VisibleIsComplete`, `FailedUploadsLeaveNothing` | `IngestAssumption` |
| `ScanGateProofs` | `TypeCorrect`, `GatesAreTrue`, `BudgetHolds`, `RulesAreComplete` | `BudgetAssumption`, `ScanAssumption`, `SettingsAssumption` |
| `ColumnJobsProofs` | `TypeCorrect`, `ClaimsAreHeld`, `MarksAreHeld`, `DatesAreTrue`, `AnswersAreKept` | `ColumnAssumption`, `PayloadAssumption` |
| `AgentTurnsProofs` | `TypeCorrect`, `RunsUnderItsReservation`, `FlagIsTrue`, `WorkIsKept`, `StopsWork`, `FinishedStays` | `AgentAssumption` |
| `ConverterJobProofs` | `TypeCorrect`, `ConversionsAreUnique`, `AcceptanceIsFinal`, `JudgementIsFair`, `SendingIsOnRecord`, `TrailIsTrue`, `CopyIsKept` | `ConverterAssumption` |

No safety invariant here is inductive as it stands. What each rests on:

* **Enrichment.** `ApplyIsExclusive` needs that an apply holds its lock
  (`LockInv`) for sources, and for job ids that two active tasks have different
  keys (`SlotInv`) and a job one key (`Shape`). `NoStrandedStaging` needs that a
  job has its marker while it stages and that, from the listing on, every source
  with staged rows is still ahead of the apply or in its hands (`StageInv`): it
  is why the marker may be deleted when the list is exhausted.
  `OnlyUnstartedRunsLeakSlots` needs that a job has no pinned version before its
  marker (`LeakInv`). `Inductive` is their conjunction, and `enrich_recovery`
  checks it, within `ScansAreWhole`, on an instance.
* **The refinement.** Of the sources that are `Kept`, not withdrawn, only
  `ReplacePartition` and `RecordSourceEnrichment` change what `EnrichedEvidence`
  sees. That the first is one `Enrich` needs that the scratch copy is the merge
  of the live partition with what is staged (`CopyIsRight`), which no other task
  can have rewritten in between (`LockInv`), and that a kept source still has all
  its events (`Present`). That the second is a `Certify` needs that what is
  granted is staged to its last event (`GrantIsWhole`): a run knows it from its
  own scan (`ScanIsInStep`), a resume and a recovery from the marks
  (`MarkedAreWhole`), which a crash leaves at or behind the rows. All other steps
  keep the versions that provenance rows refer to (`Pinned`). On a withdrawn
  source the same two actions, the steps of the delete and `DropResurrected` are
  a `Disturb`: the proof obligation is that they change no other source. The
  conjunction with `Inductive` is `ScansAreWhole`, which `enrich_recovery` checks.
  A delete only ever takes sources out of `Kept`, so the invariant asks less
  after it; what has to be shown is that no step relies on a source it lost.
* **The outcomes.** `ProvenanceDescribesPartition` is about rows of runs long
  over, so the invariant says of every row of a kept source that it describes
  the partition, except between the swap and the new row (`IsRewriting`). A swap
  destroys that for one enricher only, and repairs it with the next step if the
  rows it applied were a whole scan and it may record them. Until something
  fails that is so because nobody but the run that staged rows applies them
  (`RunsApplyTheirOwn`): a resume let in between the end of a run and the
  disappearance of its marker finds no rows, and no recovery has work. After a
  failure it is false, as `enrich_v_partial` shows, hence the condition
  `fails = 0 /\ crashes = 0`. `StaleStatsAreRefreshed` (`StatsInv`) rests on the
  order of swap, deletion of the staged rows and refresh: until the rows are
  gone a retry has something to apply (a failure behind the swap keeps them with
  their marker), afterwards the apply itself refreshes the row or,
  when that fails, drops it or reports that it could not (`StatsAfterFailure`). The condition `fills = 0` excludes the
  reader that stores what it computed before the swap (section 3).
* **Ingest.** `Books(u)` says at each step how far row, partition and count of
  an upload are; with one failure at most and nobody else at work (`Alone`),
  every step moves from one page to the next. The two theorems read their
  property off the last page.
* **ScanGate.** `Shape` says which kinds get to which steps, so that the slots a
  step gives back are those it holds. The budget follows from the bound on each
  gate, the division in `ScanBudget`, and the one slot of the export gate, which
  is why one download drains at most (`OneDrains`). `BatchesAddUp` counts a rule's batches:
  taken, in the queue, in hand and sent; an end mark stands last and only behind
  all of them.
* **ColumnJobs.** `PayloadsAreDated` ranges over all copies of a payload: the
  row, what jobs have read, what a reader is about to write. `AnswersSurvive`,
  an action property, needs that all copies of a placeholder show the same
  columns (`PlaceholdersAgree`) and that the row still shows what its job read
  (`RowIsAsRead`), so that undoing puts back nothing less.
* **AgentTurns.** `HoldersWereLetIn` and `WaitersHold` follow the reservation
  from its taking to the first step of the generator. `SavedIsStored` is why
  `_persist_partial` may skip a revision it marked before: the row still ends in
  it, as long as no write has failed.
* **ConverterJob.** `Good(j)` collects per job what its row, draft, trail and
  source are at each step; a step of one job disturbs it for no other job, since
  a generation works on its own row and a reuse on a working one
  (`RowIsRight`). `CopyIsSafe` relates the jobs: who counts on the copy finds
  it, who is about to unlink it found no reference. That a next version exists
  needs the largest of a finite set (`FiniteHasMax`).

Only model-checked: the properties with `~>`. Fairness and `ENABLED` are outside
the proof system's rules. Every other property of the passing runs is stated by
a theorem.

## 5. Not modelled

* Detectors, queries, visualisations and rule compilation (`db/anomaly_stats.py`,
  `db/queries.py`, most of `api/routers/events.py`) are SQL and numeric code
  over ClickHouse; parsers and the converter assets are text processing; the
  frontend holds no evidence. They are most of the repository's lines, have no
  control state of their own, and their correctness is about values a model of
  this kind abstracts. What is modelled is the code around them that
  coordinates: who may run, what is stored in which order, what a failure undoes.
* The cap of the job store per user, and the demo case's claim above it.
* Case import and export, and the deletion of a case: one sequential operation
  with an undo; it shares the retained files of `Ingest`.
* Stories (gapped positions under a unique index), runtime settings, the login
  back-off, sessions and OIDC.
* The analysis and visualisation caches. A stale entry needs a field-stats row
  whose fingerprint is out of date; `Enrichment` has the row, not the caches.
* A composition of `Ingest` and `Enrichment` over one source: the trigger after
  "ready" and a delete against both are modelled in each module separately.

## 6. Plan

1. `Enrichment`, `Ingest`, `ScanGate`, `ColumnJobs`, `AgentTurns`,
   `ConverterJob` with invariants, liveness and proofs - done.
2. The refinement of `EnrichedEvidence` as a theorem, under deletes, and the
   truth of provenance rows and field statistics - done.
3. `JobStore` and `DemoSeed`: cap and eviction of `core/jobs.py`, the seed claim
   above them; proof of the cap.
4. The import of a case over the retention of `Ingest`.
5. The composition named above, and the caches over it.
