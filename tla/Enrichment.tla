------------------------------ MODULE Enrichment ------------------------------
(***************************************************************************)
(* The enrichment subsystem: src/vestigo/enrichers/jobs.py, the routes that *)
(* start it (api/routers/cases.py), the source delete it races with, and    *)
(* the startup recovery of api/main.py, over the two stores they write:     *)
(*                                                                          *)
(*   Postgres     source rows, run markers, staged rows, provenance rows,   *)
(*                field-stats rows                                          *)
(*   ClickHouse   one partition of events per source, two scratch tables    *)
(*                per job                                                   *)
(*                                                                          *)
(* A job reads every event of its sources, stages the derived values in     *)
(* Postgres and applies them once, one source at a time, by rewriting the   *)
(* source's partition.  Run slots and apply locks live in the memory of the *)
(* one process, everything else survives a crash.                           *)
(*                                                                          *)
(* Each action is the code between two awaits.  A task is one coroutine: a  *)
(* request handler that becomes a job, a resume, or one turn of startup     *)
(* recovery.                                                                *)
(***************************************************************************)
EXTENDS Naturals, FiniteSets

CONSTANTS
    Sources,      \* ingested sources of the case
    Timelines,
    Enrichers,
    Jobs,         \* job ids; their number bounds the runs of a behaviour
    Workers,      \* tasks that may be in flight at once
    Batches,      \* groups of events one source is read in
    None,
    Members,      \* Members[t]: the sources of timeline t
    MaxVersion,   \* an enricher's data file takes versions 1..MaxVersion
    Resolves,     \* Resolves[e][v]: the batches for which e derives a value
    MaxFails, MaxCrashes, MaxDeletes, MaxFills,  \* bounds on the environment
    MaxFaults     \* of failures, crashes and deletes together

Keys   == Timelines \X Enrichers
Values == 0 .. MaxVersion

ASSUME ConstantsAssumption ==
    /\ IsFiniteSet(Sources) /\ IsFiniteSet(Jobs) /\ IsFiniteSet(Batches)
    /\ None \notin Sources \cup Jobs \cup Workers \cup Keys \cup Batches
    /\ Members \in [Timelines -> SUBSET Sources]
    /\ MaxVersion \in Nat \ {0}
    /\ Resolves \in [Enrichers -> [1 .. MaxVersion -> SUBSET Batches]]
    /\ {MaxFails, MaxCrashes, MaxDeletes, MaxFills, MaxFaults} \subseteq Nat

(***************************************************************************)
(* A partition maps the events present to the derived keys they carry: for  *)
(* each enricher the data version that derived them, 0 when there are none. *)
(***************************************************************************)
Keyring    == [Enrichers -> Values]
Partitions == UNION {[B -> Keyring] : B \in SUBSET Batches}
Dropped    == [b \in {} |-> [e \in Enrichers |-> 0]]

\* A faulty Merge: mapUpdate alone, with no owned suffix stripped first.
Merge_WithoutStrip(p, rows, e, v) ==
    [b \in DOMAIN p |-> [p[b] EXCEPT ![e] = IF b \in rows THEN v ELSE @]]

\* The INSERT SELECT of finalize_enrichment_apply: mapFilter strips every key
\* of enricher e from every event, mapUpdate merges the staged rows.
Merge(p, rows, e, v) ==
    [b \in DOMAIN p |-> [p[b] EXCEPT ![e] = IF b \in rows THEN v ELSE 0]]

\* What an event of batch b carries once e has run over it with version v.
Output(e, v, b) == IF b \in Resolves[e][v] THEN v ELSE 0

VARIABLES
    version,      \* version[e]: the installed data version of enricher e
    \* Postgres
    sources,      \* source rows that exist (all of them are "ready")
    markers,      \* jobs with an EnrichmentJobRun row
    completed,    \* completed[j]: the completed_source_ids of that row
    jobKey,       \* jobKey[j]: the (timeline, enricher) of job j
    jobVersion,   \* jobVersion[j]: the data version spawn() pinned for j
    staged,       \* staged[j][s]: batches with an EnrichmentResultStaging row
    prov,         \* prov[s][e]: the job of the SourceEnrichment row
    stats,        \* stats[s]: the field-stats row, a Freshness
    \* ClickHouse
    part,         \* part[s]: the partition of events
    rowsTbl,      \* rowsTbl[j]: scratch table of staged rows
    eventsTbl,    \* eventsTbl[j]: scratch copy of a partition
    \* memory of the process
    slot,         \* _ACTIVE_RUNS
    lock,         \* lock[s]: the task in the _APPLY_LOCKS of s
    task,         \* the coroutines in flight
    boot,         \* startup recovery: "boot" | "up"
    orphans, snap, recovered,   \* its list of markers, as read, and its result
    deleting,     \* deleting[s]: a delete request, "no" | "drop" | "row"
    fill,         \* fill[s]: field stats a reader computed but has not stored
    \* history and bounds: withdrawn are the sources somebody asked to delete
    used, fails, crashes, withdrawn, fills

jobRows == <<markers, completed, jobKey, jobVersion>>
pgVars  == <<sources, jobRows, staged, prov, stats>>
chVars  == <<part, rowsTbl, eventsTbl>>
recVars == <<boot, orphans, snap, recovered>>
memVars == <<slot, lock, task, boot, orphans, snap, recovered, deleting, fill>>
bounds  == <<used, fails, crashes, withdrawn, fills>>
vars    == <<version, pgVars, chVars, memVars, bounds>>

allButTask == <<version, pgVars, chVars, slot, lock, recVars, deleting, fill, bounds>>

\* Handlers that have not claimed a run slot yet, and jobs, which have.
HandlerPCs == {"markers", "plan", "autoMarkers", "autoClaim", "claim"}
JobPCs     == {"begin", "open", "read", "write", "mark", "list", "lock", "stage",
               "copy", "swap", "recheck", "undo", "record", "clear", "stats",
               "release", "abort"}
\* The part of a job that runs under the apply lock of its current source.
ApplyPCs   == {"stage", "copy", "swap", "recheck", "undo", "record", "clear", "stats"}

Idle == [pc |-> "idle", kind |-> "none", key |-> None, job |-> None, todo |-> {},
         cur |-> None, batch |-> None, seen |-> {}, done |-> {}]

Active(w)   == task[w].pc \in JobPCs
Applying(w) == task[w].pc \in ApplyPCs

\* One more failure, crash or source to delete.
CanFault == fails + crashes + Cardinality(withdrawn) < MaxFaults

-----------------------------------------------------------------------------
(***************************************************************************)
(* The tests and choices the handlers share.  Those named X_Y are faulty    *)
(* variants of X, kept to see that the properties tell them apart.          *)
(***************************************************************************)

\* The conflict try_claim_enricher_run reports.
SlotFree_ResultIgnored(k) == TRUE
SlotFree(k) == slot[k] = None

\* release_enricher_run only releases a slot its job owns.
OwnsSlot_OnlyIfFinished(w) ==
    task[w].pc = "release" /\ slot[task[w].key] = task[w].job
OwnsSlot(w) == slot[task[w].key] = task[w].job

\* The asyncio.Lock of _apply_lock(case_id, source_id).
LockFree_NoLock(s) == TRUE
LockFree(s) == lock[s] = None

\* The data version spawn() pins for the run.
PinnedVersion(e) == version[e]

\* list_staged_sources.
StagedSources_Completed(w) == {s \in task[w].done : staged[task[w].job][s] # {}}
StagedSources_Joined(w) == {s \in sources : staged[task[w].job][s] # {}}
StagedSources(w) == {s \in Sources : staged[task[w].job][s] # {}}

\* list_orphaned_enrichment_job_runs.
OrphanedRuns_WithCompleted == {j \in markers : completed[j] # {}}
OrphanedRuns == markers

\* The field-stats row after a refresh that failed: it is deleted; or that
\* failed too, three times, and the staleness of what is left is reported, in
\* the log and in the audit trail (source.field_stats_stale).
StatsAfterFailure_Silent(row) == {"none", row}
StatsAfterFailure(row) == {"none", IF row = "stale" THEN "reported" ELSE row}

\* complete_source_ids: None (every source) on the success path of a run, the
\* sources it finished when it cleans up, those of the marker when it resumes.
Grant_EveryStaged(w) == Sources
Grant(w) == IF task[w].kind = "run" THEN Sources ELSE task[w].done

EnrichedAt(s, e, v) == prov[s][e] # None /\ jobVersion[prov[s][e]] = v

Unfinished(k) == {j \in markers : jobKey[j] = k}

-----------------------------------------------------------------------------
Init ==
    /\ version = [e \in Enrichers |-> 1]
    /\ sources = Sources
    /\ markers = {}
    /\ completed = [j \in Jobs |-> {}]
    /\ jobKey = [j \in Jobs |-> None]
    /\ jobVersion = [j \in Jobs |-> 0]
    /\ staged = [j \in Jobs |-> [s \in Sources |-> {}]]
    /\ prov = [s \in Sources |-> [e \in Enrichers |-> None]]
    /\ stats \in [Sources -> IF MaxFills = 0 THEN {"fresh"} ELSE {"none", "fresh"}]
    /\ part = [s \in Sources |-> [b \in Batches |-> [e \in Enrichers |-> 0]]]
    /\ rowsTbl = [j \in Jobs |-> {}]
    /\ eventsTbl = [j \in Jobs |-> Dropped]
    /\ slot = [k \in Keys |-> None]
    /\ lock = [s \in Sources |-> None]
    /\ task = [w \in Workers |-> Idle]
    /\ boot = "up" /\ orphans = {} /\ recovered = {}
    /\ snap = [j \in Jobs |-> {}]
    /\ deleting = [s \in Sources |-> "no"]
    /\ fill = [s \in Sources |-> "none"]
    /\ used = {} /\ fails = 0 /\ crashes = 0 /\ withdrawn = {} /\ fills = 0

-----------------------------------------------------------------------------
(***************************************************************************)
(* Starting a run: the run route, the trigger after an ingest.              *)
(***************************************************************************)

Stop(w) == task' = [task EXCEPT ![w] = Idle]

\* run_timeline_enricher up to its first await after the early slot check.
RunTimelineEnricher(w, k) ==
    /\ task[w] = Idle
    /\ Members[k[1]] \cap sources # {}
    /\ SlotFree(k)
    /\ task' = [task EXCEPT ![w] = [Idle EXCEPT !.pc = "markers", !.kind = "run",
                                    !.key = k, !.todo = Members[k[1]] \cap sources]]
    /\ UNCHANGED allButTask

\* The 409 while an unfinished run exists.
CheckUnfinished(w) ==
    /\ task[w].pc = "markers"
    /\ \/ Unfinished(task[w].key) # {} /\ Stop(w)
       \/ Unfinished(task[w].key) = {} /\ task' = [task EXCEPT ![w].pc = "plan"]
    /\ UNCHANGED allButTask

\* try_claim_enricher_run for a fresh job, which covers the sources in todo.
Claim(w, j, todo) ==
    /\ j \in Jobs \ used
    /\ SlotFree(task[w].key)
    /\ slot' = [slot EXCEPT ![task[w].key] = j]
    /\ used' = used \cup {j}
    /\ jobKey' = [jobKey EXCEPT ![j] = task[w].key]
    /\ task' = [task EXCEPT ![w].pc = "begin", ![w].job = j, ![w].todo = todo]
    /\ UNCHANGED <<version, sources, markers, completed, jobVersion, staged,
                   prov, stats, chVars, lock, recVars, deleting, fill, fails,
                   crashes, withdrawn, fills>>

\* The provenance skip, then claim and spawn with no await in between.
PlanAndClaim(w, j, force) ==
    LET e       == task[w].key[2]
        already == {s \in Sources : EnrichedAt(s, e, version[e])}
        todo    == IF force THEN task[w].todo ELSE task[w].todo \ already
    IN  /\ task[w].pc = "plan"
        /\ todo # {}
        /\ Claim(w, j, todo)

\* 409 on a lost claim, "skipped" when nothing is left to do, or an error
\* (ClickHouseStore() raising) before the claim.
RefuseRun(w) ==
    /\ task[w].pc \in {"plan", "autoClaim"}
    /\ Stop(w)
    /\ UNCHANGED allButTask

\* _trigger_automatic_enrichments reads the running job before its await ...
TriggerAutomatic(w, k, s) ==
    /\ task[w] = Idle
    /\ s \in Members[k[1]] \cap sources
    /\ task' = [task EXCEPT ![w] = [Idle EXCEPT !.pc = "autoMarkers", !.kind = "run",
                                    !.key = k, !.job = slot[k], !.todo = {s}]]
    /\ UNCHANGED allButTask

\* ... and skips when a marker other than the running job's is found.
AutoCheckUnfinished(w) ==
    /\ task[w].pc = "autoMarkers"
    /\ \/ Unfinished(task[w].key) \subseteq {task[w].job}
          /\ task' = [task EXCEPT ![w].pc = "autoClaim", ![w].job = None]
       \/ ~ (Unfinished(task[w].key) \subseteq {task[w].job}) /\ Stop(w)
    /\ UNCHANGED allButTask

AutoClaim(w, j) ==
    /\ task[w].pc = "autoClaim"
    /\ Claim(w, j, task[w].todo)

-----------------------------------------------------------------------------
(***************************************************************************)
(* run_enrichment_job: read and stage.                                      *)
(***************************************************************************)

\* spawn() pins the data version, start_enrichment_job_run writes the marker.
StartJobRun(w) ==
    LET j == task[w].job IN
    /\ task[w].pc = "begin"
    /\ markers' = markers \cup {j}
    /\ jobVersion' = [jobVersion EXCEPT ![j] = PinnedVersion(task[w].key[2])]
    /\ task' = [task EXCEPT ![w].pc = "open"]
    /\ UNCHANGED <<version, sources, completed, jobKey, staged, prov, stats,
                   chVars, slot, lock, recVars, deleting, fill, bounds>>

\* start_enrichment_job_run raises outside the try: the finally that releases
\* the slot is not reached.
FailToStart(w) ==
    /\ task[w].pc = "begin"
    /\ fails < MaxFails /\ CanFault /\ fails' = fails + 1
    /\ Stop(w)
    /\ UNCHANGED <<version, pgVars, chVars, slot, lock, recVars, deleting, fill,
                   used, crashes, withdrawn, fills>>

OpenSource(w, s) ==
    /\ task[w].pc = "open"
    /\ s \in task[w].todo
    /\ task' = [task EXCEPT ![w].pc = "read", ![w].cur = s, ![w].seen = {}]
    /\ UNCHANGED allButTask

\* iter_source_events and _process_batch ...
ReadBatch(w, b) ==
    /\ task[w].pc = "read"
    /\ b \in DOMAIN part[task[w].cur] \ task[w].seen
    /\ task' = [task EXCEPT ![w].pc = "write", ![w].batch = b, ![w].seen = @ \cup {b}]
    /\ UNCHANGED allButTask

\* ... and stage_enrichment_results, for the events that resolve.
StageBatch(w) ==
    LET j == task[w].job
        s == task[w].cur
    IN  /\ task[w].pc = "write"
        /\ staged' = [staged EXCEPT ![j][s] =
                @ \cup ({task[w].batch} \cap Resolves[task[w].key[2]][jobVersion[j]])]
        /\ task' = [task EXCEPT ![w].pc = "read", ![w].batch = None]
        /\ UNCHANGED <<version, sources, jobRows, prov, stats, chVars, slot,
                       lock, recVars, deleting, fill, bounds>>

\* completed_sources += 1, in memory, once the iterator is exhausted.
FinishSource(w) ==
    LET s == task[w].cur IN
    /\ task[w].pc = "read"
    /\ DOMAIN part[s] \subseteq task[w].seen
    /\ task' = [task EXCEPT ![w].pc = "mark", ![w].done = @ \cup {s},
                            ![w].todo = @ \ {s}]
    /\ UNCHANGED allButTask

\* mark_enrichment_source_staged: the durable half of the same fact.
MarkSourceStaged(w) ==
    LET j == task[w].job IN
    /\ task[w].pc = "mark"
    /\ completed' = IF j \in markers
                    THEN [completed EXCEPT ![j] = @ \cup {task[w].cur}]
                    ELSE completed
    /\ task' = [task EXCEPT ![w].pc = "open", ![w].cur = None]
    /\ UNCHANGED <<version, sources, markers, jobKey, jobVersion, staged, prov,
                   stats, chVars, slot, lock, recVars, deleting, fill, bounds>>

-----------------------------------------------------------------------------
(***************************************************************************)
(* _apply_staged_rows, for a run, its cleanup, a resume and the recovery.   *)
(***************************************************************************)

ListStagedSources(w) ==
    /\ \/ task[w].pc = "list"
       \/ task[w].pc = "open" /\ task[w].todo = {}
    /\ task' = [task EXCEPT ![w].pc = "lock",
                    ![w].todo = StagedSources(w)]
    /\ UNCHANGED allButTask

\* The apply lock is taken and the source row is still there.
LockSource(w, s) ==
    /\ task[w].pc = "lock"
    /\ s \in task[w].todo
    /\ LockFree(s)
    /\ s \in sources
    /\ lock' = [lock EXCEPT ![s] = w]
    /\ task' = [task EXCEPT ![w].pc = "stage", ![w].cur = s, ![w].todo = @ \ {s}]
    /\ UNCHANGED <<version, pgVars, chVars, slot, recVars, deleting, fill,
                   bounds>>

\* The source was deleted while the job ran: its staged rows are discarded.
SkipDeletedSource(w, s) ==
    /\ task[w].pc = "lock"
    /\ s \in task[w].todo
    /\ LockFree(s)
    /\ s \notin sources
    /\ staged' = [staged EXCEPT ![task[w].job][s] = {}]
    /\ task' = [task EXCEPT ![w].todo = @ \ {s}]
    /\ UNCHANGED <<version, sources, jobRows, prov, stats, chVars, slot, lock,
                   recVars, deleting, fill, bounds>>

\* Leave the source: release its lock and go on with the next one.
NextSource(w) ==
    /\ lock' = [lock EXCEPT ![task[w].cur] = None]
    /\ task' = [task EXCEPT ![w].pc = "lock", ![w].cur = None]

\* create_enrichment_scratch and the page loop.
StageRows(w) ==
    LET j    == task[w].job
        rows == staged[j][task[w].cur]
    IN  /\ task[w].pc = "stage"
        /\ rowsTbl' = [rowsTbl EXCEPT ![j] = rows]
        /\ \/ rows # {} /\ task' = [task EXCEPT ![w].pc = "copy"] /\ UNCHANGED lock
           \/ rows = {} /\ NextSource(w)
        /\ UNCHANGED <<version, pgVars, part, eventsTbl, slot, recVars,
                       deleting, fill, bounds>>

\* finalize_enrichment_apply, first the INSERT SELECT from the live partition ...
BuildCopy(w) ==
    LET j == task[w].job IN
    /\ task[w].pc = "copy"
    /\ eventsTbl' = [eventsTbl EXCEPT ![j] =
            Merge(part[task[w].cur], rowsTbl[j], task[w].key[2], jobVersion[j])]
    /\ task' = [task EXCEPT ![w].pc = "swap"]
    /\ UNCHANGED <<version, pgVars, part, rowsTbl, slot, lock, recVars,
                   deleting, fill, bounds>>

\* ... then REPLACE PARTITION.  What was computed from the old one is stale.
Outdated(x) == IF x = "none" THEN "none" ELSE "stale"

ReplacePartition(w) ==
    LET s == task[w].cur IN
    /\ task[w].pc = "swap"
    /\ part' = [part EXCEPT ![s] = eventsTbl[task[w].job]]
    /\ stats' = [stats EXCEPT ![s] = Outdated(@)]
    /\ fill' = [fill EXCEPT ![s] = Outdated(@)]
    /\ task' = [task EXCEPT ![w].pc = "recheck"]
    /\ UNCHANGED <<version, sources, jobRows, staged, prov, rowsTbl, eventsTbl,
                   slot, lock, recVars, deleting, bounds>>

RecheckSource(w) ==
    /\ task[w].pc = "recheck"
    /\ \/ task[w].cur \in sources /\ task' = [task EXCEPT ![w].pc = "record"]
       \/ task[w].cur \notin sources /\ task' = [task EXCEPT ![w].pc = "undo"]
    /\ UNCHANGED allButTask

\* Drop the partition the swap resurrected.
DropResurrected(w) ==
    LET s == task[w].cur IN
    /\ task[w].pc = "undo"
    /\ part' = [part EXCEPT ![s] = Dropped]
    /\ stats' = [stats EXCEPT ![s] = Outdated(@)]
    /\ fill' = [fill EXCEPT ![s] = Outdated(@)]
    /\ staged' = [staged EXCEPT ![task[w].job][s] = {}]
    /\ NextSource(w)
    /\ UNCHANGED <<version, sources, jobRows, prov, rowsTbl, eventsTbl, slot,
                   recVars, deleting, bounds>>

RecordSourceEnrichment(w) ==
    LET s == task[w].cur IN
    /\ task[w].pc = "record"
    /\ prov' = IF s \in Grant(w)
               THEN [prov EXCEPT ![s][task[w].key[2]] = task[w].job]
               ELSE prov
    /\ task' = [task EXCEPT ![w].pc = "clear"]
    /\ UNCHANGED <<version, sources, jobRows, staged, stats, chVars, slot, lock,
                   recVars, deleting, fill, bounds>>

DeleteStagedRows(w) ==
    /\ task[w].pc = "clear"
    /\ staged' = [staged EXCEPT ![task[w].job][task[w].cur] = {}]
    /\ task' = [task EXCEPT ![w].pc = "stats"]
    /\ UNCHANGED <<version, sources, jobRows, prov, stats, chVars, slot, lock,
                   recVars, deleting, fill, bounds>>

\* refresh_source_field_stats; when it fails the row is deleted instead, or
\* kept and reported.
RefreshFieldStats(w) ==
    /\ task[w].pc = "stats"
    /\ \/ stats' = [stats EXCEPT ![task[w].cur] = "fresh"] /\ UNCHANGED fails
       \/ /\ \E row \in StatsAfterFailure(stats[task[w].cur]) :
                stats' = [stats EXCEPT ![task[w].cur] = row]
          /\ fails < MaxFails /\ CanFault /\ fails' = fails + 1
    /\ NextSource(w)
    /\ UNCHANGED <<version, sources, jobRows, staged, prov, chVars, slot,
                   recVars, deleting, fill, used, crashes, withdrawn, fills>>

FinishJobRun(w) ==
    /\ task[w].pc = "lock"
    /\ task[w].todo = {}
    /\ markers' = markers \ {task[w].job}
    /\ task' = [task EXCEPT ![w].pc = "release"]
    /\ UNCHANGED <<version, sources, completed, jobKey, jobVersion, staged,
                   prov, stats, chVars, slot, lock, recVars, deleting, fill,
                   bounds>>

\* release_enricher_run, in the finally of a run, a resume or a recovery turn.
\* A recovery that finished lists its run for a re-run.
ReleaseRun(w) ==
    /\ task[w].pc \in {"release", "abort"}
    /\ slot' = IF OwnsSlot(w) THEN [slot EXCEPT ![task[w].key] = None] ELSE slot
    /\ recovered' = IF task[w].kind = "reconcile" /\ task[w].pc = "release"
                    THEN recovered \cup {task[w].job} ELSE recovered
    /\ Stop(w)
    /\ UNCHANGED <<version, pgVars, chVars, lock, boot, orphans, snap,
                   deleting, fill, bounds>>

\* A database call raises.  A run cleans up once (the except block), anything
\* else gives up and leaves the marker and the staged rows.
FailPCs == {"open", "read", "write", "mark", "list", "lock", "stage", "copy", "swap",
            "recheck", "undo", "record", "clear"}

Fail(w) ==
    /\ task[w].pc \in FailPCs
    /\ fails < MaxFails /\ CanFault /\ fails' = fails + 1
    /\ lock' = IF Applying(w) THEN [lock EXCEPT ![task[w].cur] = None] ELSE lock
    /\ \/ /\ task[w].kind = "run"
          /\ task' = [task EXCEPT ![w].pc = "list", ![w].kind = "cleanup",
                                  ![w].cur = None, ![w].batch = None]
       \/ /\ task[w].kind # "run"
          /\ task' = [task EXCEPT ![w].pc = "abort", ![w].cur = None]
    /\ UNCHANGED <<version, pgVars, chVars, slot, recVars, deleting, fill, used,
                   crashes, withdrawn, fills>>

-----------------------------------------------------------------------------
(***************************************************************************)
(* Recovery: the resume route, and the reconciliation of a fresh boot.      *)
(***************************************************************************)

\* resume_timeline_enricher reads the marker ...
ResumeTimelineEnricher(w, j) ==
    /\ task[w] = Idle
    /\ j \in markers
    /\ task' = [task EXCEPT ![w] = [Idle EXCEPT !.pc = "claim", !.kind = "resume",
                                    !.key = jobKey[j], !.job = j, !.done = completed[j]]]
    /\ UNCHANGED allButTask

\* ... and, after an await, claims the slot under the marker's job id or 409s.
ClaimResume(w) ==
    LET k == task[w].key IN
    /\ task[w].pc = "claim"
    /\ \/ /\ SlotFree(k)
          /\ slot' = [slot EXCEPT ![k] = task[w].job]
          /\ task' = [task EXCEPT ![w].pc = "list"]
       \/ ~ SlotFree(k) /\ Stop(w) /\ UNCHANGED slot
    /\ UNCHANGED <<version, pgVars, chVars, lock, recVars, deleting, fill,
                   bounds>>

\* reconcile_orphaned_enrichment_jobs lists every marker while the app serves.
ListOrphans ==
    /\ boot = "boot"
    /\ boot' = "up"
    /\ orphans' = OrphanedRuns
    /\ snap' = [j \in Jobs |-> IF j \in markers THEN completed[j] ELSE {}]
    /\ UNCHANGED <<version, pgVars, chVars, slot, lock, task, recovered,
                   deleting, fill, bounds>>

Reconciling == \E w \in Workers : task[w].kind = "reconcile"

\* One marker at a time, each under its run slot.
ReconcileOrphan(w, j) ==
    LET k == jobKey[j] IN
    /\ j \in orphans
    /\ ~ Reconciling
    /\ task[w] = Idle
    /\ SlotFree(k)
    /\ orphans' = orphans \ {j}
    /\ slot' = [slot EXCEPT ![k] = j]
    /\ task' = [task EXCEPT ![w] = [Idle EXCEPT !.pc = "list", !.kind = "reconcile",
                                    !.key = k, !.job = j, !.done = snap[j]]]
    /\ UNCHANGED <<version, pgVars, chVars, lock, boot, snap, recovered,
                   deleting, fill, bounds>>

SkipOrphan(j) ==
    /\ j \in orphans
    /\ ~ Reconciling
    /\ ~ SlotFree(jobKey[j])
    /\ orphans' = orphans \ {j}
    /\ UNCHANGED <<version, pgVars, chVars, slot, lock, task, boot, snap,
                   recovered, deleting, fill, bounds>>

\* schedule_enrichment_reruns, once every orphan was tried: a fresh job over
\* all the ready sources of the timeline.
Rerun(w, old, j) ==
    LET k    == jobKey[old]
        todo == Members[k[1]] \cap sources
    IN  /\ old \in recovered /\ orphans = {} /\ ~ Reconciling
        /\ task[w] = Idle
        /\ todo # {}
        /\ j \in Jobs \ used
        /\ SlotFree(k)
        /\ recovered' = recovered \ {old}
        /\ slot' = [slot EXCEPT ![k] = j]
        /\ used' = used \cup {j}
        /\ jobKey' = [jobKey EXCEPT ![j] = k]
        /\ task' = [task EXCEPT ![w] = [Idle EXCEPT !.pc = "begin", !.kind = "run",
                                        !.key = k, !.job = j, !.todo = todo]]
        /\ UNCHANGED <<version, sources, markers, completed, jobVersion, staged,
                       prov, stats, chVars, lock, boot, orphans, snap, deleting,
                       fill, fails, crashes, withdrawn, fills>>

\* No re-run: enricher unavailable, no ready source, or the slot is taken.
SkipRerun(old) ==
    /\ old \in recovered /\ orphans = {} /\ ~ Reconciling
    /\ recovered' = recovered \ {old}
    /\ UNCHANGED <<version, pgVars, chVars, slot, lock, task, boot, orphans,
                   snap, deleting, fill, bounds>>

-----------------------------------------------------------------------------
(***************************************************************************)
(* The environment: source deletion, field-stats readers, a new data file,  *)
(* and the crash of the process.                                            *)
(***************************************************************************)

\* delete_source: the row exists; the event store is emptied first ...
DeleteSource(s) ==
    /\ s \in sources
    /\ deleting[s] = "no"
    /\ \/ s \in withdrawn
       \/ Cardinality(withdrawn) < MaxDeletes /\ CanFault
    /\ withdrawn' = withdrawn \cup {s}
    /\ deleting' = [deleting EXCEPT ![s] = "drop"]
    /\ UNCHANGED <<version, pgVars, chVars, slot, lock, task, recVars, fill,
                   used, fails, crashes, fills>>

DropSourceEvents(s) ==
    /\ deleting[s] = "drop"
    /\ part' = [part EXCEPT ![s] = Dropped]
    /\ stats' = [stats EXCEPT ![s] = Outdated(@)]
    /\ fill' = [fill EXCEPT ![s] = Outdated(@)]
    /\ deleting' = [deleting EXCEPT ![s] = "row"]
    /\ UNCHANGED <<version, sources, jobRows, staged, prov, rowsTbl, eventsTbl,
                   slot, lock, task, recVars, bounds>>

\* ... a failure there answers 502 and keeps the row ...
AbortDelete(s) ==
    /\ deleting[s] # "no"
    /\ deleting' = [deleting EXCEPT ![s] = "no"]
    /\ UNCHANGED <<version, pgVars, chVars, slot, lock, task, recVars, fill,
                   bounds>>

\* ... and one transaction removes the row and what refers to it.
DeleteSourceRow(s) ==
    /\ deleting[s] = "row"
    /\ sources' = sources \ {s}
    /\ prov' = [prov EXCEPT ![s] = [e \in Enrichers |-> None]]
    /\ staged' = [j \in Jobs |-> [staged[j] EXCEPT ![s] = {}]]
    /\ stats' = [stats EXCEPT ![s] = "none"]
    /\ deleting' = [deleting EXCEPT ![s] = "no"]
    /\ UNCHANGED <<version, jobRows, chVars, slot, lock, task, recVars, fill,
                   bounds>>

\* ensure_source_field_stats: a miss is computed from the partition ...
ComputeFill(s) ==
    /\ s \in sources
    /\ stats[s] = "none" /\ fill[s] = "none"
    /\ fills < MaxFills /\ fills' = fills + 1
    /\ fill' = [fill EXCEPT ![s] = "fresh"]
    /\ UNCHANGED <<version, pgVars, chVars, slot, lock, task, recVars, deleting,
                   used, fails, crashes, withdrawn>>

\* ... and upserted, whatever happened in between.
StoreFill(s) ==
    /\ fill[s] # "none"
    /\ stats' = [stats EXCEPT ![s] = fill[s]]
    /\ fill' = [fill EXCEPT ![s] = "none"]
    /\ UNCHANGED <<version, sources, jobRows, staged, prov, chVars, slot, lock,
                   task, recVars, deleting, bounds>>

\* An administrator installs a new data file for the enricher.
UpdateData(e) ==
    /\ version[e] < MaxVersion
    /\ version' = [version EXCEPT ![e] = @ + 1]
    /\ UNCHANGED <<pgVars, chVars, memVars, bounds>>

Crash ==
    /\ crashes < MaxCrashes /\ CanFault /\ crashes' = crashes + 1
    /\ slot' = [k \in Keys |-> None]
    /\ lock' = [s \in Sources |-> None]
    /\ task' = [w \in Workers |-> Idle]
    /\ boot' = "boot" /\ orphans' = {} /\ recovered' = {}
    /\ snap' = [j \in Jobs |-> {}]
    /\ deleting' = [s \in Sources |-> "no"]
    /\ fill' = [s \in Sources |-> "none"]
    /\ UNCHANGED <<version, pgVars, chVars, used, fails, withdrawn, fills>>

-----------------------------------------------------------------------------
Request(w) ==
    \/ \E k \in Keys : RunTimelineEnricher(w, k)
    \/ \E k \in Keys, s \in Sources : TriggerAutomatic(w, k, s)
    \/ \E j \in Jobs : ResumeTimelineEnricher(w, j)

Handle(w) ==
    \/ CheckUnfinished(w)
    \/ \E j \in Jobs, force \in BOOLEAN : PlanAndClaim(w, j, force)
    \/ AutoCheckUnfinished(w)
    \/ \E j \in Jobs : AutoClaim(w, j)
    \/ RefuseRun(w)
    \/ ClaimResume(w)

Scan(w) ==
    \/ StartJobRun(w)
    \/ \E s \in Sources : OpenSource(w, s)
    \/ \E b \in Batches : ReadBatch(w, b)
    \/ StageBatch(w) \/ FinishSource(w) \/ MarkSourceStaged(w)

Apply(w) ==
    \/ ListStagedSources(w)
    \/ \E s \in Sources : LockSource(w, s) \/ SkipDeletedSource(w, s)
    \/ StageRows(w) \/ BuildCopy(w) \/ ReplacePartition(w)
    \/ RecheckSource(w) \/ DropResurrected(w)
    \/ RecordSourceEnrichment(w) \/ DeleteStagedRows(w) \/ RefreshFieldStats(w)
    \/ FinishJobRun(w) \/ ReleaseRun(w)

Recover ==
    \/ ListOrphans
    \/ \E w \in Workers, j \in Jobs : ReconcileOrphan(w, j)
    \/ \E j \in Jobs : SkipOrphan(j)
    \/ \E w \in Workers, old, j \in Jobs : Rerun(w, old, j)
    \/ \E old \in Jobs : SkipRerun(old)

Environment ==
    \/ \E w \in Workers : FailToStart(w) \/ Fail(w)
    \/ \E s \in Sources : \/ DeleteSource(s) \/ DropSourceEvents(s) \/ AbortDelete(s)
                          \/ DeleteSourceRow(s) \/ ComputeFill(s) \/ StoreFill(s)
    \/ \E e \in Enrichers : UpdateData(e)
    \/ Crash

Next ==
    \/ \E w \in Workers : Request(w) \/ Handle(w) \/ Scan(w) \/ Apply(w)
    \/ Recover
    \/ Environment

Spec == Init /\ [][Next]_vars

\* asyncio runs every scheduled task, a database call returns or raises.
\* Startup recovery is one background task of its own; it is strongly fair
\* because here it must find one of the Workers idle, which in the program it
\* need not.  Requests, failures and crashes are never owed.
Fairness ==
    /\ \A w \in Workers : WF_vars(Handle(w)) /\ WF_vars(Scan(w)) /\ WF_vars(Apply(w))
    /\ SF_vars(Recover)

FairSpec == Spec /\ Fairness

-----------------------------------------------------------------------------
(***************************************************************************)
(* Properties.                                                              *)
(***************************************************************************)

TaskType ==
    [pc : {"idle"} \cup HandlerPCs \cup JobPCs,
     kind : {"none", "run", "cleanup", "resume", "reconcile"},
     key : Keys \cup {None}, job : Jobs \cup {None}, todo : SUBSET Sources,
     cur : Sources \cup {None}, batch : Batches \cup {None},
     seen : SUBSET Batches, done : SUBSET Sources]

\* No row, one that describes the source, one that does not any more, and one
\* that does not and of which that is on record.
Freshness == {"none", "fresh", "stale", "reported"}

\* Every variable has its type.
TypeOK ==
    /\ version \in [Enrichers -> 1 .. MaxVersion]
    /\ sources \in SUBSET Sources
    /\ markers \in SUBSET Jobs
    /\ completed \in [Jobs -> SUBSET Sources]
    /\ jobKey \in [Jobs -> Keys \cup {None}]
    /\ jobVersion \in [Jobs -> Values]
    /\ staged \in [Jobs -> [Sources -> SUBSET Batches]]
    /\ prov \in [Sources -> [Enrichers -> Jobs \cup {None}]]
    /\ stats \in [Sources -> Freshness]
    /\ part \in [Sources -> Partitions]
    /\ rowsTbl \in [Jobs -> SUBSET Batches]
    /\ eventsTbl \in [Jobs -> Partitions]
    /\ slot \in [Keys -> Jobs \cup {None}]
    /\ lock \in [Sources -> Workers \cup {None}]
    /\ task \in [Workers -> TaskType]
    /\ boot \in {"boot", "up"}
    /\ orphans \in SUBSET Jobs /\ recovered \in SUBSET Jobs
    /\ snap \in [Jobs -> SUBSET Sources]
    /\ deleting \in [Sources -> {"no", "drop", "row"}]
    /\ fill \in [Sources -> Freshness]
    /\ used \in SUBSET Jobs /\ withdrawn \in SUBSET Sources
    /\ {fails, crashes, fills} \subseteq Nat

\* A task that runs, cleans up or resumes a job holds the run slot of its
\* (timeline, enricher) under that job's id, so that "marker present and slot
\* not held by it" means dead (list_enrichment_job_runs_for_timeline).
LiveRunHoldsSlot ==
    \A w \in Workers : Active(w) => slot[task[w].key] = task[w].job

\* Two applies never rewrite one partition at the same time, nor share the
\* scratch tables, which are named after the job id alone (_APPLY_LOCKS).
ApplyIsExclusive ==
    \A v, w \in Workers :
        v # w /\ Applying(v) /\ Applying(w) =>
            task[v].cur # task[w].cur /\ task[v].job # task[w].job

\* Staged rows always belong to a job with a marker: through it a resume or
\* the next boot can still apply them.
NoStrandedStaging ==
    \A j \in Jobs, s \in Sources : staged[j][s] # {} => j \in markers

HeldByTask(k) ==
    \E w \in Workers : Active(w) /\ task[w].key = k /\ task[w].job = slot[k]

\* A slot is only ever left behind by a job that did not get as far as
\* writing its marker (the call before the try of run_enrichment_job).
OnlyUnstartedRunsLeakSlots ==
    \A k \in Keys : slot[k] # None => HeldByTask(k) \/ jobVersion[slot[k]] = 0

Settled(s, e) ==
    /\ s \in sources \ withdrawn
    /\ \A w \in Workers : ~ (Applying(w) /\ task[w].cur = s)
    /\ \A j \in markers : jobKey[j][2] # e

\* Outside an apply, and with no run of the enricher unfinished, a provenance
\* row names the version that produced the derived keys on the source.  (A delete
\* that empties the source in the middle of a scan, is undone by the swap of
\* another apply and then fails, can leave a partial scan certified.)
ProvenanceDescribesPartition ==
    \A s \in Sources, e \in Enrichers :
        Settled(s, e) /\ prov[s][e] # None =>
            \A b \in DOMAIN part[s] :
                part[s][b][e] = Output(e, jobVersion[prov[s][e]], b)

\* No field-stats row goes stale silently: one that no longer describes its
\* source is about to be refreshed or dropped by the apply that outdated it, or
\* by the run that still has the rows to apply, whatever is deleted around it,
\* or it was reported when neither worked (and is trusted as before: "stale"
\* is the value of the unreported ones).  Not so after a crash, or for a source
\* whose own delete failed behind the drop of the partition: they leave the
\* row as it was.
StaleStatsAreRefreshed ==
    \A s \in Sources \ withdrawn : stats[s] = "stale" /\ crashes = 0 =>
        \/ \E w \in Workers : Applying(w) /\ task[w].cur = s
        \/ \E j \in markers : staged[j][s] # {}

Evidence == INSTANCE EnrichedEvidence WITH
    certified <- [s \in Sources |-> [e \in Enrichers |->
                     IF prov[s][e] = None THEN 0 ELSE jobVersion[prov[s][e]]]]

\* Runs, retries, resumes and recoveries, interleaved, crashed and failed as
\* they may be, change the evidence as EnrichedEvidence allows.
ImplementsEvidence == Evidence!Spec

\* Every marker is eventually cleared: what a crash leaves behind is applied
\* by the reconciliation of the next boot, unless something fails as well.
UnfinishedRunsAreRecovered ==
    \A j \in Jobs : j \in markers ~> j \notin markers \/ fails > 0

\* A run that started gives its slot back, also when it fails.
SlotsAreReleased ==
    \A k \in Keys, j \in Jobs :
        slot[k] = j /\ jobVersion[j] # 0 ~> slot[k] # j

\* The rows staged for a source that is deleted meanwhile are discarded.  (When
\* the run and its clean-up both fail they wait for a resume: for MaxFaults 1.)
DeletedRowsAreDiscarded ==
    \A j \in Jobs, s \in Sources :
        s \notin sources /\ staged[j][s] # {} ~> staged[j][s] = {}
=============================================================================
