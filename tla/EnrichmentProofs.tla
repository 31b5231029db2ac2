--------------------------- MODULE EnrichmentProofs ---------------------------
(***************************************************************************)
(* Proofs about Enrichment, for every number of sources, timelines,         *)
(* enrichers, jobs, tasks and failures.                                     *)
(***************************************************************************)
EXTENDS EnrichmentInvariant, TLAPS

USE ConstantsAssumption

-----------------------------------------------------------------------------
\* Merge yields a partition.
LEMMA MergeType ==
    ASSUME NEW p \in Partitions, NEW rows, NEW e \in Enrichers, NEW v \in Values
    PROVE  Merge(p, rows, e, v) \in Partitions
<1>1. PICK B \in SUBSET Batches : p \in [B -> Keyring]
  BY DEF Partitions
<1>2. Merge(p, rows, e, v) \in [B -> Keyring]
  BY <1>1 DEF Merge, Keyring, Values
<1> QED
  BY <1>2 DEF Partitions

LEMMA DroppedType == Dropped \in Partitions
<1>1. Dropped \in [{} -> Keyring]
  BY DEF Dropped
<1>2. {} \in SUBSET Batches
  OBVIOUS
<1> QED
  BY <1>1, <1>2 DEF Partitions

LEMMA IdleType == Idle \in TaskType
  BY DEF Idle, TaskType

LEMMA InitTyped == Init => TypeOK /\ Shape
<1> SUFFICES ASSUME Init PROVE TypeOK /\ Shape
  OBVIOUS
<1>1. part \in [Sources -> Partitions]
  <2>1. [b \in Batches |-> [e \in Enrichers |-> 0]] \in [Batches -> Keyring]
    BY DEF Keyring, Values
  <2>2. [b \in Batches |-> [e \in Enrichers |-> 0]] \in Partitions
    BY <2>1 DEF Partitions
  <2> QED
    BY <2>2 DEF Init
<1>2. TypeOK
  BY <1>1, DroppedType, IdleType DEF Init, TypeOK, Freshness, Values
<1>3. Shape
  BY DEF Init, Shape, TaskShape, Idle, JobPCs, ApplyPCs
<1> QED
  BY <1>2, <1>3

\* A step that changes one task only keeps the rest typed.
LEMMA TypedTaskStep ==
    ASSUME TypeOK, UNCHANGED allButTask, task' \in [Workers -> TaskType]
    PROVE  TypeOK'
  BY DEF TypeOK, allButTask, pgVars, jobRows, chVars, recVars, bounds

\* A task that keeps the type of its fields keeps its type.
LEMMA TaskUpdate ==
    ASSUME TypeOK, NEW w \in Workers, NEW t \in TaskType, task' = [task EXCEPT ![w] = t]
    PROVE  task' \in [Workers -> TaskType]
  BY DEF TypeOK

LEMMA TaskAt == ASSUME TypeOK, NEW w \in Workers PROVE task[w] \in TaskType
  BY DEF TypeOK

LEMMA PcUpdate ==
    ASSUME TypeOK, NEW w \in Workers, NEW x \in {"idle"} \cup HandlerPCs \cup JobPCs
    PROVE  [task[w] EXCEPT !.pc = x] \in TaskType
  BY TaskAt DEF TaskType

LEMMA PcCurUpdate ==
    ASSUME TypeOK, NEW w \in Workers, NEW x \in {"idle"} \cup HandlerPCs \cup JobPCs,
           NEW c \in Sources \cup {None}
    PROVE  [task[w] EXCEPT !.pc = x, !.cur = c] \in TaskType
  BY TaskAt DEF TaskType

-----------------------------------------------------------------------------
\* Type correctness, one group of actions at a time.
LEMMA RequestTyped ==
    ASSUME TypeOK, Shape, NEW w \in Workers, Request(w)
    PROVE  TypeOK'
<1>1. ASSUME NEW k \in Keys, RunTimelineEnricher(w, k) PROVE TypeOK'
  <2>1. [Idle EXCEPT !.pc = "markers", !.kind = "run", !.key = k,
                     !.todo = Members[k[1]] \cap sources] \in TaskType
    BY IdleType DEF TaskType, HandlerPCs, TypeOK
  <2> QED
    BY <1>1, <2>1, TaskUpdate, TypedTaskStep DEF RunTimelineEnricher
<1>2. ASSUME NEW k \in Keys, NEW s \in Sources, TriggerAutomatic(w, k, s) PROVE TypeOK'
  <2>1. [Idle EXCEPT !.pc = "autoMarkers", !.kind = "run", !.key = k,
                     !.job = slot[k], !.todo = {s}] \in TaskType
    BY IdleType DEF TaskType, HandlerPCs, TypeOK
  <2> QED
    BY <1>2, <2>1, TaskUpdate, TypedTaskStep DEF TriggerAutomatic
<1>3. ASSUME NEW j \in Jobs, ResumeTimelineEnricher(w, j) PROVE TypeOK'
  <2>1. [Idle EXCEPT !.pc = "claim", !.kind = "resume", !.key = jobKey[j],
                     !.job = j, !.done = completed[j]] \in TaskType
    BY IdleType DEF TaskType, HandlerPCs, TypeOK
  <2> QED
    BY <1>3, <2>1, TaskUpdate, TypedTaskStep DEF ResumeTimelineEnricher
<1> QED
  BY <1>1, <1>2, <1>3 DEF Request

LEMMA HandleTyped ==
    ASSUME TypeOK, Shape, NEW w \in Workers, Handle(w)
    PROVE  TypeOK'
<1>1. CASE CheckUnfinished(w)
  <2>1. [task[w] EXCEPT !.pc = "plan"] \in TaskType
    BY PcUpdate DEF HandlerPCs
  <2>2. task' \in [Workers -> TaskType]
    BY <1>1, <2>1, IdleType, TaskUpdate DEF CheckUnfinished, Stop
  <2> QED
    BY <1>1, <2>2, TypedTaskStep DEF CheckUnfinished
<1>2. ASSUME NEW j \in Jobs, NEW todo \in SUBSET Sources, task[w].key \in Keys,
             Claim(w, j, todo)
      PROVE  TypeOK'
  <2>1. [task[w] EXCEPT !.pc = "begin", !.job = j, !.todo = todo] \in TaskType
    BY TaskAt DEF TaskType, JobPCs
  <2>2. task' = [task EXCEPT ![w] = [task[w] EXCEPT !.pc = "begin", !.job = j,
                                                    !.todo = todo]]
    BY <1>2, TaskAt DEF Claim, TypeOK, TaskType
  <2> task' \in [Workers -> TaskType]
    BY <2>1, <2>2, TaskUpdate
  <2>3. /\ slot' \in [Keys -> Jobs \cup {None}]
        /\ jobKey' \in [Jobs -> Keys \cup {None}]
        /\ used' \in SUBSET Jobs
    BY <1>2 DEF Claim, TypeOK
  <2>4. UNCHANGED <<version, sources, markers, completed, jobVersion, staged,
                    prov, stats, chVars, lock, recVars, deleting, fill, fails,
                    crashes, withdrawn, fills>>
    BY <1>2 DEF Claim
  <2> QED
    BY <2>2, <2>3, <2>4 DEF TypeOK, chVars, recVars
<1>3. ASSUME NEW j \in Jobs, NEW force \in BOOLEAN, PlanAndClaim(w, j, force)
      PROVE  TypeOK'
  <2>1. task[w].key \in Keys
    BY <1>3 DEF PlanAndClaim, Shape, TaskShape
  <2>2. task[w].todo \in SUBSET Sources
    BY TaskAt DEF TaskType
  <2>3. PICK todo \in SUBSET Sources : Claim(w, j, todo)
    BY <1>3, <2>2 DEF PlanAndClaim
  <2> QED
    BY <1>2, <2>1, <2>3
<1>4. CASE AutoCheckUnfinished(w)
  <2>1. [task[w] EXCEPT !.pc = "autoClaim", !.job = None] \in TaskType
    BY TaskAt DEF TaskType, HandlerPCs
  <2>2. task' \in {[task EXCEPT ![w] = [task[w] EXCEPT !.pc = "autoClaim", !.job = None]],
                   [task EXCEPT ![w] = Idle]}
    BY <1>4, TaskAt DEF AutoCheckUnfinished, Stop, TypeOK, TaskType
  <2>3. task' \in [Workers -> TaskType]
    BY <2>1, <2>2, IdleType, TaskUpdate
  <2> QED
    BY <1>4, <2>3, TypedTaskStep DEF AutoCheckUnfinished
<1>5. ASSUME NEW j \in Jobs, AutoClaim(w, j) PROVE TypeOK'
  <2>1. task[w].key \in Keys /\ task[w].todo \in SUBSET Sources
    BY <1>5, TaskAt DEF AutoClaim, Shape, TaskShape, TaskType
  <2> QED
    BY <1>2, <1>5, <2>1 DEF AutoClaim
<1>6. CASE RefuseRun(w)
  BY <1>6, IdleType, TaskUpdate, TypedTaskStep DEF RefuseRun, Stop
<1>7. CASE ClaimResume(w)
  <2>1. [task[w] EXCEPT !.pc = "list"] \in TaskType
    BY PcUpdate DEF JobPCs
  <2>2. task' \in [Workers -> TaskType]
    BY <1>7, <2>1, IdleType, TaskUpdate DEF ClaimResume, Stop
  <2>3. slot' \in [Keys -> Jobs \cup {None}]
    BY <1>7, TaskAt DEF ClaimResume, TypeOK, TaskType
  <2> QED
    BY <1>7, <2>2, <2>3 DEF ClaimResume, TypeOK, pgVars, jobRows, chVars, recVars, bounds
<1> QED
  BY <1>1, <1>3, <1>4, <1>5, <1>6, <1>7 DEF Handle

LEMMA ScanTyped ==
    ASSUME TypeOK, Shape, NEW w \in Workers, Scan(w)
    PROVE  TypeOK'
<1>1. CASE StartJobRun(w)
  <2>1. [task[w] EXCEPT !.pc = "open"] \in TaskType
    BY PcUpdate DEF JobPCs
  <2>2. task' \in [Workers -> TaskType]
    BY <1>1, <2>1, TaskUpdate DEF StartJobRun
  <2>3. task[w].job \in Jobs /\ task[w].key \in Keys
    BY <1>1 DEF StartJobRun, Shape, TaskShape, JobPCs, TypeOK
  <2>4. markers' \in SUBSET Jobs /\ jobVersion' \in [Jobs -> Values]
    BY <1>1, <2>3 DEF StartJobRun, PinnedVersion, Keys, Values, TypeOK
  <2> QED
    BY <1>1, <2>2, <2>4 DEF StartJobRun, TypeOK, chVars, recVars, bounds
<1>2. ASSUME NEW s \in Sources, OpenSource(w, s) PROVE TypeOK'
  <2>1. [task[w] EXCEPT !.pc = "read", !.cur = s, !.seen = {}] \in TaskType
    BY TaskAt DEF TaskType, JobPCs
  <2>2. task' = [task EXCEPT ![w] = [task[w] EXCEPT !.pc = "read", !.cur = s, !.seen = {}]]
    BY <1>2 DEF OpenSource, TypeOK, TaskType
  <2> QED
    BY <1>2, <2>1, <2>2, TaskUpdate, TypedTaskStep DEF OpenSource
<1>3. ASSUME NEW b \in Batches, ReadBatch(w, b) PROVE TypeOK'
  <2>1. [task[w] EXCEPT !.pc = "write", !.batch = b, !.seen = @ \cup {b}] \in TaskType
    BY TaskAt DEF TaskType, JobPCs
  <2>2. task' = [task EXCEPT ![w] = [task[w] EXCEPT !.pc = "write", !.batch = b,
                                                    !.seen = @ \cup {b}]]
    BY <1>3 DEF ReadBatch, TypeOK, TaskType
  <2> QED
    BY <1>3, <2>1, <2>2, TaskUpdate, TypedTaskStep DEF ReadBatch
<1>4. CASE StageBatch(w)
  <2>1. [task[w] EXCEPT !.pc = "read", !.batch = None] \in TaskType
    BY TaskAt DEF TaskType, JobPCs
  <2>2. task' = [task EXCEPT ![w] = [task[w] EXCEPT !.pc = "read", !.batch = None]]
    BY <1>4 DEF StageBatch, TypeOK, TaskType
  <2>3. task' \in [Workers -> TaskType]
    BY <2>1, <2>2, TaskUpdate
  <2>4. task[w].job \in Jobs /\ task[w].cur \in Sources /\ task[w].batch \in Batches
    BY <1>4 DEF StageBatch, Shape, TaskShape, JobPCs, TypeOK
  <2>5. staged' \in [Jobs -> [Sources -> SUBSET Batches]]
    BY <1>4, <2>4 DEF StageBatch, TypeOK
  <2> QED
    BY <1>4, <2>3, <2>5 DEF StageBatch, TypeOK, jobRows, chVars, recVars, bounds
<1>5. CASE FinishSource(w)
  <2>1. task[w].cur \in Sources
    BY <1>5 DEF FinishSource, Shape, TaskShape
  <2>2. [task[w] EXCEPT !.pc = "mark", !.done = @ \cup {task[w].cur},
                        !.todo = @ \ {task[w].cur}] \in TaskType
    BY <2>1, TaskAt DEF TaskType, JobPCs
  <2>3. task' = [task EXCEPT ![w] = [task[w] EXCEPT !.pc = "mark",
                     !.done = @ \cup {task[w].cur}, !.todo = @ \ {task[w].cur}]]
    BY <1>5 DEF FinishSource, TypeOK, TaskType
  <2> QED
    BY <1>5, <2>2, <2>3, TaskUpdate, TypedTaskStep DEF FinishSource
<1>6. CASE MarkSourceStaged(w)
  <2>1. [task[w] EXCEPT !.pc = "open", !.cur = None] \in TaskType
    BY PcCurUpdate DEF JobPCs
  <2>2. task' = [task EXCEPT ![w] = [task[w] EXCEPT !.pc = "open", !.cur = None]]
    BY <1>6 DEF MarkSourceStaged, TypeOK, TaskType
  <2>3. task' \in [Workers -> TaskType]
    BY <2>1, <2>2, TaskUpdate
  <2>4. task[w].job \in Jobs /\ task[w].cur \in Sources
    BY <1>6 DEF MarkSourceStaged, Shape, TaskShape, JobPCs, TypeOK
  <2>5. completed' \in [Jobs -> SUBSET Sources]
    BY <1>6, <2>4 DEF MarkSourceStaged, TypeOK
  <2> QED
    BY <1>6, <2>3, <2>5 DEF MarkSourceStaged, TypeOK, chVars, recVars, bounds
<1> QED
  BY <1>1, <1>2, <1>3, <1>4, <1>5, <1>6 DEF Scan

LEMMA ApplyTyped ==
    ASSUME TypeOK, Shape, NEW w \in Workers, Apply(w)
    PROVE  TypeOK'
<1> DEFINE s == task[w].cur
           j == task[w].job
<1>1. ASSUME NEW x \in JobPCs, task' = [task EXCEPT ![w].pc = x]
      PROVE  task' \in [Workers -> TaskType]
  BY <1>1, PcUpdate, TaskUpdate
<1>2. ASSUME NextSource(w), s \in Sources
      PROVE  /\ task' \in [Workers -> TaskType]
             /\ lock' \in [Sources -> Workers \cup {None}]
  <2>1. [task[w] EXCEPT !.pc = "lock", !.cur = None] \in TaskType
    BY PcCurUpdate DEF JobPCs
  <2>2. task' = [task EXCEPT ![w] = [task[w] EXCEPT !.pc = "lock", !.cur = None]]
    BY <1>2 DEF NextSource, TypeOK, TaskType
  <2> QED
    BY <1>2, <2>1, <2>2, TaskUpdate DEF NextSource, TypeOK
<1>3. ASSUME task[w].pc \in ApplyPCs PROVE s \in Sources /\ j \in Jobs /\ task[w].key \in Keys
  BY <1>3 DEF Shape, TaskShape, ApplyPCs, JobPCs, TypeOK
<1>4. CASE ListStagedSources(w)
  <2>1. [task[w] EXCEPT !.pc = "lock", !.todo = StagedSources(w)] \in TaskType
    BY TaskAt DEF TaskType, JobPCs, StagedSources
  <2>2. task' = [task EXCEPT ![w] = [task[w] EXCEPT !.pc = "lock", !.todo = StagedSources(w)]]
    BY <1>4 DEF ListStagedSources, TypeOK, TaskType
  <2> QED
    BY <1>4, <2>1, <2>2, TaskUpdate, TypedTaskStep DEF ListStagedSources
<1>5. ASSUME NEW x \in Sources, LockSource(w, x) PROVE TypeOK'
  <2>1. [task[w] EXCEPT !.pc = "stage", !.cur = x, !.todo = @ \ {x}] \in TaskType
    BY TaskAt DEF TaskType, JobPCs
  <2>2. task' = [task EXCEPT ![w] = [task[w] EXCEPT !.pc = "stage", !.cur = x,
                                                    !.todo = @ \ {x}]]
    BY <1>5 DEF LockSource, TypeOK, TaskType
  <2>3. task' \in [Workers -> TaskType] /\ lock' \in [Sources -> Workers \cup {None}]
    BY <1>5, <2>1, <2>2, TaskUpdate DEF LockSource, TypeOK
  <2> QED
    BY <1>5, <2>3 DEF LockSource, TypeOK, pgVars, jobRows, chVars, recVars, bounds
<1>6. ASSUME NEW x \in Sources, SkipDeletedSource(w, x) PROVE TypeOK'
  <2>1. [task[w] EXCEPT !.todo = @ \ {x}] \in TaskType
    BY TaskAt DEF TaskType
  <2>2. j \in Jobs
    BY <1>6 DEF SkipDeletedSource, Shape, TaskShape, JobPCs, TypeOK
  <2>3. task' \in [Workers -> TaskType] /\ staged' \in [Jobs -> [Sources -> SUBSET Batches]]
    BY <1>6, <2>1, <2>2, TaskUpdate DEF SkipDeletedSource, TypeOK
  <2> QED
    BY <1>6, <2>3 DEF SkipDeletedSource, TypeOK, jobRows, chVars, recVars, bounds
<1>7. CASE StageRows(w)
  <2>1. task' \in [Workers -> TaskType] /\ lock' \in [Sources -> Workers \cup {None}]
    BY <1>1, <1>2, <1>3, <1>7 DEF StageRows, ApplyPCs, JobPCs, TypeOK
  <2>2. rowsTbl' \in [Jobs -> SUBSET Batches]
    BY <1>3, <1>7 DEF StageRows, ApplyPCs, TypeOK
  <2> QED
    BY <1>7, <2>1, <2>2 DEF StageRows, TypeOK, pgVars, jobRows, recVars, bounds
<1>8. CASE BuildCopy(w)
  <2>1. task' \in [Workers -> TaskType]
    BY <1>1, <1>8 DEF BuildCopy, JobPCs
  <2>2. Merge(part[s], rowsTbl[j], task[w].key[2], jobVersion[j]) \in Partitions
    BY <1>3, <1>8, MergeType DEF BuildCopy, ApplyPCs, Keys, TypeOK
  <2>3. eventsTbl' \in [Jobs -> Partitions]
    BY <1>8, <2>2 DEF BuildCopy, TypeOK
  <2> QED
    BY <1>8, <2>1, <2>3 DEF BuildCopy, TypeOK, pgVars, jobRows, recVars, bounds
<1>9. CASE ReplacePartition(w)
  <2>1. task' \in [Workers -> TaskType]
    BY <1>1, <1>9 DEF ReplacePartition, JobPCs
  <2>2. part' \in [Sources -> Partitions]
    BY <1>3, <1>9 DEF ReplacePartition, ApplyPCs, TypeOK
  <2>3. stats' \in [Sources -> Freshness] /\ fill' \in [Sources -> Freshness]
    BY <1>9 DEF ReplacePartition, Outdated, Freshness, TypeOK
  <2> QED
    BY <1>9, <2>1, <2>2, <2>3 DEF ReplacePartition, TypeOK, jobRows, recVars, bounds
<1>10. CASE RecheckSource(w)
  <2>1. task' \in [Workers -> TaskType]
    BY <1>1, <1>10 DEF RecheckSource, JobPCs
  <2> QED
    BY <1>10, <2>1, TypedTaskStep DEF RecheckSource
<1>11. CASE DropResurrected(w)
  <2>1. task' \in [Workers -> TaskType] /\ lock' \in [Sources -> Workers \cup {None}]
    BY <1>2, <1>3, <1>11 DEF DropResurrected, ApplyPCs
  <2>2. part' \in [Sources -> Partitions]
    BY <1>11, DroppedType DEF DropResurrected, TypeOK
  <2>3. stats' \in [Sources -> Freshness] /\ fill' \in [Sources -> Freshness]
    BY <1>11 DEF DropResurrected, Outdated, Freshness, TypeOK
  <2>4. staged' \in [Jobs -> [Sources -> SUBSET Batches]]
    BY <1>11 DEF DropResurrected, TypeOK
  <2> QED
    BY <1>11, <2>1, <2>2, <2>3, <2>4 DEF DropResurrected, TypeOK, jobRows, recVars, bounds
<1>12. CASE RecordSourceEnrichment(w)
  <2>1. task' \in [Workers -> TaskType]
    BY <1>1, <1>12 DEF RecordSourceEnrichment, JobPCs
  <2>2. prov' \in [Sources -> [Enrichers -> Jobs \cup {None}]]
    BY <1>3, <1>12 DEF RecordSourceEnrichment, ApplyPCs, TypeOK
  <2> QED
    BY <1>12, <2>1, <2>2
       DEF RecordSourceEnrichment, TypeOK, jobRows, chVars, recVars, bounds
<1>13. CASE DeleteStagedRows(w)
  <2>1. task' \in [Workers -> TaskType]
    BY <1>1, <1>13 DEF DeleteStagedRows, JobPCs
  <2>2. staged' \in [Jobs -> [Sources -> SUBSET Batches]]
    BY <1>13 DEF DeleteStagedRows, TypeOK
  <2> QED
    BY <1>13, <2>1, <2>2 DEF DeleteStagedRows, TypeOK, jobRows, chVars, recVars, bounds
<1>14. CASE RefreshFieldStats(w)
  <2>1. task' \in [Workers -> TaskType] /\ lock' \in [Sources -> Workers \cup {None}]
    BY <1>2, <1>3, <1>14 DEF RefreshFieldStats, ApplyPCs
  <2>2. stats' \in [Sources -> Freshness]
    <3>1. \A row \in Freshness : StatsAfterFailure(row) \subseteq Freshness
      BY DEF StatsAfterFailure, Freshness
    <3>2. /\ stats \in [Sources -> Freshness]
          /\ \A x \in Sources : stats[x] \in Freshness
      BY DEF TypeOK
    <3>3. PICK row \in Freshness \cup StatsAfterFailure(stats[task[w].cur]) :
              stats' = [stats EXCEPT ![task[w].cur] = row]
      BY <1>14 DEF RefreshFieldStats, Freshness
    <3>4. CASE task[w].cur \in Sources
      BY <3>1, <3>2, <3>3, <3>4
    <3>5. CASE task[w].cur \notin Sources
      BY <3>2, <3>3, <3>5
    <3> QED
      BY <3>4, <3>5
  <2>3. fails' \in Nat
    BY <1>14 DEF RefreshFieldStats, TypeOK
  <2> QED
    BY <1>14, <2>1, <2>2, <2>3 DEF RefreshFieldStats, TypeOK, jobRows, chVars, recVars
<1>15. CASE FinishJobRun(w)
  <2>1. task' \in [Workers -> TaskType]
    BY <1>1, <1>15 DEF FinishJobRun, JobPCs
  <2> QED
    BY <1>15, <2>1 DEF FinishJobRun, TypeOK, chVars, recVars, bounds
<1>16. CASE ReleaseRun(w)
  <2>1. task' \in [Workers -> TaskType]
    BY <1>16, IdleType, TaskUpdate DEF ReleaseRun, Stop
  <2>2. j \in Jobs
    BY <1>16 DEF ReleaseRun, Shape, TaskShape, JobPCs, TypeOK
  <2>3. slot' \in [Keys -> Jobs \cup {None}] /\ recovered' \in SUBSET Jobs
    BY <1>16, <2>2 DEF ReleaseRun, TypeOK
  <2> QED
    BY <1>16, <2>1, <2>3 DEF ReleaseRun, TypeOK, pgVars, jobRows, chVars, bounds
<1> QED
  BY <1>4, <1>5, <1>6, <1>7, <1>8, <1>9, <1>10, <1>11, <1>12, <1>13, <1>14, <1>15,
     <1>16 DEF Apply

LEMMA RecoverTyped ==
    ASSUME TypeOK, Shape, Recover
    PROVE  TypeOK'
<1>1. CASE ListOrphans
  BY <1>1 DEF ListOrphans, OrphanedRuns, TypeOK, pgVars, jobRows, chVars, bounds
<1>2. ASSUME NEW w \in Workers, NEW j \in Jobs, ReconcileOrphan(w, j) PROVE TypeOK'
  <2>1. [Idle EXCEPT !.pc = "list", !.kind = "reconcile", !.key = jobKey[j],
                     !.job = j, !.done = snap[j]] \in TaskType
    BY IdleType DEF TaskType, JobPCs, TypeOK
  <2>2. task' \in [Workers -> TaskType]
    BY <1>2, <2>1, TaskUpdate DEF ReconcileOrphan
  <2>3. slot' \in [Keys -> Jobs \cup {None}]
    BY <1>2 DEF ReconcileOrphan, TypeOK
  <2> QED
    BY <1>2, <2>2, <2>3 DEF ReconcileOrphan, TypeOK, pgVars, jobRows, chVars, bounds
<1>3. ASSUME NEW j \in Jobs, SkipOrphan(j) PROVE TypeOK'
  BY <1>3 DEF SkipOrphan, TypeOK, pgVars, jobRows, chVars, bounds
<1>4. ASSUME NEW w \in Workers, NEW old \in Jobs, NEW j \in Jobs, Rerun(w, old, j)
      PROVE  TypeOK'
  <2> DEFINE k    == jobKey[old]
             todo == Members[k[1]] \cap sources
  <2>1. k \in Keys
    BY <1>4 DEF Rerun, Shape
  <2>2. [Idle EXCEPT !.pc = "begin", !.kind = "run", !.key = k, !.job = j,
                     !.todo = todo] \in TaskType
    BY <2>1, IdleType DEF TaskType, JobPCs, TypeOK
  <2>3. task' \in [Workers -> TaskType]
    BY <1>4, <2>2, TaskUpdate DEF Rerun
  <2>4. /\ slot' \in [Keys -> Jobs \cup {None}]
        /\ jobKey' \in [Jobs -> Keys \cup {None}]
        /\ used' \in SUBSET Jobs
        /\ recovered' \in SUBSET Jobs
    BY <1>4, <2>1 DEF Rerun, TypeOK
  <2> QED
    BY <1>4, <2>3, <2>4 DEF Rerun, TypeOK, chVars
<1>5. ASSUME NEW old \in Jobs, SkipRerun(old) PROVE TypeOK'
  BY <1>5 DEF SkipRerun, TypeOK, pgVars, jobRows, chVars, bounds
<1> QED
  BY <1>1, <1>2, <1>3, <1>4, <1>5 DEF Recover

LEMMA EnvironmentTyped ==
    ASSUME TypeOK, Shape, Environment
    PROVE  TypeOK'
<1>1. ASSUME NEW w \in Workers, FailToStart(w) PROVE TypeOK'
  <2>1. task' \in [Workers -> TaskType]
    BY <1>1, IdleType, TaskUpdate DEF FailToStart, Stop
  <2> QED
    BY <1>1, <2>1 DEF FailToStart, TypeOK, pgVars, jobRows, chVars, recVars
<1>2. ASSUME NEW w \in Workers, Fail(w) PROVE TypeOK'
  <2>1. [task[w] EXCEPT !.pc = "list", !.kind = "cleanup", !.cur = None,
                        !.batch = None] \in TaskType
    BY TaskAt DEF TaskType, JobPCs
  <2>2. [task[w] EXCEPT !.pc = "abort", !.cur = None] \in TaskType
    BY PcCurUpdate DEF JobPCs
  <2>3. task' \in {[task EXCEPT ![w] = [task[w] EXCEPT !.pc = "list", !.kind = "cleanup",
                                                       !.cur = None, !.batch = None]],
                   [task EXCEPT ![w] = [task[w] EXCEPT !.pc = "abort", !.cur = None]]}
    BY <1>2 DEF Fail, TypeOK, TaskType
  <2>4. task' \in [Workers -> TaskType]
    BY <2>1, <2>2, <2>3, TaskUpdate
  <2>5. lock' \in [Sources -> Workers \cup {None}]
    BY <1>2 DEF Fail, TypeOK
  <2>6. fails' \in Nat
    BY <1>2 DEF Fail, TypeOK
  <2> QED
    BY <1>2, <2>4, <2>5, <2>6 DEF Fail, TypeOK, pgVars, jobRows, chVars, recVars
<1>3. ASSUME NEW s \in Sources, DeleteSource(s) PROVE TypeOK'
  BY <1>3 DEF DeleteSource, TypeOK, pgVars, jobRows, chVars, recVars
<1>4. ASSUME NEW s \in Sources, DropSourceEvents(s) PROVE TypeOK'
  <2>1. part' \in [Sources -> Partitions]
    BY <1>4, DroppedType DEF DropSourceEvents, TypeOK
  <2>2. stats' \in [Sources -> Freshness] /\ fill' \in [Sources -> Freshness]
    BY <1>4 DEF DropSourceEvents, Outdated, Freshness, TypeOK
  <2>3. deleting' \in [Sources -> {"no", "drop", "row"}]
    BY <1>4 DEF DropSourceEvents, TypeOK
  <2> QED
    BY <1>4, <2>1, <2>2, <2>3 DEF DropSourceEvents, TypeOK, jobRows, recVars, bounds
<1>5. ASSUME NEW s \in Sources, AbortDelete(s) PROVE TypeOK'
  BY <1>5 DEF AbortDelete, TypeOK, pgVars, jobRows, chVars, recVars, bounds
<1>6. ASSUME NEW s \in Sources, DeleteSourceRow(s) PROVE TypeOK'
  <2>1. prov' \in [Sources -> [Enrichers -> Jobs \cup {None}]]
    BY <1>6 DEF DeleteSourceRow, TypeOK
  <2>2. staged' \in [Jobs -> [Sources -> SUBSET Batches]]
    BY <1>6 DEF DeleteSourceRow, TypeOK
  <2>3. /\ stats' \in [Sources -> Freshness]
        /\ deleting' \in [Sources -> {"no", "drop", "row"}]
        /\ sources' \in SUBSET Sources
    BY <1>6 DEF DeleteSourceRow, Freshness, TypeOK
  <2> QED
    BY <1>6, <2>1, <2>2, <2>3 DEF DeleteSourceRow, TypeOK, jobRows, chVars, recVars, bounds
<1>7. ASSUME NEW s \in Sources, ComputeFill(s) PROVE TypeOK'
  BY <1>7 DEF ComputeFill, Freshness, TypeOK, pgVars, jobRows, chVars, recVars
<1>8. ASSUME NEW s \in Sources, StoreFill(s) PROVE TypeOK'
  <2>1. stats' \in [Sources -> Freshness] /\ fill' \in [Sources -> Freshness]
    BY <1>8 DEF StoreFill, Freshness, TypeOK
  <2> QED
    BY <1>8, <2>1 DEF StoreFill, TypeOK, jobRows, chVars, recVars, bounds
<1>9. ASSUME NEW e \in Enrichers, UpdateData(e) PROVE TypeOK'
  <2>1. version' \in [Enrichers -> 1 .. MaxVersion]
    BY <1>9 DEF UpdateData, TypeOK
  <2> QED
    BY <1>9, <2>1 DEF UpdateData, TypeOK, pgVars, jobRows, chVars, memVars, bounds
<1>10. CASE Crash
  <2>1. task' \in [Workers -> TaskType]
    BY <1>10, IdleType DEF Crash
  <2>2. crashes' \in Nat
    BY <1>10 DEF Crash, TypeOK
  <2> QED
    BY <1>10, <2>1, <2>2 DEF Crash, Freshness, TypeOK, pgVars, jobRows, chVars
<1> QED
  BY <1>1, <1>2, <1>3, <1>4, <1>5, <1>6, <1>7, <1>8, <1>9, <1>10 DEF Environment

LEMMA TypeStep == TypeOK /\ Shape /\ [Next]_vars => TypeOK'
<1> SUFFICES ASSUME TypeOK, Shape, [Next]_vars PROVE TypeOK'
  OBVIOUS
<1>1. CASE UNCHANGED vars
  BY <1>1 DEF TypeOK, vars, pgVars, jobRows, chVars, memVars, bounds
<1>2. CASE Next
  BY <1>2, RequestTyped, HandleTyped, ScanTyped, ApplyTyped, RecoverTyped,
     EnvironmentTyped DEF Next
<1> QED
  BY <1>1, <1>2

-----------------------------------------------------------------------------
\* Shape is inductive: a step of one task only has to restore its own shape.
LEMMA ShapeKept ==
    ASSUME Shape, NEW w \in Workers, UNCHANGED <<used, jobKey, orphans>>,
           markers' \cup recovered' \subseteq used,
           \A v \in Workers \ {w} : task'[v] = task[v], TaskShape(w)'
    PROVE  Shape'
  BY DEF Shape, TaskShape

LEMMA RequestShape ==
    ASSUME TypeOK, Shape, NEW w \in Workers, Request(w)
    PROVE  Shape'
<1>1. UNCHANGED allButTask /\ \A v \in Workers \ {w} : task'[v] = task[v]
  BY DEF Request, RunTimelineEnricher, TriggerAutomatic, ResumeTimelineEnricher, TypeOK
<1>2. TaskShape(w)'
  <2>1. ASSUME NEW k \in Keys, RunTimelineEnricher(w, k) PROVE TaskShape(w)'
    BY <2>1 DEF RunTimelineEnricher, TypeOK, Idle, TaskShape, JobPCs, ApplyPCs
  <2>2. ASSUME NEW k \in Keys, NEW s \in Sources, TriggerAutomatic(w, k, s)
        PROVE  TaskShape(w)'
    BY <2>2 DEF TriggerAutomatic, TypeOK, Idle, TaskShape, JobPCs, ApplyPCs
  <2>3. ASSUME NEW j \in Jobs, ResumeTimelineEnricher(w, j) PROVE TaskShape(w)'
    <3>1. j \in used /\ jobKey[j] \in Keys
      BY <2>3 DEF ResumeTimelineEnricher, Shape
    <3> QED
      BY <2>3, <3>1 DEF ResumeTimelineEnricher, TypeOK, Idle, TaskShape, JobPCs, ApplyPCs,
                        allButTask, pgVars, jobRows, bounds
  <2> QED
    BY <2>1, <2>2, <2>3 DEF Request
<1> QED
  BY <1>1, <1>2, ShapeKept DEF Shape, allButTask, pgVars, jobRows, recVars, bounds

LEMMA ClaimShape ==
    ASSUME TypeOK, Shape, NEW w \in Workers, NEW j \in Jobs \ used, NEW k \in Keys,
           used' = used \cup {j}, jobKey' = [jobKey EXCEPT ![j] = k],
           markers' = markers, orphans' = orphans, recovered' \subseteq recovered,
           \A v \in Workers \ {w} : task'[v] = task[v],
           task'[w].pc = "begin", task'[w].key = k, task'[w].job = j
    PROVE  Shape'
<1>1. \A i \in used : jobKey'[i] = jobKey[i]
  BY DEF TypeOK
<1>2. jobKey'[j] = k
  BY DEF TypeOK
<1>3. \A v \in Workers \ {w} : TaskShape(v)'
  BY <1>1 DEF Shape, TaskShape
<1>4. TaskShape(w)'
  BY <1>2 DEF TaskShape, JobPCs, ApplyPCs
<1> QED
  BY <1>1, <1>2, <1>3, <1>4 DEF Shape

LEMMA HandleShape ==
    ASSUME TypeOK, Shape, NEW w \in Workers, Handle(w)
    PROVE  Shape'
<1> DEFINE Others == \A v \in Workers \ {w} : task'[v] = task[v]
<1>1. ASSUME CheckUnfinished(w) \/ AutoCheckUnfinished(w) \/ RefuseRun(w)
      PROVE  Shape'
  <2>1. UNCHANGED allButTask /\ Others
    BY <1>1 DEF CheckUnfinished, AutoCheckUnfinished, RefuseRun, Stop, TypeOK
  <2>2. /\ task'[w].pc \in {"idle", "plan", "autoClaim"}
        /\ task'[w].pc # "idle" => task[w].pc # "idle" /\ task'[w].key = task[w].key
    BY <1>1 DEF CheckUnfinished, AutoCheckUnfinished, RefuseRun, Stop, Idle, TypeOK, TaskType
  <2>3. TaskShape(w)'
    BY <2>2 DEF Shape, TaskShape, JobPCs, ApplyPCs
  <2> QED
    BY <2>1, <2>3, ShapeKept DEF Shape, allButTask, pgVars, jobRows, recVars, bounds
<1>2. ASSUME NEW j \in Jobs, NEW todo \in SUBSET Sources, task[w].key \in Keys,
             Claim(w, j, todo)
      PROVE  Shape'
  <2>1. /\ Others
        /\ task'[w].pc = "begin" /\ task'[w].key = task[w].key /\ task'[w].job = j
    BY <1>2 DEF Claim, TypeOK, TaskType
  <2> QED
    BY <1>2, <2>1, ClaimShape DEF Claim, recVars
<1>3. ASSUME NEW j \in Jobs, NEW force \in BOOLEAN,
             PlanAndClaim(w, j, force) \/ AutoClaim(w, j)
      PROVE  Shape'
  <2>1. task[w].key \in Keys
    BY <1>3 DEF PlanAndClaim, AutoClaim, Shape, TaskShape
  <2>2. task[w].todo \in SUBSET Sources
    BY TaskAt DEF TaskType
  <2>3. PICK todo \in SUBSET Sources : Claim(w, j, todo)
    BY <1>3, <2>2 DEF PlanAndClaim, AutoClaim
  <2> QED
    BY <1>2, <2>1, <2>3
<1>4. CASE ClaimResume(w)
  <2>1. /\ Others
        /\ \/ task'[w] = Idle
           \/ /\ task'[w].pc = "list"
              /\ task'[w].key = task[w].key /\ task'[w].job = task[w].job
    BY <1>4 DEF ClaimResume, Stop, TypeOK, TaskType
  <2>2. TaskShape(w)'
    BY <1>4, <2>1 DEF ClaimResume, Shape, TaskShape, Idle, JobPCs, ApplyPCs, pgVars,
                      jobRows, bounds
  <2> QED
    BY <1>4, <2>1, <2>2, ShapeKept DEF ClaimResume, Shape, pgVars, jobRows, recVars, bounds
<1> QED
  BY <1>1, <1>3, <1>4 DEF Handle

\* What a step of a job leaves alone: its key, its id, the other tasks.
OnTask(w) ==
    /\ \A v \in Workers \ {w} : task'[v] = task[v]
    /\ task'[w].key = task[w].key /\ task'[w].job = task[w].job

LEMMA ScanOnTask ==
    ASSUME TypeOK, Shape, NEW w \in Workers, Scan(w)
    PROVE  /\ Active(w) /\ Active(w)' /\ OnTask(w)
           /\ task'[w].pc \in {"open", "read", "write", "mark"}
           /\ task'[w].pc # "open" => task'[w].cur \in Sources
           /\ task'[w].pc = "write" => task'[w].batch \in Batches
           /\ UNCHANGED <<slot, lock, used, jobKey, orphans, recovered>>
<1> DEFINE Moves ==
             /\ Active(w) /\ Active(w)' /\ OnTask(w)
             /\ task'[w].pc \in {"open", "read", "write", "mark"}
             /\ task'[w].pc # "open" => task'[w].cur \in Sources
             /\ task'[w].pc = "write" => task'[w].batch \in Batches
           Frame == UNCHANGED <<slot, lock, used, jobKey, orphans, recovered>>
<1>1. CASE StartJobRun(w)
  <2>1. Moves
    BY <1>1 DEF StartJobRun, OnTask, Active, JobPCs, TypeOK, TaskType
  <2> QED
    BY <1>1, <2>1 DEF StartJobRun, recVars, bounds
<1>2. ASSUME NEW s \in Sources, OpenSource(w, s) PROVE Moves /\ Frame
  <2>1. Moves
    BY <1>2 DEF OpenSource, OnTask, Active, JobPCs, TypeOK, TaskType
  <2> QED
    BY <1>2, <2>1 DEF OpenSource, allButTask, pgVars, jobRows, recVars, bounds
<1>3. ASSUME NEW b \in Batches, ReadBatch(w, b) PROVE Moves /\ Frame
  <2>1. task[w].cur \in Sources
    BY <1>3 DEF ReadBatch, Shape, TaskShape
  <2>2. Moves
    BY <1>3, <2>1 DEF ReadBatch, OnTask, Active, JobPCs, TypeOK, TaskType
  <2> QED
    BY <1>3, <2>2 DEF ReadBatch, allButTask, pgVars, jobRows, recVars, bounds
<1>4. CASE StageBatch(w)
  <2>1. task[w].cur \in Sources
    BY <1>4 DEF StageBatch, Shape, TaskShape
  <2>2. Moves
    BY <1>4, <2>1 DEF StageBatch, OnTask, Active, JobPCs, TypeOK, TaskType
  <2> QED
    BY <1>4, <2>2 DEF StageBatch, jobRows, recVars, bounds
<1>5. CASE FinishSource(w)
  <2>1. task[w].cur \in Sources
    BY <1>5 DEF FinishSource, Shape, TaskShape
  <2>2. Moves
    BY <1>5, <2>1 DEF FinishSource, OnTask, Active, JobPCs, TypeOK, TaskType
  <2> QED
    BY <1>5, <2>2 DEF FinishSource, allButTask, pgVars, jobRows, recVars, bounds
<1>6. CASE MarkSourceStaged(w)
  <2>1. Moves
    BY <1>6 DEF MarkSourceStaged, OnTask, Active, JobPCs, TypeOK, TaskType
  <2> QED
    BY <1>6, <2>1 DEF MarkSourceStaged, recVars, bounds
<1> QED
  BY <1>1, <1>2, <1>3, <1>4, <1>5, <1>6 DEF Scan

LEMMA ScanShape ==
    ASSUME TypeOK, Shape, NEW w \in Workers, Scan(w)
    PROVE  Shape'
<1>1. task[w].job \in used /\ jobKey[task[w].job] = task[w].key /\ task[w].key \in Keys
  BY ScanOnTask DEF Active, Shape, TaskShape, JobPCs
<1>2. markers' \subseteq used
  BY <1>1 DEF Scan, StartJobRun, OpenSource, ReadBatch, StageBatch, FinishSource,
              MarkSourceStaged, Shape, allButTask, pgVars, jobRows
<1>3. TaskShape(w)'
  BY <1>1, ScanOnTask DEF TaskShape, OnTask, ApplyPCs
<1> QED
  BY <1>2, <1>3, ScanOnTask, ShapeKept DEF Shape, OnTask

\* The steps of an apply but the last, which returns the task to the pool.
Rewrite(w) ==
    \/ ListStagedSources(w)
    \/ \E s \in Sources : LockSource(w, s) \/ SkipDeletedSource(w, s)
    \/ StageRows(w) \/ BuildCopy(w) \/ ReplacePartition(w)
    \/ RecheckSource(w) \/ DropResurrected(w)
    \/ RecordSourceEnrichment(w) \/ DeleteStagedRows(w) \/ RefreshFieldStats(w)
    \/ FinishJobRun(w)

LEMMA RewriteOnTask ==
    ASSUME TypeOK, NEW w \in Workers, Rewrite(w)
    PROVE  /\ Active(w) /\ Active(w)' /\ OnTask(w)
           /\ task'[w].pc \notin {"begin", "open", "read", "write", "mark"}
           /\ Applying(w)' => \/ task'[w].cur \in Sources
                              \/ Applying(w) /\ task'[w].cur = task[w].cur
           /\ UNCHANGED <<slot, used, jobKey, jobVersion, orphans, recovered>>
           /\ markers' \subseteq markers
<1> DEFINE Moves ==
             /\ Active(w) /\ Active(w)' /\ OnTask(w)
             /\ task'[w].pc \notin {"begin", "open", "read", "write", "mark"}
             /\ Applying(w)' => \/ task'[w].cur \in Sources
                                \/ Applying(w) /\ task'[w].cur = task[w].cur
           Frame ==
             /\ UNCHANGED <<slot, used, jobKey, jobVersion, orphans, recovered>>
             /\ markers' \subseteq markers
<1>1. ASSUME ListStagedSources(w) PROVE Moves /\ Frame
  BY <1>1 DEF ListStagedSources, OnTask, Active, Applying, JobPCs, ApplyPCs, TypeOK, TaskType,
              allButTask, pgVars, jobRows, recVars, bounds
<1>2. ASSUME NEW s \in Sources, LockSource(w, s) PROVE Moves /\ Frame
  BY <1>2 DEF LockSource, OnTask, Active, Applying, JobPCs, ApplyPCs, TypeOK, TaskType,
              pgVars, jobRows, recVars, bounds
<1>3. ASSUME NEW s \in Sources, SkipDeletedSource(w, s) PROVE Moves /\ Frame
  BY <1>3 DEF SkipDeletedSource, OnTask, Active, Applying, JobPCs, ApplyPCs, TypeOK, TaskType,
              jobRows, recVars, bounds
<1>4. ASSUME StageRows(w) PROVE Moves /\ Frame
  BY <1>4 DEF StageRows, NextSource, OnTask, Active, Applying, JobPCs, ApplyPCs, TypeOK,
              TaskType, pgVars, jobRows, recVars, bounds
<1>5. ASSUME BuildCopy(w) PROVE Moves /\ Frame
  BY <1>5 DEF BuildCopy, OnTask, Active, Applying, JobPCs, ApplyPCs, TypeOK,
              TaskType, pgVars, jobRows, recVars, bounds
<1>6. ASSUME ReplacePartition(w) PROVE Moves /\ Frame
  BY <1>6 DEF ReplacePartition, OnTask, Active, Applying, JobPCs, ApplyPCs, TypeOK,
              TaskType, jobRows, recVars, bounds
<1>7. ASSUME RecheckSource(w) PROVE Moves /\ Frame
  BY <1>7 DEF RecheckSource, OnTask, Active, Applying, JobPCs, ApplyPCs, TypeOK,
              TaskType, allButTask, pgVars, jobRows, recVars, bounds
<1>8. ASSUME DropResurrected(w) PROVE Moves /\ Frame
  BY <1>8 DEF DropResurrected, NextSource, OnTask, Active, Applying, JobPCs, ApplyPCs, TypeOK,
              TaskType, jobRows, recVars, bounds
<1>9. ASSUME RecordSourceEnrichment(w) PROVE Moves /\ Frame
  BY <1>9 DEF RecordSourceEnrichment, OnTask, Active, Applying, JobPCs, ApplyPCs, TypeOK,
              TaskType, jobRows, recVars, bounds
<1>10. ASSUME DeleteStagedRows(w) PROVE Moves /\ Frame
  BY <1>10 DEF DeleteStagedRows, OnTask, Active, Applying, JobPCs, ApplyPCs, TypeOK,
               TaskType, jobRows, recVars, bounds
<1>11. ASSUME RefreshFieldStats(w) PROVE Moves /\ Frame
  BY <1>11 DEF RefreshFieldStats, NextSource, OnTask, Active, Applying, JobPCs, ApplyPCs,
               TypeOK, TaskType, jobRows, recVars
<1>12. ASSUME FinishJobRun(w) PROVE Moves /\ Frame
  BY <1>12 DEF FinishJobRun, OnTask, Active, Applying, JobPCs, ApplyPCs, TypeOK, TaskType,
               recVars, bounds
<1>13. Moves /\ Frame
  <2> HIDE DEF Moves, Frame
  <2> QED
    BY <1>1, <1>2, <1>3, <1>4, <1>5, <1>6, <1>7, <1>8, <1>9, <1>10, <1>11, <1>12 DEF Rewrite
<1> QED
  BY <1>13

LEMMA RewriteShape ==
    ASSUME TypeOK, Shape, NEW w \in Workers, Rewrite(w)
    PROVE  Shape'
<1>1. TaskShape(w)'
  BY RewriteOnTask DEF Shape, TaskShape, OnTask, Active, Applying, JobPCs, ApplyPCs
<1> QED
  BY <1>1, RewriteOnTask, ShapeKept DEF Shape, OnTask

LEMMA ReleaseShape ==
    ASSUME TypeOK, Shape, NEW w \in Workers, ReleaseRun(w)
    PROVE  Shape'
<1>1. TaskShape(w)' /\ \A v \in Workers \ {w} : task'[v] = task[v]
  BY DEF ReleaseRun, Stop, Idle, TaskShape, TypeOK, JobPCs, ApplyPCs
<1>2. markers' \cup recovered' \subseteq used
  BY DEF ReleaseRun, Shape, TaskShape, JobPCs, pgVars, jobRows
<1> QED
  BY <1>1, <1>2, ShapeKept DEF ReleaseRun, pgVars, jobRows, bounds

LEMMA RecoverShape ==
    ASSUME TypeOK, Shape, Recover
    PROVE  Shape'
<1>1. CASE ListOrphans
  BY <1>1 DEF ListOrphans, OrphanedRuns, Shape, TaskShape, pgVars, jobRows, bounds
<1>2. ASSUME NEW w \in Workers, NEW j \in Jobs, ReconcileOrphan(w, j) PROVE Shape'
  <2>1. j \in used /\ jobKey[j] \in Keys
    BY <1>2 DEF ReconcileOrphan, Shape
  <2>2. TaskShape(w)'
    BY <1>2, <2>1 DEF ReconcileOrphan, Idle, TaskShape, TypeOK, JobPCs, ApplyPCs, pgVars,
                      jobRows, bounds
  <2>3. \A v \in Workers \ {w} : TaskShape(v)'
    BY <1>2 DEF ReconcileOrphan, Shape, TaskShape, TypeOK, pgVars, jobRows, bounds
  <2> QED
    BY <1>2, <2>2, <2>3 DEF ReconcileOrphan, Shape, pgVars, jobRows, bounds
<1>3. ASSUME NEW j \in Jobs, SkipOrphan(j) PROVE Shape'
  BY <1>3 DEF SkipOrphan, Shape, TaskShape, pgVars, jobRows, bounds
<1>4. ASSUME NEW w \in Workers, NEW old \in Jobs, NEW j \in Jobs, Rerun(w, old, j)
      PROVE  Shape'
  <2>1. jobKey[old] \in Keys
    BY <1>4 DEF Rerun, Shape
  <2>2. /\ \A v \in Workers \ {w} : task'[v] = task[v]
        /\ task'[w].pc = "begin" /\ task'[w].key = jobKey[old] /\ task'[w].job = j
    BY <1>4 DEF Rerun, Idle, TypeOK
  <2> QED
    BY <1>4, <2>1, <2>2, ClaimShape DEF Rerun
<1>5. ASSUME NEW old \in Jobs, SkipRerun(old) PROVE Shape'
  BY <1>5 DEF SkipRerun, Shape, TaskShape, pgVars, jobRows, bounds
<1> QED
  BY <1>1, <1>2, <1>3, <1>4, <1>5 DEF Recover

\* The environment touches no task, but to fail or to crash it.
Background ==
    \/ \E s \in Sources : \/ DeleteSource(s) \/ DropSourceEvents(s) \/ AbortDelete(s)
                          \/ DeleteSourceRow(s) \/ ComputeFill(s) \/ StoreFill(s)
    \/ \E e \in Enrichers : UpdateData(e)

LEMMA BackgroundFrame ==
    ASSUME Background
    PROVE  UNCHANGED <<task, slot, lock, used, jobRows, orphans, recovered>>
  BY DEF Background, DeleteSource, DropSourceEvents, AbortDelete, DeleteSourceRow,
         ComputeFill, StoreFill, UpdateData, pgVars, jobRows, recVars, memVars, bounds

LEMMA FailOnTask ==
    ASSUME TypeOK, NEW w \in Workers, Fail(w)
    PROVE  /\ Active(w) /\ Active(w)' /\ OnTask(w)
           /\ task'[w].pc \in {"list", "abort"}
           /\ UNCHANGED <<slot, used, jobRows, staged, orphans, recovered>>
<1>1. /\ Active(w) /\ Active(w)' /\ OnTask(w)
      /\ task'[w].pc \in {"list", "abort"}
  BY DEF Fail, FailPCs, OnTask, Active, JobPCs, TypeOK, TaskType
<1> QED
  BY <1>1 DEF Fail, pgVars, jobRows, recVars

LEMMA EnvironmentShape ==
    ASSUME TypeOK, Shape, Environment
    PROVE  Shape'
<1>1. ASSUME NEW w \in Workers, FailToStart(w) PROVE Shape'
  <2>1. TaskShape(w)' /\ \A v \in Workers \ {w} : task'[v] = task[v]
    BY <1>1 DEF FailToStart, Stop, Idle, TaskShape, TypeOK, JobPCs, ApplyPCs
  <2> QED
    BY <1>1, <2>1, ShapeKept DEF FailToStart, Shape, pgVars, jobRows, recVars
<1>2. ASSUME NEW w \in Workers, Fail(w) PROVE Shape'
  <2>1. TaskShape(w)'
    BY <1>2, FailOnTask DEF Shape, TaskShape, OnTask, Active, JobPCs, ApplyPCs, jobRows
  <2> QED
    BY <1>2, <2>1, FailOnTask, ShapeKept DEF Shape, OnTask, jobRows
<1>3. CASE Background
  BY <1>3, BackgroundFrame DEF Shape, TaskShape, jobRows
<1>4. CASE Crash
  BY <1>4 DEF Crash, Idle, Shape, TaskShape, JobPCs, ApplyPCs, pgVars, jobRows
<1> QED
  BY <1>1, <1>2, <1>3, <1>4 DEF Environment, Background

LEMMA ShapeStep == TypeOK /\ Shape /\ [Next]_vars => Shape'
<1> SUFFICES ASSUME TypeOK, Shape, [Next]_vars PROVE Shape'
  OBVIOUS
<1>1. CASE UNCHANGED vars
  BY <1>1 DEF Shape, TaskShape, vars, pgVars, jobRows, memVars, bounds
<1>2. ASSUME NEW w \in Workers, Apply(w) PROVE Shape'
  BY <1>2, RewriteShape, ReleaseShape DEF Apply, Rewrite
<1>3. CASE Next
  BY <1>2, <1>3, RequestShape, HandleShape, ScanShape, RecoverShape, EnvironmentShape DEF Next
<1> QED
  BY <1>1, <1>3

\* Every variable has its type, in every reachable state.
THEOREM TypeCorrect == Spec => []TypeOK
<1>1. TypeOK /\ Shape /\ [Next]_vars => (TypeOK /\ Shape)'
  BY TypeStep, ShapeStep
<1> QED
  BY <1>1, InitTyped, PTL DEF Spec

\* Where the steps outside an apply leave their task.
LEMMA RequestMoves ==
    ASSUME TypeOK, NEW w \in Workers, Request(w)
    PROVE  /\ task'[w].pc \in {"markers", "autoMarkers", "claim"}
           /\ \A v \in Workers \ {w} : task'[v] = task[v]
           /\ task[w] = Idle /\ UNCHANGED allButTask
<1>1. ASSUME NEW k \in Keys, RunTimelineEnricher(w, k) PROVE task'[w].pc = "markers"
  BY <1>1 DEF RunTimelineEnricher, Idle, TypeOK
<1>2. ASSUME NEW k \in Keys, NEW s \in Sources, TriggerAutomatic(w, k, s)
      PROVE  task'[w].pc = "autoMarkers"
  BY <1>2 DEF TriggerAutomatic, Idle, TypeOK
<1>3. ASSUME NEW j \in Jobs, ResumeTimelineEnricher(w, j) PROVE task'[w].pc = "claim"
  BY <1>3 DEF ResumeTimelineEnricher, Idle, TypeOK
<1>4. /\ \A v \in Workers \ {w} : task'[v] = task[v]
      /\ task[w] = Idle /\ UNCHANGED allButTask
  BY DEF Request, RunTimelineEnricher, TriggerAutomatic, ResumeTimelineEnricher, TypeOK
<1> QED
  BY <1>1, <1>2, <1>3, <1>4 DEF Request

LEMMA HandleMoves ==
    ASSUME TypeOK, NEW w \in Workers, Handle(w)
    PROVE  /\ task'[w].pc \in {"idle", "plan", "autoClaim", "begin", "list"}
           /\ \A v \in Workers \ {w} : task'[v] = task[v]
           /\ ~ Active(w) /\ task[w].pc # "idle"
           /\ UNCHANGED <<lock, markers, jobVersion, staged, orphans, recovered>>
<1> DEFINE Moves ==
             /\ task'[w].pc \in {"idle", "plan", "autoClaim", "begin", "list"}
             /\ \A v \in Workers \ {w} : task'[v] = task[v]
             /\ ~ Active(w) /\ task[w].pc # "idle"
             /\ UNCHANGED <<lock, markers, jobVersion, staged, orphans, recovered>>
<1>1. ASSUME CheckUnfinished(w) PROVE Moves
  BY <1>1 DEF CheckUnfinished, Stop, Idle, Active, JobPCs, TypeOK, TaskType,
              allButTask, pgVars, jobRows, recVars
<1>2. ASSUME AutoCheckUnfinished(w) PROVE Moves
  BY <1>2 DEF AutoCheckUnfinished, Stop, Idle, Active, JobPCs, TypeOK, TaskType,
              allButTask, pgVars, jobRows, recVars
<1>3. ASSUME RefuseRun(w) PROVE Moves
  BY <1>3 DEF RefuseRun, Stop, Idle, Active, JobPCs, TypeOK, allButTask, pgVars, jobRows, recVars
<1>4. ASSUME NEW j \in Jobs, NEW todo, Claim(w, j, todo), task[w].pc \in {"plan", "autoClaim"}
      PROVE  Moves
  BY <1>4 DEF Claim, Active, JobPCs, TypeOK, TaskType, recVars
<1>5. ASSUME NEW j \in Jobs, NEW force \in BOOLEAN, PlanAndClaim(w, j, force) \/ AutoClaim(w, j)
      PROVE  Moves
  BY <1>4, <1>5 DEF PlanAndClaim, AutoClaim
<1>6. ASSUME ClaimResume(w) PROVE Moves
  BY <1>6 DEF ClaimResume, Stop, Idle, Active, JobPCs, TypeOK, TaskType, pgVars, jobRows, recVars
<1> HIDE DEF Moves
<1>7. Moves
  BY <1>1, <1>2, <1>3, <1>5, <1>6 DEF Handle
<1> QED
  BY <1>7 DEF Moves

\* Recovery starts tasks, and only where none was in flight.
LEMMA RecoverMoves ==
    ASSUME TypeOK, Recover
    PROVE  /\ \A v \in Workers : \/ task'[v] = task[v]
                                 \/ task[v] = Idle /\ task'[v].pc \in {"begin", "list"}
           /\ UNCHANGED <<lock, markers, jobVersion, staged>>
<1>1. ASSUME ListOrphans \/ \E j \in Jobs : SkipOrphan(j) \/ SkipRerun(j)
      PROVE  task' = task
  BY <1>1 DEF ListOrphans, SkipOrphan, SkipRerun
<1>2. ASSUME NEW w \in Workers, NEW j \in Jobs, ReconcileOrphan(w, j)
      PROVE  \A v \in Workers : \/ task'[v] = task[v]
                                \/ task[v] = Idle /\ task'[v].pc \in {"begin", "list"}
  BY <1>2 DEF ReconcileOrphan, Idle, TypeOK
<1>3. ASSUME NEW w \in Workers, NEW old \in Jobs, NEW j \in Jobs, Rerun(w, old, j)
      PROVE  \A v \in Workers : \/ task'[v] = task[v]
                                \/ task[v] = Idle /\ task'[v].pc \in {"begin", "list"}
  BY <1>3 DEF Rerun, Idle, TypeOK
<1>4. UNCHANGED <<lock, markers, jobVersion, staged>>
  BY DEF Recover, ListOrphans, ReconcileOrphan, SkipOrphan, Rerun, SkipRerun, pgVars, jobRows
<1> QED
  BY <1>1, <1>2, <1>3, <1>4 DEF Recover

-----------------------------------------------------------------------------
(***************************************************************************)
(* What a step does to the run slots: nothing, as seen by the jobs in       *)
(* flight, or one free slot is taken, or one is given back, or all are lost. *)
(***************************************************************************)
Calm ==
    /\ slot' = slot
    /\ \A v \in Workers : Active(v)' => /\ Active(v)
                                        /\ task'[v].key = task[v].key
                                        /\ task'[v].job = task[v].job

Grab(w, k, j) ==
    /\ slot[k] = None
    /\ slot' = [slot EXCEPT ![k] = j]
    /\ ~ Active(w)
    /\ Active(w)' /\ task'[w].key = k /\ task'[w].job = j
    /\ \A v \in Workers \ {w} : task'[v] = task[v]

LEMMA CalmOnTask ==
    ASSUME NEW w \in Workers, slot' = slot, OnTask(w), Active(w)
    PROVE  Calm
  BY DEF Calm, OnTask, Active

LEMMA CalmIdle ==
    ASSUME NEW w \in Workers, slot' = slot, ~ Active(w)',
           \A v \in Workers \ {w} : task'[v] = task[v]
    PROVE  Calm
  BY DEF Calm, Active

LEMMA ClaimGrabs ==
    ASSUME TypeOK, NEW w \in Workers, NEW j \in Jobs, NEW todo, ~ Active(w), Claim(w, j, todo)
    PROVE  Grab(w, task[w].key, j)
  BY DEF Claim, SlotFree, Grab, Active, JobPCs, TypeOK, TaskType

LEMMA HandleSlot ==
    ASSUME TypeOK, Shape, NEW w \in Workers, Handle(w)
    PROVE  Calm \/ \E k \in Keys, j \in Jobs : Grab(w, k, j)
<1>1. ASSUME CheckUnfinished(w) \/ AutoCheckUnfinished(w) \/ RefuseRun(w)
      PROVE  Calm
  <2>1. slot' = slot
    BY <1>1 DEF CheckUnfinished, AutoCheckUnfinished, RefuseRun, allButTask
  <2>2. ~ Active(w)' /\ \A v \in Workers \ {w} : task'[v] = task[v]
    BY <1>1 DEF CheckUnfinished, AutoCheckUnfinished, RefuseRun, Stop, Idle, Active,
                JobPCs, TypeOK, TaskType
  <2> QED
    BY <2>1, <2>2, CalmIdle
<1>2. ASSUME NEW j \in Jobs, NEW force \in BOOLEAN,
             PlanAndClaim(w, j, force) \/ AutoClaim(w, j)
      PROVE  \E k \in Keys : Grab(w, k, j)
  <2>1. task[w].key \in Keys /\ ~ Active(w)
    BY <1>2 DEF PlanAndClaim, AutoClaim, Shape, TaskShape, Active, JobPCs
  <2>2. PICK todo : Claim(w, j, todo)
    BY <1>2 DEF PlanAndClaim, AutoClaim
  <2> QED
    BY <2>1, <2>2, ClaimGrabs
<1>3. CASE ClaimResume(w)
  <2>1. task[w].key \in Keys /\ task[w].job \in Jobs /\ ~ Active(w)
    BY <1>3 DEF ClaimResume, Shape, TaskShape, Active, JobPCs, TypeOK
  <2>2. CASE SlotFree(task[w].key)
    <3>1. Grab(w, task[w].key, task[w].job)
      BY <1>3, <2>1, <2>2 DEF ClaimResume, SlotFree, Grab, Active, JobPCs, TypeOK, TaskType
    <3> QED
      BY <2>1, <3>1
  <2>3. CASE ~ SlotFree(task[w].key)
    <3>1. slot' = slot /\ task' = [task EXCEPT ![w] = Idle]
      BY <1>3, <2>3 DEF ClaimResume, Stop
    <3>2. ~ Active(w)' /\ \A v \in Workers \ {w} : task'[v] = task[v]
      BY <3>1 DEF Idle, Active, JobPCs, TypeOK
    <3> QED
      BY <3>1, <3>2, CalmIdle
  <2> QED
    BY <2>2, <2>3
<1> QED
  BY <1>1, <1>2, <1>3 DEF Handle

LEMMA RecoverSlot ==
    ASSUME TypeOK, Shape, Recover
    PROVE  Calm \/ \E w \in Workers, k \in Keys, j \in Jobs : Grab(w, k, j)
<1>1. ASSUME ListOrphans \/ \E j \in Jobs : SkipOrphan(j) \/ SkipRerun(j) PROVE Calm
  BY <1>1 DEF ListOrphans, SkipOrphan, SkipRerun, Calm, Active
<1>2. ASSUME NEW w \in Workers, NEW j \in Jobs, ReconcileOrphan(w, j)
      PROVE  \E k \in Keys : Grab(w, k, j)
  <2>1. jobKey[j] \in Keys
    BY <1>2 DEF ReconcileOrphan, Shape
  <2>2. Grab(w, jobKey[j], j)
    BY <1>2, <2>1 DEF ReconcileOrphan, SlotFree, Grab, Idle, Active, JobPCs, TypeOK
  <2> QED
    BY <2>1, <2>2
<1>3. ASSUME NEW w \in Workers, NEW old \in Jobs, NEW j \in Jobs, Rerun(w, old, j)
      PROVE  \E k \in Keys : Grab(w, k, j)
  <2>1. jobKey[old] \in Keys
    BY <1>3 DEF Rerun, Shape
  <2>2. Grab(w, jobKey[old], j)
    BY <1>3, <2>1 DEF Rerun, SlotFree, Grab, Idle, Active, JobPCs, TypeOK
  <2> QED
    BY <2>1, <2>2
<1> QED
  BY <1>1, <1>2, <1>3 DEF Recover

LEMMA SlotSteps ==
    ASSUME TypeOK, Shape, [Next]_vars
    PROVE  \/ Calm
           \/ \E w \in Workers, k \in Keys, j \in Jobs : Grab(w, k, j)
           \/ \E w \in Workers : ReleaseRun(w)
           \/ Crash
<1>1. CASE UNCHANGED vars
  BY <1>1 DEF vars, memVars, Calm, Active
<1>2. ASSUME NEW w \in Workers, Request(w) PROVE Calm
  BY <1>2, RequestMoves, CalmIdle DEF Active, JobPCs, allButTask
<1>3. ASSUME NEW w \in Workers, Scan(w) \/ Rewrite(w) PROVE Calm
  BY <1>3, ScanOnTask, RewriteOnTask, CalmOnTask
<1>4. ASSUME NEW w \in Workers, Apply(w) PROVE Calm \/ ReleaseRun(w)
  BY <1>3, <1>4 DEF Apply, Rewrite
<1>5. ASSUME Environment PROVE Calm \/ Crash
  <2>1. ASSUME NEW w \in Workers, FailToStart(w) PROVE Calm
    BY <2>1, CalmIdle DEF FailToStart, Stop, Idle, Active, JobPCs, TypeOK
  <2>2. ASSUME NEW w \in Workers, Fail(w) PROVE Calm
    BY <2>2, FailOnTask, CalmOnTask
  <2>3. ASSUME Background PROVE Calm
    BY <2>3, BackgroundFrame DEF Calm, Active
  <2> QED
    BY <1>5, <2>1, <2>2, <2>3 DEF Environment, Background
<1> QED
  BY <1>1, <1>2, <1>3, <1>4, <1>5, HandleSlot, RecoverSlot DEF Next

-----------------------------------------------------------------------------
\* A job that is active has a job id, which is not None.
LEMMA ActiveJob ==
    ASSUME TypeOK, Shape, NEW w \in Workers, Active(w)
    PROVE  /\ task[w].key \in Keys /\ task[w].job \in Jobs /\ task[w].job # None
           /\ jobKey[task[w].job] = task[w].key
  BY DEF Active, Shape, TaskShape, JobPCs, TypeOK

\* Job ids are never reused.
LEMMA JobKeyStable ==
    ASSUME TypeOK, Shape, [Next]_vars
    PROVE  used \subseteq used' /\ \A j \in used : jobKey'[j] = jobKey[j]
<1> DEFINE Stable == used \subseteq used' /\ \A j \in used : jobKey'[j] = jobKey[j]
<1>1. CASE UNCHANGED vars
  BY <1>1 DEF vars, pgVars, jobRows, bounds
<1>2. ASSUME NEW w \in Workers, Request(w) PROVE Stable
  BY <1>2, RequestMoves DEF allButTask, pgVars, jobRows, bounds
<1>3. ASSUME NEW w \in Workers, Handle(w) PROVE Stable
  <2>1. ASSUME NEW j \in Jobs, NEW todo, Claim(w, j, todo) PROVE Stable
    BY <2>1 DEF Claim, TypeOK
  <2>2. (\E j \in Jobs, todo \in {task[w].todo} \cup SUBSET Sources : Claim(w, j, todo))
          \/ UNCHANGED <<used, jobKey>>
    <3>1. ASSUME NEW j \in Jobs, NEW force \in BOOLEAN, PlanAndClaim(w, j, force)
          PROVE  \E todo \in SUBSET Sources : Claim(w, j, todo)
      BY <3>1, TaskAt DEF PlanAndClaim, TaskType
    <3>2. ASSUME NEW j \in Jobs, AutoClaim(w, j) PROVE Claim(w, j, task[w].todo)
      BY <3>2 DEF AutoClaim
    <3> QED
      BY <1>3, <3>1, <3>2 DEF Handle, CheckUnfinished, AutoCheckUnfinished, RefuseRun,
                              ClaimResume, allButTask, pgVars, jobRows, bounds
  <2> QED
    BY <2>1, <2>2
<1>4. ASSUME NEW w \in Workers, Scan(w) \/ Rewrite(w) \/ ReleaseRun(w) PROVE Stable
  BY <1>4, ScanOnTask, RewriteOnTask DEF ReleaseRun, pgVars, jobRows, bounds
<1>5. CASE Recover
  BY <1>5 DEF Recover, ListOrphans, ReconcileOrphan, SkipOrphan, Rerun, SkipRerun, pgVars,
              jobRows, bounds, TypeOK
<1>6. CASE Environment
  <2>1. ASSUME NEW w \in Workers, FailToStart(w) \/ Fail(w) PROVE Stable
    BY <2>1 DEF FailToStart, Fail, pgVars, jobRows
  <2> QED
    BY <1>6, <2>1, BackgroundFrame DEF Environment, Background, Crash, pgVars, jobRows
<1> QED
  BY <1>1, <1>2, <1>3, <1>4, <1>5, <1>6 DEF Next, Apply, Rewrite

LEMMA SlotStep == TypeOK /\ Shape /\ SlotInv /\ [Next]_vars => SlotInv'
<1> SUFFICES ASSUME TypeOK, Shape, SlotInv, [Next]_vars PROVE SlotInv'
  OBVIOUS
<1> DEFINE SlotKey    == \A k \in Keys : slot[k] # None => slot[k] \in used
                                                           /\ jobKey[slot[k]] = k
           TaskPerKey == /\ LiveRunHoldsSlot
                         /\ \A v, w \in Workers :
                                v # w /\ Active(v) /\ Active(w) => task[v].key # task[w].key
<1>a. TypeOK' /\ Shape'
  BY TypeStep, ShapeStep
<1>1. CASE Calm
  BY <1>1, JobKeyStable DEF Calm, SlotInv, LiveRunHoldsSlot
<1>2. ASSUME NEW w \in Workers, NEW k \in Keys, NEW j \in Jobs, Grab(w, k, j)
      PROVE  SlotInv'
  <2>1. \A v \in Workers \ {w} : Active(v)' => /\ Active(v) /\ task'[v] = task[v]
                                               /\ task[v].key # k
    BY <1>2, ActiveJob DEF Grab, Active, SlotInv, LiveRunHoldsSlot
  <2>2. slot'[k] = j /\ \A x \in Keys \ {k} : slot'[x] = slot[x]
    BY <1>2 DEF Grab, TypeOK
  <2>3. Active(w)' /\ task'[w].key = k /\ task'[w].job = j
    BY <1>2 DEF Grab
  <2>4. TaskPerKey'
    BY <2>1, <2>2, <2>3, ActiveJob DEF SlotInv, LiveRunHoldsSlot
  <2>5. j \in used' /\ jobKey'[j] = k
    BY <1>a, <2>3 DEF Active, Shape, TaskShape
  <2>6. SlotKey'
    BY <2>2, <2>5, JobKeyStable DEF SlotInv
  <2> QED
    BY <2>4, <2>6 DEF SlotInv
<1>3. ASSUME NEW w \in Workers, ReleaseRun(w) PROVE SlotInv'
  <2>1. Active(w)
    BY <1>3 DEF ReleaseRun, Active, JobPCs
  <2>2. ~ Active(w)' /\ \A v \in Workers \ {w} : task'[v] = task[v]
    BY <1>3 DEF ReleaseRun, Stop, Idle, Active, JobPCs, TypeOK
  <2>3. \A v \in Workers : Active(v)' => /\ Active(v) /\ task'[v] = task[v]
                                         /\ task[v].key # task[w].key
    BY <2>1, <2>2 DEF Active, SlotInv
  <2>4. /\ \A x \in Keys \ {task[w].key} : slot'[x] = slot[x]
        /\ slot'[task[w].key] \in {None, slot[task[w].key]}
    BY <1>3, <2>1, ActiveJob DEF ReleaseRun, TypeOK
  <2>5. TaskPerKey'
    BY <2>3, <2>4, ActiveJob DEF SlotInv, LiveRunHoldsSlot
  <2>6. SlotKey'
    BY <2>4, JobKeyStable DEF SlotInv
  <2> QED
    BY <2>5, <2>6 DEF SlotInv
<1>4. CASE Crash
  BY <1>4 DEF Crash, Idle, Active, JobPCs, SlotInv, LiveRunHoldsSlot
<1> QED
  BY <1>1, <1>2, <1>3, <1>4, SlotSteps

\* Distinct tasks in flight run distinct jobs.
LEMMA DistinctJobs ==
    ASSUME TypeOK, Shape, SlotInv, NEW v \in Workers, NEW w \in Workers,
           v # w, Active(v), Active(w)
    PROVE  task[v].job # task[w].job
  BY ActiveJob DEF SlotInv

-----------------------------------------------------------------------------
\* An apply lock is only taken free, and only given back by its holder.
LEMMA LockStep == TypeOK /\ Shape /\ LockInv /\ [Next]_vars => LockInv'
<1> SUFFICES ASSUME TypeOK, Shape, LockInv, [Next]_vars PROVE LockInv'
  OBVIOUS
<1>a. ASSUME lock' = lock,
             \A v \in Workers : Applying(v)' => Applying(v) /\ task'[v].cur = task[v].cur
      PROVE  LockInv'
  BY <1>a DEF LockInv
<1>b. ASSUME NEW w \in Workers, Applying(w), lock' = [lock EXCEPT ![task[w].cur] = None],
             ~ Applying(w)', \A v \in Workers \ {w} : task'[v] = task[v]
      PROVE  LockInv'
  <2>1. \A v \in Workers : Applying(v)' => Applying(v) /\ task'[v].cur = task[v].cur /\ v # w
    BY <1>b DEF Applying
  <2>2. \A v \in Workers \ {w} : Applying(v) => task[v].cur # task[w].cur
    BY <1>b DEF LockInv
  <2> QED
    BY <1>b, <2>1, <2>2 DEF LockInv, TypeOK
<1>1. CASE UNCHANGED vars
  BY <1>1, <1>a DEF vars, memVars, Applying
<1>2. ASSUME NEW w \in Workers, Request(w) \/ Handle(w) PROVE LockInv'
  BY <1>2, <1>a, RequestMoves, HandleMoves DEF Applying, ApplyPCs, allButTask
<1>3. ASSUME NEW w \in Workers, Scan(w) PROVE LockInv'
  BY <1>3, <1>a, ScanOnTask DEF OnTask, Applying, ApplyPCs
<1>4. ASSUME NEW w \in Workers, Rewrite(w) PROVE LockInv'
  <2>0. \A v \in Workers \ {w} : task'[v] = task[v]
    BY <1>4, RewriteOnTask DEF OnTask
  <2>1. ASSUME NEW s \in Sources, LockSource(w, s) PROVE LockInv'
    <3>1. task'[w].cur = s /\ lock[s] = None /\ lock' = [lock EXCEPT ![s] = w]
      BY <2>1 DEF LockSource, LockFree, TypeOK, TaskType
    <3>2. \A v \in Workers \ {w} : Applying(v)' => lock[task[v].cur] = v
      BY <2>0 DEF LockInv, Applying
    <3>3. \A v \in Workers \ {w} : Applying(v)' => task[v].cur # s
      BY <3>1, <3>2
    <3>4. \A v \in Workers \ {w} : Applying(v)' => task[v].cur \in Sources
      BY <2>0 DEF Applying, Shape, TaskShape
    <3>5. \A v \in Workers \ {w} : Applying(v)' => lock'[task'[v].cur] = v
      BY <2>0, <3>1, <3>2, <3>3, <3>4 DEF TypeOK
    <3>6. lock'[task'[w].cur] = w
      BY <3>1 DEF TypeOK
    <3> QED
      BY <3>5, <3>6 DEF LockInv
  <2>2. ASSUME \/ ListStagedSources(w) \/ FinishJobRun(w)
               \/ \E s \in Sources : SkipDeletedSource(w, s)
        PROVE  LockInv'
    <3>1. lock' = lock
      BY <2>2 DEF ListStagedSources, FinishJobRun, SkipDeletedSource, allButTask
    <3>2. task'[w].pc \in {"lock", "release"}
      <4>1. ASSUME NEW s \in Sources, SkipDeletedSource(w, s) PROVE task'[w].pc = "lock"
        BY <4>1 DEF SkipDeletedSource, TypeOK, TaskType
      <4>2. CASE ListStagedSources(w)
        BY <4>2 DEF ListStagedSources, TypeOK, TaskType
      <4>3. CASE FinishJobRun(w)
        BY <4>3 DEF FinishJobRun, TypeOK, TaskType
      <4> QED
        BY <2>2, <4>1, <4>2, <4>3
    <3> QED
      BY <1>a, <2>0, <3>1, <3>2 DEF Applying, ApplyPCs
  <2>3. ASSUME NextSource(w), Applying(w) PROVE LockInv'
    <3>1. ~ Applying(w)'
      BY <2>3 DEF NextSource, Applying, ApplyPCs, TypeOK, TaskType
    <3> QED
      BY <1>b, <2>0, <2>3, <3>1 DEF NextSource
  <2>4. ASSUME lock' = lock, NEW x \in ApplyPCs, task' = [task EXCEPT ![w].pc = x],
               Applying(w)
        PROVE  LockInv'
    <3>1. task'[w].cur = task[w].cur
      BY <2>4 DEF TypeOK, TaskType
    <3> QED
      BY <1>a, <2>0, <2>4, <3>1 DEF Applying
  <2>5. CASE StageRows(w)
    BY <2>3, <2>4, <2>5 DEF StageRows, Applying, ApplyPCs
  <2>6. CASE BuildCopy(w)
    BY <2>4, <2>6 DEF BuildCopy, Applying, ApplyPCs
  <2>7. CASE ReplacePartition(w)
    BY <2>4, <2>7 DEF ReplacePartition, Applying, ApplyPCs
  <2>8. CASE RecheckSource(w)
    BY <2>4, <2>8 DEF RecheckSource, Applying, ApplyPCs, allButTask
  <2>9. CASE DropResurrected(w) \/ RefreshFieldStats(w)
    BY <2>3, <2>9 DEF DropResurrected, RefreshFieldStats, Applying, ApplyPCs
  <2>10. CASE RecordSourceEnrichment(w)
    BY <2>4, <2>10 DEF RecordSourceEnrichment, Applying, ApplyPCs
  <2>11. CASE DeleteStagedRows(w)
    BY <2>4, <2>11 DEF DeleteStagedRows, Applying, ApplyPCs
  <2> QED
    BY <1>4, <2>1, <2>2, <2>5, <2>6, <2>7, <2>8, <2>9, <2>10, <2>11 DEF Rewrite
<1>5. ASSUME NEW w \in Workers, Apply(w) PROVE LockInv'
  <2>1. CASE ReleaseRun(w)
    <3>1. lock' = lock /\ ~ Applying(w)' /\ \A v \in Workers \ {w} : task'[v] = task[v]
      BY <2>1 DEF ReleaseRun, Stop, Idle, Applying, ApplyPCs, TypeOK
    <3> QED
      BY <1>a, <3>1 DEF Applying
  <2> QED
    BY <1>4, <1>5, <2>1 DEF Apply, Rewrite
<1>6. CASE Recover
  BY <1>6, <1>a, RecoverMoves DEF Applying, ApplyPCs
<1>7. CASE Environment
  <2>1. ASSUME NEW w \in Workers, FailToStart(w) PROVE LockInv'
    <3>1. lock' = lock /\ ~ Applying(w)' /\ \A v \in Workers \ {w} : task'[v] = task[v]
      BY <2>1 DEF FailToStart, Stop, Idle, Applying, ApplyPCs, TypeOK
    <3> QED
      BY <1>a, <3>1 DEF Applying
  <2>2. ASSUME NEW w \in Workers, Fail(w) PROVE LockInv'
    <3>1. ~ Applying(w)' /\ \A v \in Workers \ {w} : task'[v] = task[v]
      BY <2>2, FailOnTask DEF OnTask, Applying, ApplyPCs
    <3>2. CASE Applying(w)
      BY <1>b, <2>2, <3>1, <3>2 DEF Fail
    <3>3. CASE ~ Applying(w)
      BY <1>a, <2>2, <3>1, <3>3 DEF Fail, Applying
    <3> QED
      BY <3>2, <3>3
  <2>3. CASE Background
    BY <1>a, <2>3, BackgroundFrame DEF Applying
  <2>4. CASE Crash
    BY <2>4 DEF Crash, Idle, LockInv, Applying, ApplyPCs
  <2> QED
    BY <1>7, <2>1, <2>2, <2>3, <2>4 DEF Environment, Background
<1> QED
  BY <1>1, <1>2, <1>3, <1>5, <1>6, <1>7 DEF Next

-----------------------------------------------------------------------------
\* Staging: the tasks in the middle of it are the only ones StageInv is about.
LEMMA StageQuiet ==
    ASSUME StageInv, NEW w \in Workers, UNCHANGED <<staged, markers>>,
           \A v \in Workers \ {w} : task'[v] = task[v],
           task'[w].pc \notin {"open", "read", "write", "mark", "lock"} \cup ApplyPCs
    PROVE  StageInv'
  BY DEF StageInv, NoStrandedStaging

LEMMA StageScan ==
    ASSUME TypeOK, Shape, SlotInv, StageInv, NEW w \in Workers, Scan(w)
    PROVE  StageInv'
<1> DEFINE j == task[w].job
<1>1. /\ \A v \in Workers \ {w} : task'[v] = task[v]
      /\ task'[w].job = j /\ Active(w)
      /\ task'[w].pc \in {"open", "read", "write", "mark"}
  BY ScanOnTask DEF OnTask
<1>2. \A v \in Workers \ {w} : Active(v) => task[v].job # j
  BY <1>1, DistinctJobs
<1>3. ASSUME staged' = staged, markers \subseteq markers', j \in markers'
      PROVE  StageInv'
  <2>1. NoStrandedStaging'
    BY <1>3 DEF StageInv, NoStrandedStaging
  <2>2. \A v \in Workers : task'[v].pc \in {"open", "read", "write", "mark"}
                               => task'[v].job \in markers'
    BY <1>1, <1>3 DEF StageInv
  <2>3. \A v \in Workers : task'[v].pc \in {"lock"} \cup ApplyPCs => task'[v] = task[v]
    BY <1>1 DEF ApplyPCs
  <2> QED
    BY <1>3, <2>1, <2>2, <2>3 DEF StageInv
<1>4. CASE StartJobRun(w)
  BY <1>3, <1>4 DEF StartJobRun
<1>5. ASSUME task[w].pc \in {"open", "read", "mark"}, UNCHANGED <<staged, markers>>
      PROVE  StageInv'
  BY <1>3, <1>5 DEF StageInv
<1>6. ASSUME NEW s \in Sources, OpenSource(w, s) PROVE StageInv'
  BY <1>5, <1>6 DEF OpenSource, allButTask, pgVars, jobRows
<1>7. ASSUME NEW b \in Batches, ReadBatch(w, b) PROVE StageInv'
  BY <1>5, <1>7 DEF ReadBatch, allButTask, pgVars, jobRows
<1>8. CASE FinishSource(w)
  BY <1>5, <1>8 DEF FinishSource, allButTask, pgVars, jobRows
<1>9. CASE MarkSourceStaged(w)
  BY <1>5, <1>9 DEF MarkSourceStaged
<1>10. CASE StageBatch(w)
  <2>1. j \in markers /\ markers' = markers
    BY <1>10 DEF StageBatch, StageInv, jobRows
  <2>2. \A i \in Jobs \ {j} : staged'[i] = staged[i]
    BY <1>10 DEF StageBatch, TypeOK
  <2>3. NoStrandedStaging'
    BY <2>1, <2>2 DEF StageInv, NoStrandedStaging
  <2>4. \A v \in Workers, s \in Sources :
            task'[v].pc \in {"lock"} \cup ApplyPCs =>
                v # w /\ staged'[task'[v].job][s] = staged[task[v].job][s]
    BY <1>1, <1>2, <2>2, ActiveJob DEF Active, JobPCs, ApplyPCs
  <2> QED
    BY <1>1, <2>1, <2>3, <2>4 DEF StageInv
<1> QED
  BY <1>4, <1>6, <1>7, <1>8, <1>9, <1>10 DEF Scan

\* What an apply still owes: the staged sources of its job.
Owes(w, s) ==
    \/ s \in task[w].todo
    \/ task[w].pc \in ApplyPCs \ {"stats"} /\ s = task[w].cur

LEMMA StageRewrite ==
    ASSUME TypeOK, Shape, SlotInv, StageInv, NEW w \in Workers, Rewrite(w)
    PROVE  StageInv'
<1> DEFINE j == task[w].job
<1>1. /\ \A v \in Workers \ {w} : task'[v] = task[v]
      /\ task'[w].job = j /\ Active(w)
      /\ task'[w].pc \notin {"open", "read", "write", "mark"}
  BY RewriteOnTask DEF OnTask
<1>2. \A v \in Workers \ {w} : Active(v) => task[v].job # j /\ task[v].job \in Jobs
  BY <1>1, DistinctJobs, ActiveJob
<1>3. j \in Jobs
  BY <1>1, ActiveJob
<1>4. \A s \in Sources : task[w].pc \in {"lock"} \cup ApplyPCs /\ staged[j][s] # {}
                             => Owes(w, s)
  BY DEF StageInv, Owes
<1>5. ASSUME markers' = markers,
             \A i \in Jobs, s \in Sources : staged'[i][s] \subseteq staged[i][s],
             \A s \in Sources : staged'[j][s] # {} => Owes(w, s)'
      PROVE  StageInv'
  <2>1. NoStrandedStaging'
    BY <1>5 DEF StageInv, NoStrandedStaging
  <2>2. ASSUME NEW v \in Workers, NEW s \in Sources,
               task'[v].pc \in {"lock"} \cup ApplyPCs, staged'[task'[v].job][s] # {}
        PROVE  Owes(v, s)'
    <3>1. CASE v = w
      BY <1>1, <1>5, <2>2, <3>1
    <3>2. CASE v # w
      <4>1. task'[v] = task[v] /\ Active(v)
        BY <1>1, <2>2, <3>2 DEF Active, JobPCs, ApplyPCs
      <4>2. staged[task[v].job][s] # {}
        BY <1>2, <1>5, <2>2, <3>2, <4>1
      <4> QED
        BY <2>2, <4>1, <4>2 DEF StageInv, Owes
    <3> QED
      BY <3>1, <3>2
  <2>3. \A v \in Workers : task'[v].pc \in {"open", "read", "write", "mark"}
                               => task'[v].job \in markers'
    BY <1>1, <1>5 DEF StageInv
  <2> QED
    BY <2>1, <2>2, <2>3 DEF StageInv, Owes
<1>6. ASSUME UNCHANGED <<staged, markers>>,
             \A s \in Sources : staged[j][s] # {} => Owes(w, s)'
      PROVE  StageInv'
  BY <1>5, <1>6
<1>7. ASSUME markers' = markers, NEW x \in Sources,
             staged' = [staged EXCEPT ![j][x] = {}],
             \A s \in Sources \ {x} : staged[j][s] # {} => Owes(w, s)'
      PROVE  StageInv'
  <2>1. staged'[j][x] = {} /\ \A s \in Sources \ {x} : staged'[j][s] = staged[j][s]
    BY <1>3, <1>7 DEF TypeOK
  <2>2. \A i \in Jobs, s \in Sources : staged'[i][s] \subseteq staged[i][s]
    BY <1>3, <1>7 DEF TypeOK
  <2> QED
    BY <1>5, <1>7, <2>1, <2>2
<1>8. ASSUME NEW x \in ApplyPCs \ {"stats"}, task' = [task EXCEPT ![w].pc = x],
             Applying(w), UNCHANGED <<staged, markers>>
      PROVE  StageInv'
  <2>1. task'[w].pc = x /\ task'[w].cur = task[w].cur /\ task'[w].todo = task[w].todo
    BY <1>8 DEF TypeOK, TaskType
  <2> QED
    BY <1>4, <1>6, <1>8, <2>1 DEF Owes, Applying
<1>9. CASE ListStagedSources(w)
  <2>1. task'[w].todo = {s \in Sources : staged[j][s] # {}}
    BY <1>9 DEF ListStagedSources, StagedSources, TypeOK, TaskType
  <2> QED
    BY <1>6, <1>9, <2>1 DEF ListStagedSources, Owes, allButTask, pgVars, jobRows
<1>10. ASSUME NEW x \in Sources, LockSource(w, x) PROVE StageInv'
  <2>1. task'[w].pc = "stage" /\ task'[w].cur = x /\ task'[w].todo = task[w].todo \ {x}
    BY <1>10 DEF LockSource, TypeOK, TaskType
  <2>2. \A s \in Sources : staged[j][s] # {} => s \in task[w].todo
    BY <1>4, <1>10 DEF LockSource, Owes, ApplyPCs
  <2> QED
    BY <1>6, <1>10, <2>1, <2>2 DEF LockSource, Owes, ApplyPCs, pgVars, jobRows
<1>11. ASSUME NEW x \in Sources, SkipDeletedSource(w, x) PROVE StageInv'
  <2>1. task'[w].todo = task[w].todo \ {x}
    BY <1>11 DEF SkipDeletedSource, TypeOK, TaskType
  <2>2. \A s \in Sources : staged[j][s] # {} => s \in task[w].todo
    BY <1>4, <1>11 DEF SkipDeletedSource, Owes, ApplyPCs
  <2> QED
    BY <1>7, <1>11, <2>1, <2>2 DEF SkipDeletedSource, Owes, jobRows
<1>12. ASSUME NextSource(w), Applying(w), UNCHANGED <<staged, markers>>,
              task[w].pc = "stats" \/ staged[j][task[w].cur] = {}
       PROVE  StageInv'
  <2>1. task'[w].pc = "lock" /\ task'[w].todo = task[w].todo
    BY <1>12 DEF NextSource, TypeOK, TaskType
  <2>2. \A s \in Sources : staged[j][s] # {} => s \in task[w].todo
    BY <1>4, <1>12 DEF Owes, Applying
  <2> QED
    BY <1>6, <1>12, <2>1, <2>2 DEF Owes
<1>13. CASE StageRows(w)
  <2>1. Applying(w) /\ UNCHANGED <<staged, markers>>
    BY <1>13 DEF StageRows, Applying, ApplyPCs, pgVars, jobRows
  <2>2. CASE task' = [task EXCEPT ![w].pc = "copy"]
    BY <1>8, <2>1, <2>2 DEF ApplyPCs
  <2>3. CASE staged[j][task[w].cur] = {} /\ NextSource(w)
    BY <1>12, <2>1, <2>3
  <2> QED
    BY <1>13, <2>2, <2>3 DEF StageRows
<1>14. CASE BuildCopy(w) \/ ReplacePartition(w) \/ RecordSourceEnrichment(w)
  BY <1>8, <1>14 DEF BuildCopy, ReplacePartition, RecordSourceEnrichment, Applying, ApplyPCs,
                     pgVars, jobRows
<1>15. CASE RecheckSource(w)
  BY <1>8, <1>15 DEF RecheckSource, Applying, ApplyPCs, allButTask, pgVars, jobRows
<1>16. CASE DropResurrected(w)
  <2>1. task'[w].pc = "lock" /\ task'[w].todo = task[w].todo
    BY <1>16 DEF DropResurrected, NextSource, TypeOK, TaskType
  <2>2. task[w].cur \in Sources
    BY <1>16 DEF DropResurrected, Shape, TaskShape, ApplyPCs
  <2>3. \A s \in Sources \ {task[w].cur} : staged[j][s] # {} => s \in task[w].todo
    BY <1>4, <1>16 DEF DropResurrected, Owes, ApplyPCs
  <2> QED
    BY <1>7, <1>16, <2>1, <2>2, <2>3 DEF DropResurrected, Owes, jobRows
<1>17. CASE DeleteStagedRows(w)
  <2>1. task'[w].pc = "stats" /\ task'[w].todo = task[w].todo
    BY <1>17 DEF DeleteStagedRows, TypeOK, TaskType
  <2>2. task[w].cur \in Sources
    BY <1>17 DEF DeleteStagedRows, Shape, TaskShape, ApplyPCs
  <2>3. \A s \in Sources \ {task[w].cur} : staged[j][s] # {} => s \in task[w].todo
    BY <1>4, <1>17 DEF DeleteStagedRows, Owes, ApplyPCs
  <2> QED
    BY <1>7, <1>17, <2>1, <2>2, <2>3 DEF DeleteStagedRows, Owes, jobRows
<1>18. CASE RefreshFieldStats(w)
  BY <1>12, <1>18 DEF RefreshFieldStats, Applying, ApplyPCs, jobRows
<1>19. CASE FinishJobRun(w)
  <2>1. task'[w].pc = "release" /\ markers' = markers \ {j} /\ staged' = staged
    BY <1>19 DEF FinishJobRun, TypeOK, TaskType
  <2>2. \A s \in Sources : staged[j][s] = {}
    BY <1>4, <1>19 DEF FinishJobRun, Owes, ApplyPCs
  <2>3. NoStrandedStaging'
    BY <2>1, <2>2 DEF StageInv, NoStrandedStaging
  <2>4. \A v \in Workers : task'[v].pc \in {"open", "read", "write", "mark"}
                               => task'[v].job \in markers'
    BY <1>1, <1>2, <2>1 DEF StageInv, Active, JobPCs
  <2>5. \A v \in Workers : task'[v].pc \in {"lock"} \cup ApplyPCs => task'[v] = task[v]
    BY <1>1, <2>1 DEF ApplyPCs
  <2> QED
    BY <2>1, <2>3, <2>4, <2>5 DEF StageInv
<1> QED
  BY <1>9, <1>10, <1>11, <1>13, <1>14, <1>15, <1>16, <1>17, <1>18, <1>19 DEF Rewrite

LEMMA StageStep ==
    TypeOK /\ Shape /\ SlotInv /\ StageInv /\ [Next]_vars => StageInv'
<1> SUFFICES ASSUME TypeOK, Shape, SlotInv, StageInv, [Next]_vars PROVE StageInv'
  OBVIOUS
<1>1. CASE UNCHANGED vars
  BY <1>1 DEF vars, pgVars, jobRows, memVars, StageInv, NoStrandedStaging
<1>2. ASSUME NEW w \in Workers, Request(w) PROVE StageInv'
  BY <1>2, RequestMoves, StageQuiet DEF ApplyPCs, allButTask, pgVars, jobRows
<1>3. ASSUME NEW w \in Workers, Handle(w) PROVE StageInv'
  BY <1>3, HandleMoves, StageQuiet DEF ApplyPCs
<1>4. ASSUME NEW w \in Workers, ReleaseRun(w) PROVE StageInv'
  BY <1>4, StageQuiet DEF ReleaseRun, Stop, Idle, ApplyPCs, TypeOK, pgVars, jobRows
<1>5. ASSUME NEW w \in Workers, Apply(w) PROVE StageInv'
  BY <1>4, <1>5, StageRewrite DEF Apply, Rewrite
<1>6. CASE Recover
  <2>1. \A v \in Workers : \/ task'[v] = task[v]
                           \/ task'[v].pc \notin {"open", "read", "write", "mark", "lock"}
                                                 \cup ApplyPCs
    BY <1>6, RecoverMoves DEF ApplyPCs
  <2> QED
    BY <1>6, <2>1, RecoverMoves DEF StageInv, NoStrandedStaging
<1>7. CASE Environment
  <2>1. ASSUME NEW w \in Workers, FailToStart(w) PROVE StageInv'
    BY <2>1, StageQuiet DEF FailToStart, Stop, Idle, ApplyPCs, TypeOK, pgVars, jobRows
  <2>2. ASSUME NEW w \in Workers, Fail(w) PROVE StageInv'
    BY <2>2, FailOnTask, StageQuiet DEF OnTask, ApplyPCs, jobRows
  <2>3. CASE Background
    <3>1. task' = task /\ markers' = markers
      BY <2>3, BackgroundFrame DEF jobRows
    <3>2. \A i \in Jobs, s \in Sources : staged'[i][s] \subseteq staged[i][s]
      <4>1. ASSUME NEW s \in Sources, DeleteSourceRow(s)
            PROVE  \A i \in Jobs, x \in Sources : staged'[i][x] \subseteq staged[i][x]
        BY <4>1 DEF DeleteSourceRow, TypeOK
      <4>2. staged' = staged \/ \E s \in Sources : DeleteSourceRow(s)
        BY <2>3 DEF Background, DeleteSource, DropSourceEvents, AbortDelete,
                    ComputeFill, StoreFill, UpdateData, pgVars
      <4> QED
        BY <4>1, <4>2
    <3>3. \A w \in Workers : task[w].pc \in {"lock"} \cup ApplyPCs => task[w].job \in Jobs
      BY ActiveJob DEF Active, JobPCs, ApplyPCs
    <3> QED
      BY <3>1, <3>2, <3>3 DEF StageInv, NoStrandedStaging
  <2>4. CASE Crash
    BY <2>4 DEF Crash, Idle, ApplyPCs, pgVars, jobRows, StageInv, NoStrandedStaging
  <2> QED
    BY <1>7, <2>1, <2>2, <2>3, <2>4 DEF Environment, Background
<1> QED
  BY <1>1, <1>2, <1>3, <1>5, <1>6, <1>7, StageScan DEF Next

-----------------------------------------------------------------------------
\* A slot in use has a task behind it, except for what FailToStart leaks.
LEMMA LeakQuiet ==
    ASSUME LeakInv, NEW w \in Workers, UNCHANGED <<slot, jobVersion>>, used \subseteq used',
           \A v \in Workers \ {w} : task'[v] = task[v],
           task'[w].pc = "begin" => task[w].pc = "begin" /\ task'[w].job = task[w].job,
           Active(w) => Active(w)' /\ OnTask(w)
    PROVE  LeakInv'
<1>1. \A k \in Keys : HeldByTask(k) => HeldByTask(k)'
  <2> SUFFICES ASSUME NEW k \in Keys, NEW v \in Workers, Active(v), task[v].key = k,
                      task[v].job = slot[k]
               PROVE  Active(v)' /\ task'[v].key = k /\ task'[v].job = slot'[k]
    BY DEF HeldByTask
  <2> QED
    BY DEF OnTask, Active
<1> QED
  BY <1>1 DEF LeakInv, OnlyUnstartedRunsLeakSlots

LEMMA LeakGrab ==
    ASSUME TypeOK, LeakInv, NEW w \in Workers, NEW k \in Keys, NEW j \in Jobs, Grab(w, k, j),
           jobVersion' = jobVersion, used \subseteq used',
           task'[w].pc = "begin" => jobVersion[j] = 0
    PROVE  LeakInv'
<1>1. slot'[k] = j /\ \A x \in Keys \ {k} : slot'[x] = slot[x]
  BY DEF Grab, TypeOK
<1>2. HeldByTask(k)'
  BY <1>1 DEF Grab, HeldByTask
<1>3. \A x \in Keys \ {k} : HeldByTask(x) => HeldByTask(x)'
  BY <1>1 DEF Grab, HeldByTask, Active
<1>4. OnlyUnstartedRunsLeakSlots'
  BY <1>1, <1>2, <1>3 DEF LeakInv, OnlyUnstartedRunsLeakSlots
<1>5. \A v \in Workers : task'[v].pc = "begin" => jobVersion'[task'[v].job] = 0
  BY DEF Grab, LeakInv
<1> QED
  BY <1>4, <1>5 DEF LeakInv

LEMMA LeakScan ==
    ASSUME TypeOK, Shape, SlotInv, LeakInv, NEW w \in Workers, Scan(w)
    PROVE  LeakInv'
<1> DEFINE j == task[w].job
<1>1. /\ OnTask(w) /\ Active(w) /\ Active(w)'
      /\ task'[w].pc # "begin" /\ UNCHANGED <<slot, used>>
  BY ScanOnTask
<1>2. ASSUME jobVersion' = jobVersion PROVE LeakInv'
  BY <1>1, <1>2, LeakQuiet DEF OnTask
<1>3. CASE StartJobRun(w)
  <2>1. /\ j \in used /\ j \in Jobs /\ j # None
        /\ jobKey[j] = task[w].key /\ task[w].key \in Keys /\ slot[task[w].key] = j
    BY <1>1, ActiveJob DEF Active, Shape, TaskShape, JobPCs, SlotInv, LiveRunHoldsSlot, TypeOK
  <2>2. \A i \in Jobs \ {j} : jobVersion'[i] = jobVersion[i]
    BY <1>3 DEF StartJobRun, TypeOK
  <2>3. \A k \in Keys : HeldByTask(k) => HeldByTask(k)'
    BY <1>1 DEF HeldByTask, OnTask, Active
  <2>4. \A k \in Keys : slot[k] = j => HeldByTask(k)'
    <3>1. \A k \in Keys : slot[k] = j => k = task[w].key
      BY <2>1 DEF SlotInv, Shape, TaskShape
    <3>2. \A k \in Keys : k = task[w].key => HeldByTask(k)'
      BY <1>1, <2>1 DEF HeldByTask, OnTask
    <3> QED
      BY <3>1, <3>2
  <2>5. OnlyUnstartedRunsLeakSlots'
    BY <1>1, <2>2, <2>3, <2>4 DEF LeakInv, OnlyUnstartedRunsLeakSlots, TypeOK
  <2>6. \A v \in Workers : task'[v].pc = "begin" => jobVersion'[task'[v].job] = 0
    <3> SUFFICES ASSUME NEW v \in Workers, task'[v].pc = "begin"
                 PROVE  jobVersion'[task'[v].job] = 0
      OBVIOUS
    <3>1. v # w /\ task'[v] = task[v] /\ Active(v)
      BY <1>1 DEF OnTask, Active, JobPCs
    <3>2. task[v].job # j /\ task[v].job \in Jobs
      BY <1>1, <3>1, DistinctJobs, ActiveJob
    <3> QED
      BY <2>2, <3>1, <3>2 DEF LeakInv
  <2> QED
    BY <1>1, <2>1, <2>2, <2>5, <2>6 DEF LeakInv
<1>4. ~ StartJobRun(w) => jobVersion' = jobVersion
  BY DEF Scan, OpenSource, ReadBatch, StageBatch, FinishSource, MarkSourceStaged,
         allButTask, pgVars, jobRows
<1> QED
  BY <1>2, <1>3, <1>4

LEMMA LeakStep ==
    TypeOK /\ Shape /\ SlotInv /\ LeakInv /\ [Next]_vars => LeakInv'
<1> SUFFICES ASSUME TypeOK, Shape, SlotInv, LeakInv, [Next]_vars PROVE LeakInv'
  OBVIOUS
<1>1. CASE UNCHANGED vars
  <2>1. UNCHANGED <<task, slot, jobVersion, used>>
    BY <1>1 DEF vars, memVars, pgVars, jobRows, bounds
  <2> QED
    BY <2>1 DEF LeakInv, OnlyUnstartedRunsLeakSlots, HeldByTask, Active
<1>2. ASSUME NEW w \in Workers, Request(w) PROVE LeakInv'
  <2>1. ~ Active(w)
    BY <1>2, RequestMoves DEF Active, Idle, JobPCs
  <2> QED
    BY <1>2, <2>1, RequestMoves, LeakQuiet DEF allButTask, pgVars, jobRows, bounds
<1>3. ASSUME NEW w \in Workers, NEW j \in Jobs, NEW todo, Claim(w, j, todo),
             task[w].key \in Keys, ~ Active(w)
      PROVE  LeakInv'
  <2>1. Grab(w, task[w].key, j)
    BY <1>3, ClaimGrabs
  <2>2. jobVersion[j] = 0 /\ jobVersion' = jobVersion /\ used \subseteq used'
    BY <1>3 DEF Claim, LeakInv
  <2> QED
    BY <1>3, <2>1, <2>2, LeakGrab
<1>4. ASSUME NEW w \in Workers, Handle(w) PROVE LeakInv'
  <2>1. ~ Active(w) /\ jobVersion' = jobVersion /\ \A v \in Workers \ {w} : task'[v] = task[v]
    BY <1>4, HandleMoves
  <2>2. task[w].key \in Keys
    BY <1>4, HandleMoves DEF Shape, TaskShape
  <2>3. ASSUME CheckUnfinished(w) \/ AutoCheckUnfinished(w) \/ RefuseRun(w)
        PROVE  LeakInv'
    <3>1. task'[w].pc # "begin"
      BY <2>3 DEF CheckUnfinished, AutoCheckUnfinished, RefuseRun, Stop, Idle, TypeOK, TaskType
    <3>2. UNCHANGED <<slot, used>>
      BY <2>3 DEF CheckUnfinished, AutoCheckUnfinished, RefuseRun, allButTask, bounds
    <3> QED
      BY <2>1, <3>1, <3>2, LeakQuiet
  <2>4. ASSUME NEW j \in Jobs, NEW force \in BOOLEAN, PlanAndClaim(w, j, force) \/ AutoClaim(w, j)
        PROVE  LeakInv'
    BY <1>3, <2>1, <2>2, <2>4 DEF PlanAndClaim, AutoClaim
  <2>5. CASE ClaimResume(w)
    <3>1. task'[w].pc # "begin" /\ UNCHANGED used
      BY <2>5 DEF ClaimResume, Stop, Idle, TypeOK, TaskType, bounds
    <3>2. CASE slot' = slot
      BY <2>1, <3>1, <3>2, LeakQuiet
    <3>3. CASE slot' # slot
      <4>1. task[w].job \in Jobs
        BY <2>5 DEF ClaimResume, Shape, TaskShape, TypeOK
      <4>2. Grab(w, task[w].key, task[w].job)
        BY <2>1, <2>2, <2>5, <3>3, <4>1
           DEF ClaimResume, SlotFree, Grab, Active, JobPCs, TypeOK, TaskType
      <4> QED
        BY <2>1, <2>2, <3>1, <4>1, <4>2, LeakGrab
    <3> QED
      BY <3>2, <3>3
  <2> QED
    BY <1>4, <2>3, <2>4, <2>5 DEF Handle
<1>5. ASSUME NEW w \in Workers, Rewrite(w) PROVE LeakInv'
  BY <1>5, RewriteOnTask, LeakQuiet DEF OnTask
<1>6. ASSUME NEW w \in Workers, ReleaseRun(w) PROVE LeakInv'
  <2>1. Active(w) /\ OwnsSlot(w)
    BY <1>6 DEF ReleaseRun, Active, JobPCs, OwnsSlot, SlotInv, LiveRunHoldsSlot
  <2>2. /\ slot' = [slot EXCEPT ![task[w].key] = None]
        /\ \A v \in Workers \ {w} : task'[v] = task[v]
        /\ task'[w].pc = "idle"
        /\ UNCHANGED <<jobVersion, used>>
    BY <1>6, <2>1 DEF ReleaseRun, Stop, Idle, TypeOK, pgVars, jobRows, bounds
  <2>3. /\ slot'[task[w].key] = None
        /\ \A k \in Keys \ {task[w].key} : slot'[k] = slot[k]
    BY <2>1, <2>2, ActiveJob DEF TypeOK
  <2>4. \A k \in Keys \ {task[w].key} : HeldByTask(k) => HeldByTask(k)'
    BY <2>2, <2>3 DEF HeldByTask, Active
  <2>5. OnlyUnstartedRunsLeakSlots'
    BY <2>2, <2>3, <2>4 DEF LeakInv, OnlyUnstartedRunsLeakSlots
  <2> QED
    BY <2>2, <2>5 DEF LeakInv
<1>7. ASSUME NEW w \in Workers, Apply(w) PROVE LeakInv'
  BY <1>5, <1>6, <1>7 DEF Apply, Rewrite
<1>8. CASE Recover
  <2>1. ASSUME ListOrphans \/ \E j \in Jobs : SkipOrphan(j) \/ SkipRerun(j) PROVE LeakInv'
    <3>1. UNCHANGED <<task, slot, jobVersion, used>>
      BY <2>1 DEF ListOrphans, SkipOrphan, SkipRerun, pgVars, jobRows, bounds
    <3> QED
      BY <3>1 DEF LeakInv, OnlyUnstartedRunsLeakSlots, HeldByTask, Active
  <2>2. ASSUME NEW w \in Workers, NEW j \in Jobs, ReconcileOrphan(w, j) PROVE LeakInv'
    <3>1. jobKey[j] \in Keys
      BY <2>2 DEF ReconcileOrphan, Shape
    <3>2. Grab(w, jobKey[j], j)
      BY <2>2, <3>1 DEF ReconcileOrphan, SlotFree, Grab, Idle, Active, JobPCs, TypeOK
    <3>3. task'[w].pc # "begin"
      BY <2>2 DEF ReconcileOrphan, Idle, TypeOK
    <3> QED
      BY <2>2, <3>1, <3>2, <3>3, LeakGrab DEF ReconcileOrphan, pgVars, jobRows, bounds
  <2>3. ASSUME NEW w \in Workers, NEW old \in Jobs, NEW j \in Jobs, Rerun(w, old, j)
        PROVE  LeakInv'
    <3>1. jobKey[old] \in Keys
      BY <2>3 DEF Rerun, Shape
    <3>2. Grab(w, jobKey[old], j)
      BY <2>3, <3>1 DEF Rerun, SlotFree, Grab, Idle, Active, JobPCs, TypeOK
    <3>3. jobVersion[j] = 0 /\ jobVersion' = jobVersion /\ used \subseteq used'
      BY <2>3 DEF Rerun, LeakInv
    <3> QED
      BY <3>1, <3>2, <3>3, LeakGrab
  <2> QED
    BY <1>8, <2>1, <2>2, <2>3 DEF Recover
<1>9. CASE Environment
  <2>1. ASSUME NEW w \in Workers, FailToStart(w) PROVE LeakInv'
    <3>1. /\ task[w].pc = "begin" /\ task'[w].pc = "idle"
          /\ \A v \in Workers \ {w} : task'[v] = task[v]
          /\ UNCHANGED <<slot, jobVersion, used>>
      BY <2>1 DEF FailToStart, Stop, Idle, TypeOK, pgVars, jobRows
    <3>2. \A k \in Keys : HeldByTask(k) => HeldByTask(k)' \/ slot[k] = task[w].job
      BY <3>1 DEF HeldByTask, Active
    <3>3. jobVersion[task[w].job] = 0
      BY <3>1 DEF LeakInv
    <3> QED
      BY <3>1, <3>2, <3>3 DEF LeakInv, OnlyUnstartedRunsLeakSlots
  <2>2. ASSUME NEW w \in Workers, Fail(w) PROVE LeakInv'
    BY <2>2, FailOnTask, LeakQuiet DEF OnTask, jobRows
  <2>3. CASE Background
    BY <2>3, BackgroundFrame DEF LeakInv, OnlyUnstartedRunsLeakSlots, HeldByTask, Active, jobRows
  <2>4. CASE Crash
    BY <2>4 DEF Crash, Idle, LeakInv, OnlyUnstartedRunsLeakSlots, pgVars, jobRows
  <2> QED
    BY <1>9, <2>1, <2>2, <2>3, <2>4 DEF Environment, Background
<1> QED
  BY <1>1, <1>2, <1>4, <1>7, <1>8, <1>9, LeakScan DEF Next

-----------------------------------------------------------------------------
LEMMA InductiveInit == Init => Inductive
<1> SUFFICES ASSUME Init PROVE Inductive
  OBVIOUS
<1>1. SlotInv
  BY DEF Init, SlotInv, LiveRunHoldsSlot, Active, Idle, JobPCs
<1>2. LockInv
  BY DEF Init, LockInv, Applying, Idle, ApplyPCs
<1>3. StageInv
  BY DEF Init, StageInv, NoStrandedStaging, Idle, ApplyPCs
<1>4. LeakInv
  BY DEF Init, LeakInv, OnlyUnstartedRunsLeakSlots, Idle
<1> QED
  BY <1>1, <1>2, <1>3, <1>4, InitTyped DEF Inductive

\* Every step preserves the conjunction, and so it always holds.
THEOREM InductiveInvariant == Spec => []Inductive
<1>1. Inductive /\ [Next]_vars => Inductive'
  BY TypeStep, ShapeStep, SlotStep, LockStep, StageStep, LeakStep DEF Inductive
<1> QED
  BY <1>1, InductiveInit, PTL DEF Spec

\* A job in flight always holds its run slot, whatever fails or crashes, so a
\* marker whose slot another job holds (or none) belongs to a dead run.
THEOREM LiveRunsHoldTheirSlot == Spec => []LiveRunHoldsSlot
<1>1. Inductive => LiveRunHoldsSlot
  BY DEF Inductive, SlotInv
<1> QED
  BY <1>1, InductiveInvariant, PTL

\* No two applies share a partition or the scratch tables of a job id.
THEOREM AppliesAreExclusive == Spec => []ApplyIsExclusive
<1>1. Inductive => ApplyIsExclusive
  <2> SUFFICES ASSUME Inductive, NEW v \in Workers, NEW w \in Workers, v # w,
                      Applying(v), Applying(w)
               PROVE  task[v].cur # task[w].cur /\ task[v].job # task[w].job
    BY DEF ApplyIsExclusive
  <2>1. Active(v) /\ Active(w)
    BY DEF Applying, Active, ApplyPCs, JobPCs
  <2>2. task[v].job # task[w].job
    BY <2>1, DistinctJobs DEF Inductive
  <2>3. task[v].cur # task[w].cur
    BY DEF Inductive, LockInv
  <2> QED
    BY <2>2, <2>3
<1> QED
  BY <1>1, InductiveInvariant, PTL

\* Staged results are never out of reach of a resume or of the next boot: the
\* marker is only removed when nothing is staged under it any more.
THEOREM StagingIsNeverStranded == Spec => []NoStrandedStaging
<1>1. Inductive => NoStrandedStaging
  BY DEF Inductive, StageInv
<1> QED
  BY <1>1, InductiveInvariant, PTL

\* The one way to leak a run slot is to fail before the marker is written.
THEOREM SlotLeaksAreUnstartedRuns == Spec => []OnlyUnstartedRunsLeakSlots
<1>1. Inductive => OnlyUnstartedRunsLeakSlots
  BY DEF Inductive, LeakInv
<1> QED
  BY <1>1, InductiveInvariant, PTL
=============================================================================
