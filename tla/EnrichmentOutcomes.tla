-------------------------- MODULE EnrichmentOutcomes --------------------------
(***************************************************************************)
(* What a reader of the stores finds when enrichment is done: provenance    *)
(* rows that describe the events, and field stats that are fresh or about   *)
(* to be, for every value of the constants.                                 *)
(***************************************************************************)
EXTENDS EnrichmentRefinement

USE ConstantsAssumption

-----------------------------------------------------------------------------
(* Steps that end with nothing failed and nothing crashed.                  *)

Sound == fails = 0 /\ crashes = 0

\* Startup recovery finds nothing to do but re-runs.
Reruns ==
    \/ \E w \in Workers, old, j \in Jobs : Rerun(w, old, j)
    \/ \E old \in Jobs : SkipRerun(old)

LEMMA FailsGrow ==
    ASSUME TypeOK, [Next]_vars
    PROVE  /\ fails' \in {fails, fails + 1} /\ crashes' \in {crashes, crashes + 1}
           /\ fails \in Nat /\ crashes \in Nat
<1> DEFINE Grow == fails' \in {fails, fails + 1} /\ crashes' \in {crashes, crashes + 1}
<1>1. ASSUME NEW w \in Workers, Request(w) \/ Handle(w) PROVE Grow
  BY <1>1, RequestMoves
     DEF Handle, CheckUnfinished, PlanAndClaim, AutoCheckUnfinished, AutoClaim, Claim,
         RefuseRun, ClaimResume, allButTask, bounds
<1>2. ASSUME NEW w \in Workers, Scan(w) PROVE Grow
  BY <1>2 DEF Scan, StartJobRun, OpenSource, ReadBatch, StageBatch, FinishSource,
              MarkSourceStaged, allButTask, bounds
<1>3. ASSUME NEW w \in Workers, Rewrite(w) PROVE Grow
  BY <1>3 DEF Rewrite, ListStagedSources, LockSource, SkipDeletedSource, StageRows, BuildCopy,
              ReplacePartition, RecheckSource, DropResurrected, RecordSourceEnrichment,
              DeleteStagedRows, RefreshFieldStats, FinishJobRun, allButTask, bounds
<1>4. ASSUME NEW w \in Workers, ReleaseRun(w) \/ FailToStart(w) \/ Fail(w) PROVE Grow
  BY <1>4 DEF ReleaseRun, FailToStart, Fail, bounds
<1>5. ASSUME Recover PROVE Grow
  BY <1>5 DEF Recover, ListOrphans, ReconcileOrphan, SkipOrphan, Rerun, SkipRerun, bounds
<1>6. ASSUME Background PROVE Grow
  BY <1>6 DEF Background, DeleteSource, DropSourceEvents, AbortDelete, DeleteSourceRow,
              ComputeFill, StoreFill, UpdateData, bounds
<1>7. ASSUME Crash \/ UNCHANGED vars PROVE Grow
  BY <1>7 DEF Crash, vars, bounds
<1> HIDE DEF Grow
<1>8. Grow
  BY <1>1, <1>2, <1>3, <1>4, <1>5, <1>6, <1>7
     DEF Next, Apply, Rewrite, Environment, Background
<1> QED
  BY <1>8 DEF Grow, TypeOK

\* What may happen while nothing fails: no clean-up, no recovery.
LEMMA SoundSteps ==
    ASSUME TypeOK, [Next]_vars, Sound', orphans = {}, boot = "up"
    PROVE  /\ Sound
           /\ \/ UNCHANGED vars
              \/ \E w \in Workers : \/ Request(w) \/ Handle(w) \/ Scan(w) \/ Rewrite(w)
                                    \/ ReleaseRun(w)
              \/ Reruns \/ Background
<1>1. Sound
  BY FailsGrow DEF Sound
<1>2. ASSUME NEW w \in Workers PROVE ~ FailToStart(w) /\ ~ Fail(w)
  BY <1>1 DEF FailToStart, Fail, Sound
<1>3. ~ Crash
  BY <1>1 DEF Crash, Sound
<1>4. ~ ListOrphans /\ \A j \in Jobs : ~ SkipOrphan(j) /\ \A w \in Workers : ~ ReconcileOrphan(w, j)
  BY DEF ListOrphans, SkipOrphan, ReconcileOrphan
<1> QED
  BY <1>1, <1>2, <1>3, <1>4 DEF Next, Apply, Rewrite, Recover, Reruns, Environment, Background

-----------------------------------------------------------------------------
(* Runs apply what they staged themselves.                                  *)

\* The task of another job, from which nothing is taken.
LEMMA ApplyStays ==
    ASSUME TypeOK, Shape, NEW v \in Workers, AppliesItsOwn(v), task'[v] = task[v],
           \A j \in Jobs, s \in Sources : j = task[v].job =>
               staged'[j][s] = staged[j][s] \/ staged'[j][s] = {}
    PROVE  AppliesItsOwn(v)'
<1>1. task[v].pc = "release" => task[v].job \in Jobs
  BY DEF Shape, TaskShape, JobPCs, TypeOK
<1> QED
  BY <1>1 DEF AppliesItsOwn

\* The steps that only discard staged rows, and stop no run that has some.
LEMMA RunsStay ==
    ASSUME TypeOK,
           \A j \in Jobs, s \in Sources : staged'[j][s] \in {staged[j][s], {}},
           \A v \in Workers :
               \/ task'[v] = task[v] \/ ~ Active(v)
               \/ Active(v)' /\ task'[v].kind = task[v].kind /\ task'[v].job = task[v].job
               \/ \A s \in Sources : staged[task[v].job][s] = {},
           \A j \in Jobs, s \in Sources : staged[j][s] # {} => HasItsRun(j)
    PROVE  \A j \in Jobs, s \in Sources : staged'[j][s] # {} => HasItsRun(j)'
<1> SUFFICES ASSUME NEW j \in Jobs, NEW s \in Sources, staged'[j][s] # {} PROVE HasItsRun(j)'
  OBVIOUS
<1>1. staged[j][s] # {}
  OBVIOUS
<1>2. PICK v \in Workers : Active(v) /\ task[v].kind = "run" /\ task[v].job = j
  BY <1>1 DEF HasItsRun
<1> QED
  BY <1>1, <1>2 DEF HasItsRun, Active

\* Two live jobs are two jobs: a resume finds no staged row of a run that is on.
LEMMA ResumesFindNothing ==
    ASSUME TypeOK, Shape, SlotInv, RunsApplyTheirOwn, NEW w \in Workers, Active(w),
           task[w].kind = "resume"
    PROVE  \A s \in Sources : staged[task[w].job][s] = {}
<1> SUFFICES ASSUME NEW s \in Sources, staged[task[w].job][s] # {} PROVE FALSE
  OBVIOUS
<1>1. task[w].job \in Jobs
  BY ActiveJob
<1>2. PICK v \in Workers : Active(v) /\ task[v].kind = "run" /\ task[v].job = task[w].job
  BY <1>1 DEF RunsApplyTheirOwn, HasItsRun
<1> QED
  BY <1>2, DistinctJobs

LEMMA RewriteApplies ==
    ASSUME TypeOK, Shape, SlotInv, StageInv, RunsApplyTheirOwn, NEW w \in Workers, InStep(w),
           Rewrite(w)
    PROVE  AppliesItsOwn(w)'
<1> DEFINE j == task[w].job
<1>1. /\ task[w] \in TaskType /\ Active(w) /\ j \in Jobs /\ task'[w].job = j
      /\ task'[w].kind = task[w].kind
      /\ task'[w].pc \in {"lock", "release"} \cup ApplyPCs
      /\ AppliesItsOwn(w)
  BY TaskAt, RewriteOnTask, RewriteKeeps, ActiveJob DEF OnTask, RunsApplyTheirOwn
<1>2. \A k \in Jobs, s \in Sources : staged'[k][s] \in {staged[k][s], {}}
  BY RewriteKeeps
<1>3. ASSUME task'[w].pc = "release" PROVE \A s \in Sources : staged'[j][s] = {}
  <2>1. FinishJobRun(w)
    <3>1. ASSUME NEW s \in Sources PROVE ~ LockSource(w, s)
      BY <1>1, <1>3 DEF LockSource, TypeOK, TaskType
    <3>2. ASSUME NEW s \in Sources PROVE ~ SkipDeletedSource(w, s)
      <4>1. ASSUME SkipDeletedSource(w, s) PROVE task'[w].pc = task[w].pc
        BY <1>1, <4>1 DEF SkipDeletedSource, TypeOK, TaskType
      <4> QED
        BY <1>3, <4>1 DEF SkipDeletedSource
    <3>3. ~ ListStagedSources(w) /\ ~ StageRows(w) /\ ~ BuildCopy(w)
      BY <1>1, <1>3 DEF ListStagedSources, StageRows, NextSource, BuildCopy, TypeOK, TaskType
    <3>4. ~ ReplacePartition(w) /\ ~ RecheckSource(w) /\ ~ DropResurrected(w)
      BY <1>1, <1>3 DEF ReplacePartition, RecheckSource, DropResurrected, NextSource, TypeOK,
                        TaskType
    <3>5. ~ RecordSourceEnrichment(w) /\ ~ DeleteStagedRows(w) /\ ~ RefreshFieldStats(w)
      BY <1>1, <1>3 DEF RecordSourceEnrichment, DeleteStagedRows, RefreshFieldStats, NextSource,
                        TypeOK, TaskType
    <3> QED
      BY <3>1, <3>2, <3>3, <3>4, <3>5 DEF Rewrite
  <2>2. task[w].pc = "lock" /\ task[w].todo = {}
    BY <2>1 DEF FinishJobRun
  <2>3. \A s \in Sources : staged[j][s] = {}
    BY <1>1, <2>2 DEF StageInv, ApplyPCs
  <2> QED
    BY <1>1, <1>2, <2>3
<1>4. ASSUME task[w].kind = "resume"
      PROVE  /\ task'[w].pc \notin ApplyPCs
             /\ task'[w].pc = "lock" => task'[w].todo = {}
  <2>1. \A s \in Sources : staged[j][s] = {}
    BY <1>1, <1>4, ResumesFindNothing
  <2>2. /\ task[w].pc \notin ApplyPCs /\ task[w].pc # "open"
        /\ task[w].pc = "lock" => task[w].todo = {}
    BY <1>1, <1>4 DEF AppliesItsOwn, InStep, ScanIsInStep, ScanPCs
  <2>3. ListStagedSources(w) \/ FinishJobRun(w)
    BY <2>2 DEF Rewrite, LockSource, SkipDeletedSource, StageRows, BuildCopy,
                ReplacePartition, RecheckSource, DropResurrected, RecordSourceEnrichment,
                DeleteStagedRows, RefreshFieldStats, ApplyPCs
  <2>4. CASE ListStagedSources(w)
    <3>1. task'[w] = [task[w] EXCEPT !.pc = "lock", !.todo = StagedSources(w)]
      BY <2>4 DEF ListStagedSources, TypeOK
    <3>2. StagedSources(w) = {}
      BY <2>1 DEF StagedSources
    <3> QED
      BY <1>1, <3>1, <3>2 DEF TaskType, ApplyPCs
  <2>5. CASE FinishJobRun(w)
    BY <1>1, <2>5 DEF FinishJobRun, TypeOK, TaskType, ApplyPCs
  <2> QED
    BY <2>3, <2>4, <2>5
<1> QED
  BY <1>1, <1>3, <1>4 DEF AppliesItsOwn, ApplyPCs

LEMMA RunsApplyTheirOwnStep ==
    ASSUME Inductive, EvidenceInv, RunsApplyTheirOwn, [Next]_vars, Sound'
    PROVE  RunsApplyTheirOwn'
<1> USE DEF Inductive, EvidenceInv
<1> DEFINE Rows == \A j \in Jobs, s \in Sources : staged'[j][s] \in {staged[j][s], {}}
           Whose == \A j \in Jobs, s \in Sources : staged[j][s] # {} => HasItsRun(j)
           Goal == /\ \A v \in Workers : AppliesItsOwn(v)'
                   /\ \A j \in Jobs, s \in Sources : staged'[j][s] # {} => HasItsRun(j)'
<1>1. /\ \A v \in Workers : AppliesItsOwn(v)
      /\ orphans = {} /\ boot = "up" /\ Whose
  BY DEF RunsApplyTheirOwn
<1>2. ASSUME NEW w \in Workers, Rows, \A v \in Workers \ {w} : task'[v] = task[v],
             AppliesItsOwn(w)',
             \/ ~ Active(w)
             \/ Active(w)' /\ task'[w].kind = task[w].kind /\ task'[w].job = task[w].job
             \/ \A s \in Sources : staged[task[w].job][s] = {}
      PROVE  Goal
  <2>1. \A v \in Workers \ {w} : AppliesItsOwn(v)'
    BY <1>1, <1>2, ApplyStays
  <2>2. \A v \in Workers :
            \/ task'[v] = task[v] \/ ~ Active(v)
            \/ Active(v)' /\ task'[v].kind = task[v].kind /\ task'[v].job = task[v].job
            \/ \A s \in Sources : staged[task[v].job][s] = {}
    BY <1>2
  <2>3. \A j \in Jobs, s \in Sources : staged'[j][s] # {} => HasItsRun(j)'
    BY <1>1, <1>2, <2>2, RunsStay
  <2> QED
    BY <1>2, <2>1, <2>3
<1>3. ASSUME Rows, task' = task PROVE Goal
  <2>1. \A v \in Workers : AppliesItsOwn(v)'
    BY <1>1, <1>3, ApplyStays
  <2> QED
    BY <1>1, <1>3, <2>1, RunsStay
<1>4. ASSUME NEW w \in Workers, Request(w) PROVE Goal
  <2>1. /\ task[w] = Idle /\ UNCHANGED allButTask /\ \A v \in Workers \ {w} : task'[v] = task[v]
        /\ task'[w].pc \in {"markers", "autoMarkers", "claim"}
    BY <1>4, RequestMoves
  <2>2. task'[w].kind \in {"run", "resume"}
    <3>1. ASSUME NEW k \in Keys, RunTimelineEnricher(w, k) PROVE task'[w].kind = "run"
      BY <3>1 DEF RunTimelineEnricher, TypeOK, Idle
    <3>2. ASSUME NEW k \in Keys, NEW s \in Sources, TriggerAutomatic(w, k, s)
          PROVE  task'[w].kind = "run"
      BY <3>2 DEF TriggerAutomatic, TypeOK, Idle
    <3>3. ASSUME NEW j \in Jobs, ResumeTimelineEnricher(w, j) PROVE task'[w].kind = "resume"
      BY <3>3 DEF ResumeTimelineEnricher, TypeOK, Idle
    <3> QED
      BY <1>4, <3>1, <3>2, <3>3 DEF Request
  <2>3. AppliesItsOwn(w)'
    BY <2>1, <2>2 DEF AppliesItsOwn, ApplyPCs
  <2>4. Rows /\ ~ Active(w)
    BY <2>1 DEF allButTask, pgVars, Active, Idle, JobPCs
  <2> QED
    BY <1>2, <2>1, <2>3, <2>4
<1>5. ASSUME NEW w \in Workers, Handle(w) PROVE Goal
  <2>1. /\ task'[w].pc \in {"idle", "plan", "autoClaim", "begin", "list"}
        /\ \A v \in Workers \ {w} : task'[v] = task[v]
        /\ ~ Active(w) /\ staged' = staged
    BY <1>5, HandleMoves
  <2>2. task'[w].kind \in {task[w].kind, "none"}
    <3>1. task[w] \in TaskType
      BY TaskAt
    <3>2. ASSUME CheckUnfinished(w) \/ AutoCheckUnfinished(w) \/ RefuseRun(w) \/ ClaimResume(w)
          PROVE  task'[w].kind \in {task[w].kind, "none"}
      BY <3>1, <3>2 DEF CheckUnfinished, AutoCheckUnfinished, RefuseRun, ClaimResume, Stop, Idle,
                        TypeOK, TaskType
    <3>3. ASSUME NEW j \in Jobs, NEW todo, Claim(w, j, todo) PROVE task'[w].kind = task[w].kind
      BY <3>1, <3>3 DEF Claim, TypeOK, TaskType
    <3> QED
      BY <1>5, <3>2, <3>3 DEF Handle, PlanAndClaim, AutoClaim
  <2>3. AppliesItsOwn(w)'
    BY <1>1, <2>1, <2>2 DEF AppliesItsOwn, ApplyPCs
  <2> QED
    BY <1>2, <2>1, <2>3
<1>6. ASSUME NEW w \in Workers, Scan(w) PROVE Goal
  <2>1. PICK i \in Jobs : /\ i = task[w].job /\ Active(w) /\ Active(w)' /\ task'[w].job = i
                          /\ OnTask(w)
                          /\ task'[w].pc \in {"open", "read", "write", "mark"}
    BY <1>6, ScanOnTask, ActiveJob DEF OnTask
  <2>2. task'[w].kind = "run"
    BY <1>6, <2>1, ScanInStep DEF InStep, ScanIsInStep, ScanPCs
  <2>3. \A j \in Jobs \ {i} : staged'[j] = staged[j]
    BY <1>6, <2>1 DEF Scan, StartJobRun, OpenSource, ReadBatch, StageBatch, FinishSource,
                      MarkSourceStaged, allButTask, pgVars, TypeOK
  <2>4. ASSUME NEW v \in Workers \ {w} PROVE AppliesItsOwn(v)'
    <3>1. task[v].pc = "release" => task[v].job \in Jobs \ {i}
      <4>1. ASSUME task[v].pc = "release" PROVE Active(v)
        BY <4>1 DEF Active, JobPCs
      <4> QED
        BY <2>1, <4>1, ActiveJob, DistinctJobs
    <3>2. task'[v] = task[v] /\ AppliesItsOwn(v)
      BY <1>1, <2>1 DEF OnTask
    <3>3. ASSUME task[v].pc = "release" PROVE staged'[task[v].job] = staged[task[v].job]
      BY <2>3, <3>1, <3>3
    <3> QED
      BY <3>2, <3>3 DEF AppliesItsOwn
  <2>5. AppliesItsOwn(w)'
    BY <2>1, <2>2 DEF AppliesItsOwn
  <2>6. HasItsRun(i)'
    BY <2>1, <2>2 DEF HasItsRun
  <2>7. ASSUME NEW j \in Jobs \ {i}, HasItsRun(j) PROVE HasItsRun(j)'
    BY <2>1, <2>7 DEF HasItsRun, OnTask, Active
  <2> QED
    BY <1>1, <2>3, <2>4, <2>5, <2>6, <2>7
<1>7. ASSUME NEW w \in Workers, Rewrite(w) PROVE Goal
  BY <1>1, <1>2, <1>7, RewriteApplies, RewriteOnTask, RewriteKeeps DEF OnTask
<1>8. ASSUME NEW w \in Workers, ReleaseRun(w) PROVE Goal
  <2>1. /\ task'[w] = Idle /\ \A v \in Workers \ {w} : task'[v] = task[v]
        /\ staged' = staged /\ task[w].pc \in {"release", "abort"}
    BY <1>8 DEF ReleaseRun, Stop, TypeOK, pgVars
  <2>2. \A s \in Sources : staged[task[w].job][s] = {}
    BY <1>1, <2>1 DEF AppliesItsOwn
  <2>3. AppliesItsOwn(w)'
    BY <2>1 DEF AppliesItsOwn, Idle, ApplyPCs
  <2> QED
    BY <1>2, <2>1, <2>2, <2>3
<1>9. ASSUME Reruns PROVE Goal
  <2>1. ASSUME NEW w \in Workers, NEW old \in Jobs, NEW j \in Jobs, Rerun(w, old, j) PROVE Goal
    <3>1. /\ task'[w].pc = "begin" /\ task'[w].kind = "run" /\ task[w] = Idle /\ staged' = staged
          /\ \A v \in Workers \ {w} : task'[v] = task[v]
      BY <2>1 DEF Rerun, TypeOK, Idle
    <3>2. AppliesItsOwn(w)'
      BY <3>1 DEF AppliesItsOwn, ApplyPCs
    <3>3. ~ Active(w)
      BY <3>1 DEF Active, Idle, JobPCs
    <3> QED
      BY <1>2, <3>1, <3>2, <3>3
  <2>2. ASSUME NEW old \in Jobs, SkipRerun(old) PROVE Goal
    <3>1. task' = task /\ staged' = staged
      BY <2>2 DEF SkipRerun, pgVars
    <3> QED
      BY <1>3, <3>1
  <2> HIDE DEF Goal
  <2> QED
    BY <1>9, <2>1, <2>2 DEF Reruns
<1>10. ASSUME Background PROVE Goal
  BY <1>3, <1>10, BackgroundSpares DEF Spares
<1>11. ASSUME UNCHANGED vars PROVE Goal
  BY <1>3, <1>11 DEF vars, pgVars, memVars
<1> HIDE DEF Goal
<1>12. Goal
  BY <1>1, <1>4, <1>5, <1>6, <1>7, <1>8, <1>9, <1>10, <1>11, SoundSteps
<1>13. orphans' = {} /\ boot' = "up"
  <2>1. ASSUME NEW w \in Workers, Request(w) \/ Handle(w) \/ ReleaseRun(w)
        PROVE  UNCHANGED <<orphans, boot>>
    BY <2>1, RequestMoves
       DEF Handle, CheckUnfinished, PlanAndClaim, AutoCheckUnfinished, AutoClaim, Claim,
           RefuseRun, ClaimResume, ReleaseRun, allButTask, recVars
  <2>2. ASSUME NEW w \in Workers, Scan(w) PROVE UNCHANGED <<orphans, boot>>
    BY <2>2 DEF Scan, StartJobRun, OpenSource, ReadBatch, StageBatch, FinishSource,
                MarkSourceStaged, allButTask, recVars
  <2>3. ASSUME NEW w \in Workers, Rewrite(w) PROVE UNCHANGED <<orphans, boot>>
    BY <2>3 DEF Rewrite, ListStagedSources, LockSource, SkipDeletedSource, StageRows, BuildCopy,
                ReplacePartition, RecheckSource, DropResurrected, RecordSourceEnrichment,
                DeleteStagedRows, RefreshFieldStats, FinishJobRun, allButTask, recVars
  <2>4. ASSUME Reruns \/ Background \/ UNCHANGED vars PROVE UNCHANGED <<orphans, boot>>
    BY <2>4 DEF Reruns, Rerun, SkipRerun, Background, DeleteSource, DropSourceEvents,
                AbortDelete, DeleteSourceRow, ComputeFill, StoreFill, UpdateData, recVars,
                memVars, vars
  <2> QED
    BY <1>1, <2>1, <2>2, <2>3, <2>4, SoundSteps
<1> QED
  BY <1>12, <1>13 DEF RunsApplyTheirOwn, Goal

-----------------------------------------------------------------------------
(* Provenance rows describe the events.                                     *)

\* No task but the one that moves leaves the window between swap and row.
LEMMA WindowsStay ==
    ASSUME TypeOK, NEW w \in Workers, \A v \in Workers \ {w} : task'[v] = task[v],
           NEW s \in Sources, NEW e \in Enrichers, ~ IsRewriting(w, s, e),
           NEW v \in Workers, IsRewriting(v, s, e)
    PROVE  IsRewriting(v, s, e)'
  BY DEF IsRewriting

\* A row that stands over events that stand describes them still.
LEMMA DescriptionStays ==
    ASSUME Inductive, EvidenceInv, [Next]_vars, NEW s \in Sources, NEW e \in Enrichers,
           prov'[s][e] = prov[s][e], prov[s][e] # None, Described(s, e),
           DOMAIN part'[s] = DOMAIN part[s],
           \A b \in DOMAIN part[s] : part'[s][b][e] = part[s][b][e]
    PROVE  Described(s, e)'
<1>1. prov[s][e] \in Jobs /\ jobVersion[prov[s][e]] # 0
  BY DEF Inductive, EvidenceInv, Pinned, TypeOK
<1>2. jobVersion'[prov[s][e]] = jobVersion[prov[s][e]]
  BY <1>1, VersionPinned DEF EvidenceInv
<1> QED
  BY <1>2 DEF Described, Output

\* The swap takes nothing from another enricher, and opens a window for its own.
LEMMA SwapOpensWindow ==
    ASSUME Inductive, EvidenceInv, RowsDescribe, [Next]_vars, NEW w \in Workers,
           Rewrite(w), ReplacePartition(w),
           NEW s \in Kept, NEW e \in Enrichers, prov'[s][e] # None
    PROVE  Described(s, e)' \/ \E v \in Workers : IsRewriting(v, s, e)'
<1> USE DEF Inductive, EvidenceInv
<1>1. PICK c \in Sources, x \in Enrichers, j \in Jobs :
          /\ c = task[w].cur /\ x = task[w].key[2] /\ j = task[w].job
  <2>1. Active(w) /\ task[w].cur \in Sources
    BY DEF ReplacePartition, Active, JobPCs, ApplyPCs, Shape, TaskShape
  <2> QED
    BY <2>1, ActiveJob DEF Keys
<1>2. /\ task[w].pc = "swap" /\ task'[w] = [task[w] EXCEPT !.pc = "recheck"]
      /\ \A v \in Workers \ {w} : task'[v] = task[v]
      /\ prov' = prov /\ s \in Sources /\ task[w] \in TaskType
  BY TaskAt DEF ReplacePartition, TypeOK, Kept
<1>3. ~ IsRewriting(w, s, e)
  BY <1>2 DEF IsRewriting
<1>4. CASE \E v \in Workers : IsRewriting(v, s, e)
  BY <1>2, <1>3, <1>4, WindowsStay
<1>5. CASE s = c /\ e = x
  <2>1. IsRewriting(w, s, e)'
    BY <1>1, <1>2, <1>5 DEF IsRewriting, TaskType
  <2> QED
    BY <2>1
<1>6. CASE ~ (s = c /\ e = x) /\ ~ \E v \in Workers : IsRewriting(v, s, e)
  <2>1. Described(s, e)
    BY <1>2, <1>6 DEF RowsDescribe
  <2>2. DOMAIN part'[s] = DOMAIN part[s] /\ \A b \in DOMAIN part[s] : part'[s][b][e] = part[s][b][e]
    <3>1. CASE s # c
      BY <1>1, <1>2, <3>1 DEF ReplacePartition, TypeOK
    <3>2. CASE s = c
      <4>1. part'[c] = eventsTbl[j]
        BY <1>1 DEF ReplacePartition, TypeOK
      <4>2. eventsTbl[j] = Merge(part[c], staged[j][c], x, jobVersion[j])
        BY <1>1, <1>2, <3>2 DEF InStep, CopyIsRight
      <4>3. part[c] \in [Batches -> Keyring]
        BY <3>2 DEF TypeOK, Partitions, Present
      <4>4. e # x
        BY <1>6, <3>2
      <4> QED
        BY <3>2, <4>1, <4>2, <4>3, <4>4 DEF Merge, Keyring
    <3> QED
      BY <3>1, <3>2
  <2> QED
    BY <1>2, <2>1, <2>2, DescriptionStays
<1> QED
  BY <1>4, <1>5, <1>6

\* The row a run writes tells the version that is on the events.
LEMMA RecordDescribes ==
    ASSUME Inductive, EvidenceInv, RunsApplyTheirOwn, RowsDescribe, [Next]_vars,
           NEW w \in Workers, RecordSourceEnrichment(w),
           NEW s \in Kept, NEW e \in Enrichers, prov'[s][e] # None
    PROVE  Described(s, e)' \/ \E v \in Workers : IsRewriting(v, s, e)'
<1> USE DEF Inductive, EvidenceInv
<1>1. PICK c \in Sources, x \in Enrichers, j \in Jobs :
          /\ c = task[w].cur /\ x = task[w].key[2] /\ j = task[w].job
          /\ task[w].key = jobKey[j] /\ j # None
  <2>1. Active(w) /\ task[w].cur \in Sources
    BY DEF RecordSourceEnrichment, Active, JobPCs, ApplyPCs, Shape, TaskShape
  <2> QED
    BY <2>1, ActiveJob DEF Keys
<1>2. /\ task[w].pc = "record" /\ UNCHANGED <<part, jobVersion>>
      /\ \A v \in Workers \ {w} : task'[v] = task[v]
      /\ s \in Sources
  BY DEF RecordSourceEnrichment, TypeOK, Kept, chVars, jobRows
<1>3. task[w].kind = "run"
  BY <1>2 DEF RunsApplyTheirOwn, AppliesItsOwn, InStep, GrantIsWhole, JobPCs, ApplyPCs
<1>4. prov' = [prov EXCEPT ![c][x] = j]
  BY <1>1, <1>3 DEF RecordSourceEnrichment, Grant
<1>5. CASE s = c /\ e = x
  <2>1. prov'[s][e] = j
    BY <1>4, <1>5 DEF TypeOK
  <2>2. /\ staged[j][c] # {}
        /\ \A b \in Batches : part[c][b][x] = IF b \in staged[j][c] THEN jobVersion[j] ELSE 0
    BY <1>1, <1>2, <1>5 DEF InStep, CopyIsRight, CopiedPCs
  <2>3. staged[j][c] = Resolves[x][jobVersion[j]]
    <3>1. Whole(j, c)
      BY <1>1, <1>2, <1>3, <1>5 DEF InStep, GrantIsWhole, ApplyPCs
    <3> QED
      BY <1>1, <2>2, <3>1 DEF Whole, Full
  <2>4. DOMAIN part[c] = Batches
    BY <1>5 DEF Present
  <2> QED
    BY <1>2, <1>5, <2>1, <2>2, <2>3, <2>4 DEF Described, Output
<1>6. CASE ~ (s = c /\ e = x)
  <2>1. prov'[s][e] = prov[s][e]
    BY <1>2, <1>4, <1>6 DEF TypeOK
  <2>2. ~ IsRewriting(w, s, e)
    BY <1>1, <1>6 DEF IsRewriting
  <2>3. CASE Described(s, e)
    BY <1>2, <2>1, <2>3, DescriptionStays
  <2>4. CASE \E v \in Workers : IsRewriting(v, s, e)
    BY <1>2, <2>2, <2>4, WindowsStay
  <2> QED
    BY <2>1, <2>3, <2>4 DEF RowsDescribe
<1> QED
  BY <1>5, <1>6

\* The other steps leave the rows and the events of a source as they are, and
\* the task that is between its swap and its row where it is.
LEMMA ApartDescribes ==
    ASSUME Inductive, EvidenceInv, RowsDescribe, [Next]_vars,
           NEW s \in Kept', NEW e \in Enrichers, prov'[s][e] # None,
           part'[s] = part[s], prov'[s] = prov[s],
           \A v \in Workers : IsRewriting(v, s, e) => IsRewriting(v, s, e)'
    PROVE  Described(s, e)' \/ \E v \in Workers : IsRewriting(v, s, e)'
<1>1. s \in Kept /\ s \in Sources
  BY KeptShrinks DEF Inductive, EvidenceInv, Kept
<1>2. CASE Described(s, e)
  BY <1>1, <1>2, DescriptionStays
<1>3. CASE \E v \in Workers : IsRewriting(v, s, e)
  BY <1>3
<1> QED
  BY <1>1, <1>2, <1>3 DEF RowsDescribe

LEMMA RowsDescribeStep ==
    ASSUME Inductive, EvidenceInv, RunsApplyTheirOwn, RowsDescribe, [Next]_vars, Sound'
    PROVE  RowsDescribe'
<1> USE DEF Inductive, EvidenceInv
<1> SUFFICES ASSUME NEW s \in Kept', NEW e \in Enrichers, prov'[s][e] # None
             PROVE  Described(s, e)' \/ \E v \in Workers : IsRewriting(v, s, e)'
  BY DEF RowsDescribe
<1> DEFINE Goal == Described(s, e)' \/ \E v \in Workers : IsRewriting(v, s, e)'
           Windows == \A v \in Workers : IsRewriting(v, s, e) => IsRewriting(v, s, e)'
<1>1. s \in Kept /\ s \in Sources
  BY KeptShrinks DEF Kept
<1>2. ASSUME NEW w \in Workers, \A v \in Workers \ {w} : task'[v] = task[v],
             task[w].pc \notin {"recheck", "record"}
      PROVE  Windows
  BY <1>1, <1>2, WindowsStay DEF IsRewriting
<1>3. ASSUME NEW w \in Workers, Request(w) \/ Handle(w) \/ ReleaseRun(w) PROVE Windows
  <2>1. /\ \A v \in Workers \ {w} : task'[v] = task[v]
        /\ task[w].pc \notin {"recheck", "record"}
    BY <1>3, RequestMoves, HandleMoves DEF ReleaseRun, Stop, TypeOK, Idle, Active, JobPCs
  <2> QED
    BY <1>2, <2>1
<1>4. ASSUME Reruns PROVE Windows
  <2>1. ASSUME NEW w \in Workers, NEW old \in Jobs, NEW j \in Jobs, Rerun(w, old, j) PROVE Windows
    <3>1. /\ \A v \in Workers \ {w} : task'[v] = task[v]
          /\ task[w].pc \notin {"recheck", "record"}
      BY <2>1 DEF Rerun, TypeOK, Idle
    <3> QED
      BY <1>2, <3>1
  <2>2. ASSUME NEW old \in Jobs, SkipRerun(old) PROVE Windows
    BY <2>2 DEF SkipRerun, IsRewriting
  <2> HIDE DEF Windows
  <2> QED
    BY <1>4, <2>1, <2>2 DEF Reruns
<1>5. ASSUME Background \/ UNCHANGED vars PROVE Windows
  BY <1>5, BackgroundSpares DEF IsRewriting, vars, memVars
<1>6. ASSUME NEW w \in Workers, Scan(w) PROVE Goal
  <2>1. UNCHANGED <<part, prov>> /\ \A v \in Workers \ {w} : task'[v] = task[v]
    BY <1>6, ScanTouches, ScanOnTask DEF OnTask
  <2>2. task[w].pc \notin {"recheck", "record"}
    BY <1>6 DEF Scan, StartJobRun, OpenSource, ReadBatch, StageBatch, FinishSource,
                MarkSourceStaged
  <2> QED
    BY <1>2, <2>1, <2>2, ApartDescribes
<1>7. ASSUME NEW w \in Workers, Rewrite(w) PROVE Goal
  <2>1. CASE ReplacePartition(w)
    BY <1>1, <1>7, <2>1, SwapOpensWindow
  <2>2. CASE RecordSourceEnrichment(w)
    BY <1>1, <2>2, RecordDescribes
  <2>3. CASE ~ ReplacePartition(w) /\ ~ RecordSourceEnrichment(w)
    <3>1. prov' = prov /\ \A v \in Workers \ {w} : task'[v] = task[v]
      BY <1>7, <2>3, RewriteProv, RewriteOnTask DEF OnTask
    <3>2. part'[s] = part[s]
      BY <1>1, <1>7, <2>3, RewritePart DEF Kept
    <3>3. CASE RecheckSource(w) /\ task[w].cur = s
      <4>1. /\ task[w].pc = "recheck" /\ task'[w] = [task[w] EXCEPT !.pc = "record"]
        BY <1>1, <3>3 DEF RecheckSource, Present, TypeOK
      <4>2. IsRewriting(w, s, e) => IsRewriting(w, s, e)'
        BY <4>1, TaskAt DEF IsRewriting, TaskType
      <4>3. \A v \in Workers : IsRewriting(v, s, e) => IsRewriting(v, s, e)'
        BY <3>1, <4>2 DEF IsRewriting
      <4> QED
        BY <3>1, <3>2, <4>3, ApartDescribes
    <3>4. CASE ~ (RecheckSource(w) /\ task[w].cur = s)
      <4>1. ~ IsRewriting(w, s, e)
        BY <1>7, <2>3, <3>4
           DEF IsRewriting, Rewrite, ListStagedSources, LockSource, SkipDeletedSource, StageRows,
               BuildCopy, DropResurrected, DeleteStagedRows, RefreshFieldStats, FinishJobRun
      <4>2. Windows
        BY <1>1, <3>1, <4>1, WindowsStay
      <4> QED
        BY <3>1, <3>2, <4>2, ApartDescribes
    <3> QED
      BY <3>3, <3>4
  <2> QED
    BY <2>1, <2>2, <2>3
<1>8. ASSUME Spares, Windows PROVE Goal
  BY <1>8, ApartDescribes DEF Spares, Spared
<1>9. ASSUME \E w \in Workers : Request(w) \/ Handle(w) \/ ReleaseRun(w) PROVE Windows
  <2> HIDE DEF Windows
  <2> QED
    BY <1>3, <1>9
<1> HIDE DEF Goal, Windows
<1>10. Goal
  BY <1>4, <1>5, <1>6, <1>7, <1>8, <1>9, SoundSteps, Outside DEF RunsApplyTheirOwn
<1> QED
  BY <1>10 DEF Goal

LEMMA ProvenanceInvInit == Init => ProvenanceInv
<1> SUFFICES ASSUME Init PROVE ProvenanceInv
  OBVIOUS
<1>1. RunsApplyTheirOwn
  BY DEF Init, RunsApplyTheirOwn, AppliesItsOwn, Idle, ApplyPCs
<1>2. RowsDescribe
  BY DEF Init, RowsDescribe, Kept
<1> QED
  BY <1>1, <1>2 DEF ProvenanceInv

LEMMA ProvenanceInvStep ==
    ASSUME Inductive, EvidenceInv, ProvenanceInv, [Next]_vars
    PROVE  ProvenanceInv'
<1> SUFFICES ASSUME Sound' PROVE RunsApplyTheirOwn' /\ RowsDescribe'
  BY DEF ProvenanceInv, Sound
<1>1. Sound
  BY FailsGrow DEF Sound, Inductive
<1>2. RunsApplyTheirOwn /\ RowsDescribe
  BY <1>1 DEF ProvenanceInv, Sound
<1> QED
  BY <1>2, RunsApplyTheirOwnStep, RowsDescribeStep

\* As long as nothing has failed or crashed, and whatever is deleted, re-run,
\* resumed or updated meanwhile: outside an apply a provenance row names the
\* version that produced the derived keys on the source
\* (record_source_enrichment, finalize_enrichment_apply).
THEOREM ProvenanceIsTrue == Spec => [](fails = 0 /\ crashes = 0 => ProvenanceDescribesPartition)
<1>1. Inductive /\ EvidenceInv /\ ProvenanceInv /\ [Next]_vars => ProvenanceInv'
  BY ProvenanceInvStep
<1>2. Inductive /\ ProvenanceInv => (fails = 0 /\ crashes = 0 => ProvenanceDescribesPartition)
  <2> SUFFICES ASSUME Inductive, ProvenanceInv, fails = 0 /\ crashes = 0,
                      NEW s \in Sources, NEW e \in Enrichers, Settled(s, e), prov[s][e] # None
               PROVE  Described(s, e)
    BY DEF ProvenanceDescribesPartition, Described
  <2>1. RowsDescribe /\ s \in Kept
    BY DEF ProvenanceInv, Settled, Kept
  <2>2. \A w \in Workers : ~ IsRewriting(w, s, e)
    BY DEF Settled, IsRewriting, Applying, ApplyPCs
  <2> QED
    BY <2>1, <2>2 DEF RowsDescribe
<1> QED
  BY <1>1, <1>2, ProvenanceInvInit, AppliesWriteWholeScans, PTL DEF Spec, ScansAreWhole

-----------------------------------------------------------------------------
(* Field stats are fresh, or about to be.                                   *)

\* What keeps a stale row from being forgotten.
Minded(s) == HasRowsToApply(s) \/ \E w \in Workers : HasOutdated(w, s)

LEMMA MindedStays ==
    ASSUME NEW s, Minded(s), markers \subseteq markers',
           \A j \in markers : staged[j][s] # {} => staged'[j][s] # {},
           \A w \in Workers : HasOutdated(w, s) => HasOutdated(w, s)'
    PROVE  Minded(s)'
  BY DEF Minded, HasRowsToApply, HasOutdated

\* A row goes stale in the hands of the apply that outdates it, and stays in
\* them until it is refreshed.
LEMMA RewriteMinds ==
    ASSUME Inductive, EvidenceInv, NEW w \in Workers, Rewrite(w), NEW s \in Kept,
           stats[s] = "stale" => Minded(s), stats'[s] = "stale"
    PROVE  Minded(s)'
<1> USE DEF Inductive, EvidenceInv
<1>1. /\ s \in Sources /\ s \in sources /\ task[w] \in TaskType /\ Active(w)
      /\ \A v \in Workers \ {w} : task'[v] = task[v]
      /\ task[w].job \in Jobs
  BY TaskAt, RewriteOnTask, ActiveJob DEF OnTask, Kept, Present
<1>2. PICK j \in Jobs : j = task[w].job
  BY <1>1
<1>3. ASSUME NEW v \in Workers \ {w}, HasOutdated(v, s) PROVE Minded(s)'
  <2>1. HasOutdated(v, s)'
    BY <1>1, <1>3 DEF HasOutdated
  <2> QED
    BY <2>1 DEF Minded
<1>4. ASSUME HasOutdated(w, s)' PROVE Minded(s)'
  BY <1>4 DEF Minded
<1>5. ASSUME stats' = stats, ~ HasOutdated(w, s),
             markers' = markers, \A k \in Jobs : staged'[k][s] = staged[k][s]
      PROVE  Minded(s)'
  <2>1. CASE HasRowsToApply(s)
    BY <1>5, <2>1 DEF Minded, HasRowsToApply, TypeOK
  <2>2. CASE ~ HasRowsToApply(s)
    <3>1. PICK v \in Workers : HasOutdated(v, s)
      BY <1>5, <2>2 DEF Minded
    <3> QED
      BY <1>3, <1>5, <3>1
  <2> QED
    BY <2>1, <2>2
<1>6. ASSUME ListStagedSources(w) \/ StageRows(w) \/ BuildCopy(w) PROVE Minded(s)'
  BY <1>5, <1>6
     DEF ListStagedSources, StageRows, BuildCopy, HasOutdated, allButTask, pgVars, jobRows
<1>7. ASSUME NEW x \in Sources, LockSource(w, x) PROVE Minded(s)'
  BY <1>5, <1>7 DEF LockSource, HasOutdated, pgVars, jobRows
<1>8. ASSUME NEW x \in Sources, SkipDeletedSource(w, x) PROVE Minded(s)'
  <2>1. /\ x # s /\ staged' = [staged EXCEPT ![j][x] = {}]
        /\ task[w].pc = "lock" /\ UNCHANGED <<stats, markers>>
    BY <1>1, <1>2, <1>8 DEF SkipDeletedSource, jobRows
  <2>2. \A k \in Jobs : staged'[k][s] = staged[k][s]
    BY <1>1, <2>1 DEF TypeOK
  <2> QED
    BY <1>5, <2>1, <2>2 DEF HasOutdated
<1>9. PICK c \in Sources \cup {None} : c = task[w].cur
  BY <1>1 DEF TaskType
<1>10. ASSUME ReplacePartition(w) PROVE Minded(s)'
  <2>1. /\ task'[w] = [task[w] EXCEPT !.pc = "recheck"] /\ task[w].pc = "swap"
        /\ UNCHANGED <<markers, staged>>
        /\ stats' = [stats EXCEPT ![c] = Outdated(@)]
    BY <1>9, <1>10 DEF ReplacePartition, TypeOK, jobRows
  <2>2. CASE s = c
    BY <1>1, <1>4, <1>9, <2>1, <2>2 DEF HasOutdated, TaskType
  <2>3. CASE s # c
    <3>1. stats[s] = "stale"
      BY <1>1, <2>1, <2>3 DEF TypeOK
    <3>2. \A v \in Workers : HasOutdated(v, s) => HasOutdated(v, s)'
      BY <1>1, <2>1 DEF HasOutdated
    <3> QED
      BY <2>1, <3>1, <3>2, MindedStays
  <2> QED
    BY <2>2, <2>3
<1>11. ASSUME NEW p \in {"record", "undo", "clear", "stats"}, task'[w] = [task[w] EXCEPT !.pc = p],
              task[w].pc \in {"recheck", "record", "clear"},
              p = "undo" => c # s, UNCHANGED <<stats, markers>>,
              \A k \in Jobs : staged'[k][s] # staged[k][s] => c = s
       PROVE  Minded(s)'
  <2>1. CASE c = s
    BY <1>1, <1>4, <1>9, <1>11, <2>1 DEF HasOutdated, TaskType
  <2>2. CASE c # s
    BY <1>5, <1>9, <1>11, <2>2 DEF HasOutdated
  <2> QED
    BY <2>1, <2>2
<1>12. ASSUME RecheckSource(w) PROVE Minded(s)'
  <2>1. /\ task[w].pc = "recheck" /\ UNCHANGED <<stats, markers, staged>>
        /\ \/ task'[w] = [task[w] EXCEPT !.pc = "record"]
           \/ task'[w] = [task[w] EXCEPT !.pc = "undo"] /\ c # s
    BY <1>1, <1>9, <1>12 DEF RecheckSource, TypeOK, allButTask, pgVars, jobRows
  <2> QED
    BY <1>11, <2>1
<1>13. ASSUME DropResurrected(w) PROVE Minded(s)'
  <2>1. /\ task[w].pc = "undo" /\ c # s /\ c \in Sources
    BY <1>9, <1>13 DEF DropResurrected, InStep, CopyIsRight, Shape, TaskShape, ApplyPCs
  <2>2. /\ markers' = markers /\ stats' = [stats EXCEPT ![c] = Outdated(@)]
        /\ staged' = [staged EXCEPT ![j][c] = {}]
    BY <1>2, <1>9, <1>13 DEF DropResurrected, jobRows
  <2>3. stats'[s] = stats[s] /\ \A k \in Jobs : staged'[k][s] = staged[k][s]
    BY <1>1, <2>1, <2>2 DEF TypeOK
  <2>4. \A v \in Workers : HasOutdated(v, s) => HasOutdated(v, s)'
    BY <1>1, <2>1 DEF HasOutdated
  <2> QED
    BY <2>2, <2>3, <2>4, MindedStays DEF TypeOK
<1>14. ASSUME RecordSourceEnrichment(w) PROVE Minded(s)'
  <2>1. /\ task[w].pc = "record" /\ UNCHANGED <<stats, markers, staged>>
        /\ task'[w] = [task[w] EXCEPT !.pc = "clear"]
    BY <1>14 DEF RecordSourceEnrichment, TypeOK, jobRows
  <2> QED
    BY <1>11, <2>1
<1>15. ASSUME DeleteStagedRows(w) PROVE Minded(s)'
  <2>1. /\ task[w].pc = "clear" /\ UNCHANGED <<stats, markers>>
        /\ task'[w] = [task[w] EXCEPT !.pc = "stats"]
        /\ staged' = [staged EXCEPT ![j][c] = {}]
    BY <1>2, <1>9, <1>15 DEF DeleteStagedRows, TypeOK, jobRows
  <2>2. \A k \in Jobs : staged'[k][s] # staged[k][s] => c = s
    BY <1>1, <2>1 DEF TypeOK
  <2> QED
    BY <1>11, <2>1, <2>2
<1>16. ASSUME RefreshFieldStats(w) PROVE Minded(s)'
  <2>1. /\ task[w].pc = "stats" /\ UNCHANGED <<markers, staged>> /\ c \in Sources
        /\ \E row \in {"fresh"} \cup StatsAfterFailure(stats[c]) :
              row # "stale" /\ stats' = [stats EXCEPT ![c] = row]
    BY <1>9, <1>16
       DEF RefreshFieldStats, StatsAfterFailure, jobRows, Shape, TaskShape, ApplyPCs
  <2>2. c # s /\ stats[s] = "stale"
    BY <1>1, <2>1 DEF TypeOK
  <2>3. \A v \in Workers : HasOutdated(v, s) => HasOutdated(v, s)'
    BY <1>1, <1>9, <2>2 DEF HasOutdated
  <2> QED
    BY <2>1, <2>2, <2>3, MindedStays
<1>17. ASSUME FinishJobRun(w) PROVE Minded(s)'
  <2>1. /\ task[w].pc = "lock" /\ task[w].todo = {}
        /\ markers' = markers \ {j} /\ UNCHANGED <<stats, staged>>
    BY <1>2, <1>17 DEF FinishJobRun
  <2>2. staged[j][s] = {}
    BY <1>1, <1>2, <2>1 DEF StageInv, ApplyPCs
  <2>3. CASE HasRowsToApply(s)
    BY <2>1, <2>2, <2>3 DEF Minded, HasRowsToApply
  <2>4. CASE ~ HasRowsToApply(s)
    <3>1. PICK v \in Workers : HasOutdated(v, s)
      BY <2>1, <2>4 DEF Minded
    <3>2. v # w
      BY <2>1, <3>1 DEF HasOutdated
    <3> QED
      BY <1>3, <3>1, <3>2
  <2> QED
    BY <2>3, <2>4
<1> QED
  BY <1>6, <1>7, <1>8, <1>10, <1>12, <1>13, <1>14, <1>15, <1>16, <1>17 DEF Rewrite

\* An apply that fails behind its swap leaves the staged rows, with a marker
\* through which they are applied again.
LEMMA FailMinds ==
    ASSUME Inductive, EvidenceInv, NEW w \in Workers, Fail(w), NEW s \in Kept, Minded(s)
    PROVE  Minded(s)'
<1> USE DEF Inductive, EvidenceInv
<1>1. /\ UNCHANGED <<markers, staged>> /\ \A v \in Workers \ {w} : task'[v] = task[v]
      /\ task[w].pc \in FailPCs /\ Active(w) /\ task[w].job \in Jobs /\ s \in Sources
  BY FailOnTask, ActiveJob DEF OnTask, Fail, jobRows, Kept
<1>2. CASE HasOutdated(w, s)
  <2>1. staged[task[w].job][s] # {}
    BY <1>1, <1>2 DEF InStep, CopyIsRight, CopiedPCs, HasOutdated, FailPCs
  <2>2. task[w].job \in markers
    BY <1>1, <2>1 DEF StageInv, NoStrandedStaging
  <2> QED
    BY <1>1, <2>1, <2>2 DEF Minded, HasRowsToApply
<1>3. CASE ~ HasOutdated(w, s)
  <2>1. \A v \in Workers : HasOutdated(v, s) => HasOutdated(v, s)'
    BY <1>1, <1>3 DEF HasOutdated
  <2> QED
    BY <1>1, <2>1, MindedStays
<1> QED
  BY <1>2, <1>3

\* The steps of the other tasks, and the environment's, forget no stale row.
LEMMA OthersMind ==
    ASSUME Inductive, EvidenceInv, NEW s \in Kept, Minded(s),
           markers \subseteq markers',
           \A j \in Jobs : staged[j][s] \subseteq staged'[j][s],
           \A v \in Workers : \/ task'[v] = task[v]
                              \/ task[v].pc \notin {"recheck", "record", "clear", "stats"}
    PROVE  Minded(s)'
<1>1. \A v \in Workers : HasOutdated(v, s) => HasOutdated(v, s)'
  BY DEF HasOutdated
<1>2. \A j \in markers : staged[j][s] # {} => staged'[j][s] # {}
  BY DEF Inductive, TypeOK
<1> QED
  BY <1>1, <1>2, MindedStays

\* Nobody has computed field stats that are still to be stored.
Unfilled == \A s \in Sources : fill[s] = "none"

LEMMA UnfilledStep ==
    ASSUME Inductive, [Next]_vars, fills' = 0, fills = 0 => Unfilled
    PROVE  fills = 0 /\ Unfilled'
<1> USE DEF Inductive
<1> DEFINE Quiet == UNCHANGED <<fills, fill>>
           Ages == fills' = fills /\ \E s \in Sources : fill' = [fill EXCEPT ![s] = Outdated(@)]
           Clears == fills' = fills /\ \/ \E s \in Sources : fill' = [fill EXCEPT ![s] = "none"]
                                       \/ fill' = [s \in Sources |-> "none"]
           Moves == Quiet \/ Ages \/ Clears
<1>1. ASSUME NEW w \in Workers, Request(w) \/ Handle(w) \/ ReleaseRun(w) PROVE Quiet
  BY <1>1, RequestMoves
     DEF Handle, CheckUnfinished, PlanAndClaim, AutoCheckUnfinished, AutoClaim, Claim,
         RefuseRun, ClaimResume, ReleaseRun, allButTask, bounds
<1>2. ASSUME NEW w \in Workers, Scan(w) PROVE Quiet
  BY <1>2 DEF Scan, StartJobRun, OpenSource, ReadBatch, StageBatch, FinishSource,
              MarkSourceStaged, allButTask, bounds
<1>3. ASSUME NEW w \in Workers, Rewrite(w) PROVE Quiet \/ Ages
  <2>1. CASE ReplacePartition(w) \/ DropResurrected(w)
    <3>1. task[w].cur \in Sources
      BY <2>1 DEF ReplacePartition, DropResurrected, Shape, TaskShape, ApplyPCs
    <3> QED
      BY <2>1, <3>1 DEF ReplacePartition, DropResurrected, bounds
  <2>2. CASE ~ (ReplacePartition(w) \/ DropResurrected(w))
    BY <1>3, <2>2
       DEF Rewrite, ListStagedSources, LockSource, SkipDeletedSource, StageRows, BuildCopy,
           RecheckSource, RecordSourceEnrichment, DeleteStagedRows, RefreshFieldStats,
           FinishJobRun, allButTask, bounds
  <2> QED
    BY <2>1, <2>2
<1>4. ASSUME NEW w \in Workers, FailToStart(w) \/ Fail(w) PROVE Quiet
  BY <1>4 DEF FailToStart, Fail
<1>5. ASSUME Recover PROVE Quiet
  BY <1>5 DEF Recover, ListOrphans, ReconcileOrphan, SkipOrphan, Rerun, SkipRerun, bounds
<1>6. ASSUME Background PROVE Moves
  <2>1. ASSUME NEW s \in Sources, ComputeFill(s) PROVE FALSE
    BY <2>1 DEF ComputeFill, TypeOK
  <2>2. ASSUME NEW s \in Sources, DeleteSource(s) \/ AbortDelete(s) \/ DeleteSourceRow(s)
        PROVE  Quiet
    BY <2>2 DEF DeleteSource, AbortDelete, DeleteSourceRow, bounds
  <2>3. ASSUME NEW s \in Sources, DropSourceEvents(s) PROVE Ages
    BY <2>3 DEF DropSourceEvents, bounds
  <2>4. ASSUME NEW s \in Sources, StoreFill(s) PROVE Clears
    BY <2>4 DEF StoreFill, bounds
  <2>5. ASSUME NEW e \in Enrichers, UpdateData(e) PROVE Quiet
    BY <2>5 DEF UpdateData, memVars, bounds
  <2> HIDE DEF Quiet, Ages, Clears
  <2> QED
    BY <1>6, <2>1, <2>2, <2>3, <2>4, <2>5 DEF Background
<1>7. ASSUME Crash PROVE Clears
  BY <1>7 DEF Crash
<1>8. ASSUME UNCHANGED vars PROVE Quiet
  BY <1>8 DEF vars, memVars, bounds
<1>9. Moves
  <2> HIDE DEF Quiet, Ages, Clears
  <2> QED
    BY <1>1, <1>2, <1>3, <1>4, <1>5, <1>6, <1>7, <1>8
       DEF Next, Apply, Rewrite, Environment, Background
<1>10. fills = 0 /\ Unfilled
  BY <1>9
<1>11. ASSUME Quiet \/ Clears PROVE Unfilled'
  BY <1>10, <1>11 DEF Unfilled, TypeOK
<1>12. ASSUME Ages PROVE Unfilled'
  BY <1>10, <1>12 DEF Unfilled, TypeOK, Outdated
<1> QED
  BY <1>9, <1>10, <1>11, <1>12

LEMMA StatsStep ==
    ASSUME Inductive, EvidenceInv, [Next]_vars, Unfilled, crashes' = 0,
           \A s \in Kept : stats[s] = "stale" => Minded(s),
           NEW s \in Kept', stats'[s] = "stale"
    PROVE  Minded(s)'
<1> USE DEF Inductive, EvidenceInv
<1>1. s \in Kept /\ s \in Sources
  BY KeptShrinks DEF Kept
<1> DEFINE Rests == /\ stats'[s] = stats[s] /\ markers \subseteq markers'
                    /\ \A j \in Jobs : staged[j][s] \subseteq staged'[j][s]
           Stays(v) == \/ task'[v] = task[v]
                       \/ task[v].pc \notin {"recheck", "record", "clear", "stats"}
           Goal == Minded(s)'
<1>2. ASSUME Rests, \A v \in Workers : Stays(v) PROVE Goal
  BY <1>1, <1>2, OthersMind
<1>3. ASSUME UNCHANGED <<stats, markers, staged>>, \A v \in Workers : Stays(v) PROVE Goal
  BY <1>2, <1>3
<1>4. ASSUME NEW w \in Workers, Request(w) PROVE Goal
  <2>1. /\ UNCHANGED allButTask /\ task[w] = Idle /\ \A v \in Workers \ {w} : task'[v] = task[v]
    BY <1>4, RequestMoves
  <2>2. \A v \in Workers : Stays(v)
    BY <2>1 DEF Idle
  <2> QED
    BY <1>3, <2>1, <2>2 DEF allButTask, pgVars, jobRows
<1>5. ASSUME NEW w \in Workers, Handle(w) PROVE Goal
  <2>1. /\ UNCHANGED <<markers, staged>> /\ ~ Active(w)
        /\ \A v \in Workers \ {w} : task'[v] = task[v]
    BY <1>5, HandleMoves
  <2>2. stats' = stats
    BY <1>5 DEF Handle, CheckUnfinished, PlanAndClaim, AutoCheckUnfinished, AutoClaim, Claim,
                RefuseRun, ClaimResume, allButTask, pgVars
  <2>3. \A v \in Workers : Stays(v)
    BY <2>1 DEF Active, JobPCs
  <2> QED
    BY <1>3, <2>1, <2>2, <2>3
<1>6. ASSUME NEW w \in Workers, Scan(w) PROVE Goal
  <2>1. /\ \A v \in Workers \ {w} : task'[v] = task[v]
        /\ Active(w) /\ task[w].job \in Jobs
    BY <1>6, ScanOnTask, ActiveJob DEF OnTask
  <2>2. task[w].pc \in {"begin", "open", "read", "write", "mark"}
    BY <1>6 DEF Scan, StartJobRun, OpenSource, ReadBatch, StageBatch, FinishSource,
                MarkSourceStaged
  <2>3. stats' = stats /\ markers \subseteq markers'
    BY <1>6 DEF Scan, StartJobRun, OpenSource, ReadBatch, StageBatch, FinishSource,
                MarkSourceStaged, allButTask, pgVars, jobRows
  <2>4. \A j \in Jobs : staged[j][s] \subseteq staged'[j][s]
    <3>1. CASE StageBatch(w)
      <4>1. PICK i \in Jobs, c \in Sources : i = task[w].job /\ c = task[w].cur
        BY <2>1, <3>1 DEF StageBatch, Shape, TaskShape
      <4>2. PICK rows \in SUBSET Batches :
                staged' = [staged EXCEPT ![i][c] = @ \cup rows]
        <5>1. task[w].batch \in Batches
          BY <3>1 DEF StageBatch, Shape, TaskShape
        <5> QED
          BY <3>1, <4>1, <5>1 DEF StageBatch
      <4> QED
        BY <1>1, <4>1, <4>2 DEF TypeOK
    <3>2. CASE ~ StageBatch(w)
      BY <1>6, <3>2 DEF Scan, StartJobRun, OpenSource, ReadBatch, FinishSource,
                        MarkSourceStaged, allButTask, pgVars
    <3> QED
      BY <3>1, <3>2
  <2> QED
    BY <1>2, <2>1, <2>2, <2>3, <2>4
<1>7. ASSUME NEW w \in Workers, Rewrite(w) PROVE Goal
  BY <1>1, <1>7, RewriteMinds
<1>8. ASSUME NEW w \in Workers, ReleaseRun(w) \/ FailToStart(w) PROVE Goal
  <2>1. \A v \in Workers : Stays(v)
    BY <1>8 DEF ReleaseRun, FailToStart, Stop, TypeOK
  <2> QED
    BY <1>3, <1>8, <2>1 DEF ReleaseRun, FailToStart, pgVars, jobRows
<1>9. ASSUME NEW w \in Workers, Fail(w) PROVE Goal
  BY <1>1, <1>9, FailMinds DEF Fail, pgVars
<1>10. ASSUME Recover PROVE Goal
  <2>1. \A v \in Workers : Stays(v)
    BY <1>10, RecoverMoves DEF Idle
  <2>2. stats' = stats
    BY <1>10 DEF Recover, ListOrphans, ReconcileOrphan, SkipOrphan, Rerun, SkipRerun, pgVars
  <2> QED
    BY <1>3, <1>10, <2>1, <2>2, RecoverMoves
<1>11. ASSUME Background PROVE Goal
  <2>1. Spares /\ UNCHANGED <<task, markers>>
    BY <1>11, BackgroundSpares
  <2>2. stats'[s] = stats[s]
    <3>1. ASSUME NEW x \in Sources, DropSourceEvents(x) \/ DeleteSourceRow(x)
          PROVE  stats'[s] = stats[s]
      <4>1. x # s
        BY <1>1, <3>1 DEF DropSourceEvents, DeleteSourceRow, Present
      <4> QED
        BY <1>1, <3>1, <4>1 DEF DropSourceEvents, DeleteSourceRow, TypeOK
    <3>2. ASSUME NEW x \in Sources, StoreFill(x) PROVE FALSE
      BY <3>2 DEF StoreFill, Unfilled
    <3>3. ASSUME NEW x \in Sources, DeleteSource(x) \/ AbortDelete(x) \/ ComputeFill(x)
          PROVE  stats'[s] = stats[s]
      BY <3>3 DEF DeleteSource, AbortDelete, ComputeFill, pgVars
    <3>4. ASSUME NEW e \in Enrichers, UpdateData(e) PROVE stats'[s] = stats[s]
      BY <3>4 DEF UpdateData, pgVars
    <3> QED
      BY <1>11, <3>1, <3>2, <3>3, <3>4 DEF Background
  <2>3. Rests /\ \A v \in Workers : Stays(v)
    BY <2>1, <2>2 DEF Spares, Spared
  <2> QED
    BY <1>2, <2>3
<1>12. ASSUME UNCHANGED vars PROVE Goal
  BY <1>3, <1>12 DEF vars, pgVars, jobRows, memVars
<1>13. ~ Crash
  BY FailsGrow DEF Crash
<1> HIDE DEF Goal
<1>14. Goal
  BY <1>4, <1>5, <1>6, <1>7, <1>8, <1>9, <1>10, <1>11, <1>12, <1>13
     DEF Next, Apply, Rewrite, Environment, Background
<1> QED
  BY <1>14 DEF Goal

LEMMA StatsInvInit == Init => StatsInv
<1> SUFFICES ASSUME Init PROVE StatsInv
  OBVIOUS
<1>1. \A s \in Sources : fill[s] = "none" /\ stats[s] # "stale"
  BY DEF Init
<1> QED
  BY <1>1 DEF StatsInv, Kept

LEMMA StatsInvStep ==
    ASSUME Inductive, EvidenceInv, StatsInv, [Next]_vars
    PROVE  StatsInv'
<1> SUFFICES ASSUME fills' = 0
             PROVE  /\ Unfilled'
                    /\ crashes' = 0 => \A s \in Kept' : stats'[s] = "stale" => Minded(s)'
  BY DEF StatsInv, Unfilled, Minded
<1>1. fills = 0 /\ Unfilled /\ Unfilled'
  BY UnfilledStep DEF StatsInv, Unfilled
<1>2. ASSUME crashes' = 0, NEW s \in Kept', stats'[s] = "stale" PROVE Minded(s)'
  <2>1. crashes = 0
    BY <1>2, FailsGrow DEF Inductive
  <2>2. \A x \in Kept : stats[x] = "stale" => Minded(x)
    BY <1>1, <2>1 DEF StatsInv, Minded
  <2> QED
    BY <1>1, <1>2, <2>2, StatsStep
<1> QED
  BY <1>1, <1>2

\* As long as nobody fills the field stats of a source that has none: however
\* runs fail, retry and resume, and whatever else is deleted, a row that no
\* longer describes its source is about to be refreshed or dropped, or that
\* neither worked was reported (_apply_staged_rows, source.field_stats_stale).
THEOREM StaleStatsAreMinded == Spec => [](fills = 0 => StaleStatsAreRefreshed)
<1>1. Inductive /\ EvidenceInv /\ StatsInv /\ [Next]_vars => StatsInv'
  BY StatsInvStep
<1>2. StatsInv => (fills = 0 => StaleStatsAreRefreshed)
  <2> SUFFICES ASSUME StatsInv, fills = 0, NEW s \in Sources \ withdrawn, stats[s] = "stale",
                      crashes = 0
               PROVE  \/ \E w \in Workers : Applying(w) /\ task[w].cur = s
                      \/ \E j \in markers : staged[j][s] # {}
    BY DEF StaleStatsAreRefreshed
  <2>1. HasRowsToApply(s) \/ \E w \in Workers : HasOutdated(w, s)
    BY DEF StatsInv, Kept
  <2> QED
    BY <2>1 DEF HasRowsToApply, HasOutdated, Applying, ApplyPCs
<1> QED
  BY <1>1, <1>2, StatsInvInit, AppliesWriteWholeScans, PTL DEF Spec, ScansAreWhole
=============================================================================
