------------------------- MODULE EnrichmentRefinement -------------------------
(***************************************************************************)
(* Enrichment implements EnrichedEvidence, for every number of sources,     *)
(* timelines, enrichers, jobs, tasks, failures, crashes and deletes.        *)
(***************************************************************************)
EXTENDS EnrichmentProofs

USE ConstantsAssumption

-----------------------------------------------------------------------------
(* Tasks that do not move.                                                  *)

\* A step that changes what is stored for job i at most, and for the sources
\* somebody asked to delete.
Touches(i) ==
    /\ withdrawn \subseteq withdrawn'
    /\ \A k \in Jobs \ {i} :
        /\ completed'[k] = completed[k]
        /\ jobVersion'[k] = jobVersion[k] /\ jobKey'[k] = jobKey[k]
        /\ rowsTbl'[k] = rowsTbl[k] /\ eventsTbl'[k] = eventsTbl[k]
        /\ \A s \in Kept' : staged'[k][s] = staged[k][s]

LEMMA Bystander ==
    ASSUME TypeOK, Shape, NEW v \in Workers, InStep(v), task'[v] = task[v],
           NEW i, Touches(i), Active(v) => task[v].job # i,
           Applying(v) /\ task[v].cur \in Kept' => part'[task[v].cur] = part[task[v].cur]
    PROVE  InStep(v)'
<1> DEFINE j == task[v].job
<1>1. CASE ~ Active(v)
  <2>1. task[v].pc \notin JobPCs /\ task'[v].pc = task[v].pc /\ task'[v].kind = task[v].kind
        /\ task'[v].done = task[v].done
    BY <1>1 DEF Active
  <2> QED
    BY <2>1 DEF InStep, ScanIsInStep, GrantIsWhole, CopyIsRight, ScanPCs, CopiedPCs, JobPCs,
                ApplyPCs
<1>2. CASE Active(v)
  <2>1. j \in Jobs \ {i} /\ task'[v].job = j /\ task[v] \in TaskType
    BY <1>2, ActiveJob, TaskAt
  <2>2. /\ completed'[j] = completed[j]
        /\ jobVersion'[j] = jobVersion[j] /\ jobKey'[j] = jobKey[j]
        /\ rowsTbl'[j] = rowsTbl[j] /\ eventsTbl'[j] = eventsTbl[j]
        /\ \A s \in Kept' : staged'[j][s] = staged[j][s]
        /\ Kept' \subseteq Kept
    BY <2>1 DEF Touches, Kept
  <2>3. Full(j)' = Full(j) /\ \A s \in Kept' : Whole(j, s)' <=> Whole(j, s)
    BY <2>2 DEF Full, Whole
  <2>4. ScanIsInStep(v)'
    BY <2>1, <2>2, <2>3 DEF InStep, ScanIsInStep
  <2>5. GrantIsWhole(v)'
    <3>1. task[v].done \ withdrawn' \subseteq Kept' \cap (task[v].done \ withdrawn)
      BY <2>1 DEF Touches, Kept, TaskType
    <3> QED
      BY <2>1, <2>2, <2>3, <3>1 DEF InStep, GrantIsWhole
  <2>6. CopyIsRight(v)'
    <3>1. CASE task[v].pc \in ApplyPCs /\ task[v].cur \in Kept'
      <4>1. part'[task[v].cur] = part[task[v].cur] /\ task[v].cur \in Kept
        BY <2>2, <3>1 DEF Applying
      <4> QED
        BY <2>1, <2>2, <3>1, <4>1 DEF InStep, CopyIsRight
    <3>2. CASE task[v].pc \notin ApplyPCs
      BY <3>2 DEF CopyIsRight, CopiedPCs, ApplyPCs
    <3>3. CASE task[v].cur \notin Kept'
      BY <3>3 DEF CopyIsRight
    <3> QED
      BY <3>1, <3>2, <3>3
  <2> QED
    BY <2>4, <2>5, <2>6 DEF InStep
<1> QED
  BY <1>1, <1>2

-----------------------------------------------------------------------------
(* The scan of a run.                                                       *)

LEMMA FullType ==
    ASSUME TypeOK, NEW j \in Jobs, jobKey[j] \in Keys, jobVersion[j] # 0
    PROVE  /\ Full(j) \subseteq Batches
           /\ jobVersion[j] \in 1 .. MaxVersion /\ jobKey[j][2] \in Enrichers
<1>1. jobVersion[j] \in 1 .. MaxVersion
  BY DEF TypeOK, Values
<1>2. jobKey[j][2] \in Enrichers
  BY DEF Keys
<1> QED
  BY <1>1, <1>2 DEF Full

LEMMA ScanTouches ==
    ASSUME TypeOK, NEW w \in Workers, Scan(w)
    PROVE  /\ Touches(task[w].job)
           /\ UNCHANGED <<part, prov, sources, deleting, snap, used, withdrawn>>
<1>1. CASE StartJobRun(w)
  BY <1>1 DEF StartJobRun, Touches, TypeOK, chVars, recVars, bounds
<1>2. CASE StageBatch(w)
  BY <1>2 DEF StageBatch, Touches, TypeOK, chVars, recVars, jobRows, bounds
<1>3. CASE MarkSourceStaged(w)
  BY <1>3 DEF MarkSourceStaged, Touches, TypeOK, chVars, recVars, bounds
<1>4. CASE UNCHANGED allButTask
  BY <1>4 DEF allButTask, Touches, chVars, pgVars, jobRows, recVars, bounds
<1> QED
  BY <1>1, <1>2, <1>3, <1>4 DEF Scan, OpenSource, ReadBatch, FinishSource

LEMMA ScanInStep ==
    ASSUME TypeOK, Shape, Present, Pinned, NEW w \in Workers, InStep(w), Scan(w)
    PROVE  InStep(w)'
<1> DEFINE j == task[w].job
<1>1. /\ Active(w) /\ task'[w].job = j /\ j \in Jobs
      /\ task'[w].pc \in {"open", "read", "write", "mark"}
      /\ jobKey[j] = task[w].key /\ task[w].key \in Keys /\ jobKey' = jobKey
      /\ Kept' = Kept /\ Kept \subseteq Sources
  BY ScanOnTask, ScanTouches, ActiveJob DEF OnTask, Kept
<1>2. task[w] \in TaskType /\ task[w].pc \in ScanPCs
  BY TaskAt DEF Scan, StartJobRun, OpenSource, ReadBatch, StageBatch, FinishSource,
                MarkSourceStaged, ScanPCs
<1>3. task[w].pc # "begin" => jobVersion[j] # 0
  BY <1>1 DEF Pinned, Active
<1>4. task'[w].kind = "run"
  <2>1. ASSUME \E s \in Sources : OpenSource(w, s) PROVE task'[w].kind = task[w].kind
    BY <1>2, <2>1 DEF OpenSource, TypeOK, TaskType
  <2>2. ASSUME \E b \in Batches : ReadBatch(w, b) PROVE task'[w].kind = task[w].kind
    BY <1>2, <2>2 DEF ReadBatch, TypeOK, TaskType
  <2>3. ASSUME StartJobRun(w) \/ StageBatch(w) \/ FinishSource(w) \/ MarkSourceStaged(w)
        PROVE  task'[w].kind = task[w].kind
    BY <1>2, <2>3 DEF StartJobRun, StageBatch, FinishSource, MarkSourceStaged, TypeOK, TaskType
  <2> QED
    BY <1>2, <2>1, <2>2, <2>3 DEF Scan, InStep, ScanIsInStep
<1>5. GrantIsWhole(w)' /\ CopyIsRight(w)'
  BY <1>1, <1>4 DEF GrantIsWhole, CopyIsRight, CopiedPCs, ApplyPCs, HandlerPCs
<1>6. CASE StartJobRun(w)
  <2>1. /\ task'[w] = [task[w] EXCEPT !.pc = "open"]
        /\ task[w].pc = "begin" /\ UNCHANGED <<staged, completed>>
    BY <1>6 DEF StartJobRun, TypeOK
  <2>2. \A s \in Kept : Whole(j, s)'
    BY <1>1, <1>2, <2>1 DEF InStep, ScanIsInStep, ScanPCs, Whole
  <2>3. task[w].todo \subseteq Sources
    BY <1>2 DEF TaskType
  <2> QED
    BY <1>1, <1>2, <1>5, <2>1, <2>2, <2>3 DEF InStep, ScanIsInStep, ScanPCs, TaskType
<1>7. ASSUME UNCHANGED <<staged, completed, jobVersion>>
      PROVE  Full(j)' = Full(j) /\ \A s : Whole(j, s)' <=> Whole(j, s)
  BY <1>1, <1>7 DEF Full, Whole
<1>8. ASSUME NEW s \in Sources, OpenSource(w, s) PROVE InStep(w)'
  <2>1. /\ task'[w] = [task[w] EXCEPT !.pc = "read", !.cur = s, !.seen = {}]
        /\ task[w].pc = "open" /\ s \in task[w].todo
        /\ UNCHANGED <<staged, completed, jobVersion>>
    BY <1>8 DEF OpenSource, TypeOK, allButTask, pgVars, jobRows
  <2> QED
    BY <1>1, <1>2, <1>5, <1>7, <2>1 DEF InStep, ScanIsInStep, ScanPCs, TaskType
<1>9. ASSUME NEW b \in Batches, ReadBatch(w, b) PROVE InStep(w)'
  <2>1. /\ task'[w] = [task[w] EXCEPT !.pc = "write", !.batch = b, !.seen = @ \cup {b}]
        /\ task[w].pc = "read"
        /\ UNCHANGED <<staged, completed, jobVersion>>
    BY <1>9 DEF ReadBatch, TypeOK, allButTask, pgVars, jobRows
  <2> QED
    BY <1>1, <1>2, <1>5, <1>7, <2>1 DEF InStep, ScanIsInStep, ScanPCs, TaskType
<1>10. CASE StageBatch(w)
  <2> DEFINE c == task[w].cur
  <2>1. /\ task'[w] = [task[w] EXCEPT !.pc = "read", !.batch = None]
        /\ task[w].pc = "write"
        /\ UNCHANGED <<completed, jobVersion>>
        /\ staged' = [staged EXCEPT ![j][c] = @ \cup ({task[w].batch} \cap Full(j))]
    BY <1>1, <1>10 DEF StageBatch, TypeOK, jobRows, Full
  <2>2. c \in task[w].todo /\ c \in Sources
    BY <1>2, <2>1 DEF InStep, ScanIsInStep, ScanPCs, TaskType
  <2>3. /\ staged'[j][c] = staged[j][c] \cup ({task[w].batch} \cap Full(j))
        /\ \A s \in Sources \ {c} : staged'[j][s] = staged[j][s]
    BY <1>1, <2>1, <2>2 DEF TypeOK
  <2>4. Full(j)' = Full(j)
    BY <1>1, <2>1 DEF Full
  <2>5. \A s \in Kept \ task[w].todo : Whole(j, s)'
    BY <1>1, <1>2, <2>1, <2>2, <2>3, <2>4 DEF InStep, ScanIsInStep, ScanPCs, Whole
  <2>6. c \in Kept => staged'[j][c] = task[w].seen \cap Full(j)
    BY <1>2, <2>1, <2>3 DEF InStep, ScanIsInStep, ScanPCs
  <2>7. \A s \in Kept \cap task[w].todo : s # c => staged'[j][s] = {}
    BY <1>1, <1>2, <2>1, <2>3 DEF InStep, ScanIsInStep, ScanPCs, TaskType
  <2> QED
    BY <1>1, <1>2, <1>5, <2>1, <2>2, <2>4, <2>5, <2>6, <2>7 DEF InStep, ScanIsInStep, ScanPCs, TaskType
<1>11. CASE FinishSource(w)
  <2> DEFINE c == task[w].cur
  <2>1. /\ task'[w] = [task[w] EXCEPT !.pc = "mark", !.done = @ \cup {c}, !.todo = @ \ {c}]
        /\ task[w].pc = "read" /\ DOMAIN part[c] \subseteq task[w].seen
        /\ UNCHANGED <<staged, completed, jobVersion>>
    BY <1>11 DEF FinishSource, TypeOK, allButTask, pgVars, jobRows
  <2>2. /\ c \in task[w].todo /\ c \in Sources
        /\ c \in Kept => staged[j][c] = task[w].seen \cap Full(j)
    BY <1>2, <2>1 DEF InStep, ScanIsInStep, ScanPCs, TaskType
  <2>3. c \in Kept => Full(j) \subseteq task[w].seen
    BY <1>1, <1>3, <2>1, <2>2, FullType DEF Present
  <2>4. c \in Kept => Whole(j, c)'
    <3>1. c \in Kept => staged[j][c] = Full(j)
      BY <2>2, <2>3
    <3> QED
      BY <1>7, <2>1, <3>1 DEF Whole
  <2>5. \A s \in Kept \ (task[w].todo \ {c}) : Whole(j, s)'
    BY <1>1, <1>2, <1>7, <2>1, <2>4 DEF InStep, ScanIsInStep, ScanPCs
  <2>6. \A s \in Kept \cap (task[w].todo \ {c}) : staged'[j][s] = {}
    BY <1>1, <1>2, <2>1 DEF InStep, ScanIsInStep, ScanPCs
  <2> QED
    BY <1>1, <1>2, <1>5, <2>1, <2>2, <2>5, <2>6 DEF InStep, ScanIsInStep, ScanPCs, TaskType
<1>12. CASE MarkSourceStaged(w)
  <2> DEFINE c == task[w].cur
  <2>1. /\ task'[w] = [task[w] EXCEPT !.pc = "open", !.cur = None]
        /\ task[w].pc = "mark" /\ UNCHANGED <<staged, jobVersion>>
        /\ completed'[j] \subseteq completed[j] \cup {c}
    BY <1>1, <1>12 DEF MarkSourceStaged, TypeOK
  <2>2. \A s : Whole(j, s)' <=> Whole(j, s)
    BY <1>1, <2>1 DEF Full, Whole
  <2> QED
    BY <1>1, <1>2, <1>5, <2>1, <2>2 DEF InStep, ScanIsInStep, ScanPCs, TaskType
<1> QED
  BY <1>6, <1>8, <1>9, <1>10, <1>11, <1>12 DEF Scan

-----------------------------------------------------------------------------
(* The apply.                                                               *)

LEMMA RewriteTouches ==
    ASSUME TypeOK, NEW w \in Workers, Rewrite(w)
    PROVE  /\ Touches(task[w].job) /\ UNCHANGED <<completed, snap, deleting, sources, withdrawn>>
           /\ part' # part => Applying(w) /\ \A s \in Sources \ {task[w].cur} : part'[s] = part[s]
<1> DEFINE Frame ==
        /\ Touches(task[w].job) /\ UNCHANGED <<completed, snap, deleting, sources, withdrawn>>
        /\ part' # part => Applying(w) /\ \A s \in Sources \ {task[w].cur} : part'[s] = part[s]
<1>1. CASE UNCHANGED allButTask
  BY <1>1 DEF allButTask, Touches, chVars, pgVars, jobRows, recVars, bounds
<1>2. ASSUME NEW s \in Sources, LockSource(w, s) PROVE Frame
  BY <1>2 DEF LockSource, Touches, chVars, pgVars, jobRows, recVars, bounds
<1>3. ASSUME NEW s \in Sources, SkipDeletedSource(w, s) PROVE Frame
  BY <1>3 DEF SkipDeletedSource, Touches, TypeOK, chVars, jobRows, recVars, bounds
<1>4. CASE StageRows(w)
  BY <1>4 DEF StageRows, Touches, TypeOK, pgVars, jobRows, recVars, bounds
<1>5. CASE BuildCopy(w)
  BY <1>5 DEF BuildCopy, Touches, TypeOK, pgVars, jobRows, recVars, bounds
<1>6. CASE ReplacePartition(w)
  BY <1>6 DEF ReplacePartition, Touches, TypeOK, jobRows, recVars, bounds, Applying, ApplyPCs
<1>7. CASE DropResurrected(w)
  BY <1>7 DEF DropResurrected, Touches, TypeOK, jobRows, recVars, bounds, Applying, ApplyPCs
<1>8. CASE RecordSourceEnrichment(w)
  BY <1>8 DEF RecordSourceEnrichment, Touches, jobRows, recVars, chVars, bounds
<1>9. CASE DeleteStagedRows(w)
  BY <1>9 DEF DeleteStagedRows, Touches, TypeOK, jobRows, recVars, chVars, bounds
<1>10. CASE RefreshFieldStats(w)
  BY <1>10 DEF RefreshFieldStats, Touches, jobRows, recVars, chVars, bounds
<1>11. CASE FinishJobRun(w)
  BY <1>11 DEF FinishJobRun, Touches, recVars, chVars, bounds
<1> QED
  BY <1>1, <1>2, <1>3, <1>4, <1>5, <1>6, <1>7, <1>8, <1>9, <1>10, <1>11
     DEF Rewrite, ListStagedSources, RecheckSource

\* What an apply does to its own task and its own staged rows.
LEMMA RewriteKeeps ==
    ASSUME TypeOK, NEW w \in Workers, Rewrite(w)
    PROVE  /\ task'[w].kind = task[w].kind /\ task'[w].done = task[w].done
           /\ task'[w].pc \in {"lock", "release"} \cup ApplyPCs
           /\ \/ task[w].pc \in {"lock"} \cup ApplyPCs
              \/ task[w].pc = "list"
              \/ task[w].pc = "open" /\ task[w].todo = {}
           /\ \A j \in Jobs, s \in Sources : staged'[j][s] \in {staged[j][s], {}}
<1> DEFINE Keeps ==
        /\ task'[w].kind = task[w].kind /\ task'[w].done = task[w].done
        /\ task'[w].pc \in {"lock", "release"} \cup ApplyPCs
        /\ \/ task[w].pc \in {"lock"} \cup ApplyPCs
           \/ task[w].pc = "list"
           \/ task[w].pc = "open" /\ task[w].todo = {}
        /\ \A j \in Jobs, s \in Sources : staged'[j][s] \in {staged[j][s], {}}
<1>1. task[w] \in TaskType
  BY TaskAt
<1> USE DEF ApplyPCs
<1>2. ASSUME ListStagedSources(w) PROVE Keeps
  BY <1>1, <1>2 DEF ListStagedSources, TypeOK, TaskType, allButTask, pgVars
<1>3. ASSUME NEW s \in Sources, LockSource(w, s) PROVE Keeps
  BY <1>1, <1>3 DEF LockSource, TypeOK, TaskType, pgVars
<1>4. ASSUME NEW s \in Sources, SkipDeletedSource(w, s) PROVE Keeps
  BY <1>1, <1>4 DEF SkipDeletedSource, TypeOK, TaskType
<1>5. ASSUME StageRows(w) PROVE Keeps
  BY <1>1, <1>5 DEF StageRows, NextSource, TypeOK, TaskType, pgVars
<1>6. ASSUME BuildCopy(w) PROVE Keeps
  BY <1>1, <1>6 DEF BuildCopy, TypeOK, TaskType, pgVars
<1>7. ASSUME ReplacePartition(w) PROVE Keeps
  BY <1>1, <1>7 DEF ReplacePartition, TypeOK, TaskType
<1>8. ASSUME RecheckSource(w) PROVE Keeps
  BY <1>1, <1>8 DEF RecheckSource, TypeOK, TaskType, allButTask, pgVars
<1>9. ASSUME DropResurrected(w) PROVE Keeps
  BY <1>1, <1>9 DEF DropResurrected, NextSource, TypeOK, TaskType
<1>10. ASSUME RecordSourceEnrichment(w) PROVE Keeps
  BY <1>1, <1>10 DEF RecordSourceEnrichment, TypeOK, TaskType
<1>11. ASSUME DeleteStagedRows(w) PROVE Keeps
  BY <1>1, <1>11 DEF DeleteStagedRows, TypeOK, TaskType
<1>12. ASSUME RefreshFieldStats(w) PROVE Keeps
  BY <1>1, <1>12 DEF RefreshFieldStats, NextSource, TypeOK, TaskType
<1>13. ASSUME FinishJobRun(w) PROVE Keeps
  BY <1>1, <1>13 DEF FinishJobRun, TypeOK, TaskType
<1> HIDE DEF Keeps
<1>14. Keeps
  BY <1>2, <1>3, <1>4, <1>5, <1>6, <1>7, <1>8, <1>9, <1>10, <1>11, <1>12, <1>13 DEF Rewrite
<1> QED
  BY <1>14 DEF Keeps

LEMMA CopyInStep ==
    ASSUME TypeOK, Shape, Present, NEW w \in Workers, InStep(w), Rewrite(w)
    PROVE  CopyIsRight(w)'
<1> DEFINE j == task[w].job
           s == task[w].cur
           e == task[w].key[2]
           v == jobVersion[j]
<1>1. /\ task'[w].job = j /\ task'[w].key = task[w].key /\ j \in Jobs
      /\ jobVersion'[j] = v /\ e \in Enrichers
  BY RewriteOnTask, ActiveJob DEF OnTask, Keys
<1>2. /\ task[w] \in TaskType /\ Kept' = Kept
      /\ task[w].pc \in {"read", "write", "mark"} \cup ApplyPCs => s \in Sources
  BY TaskAt, RewriteTouches DEF Shape, TaskShape, Kept
<1>3. ASSUME task'[w].pc \notin CopiedPCs \cup {"undo"} PROVE CopyIsRight(w)'
  BY <1>3 DEF CopyIsRight, CopiedPCs
<1>4. ASSUME StageRows(w) PROVE CopyIsRight(w)'
  <2>1. CASE staged[j][s] # {}
    <3>1. /\ task'[w] = [task[w] EXCEPT !.pc = "copy"]
          /\ rowsTbl'[j] = staged[j][s] /\ staged' = staged
      BY <1>1, <1>4, <2>1 DEF StageRows, TypeOK, pgVars
    <3> QED
      BY <1>1, <1>2, <2>1, <3>1 DEF CopyIsRight, CopiedPCs, TaskType
  <2>2. CASE staged[j][s] = {}
    <3>1. task'[w].pc = "lock"
      BY <1>2, <1>4, <2>2 DEF StageRows, NextSource, TypeOK, TaskType
    <3> QED
      BY <1>3, <3>1 DEF CopiedPCs
  <2> QED
    BY <2>1, <2>2
<1>5. ASSUME BuildCopy(w) PROVE CopyIsRight(w)'
  <2>1. /\ task[w].pc = "copy" /\ task'[w] = [task[w] EXCEPT !.pc = "swap"]
        /\ eventsTbl'[j] = Merge(part[s], rowsTbl[j], e, v)
        /\ UNCHANGED <<staged, rowsTbl, part>>
    BY <1>1, <1>5 DEF BuildCopy, TypeOK, pgVars
  <2>2. s \in Kept => rowsTbl[j] = staged[j][s] /\ staged[j][s] # {}
    BY <2>1 DEF InStep, CopyIsRight, CopiedPCs
  <2>3. s \in Kept => Merge(part[s], staged[j][s], e, v)' = Merge(part[s], rowsTbl[j], e, v)
    BY <1>1, <2>1, <2>2 DEF Merge
  <2> QED
    BY <1>1, <1>2, <2>1, <2>2 DEF CopyIsRight, CopiedPCs, TaskType, Merge
<1>6. ASSUME ReplacePartition(w) PROVE CopyIsRight(w)'
  <2>1. /\ task[w].pc = "swap" /\ task'[w] = [task[w] EXCEPT !.pc = "recheck"]
        /\ s \in Sources /\ part'[s] = eventsTbl[j] /\ staged' = staged
    BY <1>2, <1>6 DEF ReplacePartition, TypeOK, ApplyPCs
  <2>2. s \in Kept => part'[s] = Merge(part[s], staged[j][s], e, v) /\ staged[j][s] # {}
    BY <2>1 DEF InStep, CopyIsRight, CopiedPCs
  <2>3. s \in Kept =>
            \A b \in Batches : part'[s][b][e] = IF b \in staged[j][s] THEN v ELSE 0
    <3> SUFFICES ASSUME s \in Kept
                 PROVE  \A b \in Batches : part'[s][b][e] = IF b \in staged[j][s] THEN v ELSE 0
      OBVIOUS
    <3>1. part[s] \in [Batches -> Keyring]
      BY <2>1 DEF TypeOK, Partitions, Present
    <3>2. part'[s] = Merge(part[s], staged[j][s], e, v)
      BY <2>2
    <3> QED
      BY <1>1, <3>1, <3>2 DEF Merge, Keyring
  <2> QED
    BY <1>1, <1>2, <2>1, <2>2, <2>3 DEF CopyIsRight, CopiedPCs, TaskType
<1>7. ASSUME RecheckSource(w) PROVE CopyIsRight(w)'
  <2>1. s \in Sources
    BY <1>2, <1>7 DEF RecheckSource, ApplyPCs
  <2>2. task[w].pc = "recheck" /\ UNCHANGED <<staged, part>>
    BY <1>7 DEF RecheckSource, allButTask, pgVars, chVars
  <2>3. \/ task'[w] = [task[w] EXCEPT !.pc = "record"]
        \/ task'[w] = [task[w] EXCEPT !.pc = "undo"] /\ s \notin sources
    BY <1>7 DEF RecheckSource, TypeOK
  <2>4. s \in Kept => s \in sources
    BY DEF Present
  <2> QED
    BY <1>1, <1>2, <2>2, <2>3, <2>4 DEF InStep, CopyIsRight, CopiedPCs, TaskType
<1>8. ASSUME RecordSourceEnrichment(w) PROVE CopyIsRight(w)'
  <2>1. /\ task[w].pc = "record" /\ task'[w] = [task[w] EXCEPT !.pc = "clear"]
        /\ staged' = staged
    BY <1>8 DEF RecordSourceEnrichment, TypeOK
  <2> QED
    BY <1>1, <1>2, <2>1 DEF InStep, CopyIsRight, CopiedPCs, TaskType
<1>9. ASSUME task[w].pc \notin {"stage", "copy", "swap", "recheck", "record"}
      PROVE  CopyIsRight(w)'
  <2> DEFINE Leaves == task'[w].pc \in {"lock", "stage", "stats", "release"}
  <2>1. ASSUME ListStagedSources(w) PROVE Leaves
    BY <1>2, <2>1 DEF ListStagedSources, TypeOK, TaskType
  <2>2. ASSUME NEW x \in Sources, LockSource(w, x) PROVE Leaves
    BY <1>2, <2>2 DEF LockSource, TypeOK, TaskType
  <2>3. ASSUME NEW x \in Sources, SkipDeletedSource(w, x) PROVE Leaves
    BY <1>2, <2>3 DEF SkipDeletedSource, TypeOK, TaskType
  <2>4. ASSUME DropResurrected(w) PROVE Leaves
    BY <1>2, <2>4 DEF DropResurrected, NextSource, TypeOK, TaskType
  <2>5. ASSUME DeleteStagedRows(w) PROVE Leaves
    BY <1>2, <2>5 DEF DeleteStagedRows, TypeOK, TaskType
  <2>6. ASSUME RefreshFieldStats(w) PROVE Leaves
    BY <1>2, <2>6 DEF RefreshFieldStats, NextSource, TypeOK, TaskType
  <2>7. ASSUME FinishJobRun(w) PROVE Leaves
    BY <1>2, <2>7 DEF FinishJobRun, TypeOK, TaskType
  <2>8. Leaves
    <3> HIDE DEF Leaves
    <3> QED
      BY <1>9, <2>1, <2>2, <2>3, <2>4, <2>5, <2>6, <2>7
         DEF Rewrite, StageRows, BuildCopy, ReplacePartition, RecheckSource,
             RecordSourceEnrichment
  <2> QED
    BY <1>3, <2>8 DEF CopiedPCs
<1> QED
  BY <1>4, <1>5, <1>6, <1>7, <1>8, <1>9
     DEF Rewrite, ListStagedSources, LockSource, SkipDeletedSource, DropResurrected,
         DeleteStagedRows, RefreshFieldStats, FinishJobRun

LEMMA RewriteInStep ==
    ASSUME TypeOK, Shape, Present, NEW w \in Workers, InStep(w), Rewrite(w)
    PROVE  InStep(w)'
<1> DEFINE j == task[w].job
<1>1. /\ task'[w].job = j /\ j \in Jobs /\ task[w].pc \in JobPCs
      /\ jobVersion' = jobVersion /\ jobKey' = jobKey
      /\ task'[w].pc \notin {"begin", "open", "read", "write", "mark"}
      /\ UNCHANGED withdrawn
  BY RewriteOnTask, RewriteTouches, ActiveJob DEF OnTask, Active
<1>2. ScanIsInStep(w)'
  BY <1>1 DEF ScanIsInStep, ScanPCs
<1>3. Full(j)' = Full(j) /\ \A s \in Sources : Whole(j, s) => Whole(j, s)'
  BY <1>1, RewriteKeeps DEF Full, Whole
<1>4. GrantIsWhole(w)'
  <2>1. task[w] \in TaskType
    BY TaskAt
  <2>2. ASSUME task[w].kind = "run" PROVE \A s \in Kept : Whole(j, s)
    BY <2>2, RewriteKeeps DEF InStep, ScanIsInStep, ScanPCs, GrantIsWhole, ApplyPCs
  <2>3. ASSUME task[w].kind = "cleanup" PROVE \A s \in task[w].done \ withdrawn : Whole(j, s)
    BY <1>1, <2>3 DEF InStep, GrantIsWhole
  <2>4. task[w].kind # "none"
    BY <1>1 DEF InStep, GrantIsWhole
  <2>5. /\ task'[w].kind = task[w].kind /\ task'[w].done = task[w].done
        /\ task'[w].pc \in {"lock", "release"} \cup ApplyPCs
    BY RewriteKeeps
  <2> QED
    BY <1>1, <1>3, <2>1, <2>2, <2>3, <2>4, <2>5
       DEF GrantIsWhole, ApplyPCs, HandlerPCs, TaskType, Kept
<1> QED
  BY <1>2, <1>4, CopyInStep DEF InStep

-----------------------------------------------------------------------------
(* The other steps: they start a task, or end one, or touch none.           *)

\* No step of a task disturbs the others.
LEMMA OthersInStep ==
    ASSUME TypeOK, Shape, SlotInv, LockInv, NEW w \in Workers, Active(w),
           Touches(task[w].job), \A v \in Workers \ {w} : task'[v] = task[v],
           \A v \in Workers : InStep(v),
           part' # part => Applying(w) /\ \A s \in Sources \ {task[w].cur} : part'[s] = part[s],
           InStep(w)'
    PROVE  \A v \in Workers : InStep(v)'
<1> SUFFICES ASSUME NEW v \in Workers \ {w} PROVE InStep(v)'
  OBVIOUS
<1>1. Active(v) => task[v].job # task[w].job
  BY DistinctJobs
<1>2. Applying(v) => part'[task[v].cur] = part[task[v].cur]
  BY DEF LockInv, Applying, Shape, TaskShape
<1> QED
  BY <1>1, <1>2, Bystander

\* What stands on disk for a job, and the partitions.
Stored == <<staged, completed, jobVersion, jobKey, rowsTbl, eventsTbl, part, withdrawn>>

LEMMA QuietInStep ==
    ASSUME TypeOK, Shape, NEW w \in Workers, UNCHANGED Stored,
           \A v \in Workers \ {w} : task'[v] = task[v],
           \A v \in Workers : InStep(v), InStep(w)'
    PROVE  \A v \in Workers : InStep(v)'
<1>1. Touches(None)
  BY DEF Touches, Stored
<1>2. \A v \in Workers : Active(v) => task[v].job # None
  BY ActiveJob
<1> QED
  BY <1>1, <1>2, Bystander DEF Stored

LEMMA StillInStep ==
    ASSUME TypeOK, Shape, UNCHANGED Stored, NEW v \in Workers, task'[v] = task[v], InStep(v)
    PROVE  InStep(v)'
<1>1. Touches(None)
  BY DEF Touches, Stored
<1> QED
  BY <1>1, ActiveJob, Bystander DEF Stored

LEMMA IdleInStep ==
    ASSUME NEW w \in Workers, task'[w].pc \in {"idle", "claim"},
           task'[w].pc = "claim" => task'[w].kind = "resume"
    PROVE  InStep(w)'
  BY DEF InStep, ScanIsInStep, GrantIsWhole, CopyIsRight, ScanPCs, CopiedPCs, ApplyPCs, JobPCs,
         HandlerPCs

LEMMA HandlerInStep ==
    ASSUME NEW w \in Workers, task'[w].pc \in HandlerPCs \ {"claim"},
           task'[w].kind = "run", task'[w].done = {}
    PROVE  InStep(w)'
  BY DEF InStep, ScanIsInStep, GrantIsWhole, CopyIsRight, ScanPCs, CopiedPCs, ApplyPCs, JobPCs,
         HandlerPCs

LEMMA ListInStep ==
    ASSUME NEW w \in Workers, task'[w].pc = "list", task'[w].kind \in {"resume", "reconcile"}
    PROVE  InStep(w)'
  BY DEF InStep, ScanIsInStep, GrantIsWhole, CopyIsRight, ScanPCs, CopiedPCs, ApplyPCs, JobPCs,
         HandlerPCs

\* A fresh job starts with nothing staged and nothing marked.
LEMMA FreshInStep ==
    ASSUME TypeOK, Shape, Untouched, NEW w \in Workers, ~ Active(w),
           NEW j \in Jobs \ used, NEW k \in Keys, jobKey' = [jobKey EXCEPT ![j] = k],
           UNCHANGED <<staged, completed, jobVersion, rowsTbl, eventsTbl, part, withdrawn>>,
           \A v \in Workers \ {w} : task'[v] = task[v],
           task'[w].pc = "begin", task'[w].job = j, task'[w].kind = "run", task'[w].done = {},
           task'[w].todo \subseteq Sources,
           \A v \in Workers : InStep(v)
    PROVE  \A v \in Workers : InStep(v)'
<1>1. Touches(j) /\ Kept' = Kept
  BY DEF Touches, TypeOK, Kept
<1>2. \A v \in Workers : Active(v) => task[v].job \in used
  BY DEF Active, Shape, TaskShape
<1>3. \A v \in Workers \ {w} : InStep(v)'
  BY <1>1, <1>2, Bystander
<1>4. /\ completed'[j] = {} /\ \A s \in Sources : staged'[j][s] = {}
      /\ Kept' \subseteq Sources
  BY <1>1 DEF Untouched, Kept
<1>5. InStep(w)'
  BY <1>4 DEF InStep, ScanIsInStep, GrantIsWhole, CopyIsRight, ScanPCs, CopiedPCs, ApplyPCs,
              JobPCs, HandlerPCs, Whole
<1> QED
  BY <1>3, <1>5

LEMMA RequestInStep ==
    ASSUME TypeOK, Shape, NEW w \in Workers, \A v \in Workers : InStep(v), Request(w)
    PROVE  \A v \in Workers : InStep(v)'
<1>1. UNCHANGED Stored /\ \A v \in Workers \ {w} : task'[v] = task[v]
  BY RequestMoves DEF allButTask, pgVars, jobRows, chVars, bounds, Stored
<1>2. ASSUME NEW k \in Keys, RunTimelineEnricher(w, k) PROVE InStep(w)'
  BY <1>2, HandlerInStep DEF RunTimelineEnricher, Idle, TypeOK, HandlerPCs
<1>3. ASSUME NEW k \in Keys, NEW s \in Sources, TriggerAutomatic(w, k, s) PROVE InStep(w)'
  BY <1>3, HandlerInStep DEF TriggerAutomatic, Idle, TypeOK, HandlerPCs
<1>4. ASSUME NEW j \in Jobs, ResumeTimelineEnricher(w, j) PROVE InStep(w)'
  BY <1>4, IdleInStep DEF ResumeTimelineEnricher, Idle, TypeOK
<1>5. InStep(w)'
  BY <1>2, <1>3, <1>4 DEF Request
<1> QED
  BY <1>1, <1>5, QuietInStep

LEMMA HandleInStep ==
    ASSUME TypeOK, Shape, Untouched, NEW w \in Workers, \A v \in Workers : InStep(v), Handle(w)
    PROVE  \A v \in Workers : InStep(v)'
<1>1. task[w] \in TaskType /\ ~ Active(w) /\ \A v \in Workers \ {w} : task'[v] = task[v]
  BY TaskAt, HandleMoves
<1>2. task[w].pc \in HandlerPCs \ {"claim"} => task[w].kind = "run" /\ task[w].done = {}
  BY DEF InStep, GrantIsWhole
<1>3. task[w].pc = "claim" => task[w].kind = "resume"
  BY DEF InStep, GrantIsWhole
<1>4. ASSUME CheckUnfinished(w) \/ AutoCheckUnfinished(w) \/ RefuseRun(w) \/ ClaimResume(w)
      PROVE  \A v \in Workers : InStep(v)'
  <2>1. UNCHANGED Stored
    BY <1>4 DEF CheckUnfinished, AutoCheckUnfinished, RefuseRun, ClaimResume, allButTask, pgVars,
                jobRows, chVars, bounds, Stored
  <2>2. ASSUME task'[w] = Idle PROVE InStep(w)'
    BY <2>2, IdleInStep DEF Idle
  <2>3. ASSUME CheckUnfinished(w) PROVE InStep(w)'
    <3>1. task[w].pc = "markers"
          /\ (task'[w] = Idle \/ task'[w] = [task[w] EXCEPT !.pc = "plan"])
      BY <2>3 DEF CheckUnfinished, Stop, TypeOK
    <3> QED
      BY <1>1, <1>2, <2>2, <3>1, HandlerInStep DEF HandlerPCs, TaskType
  <2>4. ASSUME AutoCheckUnfinished(w) PROVE InStep(w)'
    <3>1. task[w].pc = "autoMarkers"
          /\ (task'[w] = Idle \/ task'[w] = [task[w] EXCEPT !.pc = "autoClaim", !.job = None])
      BY <2>4 DEF AutoCheckUnfinished, Stop, TypeOK
    <3> QED
      BY <1>1, <1>2, <2>2, <3>1, HandlerInStep DEF HandlerPCs, TaskType
  <2>5. ASSUME RefuseRun(w) PROVE InStep(w)'
    BY <2>2, <2>5 DEF RefuseRun, Stop, TypeOK
  <2>6. ASSUME ClaimResume(w) PROVE InStep(w)'
    <3>1. task[w].pc = "claim"
          /\ (task'[w] = Idle \/ task'[w] = [task[w] EXCEPT !.pc = "list"])
      BY <2>6 DEF ClaimResume, Stop, TypeOK
    <3> QED
      BY <1>1, <1>3, <2>2, <3>1, ListInStep DEF TaskType
  <2> QED
    BY <1>1, <1>4, <2>1, <2>3, <2>4, <2>5, <2>6, QuietInStep
<1>5. ASSUME NEW j \in Jobs, NEW todo, Claim(w, j, todo), task[w].pc \in {"plan", "autoClaim"}
      PROVE  \A v \in Workers : InStep(v)'
  <2>1. j \in Jobs \ used /\ task[w].key \in Keys /\ jobKey' = [jobKey EXCEPT ![j] = task[w].key]
    BY <1>5 DEF Claim, Shape, TaskShape
  <2>2. UNCHANGED <<staged, completed, jobVersion, rowsTbl, eventsTbl, part, withdrawn>>
    BY <1>5 DEF Claim, chVars
  <2>3. /\ task'[w].pc = "begin" /\ task'[w].job = j
        /\ task'[w].kind = task[w].kind /\ task'[w].done = task[w].done
    BY <1>1, <1>5 DEF Claim, TypeOK, TaskType
  <2>4. task[w].kind = "run" /\ task[w].done = {}
    BY <1>2, <1>5 DEF HandlerPCs
  <2>5. task'[w].todo \subseteq Sources
    BY HandleTyped DEF TypeOK, TaskType
  <2> QED
    BY <1>1, <2>1, <2>2, <2>3, <2>4, <2>5, FreshInStep
<1>6. ASSUME NEW j \in Jobs, NEW force \in BOOLEAN, PlanAndClaim(w, j, force) \/ AutoClaim(w, j)
      PROVE  \A v \in Workers : InStep(v)'
  BY <1>5, <1>6 DEF PlanAndClaim, AutoClaim
<1> QED
  BY <1>4, <1>6 DEF Handle

LEMMA RecoverInStep ==
    ASSUME TypeOK, Shape, Untouched, \A v \in Workers : InStep(v), Recover
    PROVE  \A v \in Workers : InStep(v)'
<1>1. ASSUME ListOrphans \/ \E j \in Jobs : SkipOrphan(j) \/ SkipRerun(j)
      PROVE  \A v \in Workers : InStep(v)'
  BY <1>1, StillInStep DEF ListOrphans, SkipOrphan, SkipRerun, pgVars, jobRows, chVars, bounds, Stored
<1>2. ASSUME NEW w \in Workers, NEW j \in Jobs, ReconcileOrphan(w, j)
      PROVE  \A v \in Workers : InStep(v)'
  <2>1. UNCHANGED Stored /\ \A v \in Workers \ {w} : task'[v] = task[v]
    BY <1>2 DEF ReconcileOrphan, TypeOK, pgVars, jobRows, chVars, bounds, Stored
  <2>2. task'[w].pc = "list" /\ task'[w].kind = "reconcile"
    BY <1>2 DEF ReconcileOrphan, TypeOK, Idle
  <2> QED
    BY <2>1, <2>2, ListInStep, QuietInStep
<1>3. ASSUME NEW w \in Workers, NEW old \in Jobs, NEW j \in Jobs, Rerun(w, old, j)
      PROVE  \A v \in Workers : InStep(v)'
  <2>1. /\ j \in Jobs \ used /\ jobKey[old] \in Keys
        /\ jobKey' = [jobKey EXCEPT ![j] = jobKey[old]]
    BY <1>3 DEF Rerun, Shape
  <2>2. /\ UNCHANGED <<staged, completed, jobVersion, rowsTbl, eventsTbl, part, withdrawn>>
        /\ \A v \in Workers \ {w} : task'[v] = task[v]
        /\ ~ Active(w)
    BY <1>3 DEF Rerun, TypeOK, chVars, Active, Idle, JobPCs
  <2>3. /\ task'[w].pc = "begin" /\ task'[w].job = j
        /\ task'[w].kind = "run" /\ task'[w].done = {}
    BY <1>3 DEF Rerun, TypeOK, Idle
  <2>4. task'[w].todo \subseteq Sources
    BY RecoverTyped DEF TypeOK, TaskType
  <2> QED
    BY <2>1, <2>2, <2>3, <2>4, FreshInStep
<1> QED
  BY <1>1, <1>2, <1>3 DEF Recover

\* A run that fails cleans up with the sources it finished, which are whole.
LEMMA FailInStep ==
    ASSUME TypeOK, Shape, NEW w \in Workers, \A v \in Workers : InStep(v), Fail(w)
    PROVE  \A v \in Workers : InStep(v)'
<1> DEFINE j == task[w].job
<1>1. /\ task[w] \in TaskType /\ task[w].pc \in FailPCs /\ Active(w)
      /\ task'[w].job = j /\ j \in Jobs
      /\ \A v \in Workers \ {w} : task'[v] = task[v]
  BY TaskAt, FailOnTask, ActiveJob DEF OnTask, Fail
<1>2. UNCHANGED Stored
  BY DEF Fail, pgVars, jobRows, chVars, bounds, Stored
<1>3. withdrawn' = withdrawn /\ \A s \in Sources : Whole(j, s)' <=> Whole(j, s)
  BY <1>1, <1>2 DEF Stored, Whole, Full
<1>4. task[w].done \subseteq Sources
  BY <1>1 DEF TaskType
<1>5. CASE task[w].kind = "run"
  <2>1. \A s \in task[w].done \ withdrawn : Whole(j, s)
    BY <1>1, <1>4, <1>5 DEF InStep, ScanIsInStep, GrantIsWhole, ScanPCs, FailPCs, ApplyPCs, Kept
  <2>2. task'[w] = [task[w] EXCEPT !.pc = "list", !.kind = "cleanup", !.cur = None, !.batch = None]
    BY <1>5 DEF Fail, TypeOK
  <2>3. InStep(w)'
    BY <1>1, <1>3, <1>4, <2>1, <2>2
       DEF InStep, ScanIsInStep, GrantIsWhole, CopyIsRight, ScanPCs, CopiedPCs, ApplyPCs, JobPCs,
           HandlerPCs, TaskType
  <2> QED
    BY <1>1, <1>2, <2>3, QuietInStep
<1>6. CASE task[w].kind # "run"
  <2>1. task'[w] = [task[w] EXCEPT !.pc = "abort", !.cur = None]
    BY <1>6 DEF Fail, TypeOK
  <2>2. /\ task[w].kind # "none"
        /\ task[w].kind = "cleanup" => \A s \in task[w].done \ withdrawn : Whole(j, s)
    BY <1>1 DEF InStep, GrantIsWhole, Active
  <2>3. InStep(w)'
    BY <1>1, <1>3, <1>4, <2>1, <2>2
       DEF InStep, ScanIsInStep, GrantIsWhole, CopyIsRight, ScanPCs, CopiedPCs, ApplyPCs, JobPCs,
           HandlerPCs, TaskType
  <2> QED
    BY <1>1, <1>2, <2>3, QuietInStep
<1> QED
  BY <1>5, <1>6

\* The sources nobody asked to delete are spared: what is stored for them, and
\* their rows, stand.
Spared(s) ==
    /\ s \in Kept /\ s \in sources' /\ deleting'[s] = "no"
    /\ part'[s] = part[s] /\ prov'[s] = prov[s]
    /\ \A j \in Jobs : staged'[j][s] = staged[j][s]

\* A step that withdraws sources at most, and drops what belongs to such.
Spares ==
    /\ withdrawn \subseteq withdrawn'
    /\ UNCHANGED <<completed, jobVersion>>
    /\ \A s \in Kept' : Spared(s)
    /\ \A j \in Jobs, s \in Sources : staged'[j][s] \in {staged[j][s], {}}
    /\ \A s \in Sources, e \in Enrichers : prov'[s][e] \in {prov[s][e], None}

LEMMA BackgroundSpares ==
    ASSUME TypeOK, Present, Background
    PROVE  /\ Spares
           /\ UNCHANGED <<task, jobKey, rowsTbl, eventsTbl, markers, orphans, snap, used>>
<1> DEFINE Rest == UNCHANGED <<task, jobKey, rowsTbl, eventsTbl, markers, orphans, snap, used>>
<1>1. ASSUME UNCHANGED <<Stored, prov, sources, deleting>> PROVE Spares
  BY <1>1 DEF Spares, Spared, Present, Stored, Kept
<1>2. ASSUME NEW s \in Sources, DeleteSource(s) PROVE Spares /\ Rest
  <2>1. /\ withdrawn' = withdrawn \cup {s} /\ deleting' = [deleting EXCEPT ![s] = "drop"]
        /\ UNCHANGED <<sources, staged, completed, jobVersion, part, prov>>
    BY <1>2 DEF DeleteSource, pgVars, jobRows, chVars
  <2>2. Rest
    BY <1>2 DEF DeleteSource, pgVars, jobRows, chVars, recVars
  <2> QED
    BY <2>1, <2>2 DEF Spares, Spared, Present, Kept, TypeOK
<1>3. ASSUME NEW s \in Sources, DropSourceEvents(s) PROVE Spares /\ Rest
  <2>1. s \notin Kept
    BY <1>3 DEF DropSourceEvents, Present
  <2>2. /\ part' = [part EXCEPT ![s] = Dropped] /\ deleting' = [deleting EXCEPT ![s] = "row"]
        /\ UNCHANGED <<sources, staged, completed, jobVersion, prov, withdrawn>>
    BY <1>3 DEF DropSourceEvents, jobRows, bounds
  <2>3. Rest
    BY <1>3 DEF DropSourceEvents, jobRows, recVars, bounds
  <2> QED
    BY <2>1, <2>2, <2>3 DEF Spares, Spared, Present, Kept, TypeOK
<1>4. ASSUME NEW s \in Sources, AbortDelete(s) PROVE Spares /\ Rest
  <2>1. /\ deleting' = [deleting EXCEPT ![s] = "no"]
        /\ UNCHANGED <<sources, staged, completed, jobVersion, part, prov, withdrawn>>
    BY <1>4 DEF AbortDelete, pgVars, jobRows, chVars, bounds
  <2>2. Rest
    BY <1>4 DEF AbortDelete, pgVars, jobRows, chVars, recVars, bounds
  <2> QED
    BY <2>1, <2>2 DEF Spares, Spared, Present, Kept, TypeOK
<1>5. ASSUME NEW s \in Sources, DeleteSourceRow(s) PROVE Spares /\ Rest
  <2>1. s \notin Kept
    BY <1>5 DEF DeleteSourceRow, Present
  <2>2. /\ sources' = sources \ {s} /\ prov' = [prov EXCEPT ![s] = [e \in Enrichers |-> None]]
        /\ deleting' = [deleting EXCEPT ![s] = "no"]
        /\ UNCHANGED <<completed, jobVersion, part, withdrawn>>
    BY <1>5 DEF DeleteSourceRow, jobRows, chVars, bounds
  <2>3. \A j \in Jobs, x \in Sources : staged'[j][x] = IF x = s THEN {} ELSE staged[j][x]
    BY <1>5 DEF DeleteSourceRow, TypeOK
  <2>4. Rest
    BY <1>5 DEF DeleteSourceRow, jobRows, chVars, recVars, bounds
  <2> QED
    BY <2>1, <2>2, <2>3, <2>4 DEF Spares, Spared, Present, Kept, TypeOK
<1>6. ASSUME NEW s \in Sources, ComputeFill(s) \/ StoreFill(s) PROVE Spares /\ Rest
  BY <1>1, <1>6 DEF ComputeFill, StoreFill, pgVars, jobRows, chVars, recVars, bounds, Stored
<1>7. ASSUME NEW e \in Enrichers, UpdateData(e) PROVE Spares /\ Rest
  BY <1>1, <1>7 DEF UpdateData, pgVars, jobRows, chVars, memVars, bounds, Stored
<1> HIDE DEF Rest
<1>8. Spares /\ Rest
  BY <1>2, <1>3, <1>4, <1>5, <1>6, <1>7 DEF Background
<1> QED
  BY <1>8 DEF Rest

LEMMA BackgroundInStep ==
    ASSUME TypeOK, Shape, Present, Background, NEW v \in Workers, InStep(v)
    PROVE  InStep(v)'
<1>1. Spares /\ UNCHANGED <<task, jobKey, rowsTbl, eventsTbl>>
  BY BackgroundSpares
<1>2. Touches(None)
  BY <1>1 DEF Touches, Spares, Spared
<1>3. \A s \in Kept' : part'[s] = part[s]
  BY <1>1 DEF Spares, Spared
<1> QED
  BY <1>1, <1>2, <1>3, ActiveJob, Bystander

LEMMA InStepStep ==
    ASSUME Inductive, EvidenceInv, [Next]_vars
    PROVE  \A v \in Workers : InStep(v)'
<1> USE DEF Inductive, EvidenceInv
<1>1. CASE UNCHANGED vars
  BY <1>1, StillInStep DEF vars, pgVars, jobRows, chVars, memVars, bounds, Stored
<1>2. ASSUME NEW w \in Workers, Scan(w) PROVE \A v \in Workers : InStep(v)'
  BY <1>2, ScanOnTask, ScanTouches, ScanInStep, OthersInStep DEF OnTask
<1>3. ASSUME NEW w \in Workers, Rewrite(w) PROVE \A v \in Workers : InStep(v)'
  BY <1>3, RewriteOnTask, RewriteTouches, RewriteInStep, OthersInStep DEF OnTask
<1>4. ASSUME NEW w \in Workers, ReleaseRun(w) \/ FailToStart(w) PROVE \A v \in Workers : InStep(v)'
  <2>1. UNCHANGED Stored
    BY <1>4 DEF ReleaseRun, FailToStart, pgVars, jobRows, chVars, bounds, Stored
  <2>2. task'[w].pc = "idle" /\ \A v \in Workers \ {w} : task'[v] = task[v]
    BY <1>4 DEF ReleaseRun, FailToStart, Stop, Idle, TypeOK
  <2> QED
    BY <2>1, <2>2, IdleInStep, QuietInStep
<1>5. CASE Background
  BY <1>5, BackgroundInStep
<1>6. CASE Crash
  BY <1>6, IdleInStep DEF Crash, Idle
<1> QED
  BY <1>1, <1>2, <1>3, <1>4, <1>5, <1>6, RequestInStep, HandleInStep, RecoverInStep, FailInStep
     DEF Next, Apply, Rewrite, Environment, Background

-----------------------------------------------------------------------------
(* What is stored, from step to step.                                       *)

\* Only scans and applies change what the evidence of a source is made of that
\* nobody asked to delete.
LEMMA Outside ==
    ASSUME TypeOK, Present, [Next]_vars
    PROVE  Spares \/ \E w \in Workers : Scan(w) \/ Rewrite(w)
<1> DEFINE Still == UNCHANGED <<staged, completed, jobVersion, part, prov, sources, withdrawn>>
<1>1. ASSUME Still, deleting' = deleting \/ deleting' = [s \in Sources |-> "no"] PROVE Spares
  <2>1. \A s \in Kept' : s \in Kept /\ deleting'[s] = "no"
    BY <1>1 DEF Present, Kept
  <2> QED
    BY <1>1, <2>1 DEF Spares, Spared, Present
<1>2. ASSUME NEW w \in Workers, Request(w) PROVE Still /\ deleting' = deleting
  BY <1>2, RequestMoves DEF allButTask, pgVars, jobRows, chVars, bounds
<1>3. ASSUME NEW w \in Workers, Handle(w) PROVE Still /\ deleting' = deleting
  BY <1>3 DEF Handle, CheckUnfinished, PlanAndClaim, AutoCheckUnfinished, AutoClaim, Claim,
              RefuseRun, ClaimResume, allButTask, pgVars, jobRows, chVars, bounds
<1>4. ASSUME NEW w \in Workers, ReleaseRun(w) \/ FailToStart(w) \/ Fail(w)
      PROVE  Still /\ deleting' = deleting
  BY <1>4 DEF ReleaseRun, FailToStart, Fail, pgVars, jobRows, chVars, bounds
<1>5. ASSUME Recover PROVE Still /\ deleting' = deleting
  BY <1>5 DEF Recover, ListOrphans, ReconcileOrphan, SkipOrphan, Rerun, SkipRerun, pgVars,
              jobRows, chVars, bounds
<1>6. ASSUME Crash PROVE Still /\ deleting' = [s \in Sources |-> "no"]
  BY <1>6 DEF Crash, pgVars, jobRows, chVars
<1>7. ASSUME UNCHANGED vars PROVE Still /\ deleting' = deleting
  BY <1>7 DEF vars, pgVars, jobRows, chVars, memVars, bounds
<1> HIDE DEF Still
<1> QED
  BY <1>1, <1>2, <1>3, <1>4, <1>5, <1>6, <1>7, BackgroundSpares
     DEF Next, Apply, Rewrite, Environment, Background

\* No delete request is forgotten.
LEMMA KeptShrinks ==
    ASSUME TypeOK, Present, [Next]_vars
    PROVE  withdrawn \subseteq withdrawn' /\ Kept' \subseteq Kept
<1>1. withdrawn \subseteq withdrawn'
  BY Outside, ScanTouches, RewriteTouches DEF Spares
<1> QED
  BY <1>1 DEF Kept

\* The data version of a job is pinned once.
LEMMA VersionPinned ==
    ASSUME Inductive, Present, [Next]_vars
    PROVE  \A j \in Jobs : jobVersion[j] # 0 => jobVersion'[j] = jobVersion[j]
<1>1. ASSUME NEW w \in Workers, Scan(w)
      PROVE  \A j \in Jobs : jobVersion[j] # 0 => jobVersion'[j] = jobVersion[j]
  <2>1. CASE StartJobRun(w)
    BY <2>1 DEF StartJobRun, Inductive, LeakInv, TypeOK
  <2>2. CASE ~ StartJobRun(w)
    BY <1>1, <2>2 DEF Scan, OpenSource, ReadBatch, StageBatch, FinishSource, MarkSourceStaged,
                      allButTask, pgVars, jobRows
  <2> QED
    BY <2>1, <2>2
<1> QED
  BY <1>1, Outside, RewriteOnTask DEF Inductive, Spares

\* The one write to a partition, and what it writes.
LEMMA RewritePart ==
    ASSUME TypeOK, Shape, NEW w \in Workers, InStep(w), Rewrite(w)
    PROVE  \/ part' = part
           \/ /\ task[w].cur \in withdrawn
              /\ \A s \in Sources \ {task[w].cur} : part'[s] = part[s]
           \/ /\ ReplacePartition(w) /\ task[w].cur \in Kept
              /\ part' = [part EXCEPT ![task[w].cur] =
                     Merge(@, staged[task[w].job][task[w].cur], task[w].key[2],
                           jobVersion[task[w].job])]
<1>1. CASE ReplacePartition(w)
  <2>1. task[w].cur \in Sources /\ task[w].pc = "swap"
    BY <1>1 DEF ReplacePartition, Shape, TaskShape, ApplyPCs
  <2>2. CASE task[w].cur \in Kept
    <3>1. eventsTbl[task[w].job] = Merge(part[task[w].cur], staged[task[w].job][task[w].cur],
                                         task[w].key[2], jobVersion[task[w].job])
      BY <2>1, <2>2 DEF InStep, CopyIsRight
    <3> QED
      BY <1>1, <2>1, <2>2, <3>1 DEF ReplacePartition, TypeOK
  <2>3. CASE task[w].cur \notin Kept
    BY <2>1, <2>3, RewriteTouches DEF Kept
  <2> QED
    BY <2>2, <2>3
<1>2. CASE DropResurrected(w)
  <2>1. task[w].cur \in withdrawn
    BY <1>2 DEF DropResurrected, InStep, CopyIsRight, Shape, TaskShape, ApplyPCs, Kept
  <2> QED
    BY <2>1, RewriteTouches
<1>3. CASE ~ ReplacePartition(w) /\ ~ DropResurrected(w)
  BY <1>3
     DEF Rewrite, ListStagedSources, LockSource, SkipDeletedSource, StageRows, BuildCopy,
         RecheckSource, RecordSourceEnrichment, DeleteStagedRows, RefreshFieldStats,
         FinishJobRun, allButTask, chVars
<1> QED
  BY <1>1, <1>2, <1>3

\* The one write of a provenance row.
LEMMA RewriteProv ==
    ASSUME NEW w \in Workers, Rewrite(w)
    PROVE  \/ prov' = prov
           \/ /\ RecordSourceEnrichment(w) /\ task[w].cur \in Grant(w)
              /\ prov' = [prov EXCEPT ![task[w].cur][task[w].key[2]] = task[w].job]
  BY DEF Rewrite, ListStagedSources, LockSource, SkipDeletedSource, StageRows, BuildCopy,
         ReplacePartition, RecheckSource, DropResurrected, RecordSourceEnrichment,
         DeleteStagedRows, RefreshFieldStats, FinishJobRun, allButTask, pgVars

LEMMA PresentStep ==
    ASSUME Inductive, EvidenceInv, [Next]_vars
    PROVE  Present'
<1> USE DEF Inductive, EvidenceInv
<1>1. ASSUME NEW w \in Workers, Scan(w) PROVE Present'
  BY <1>1, ScanTouches DEF Present, Kept
<1>2. ASSUME NEW w \in Workers, Rewrite(w) PROVE Present'
  <2>1. UNCHANGED <<sources, deleting>> /\ Kept' = Kept
    BY <1>2, RewriteTouches DEF Kept
  <2>2. \A s \in Kept : DOMAIN part'[s] = DOMAIN part[s]
    <3>1. ASSUME NEW s \in Sources,
                 NEW p, part' = [part EXCEPT ![s] = p], DOMAIN p = DOMAIN part[s]
          PROVE  \A x \in Sources : DOMAIN part'[x] = DOMAIN part[x]
      BY <3>1 DEF TypeOK
    <3>2. \A p, rows, e, v : DOMAIN Merge(p, rows, e, v) = DOMAIN p
      BY DEF Merge
    <3> QED
      BY <1>2, <3>1, <3>2, RewritePart DEF Kept
  <2> QED
    BY <2>1, <2>2 DEF Present
<1>3. ASSUME Spares PROVE Present'
  BY <1>3 DEF Present, Spares, Spared
<1> QED
  BY <1>1, <1>2, <1>3, Outside

LEMMA UntouchedStep ==
    ASSUME Inductive, EvidenceInv, [Next]_vars
    PROVE  Untouched'
<1> USE DEF Inductive, EvidenceInv
<1>1. ASSUME NEW w \in Workers, Scan(w) PROVE Untouched'
  <2>1. task[w].job \in used /\ used' = used /\ Touches(task[w].job)
    BY <1>1, ScanOnTask, ScanTouches DEF Active, Shape, TaskShape
  <2>2. \A j \in Jobs \ {task[w].job} : staged'[j] = staged[j]
    BY <1>1 DEF Scan, StartJobRun, OpenSource, ReadBatch, StageBatch, FinishSource,
                MarkSourceStaged, allButTask, pgVars, TypeOK
  <2> QED
    BY <2>1, <2>2 DEF Untouched, Touches
<1>2. ASSUME NEW w \in Workers, Rewrite(w) PROVE Untouched'
  <2>1. used' = used
    BY <1>2 DEF Rewrite, ListStagedSources, LockSource, SkipDeletedSource, StageRows, BuildCopy,
                ReplacePartition, RecheckSource, DropResurrected, RecordSourceEnrichment,
                DeleteStagedRows, RefreshFieldStats, FinishJobRun, allButTask, bounds
  <2> QED
    BY <1>2, <2>1, RewriteTouches, RewriteKeeps DEF Untouched
<1>3. ASSUME Spares PROVE Untouched'
  BY <1>3, JobKeyStable DEF Untouched, Spares
<1> QED
  BY <1>1, <1>2, <1>3, Outside

LEMMA PinnedStep ==
    ASSUME Inductive, EvidenceInv, [Next]_vars
    PROVE  Pinned'
<1> USE DEF Inductive, EvidenceInv
<1> DEFINE Pins(w) == task[w].pc \in (JobPCs \ {"begin"}) \cup {"claim"} =>
                          jobVersion[task[w].job] # 0
           Pinning == \A j \in Jobs : jobVersion[j] # 0 => jobVersion'[j] # 0
           Rows == /\ markers' \cup orphans' \subseteq markers \cup orphans
                   /\ \A s \in Sources, e \in Enrichers : prov'[s][e] \in {prov[s][e], None}
<1>1. Pinning /\ \A w \in Workers : Pins(w)
  BY VersionPinned DEF Pinned
<1>2. ASSUME NEW v \in Workers, task'[v] = task[v] PROVE Pins(v)'
  <2>1. task[v].pc \in (JobPCs \ {"begin"}) \cup {"claim"} => task[v].job \in Jobs
    BY DEF Shape, TaskShape, TypeOK
  <2> QED
    BY <1>1, <1>2, <2>1
<1>3. ASSUME Rows, \A w \in Workers : Pins(w)' PROVE Pinned'
  <2>1. \A j \in markers' \cup orphans' : jobVersion'[j] # 0
    BY <1>1, <1>3 DEF Pinned, TypeOK
  <2>2. \A s \in Sources, e \in Enrichers : prov'[s][e] # None => jobVersion'[prov'[s][e]] # 0
    BY <1>1, <1>3 DEF Pinned, TypeOK
  <2> QED
    BY <1>3, <2>1, <2>2 DEF Pinned
<1>4. CASE UNCHANGED vars
  BY <1>2, <1>3, <1>4 DEF vars, pgVars, jobRows, memVars, recVars
<1>5. ASSUME NEW w \in Workers, Request(w) PROVE Pinned'
  <2>1. UNCHANGED allButTask /\ \A v \in Workers \ {w} : task'[v] = task[v]
    BY <1>5, RequestMoves
  <2>2. Pins(w)'
    <3>1. ASSUME NEW j \in Jobs, ResumeTimelineEnricher(w, j) PROVE Pins(w)'
      <4>1. task'[w].job = j /\ j \in markers
        BY <3>1 DEF ResumeTimelineEnricher, TypeOK, Idle
      <4> QED
        BY <1>1, <4>1 DEF Pinned
    <3>2. ASSUME NEW k \in Keys, RunTimelineEnricher(w, k) PROVE Pins(w)'
      BY <3>2 DEF RunTimelineEnricher, TypeOK, Idle, JobPCs
    <3>3. ASSUME NEW k \in Keys, NEW s \in Sources, TriggerAutomatic(w, k, s) PROVE Pins(w)'
      BY <3>3 DEF TriggerAutomatic, TypeOK, Idle, JobPCs
    <3> QED
      BY <1>5, <3>1, <3>2, <3>3 DEF Request
  <2> QED
    BY <1>2, <1>3, <2>1, <2>2 DEF allButTask, pgVars, jobRows, recVars
<1>6. ASSUME NEW w \in Workers, Handle(w) PROVE Pinned'
  <2>1. /\ \A v \in Workers \ {w} : task'[v] = task[v]
        /\ UNCHANGED <<markers, jobVersion, orphans>>
        /\ task'[w].pc \in {"idle", "plan", "autoClaim", "begin", "list"}
    BY <1>6, HandleMoves
  <2>2. prov' = prov
    BY <1>6 DEF Handle, CheckUnfinished, PlanAndClaim, AutoCheckUnfinished, AutoClaim, Claim,
                RefuseRun, ClaimResume, allButTask, pgVars
  <2>3. ASSUME task'[w].pc = "list" PROVE ClaimResume(w) /\ task'[w].job = task[w].job
                                          /\ task[w].pc = "claim"
    <3>1. task[w] \in TaskType
      BY TaskAt
    <3>2. ~ (CheckUnfinished(w) \/ AutoCheckUnfinished(w) \/ RefuseRun(w))
      BY <2>3, <3>1 DEF CheckUnfinished, AutoCheckUnfinished, RefuseRun, Stop, Idle, TypeOK,
                        TaskType
    <3>3. ASSUME NEW j \in Jobs, NEW todo PROVE ~ Claim(w, j, todo)
      BY <2>3, <3>1 DEF Claim, TypeOK, TaskType
    <3>4. ClaimResume(w)
      BY <1>6, <3>2, <3>3 DEF Handle, PlanAndClaim, AutoClaim
    <3> QED
      BY <2>3, <3>1, <3>4 DEF ClaimResume, Stop, Idle, TypeOK, TaskType
  <2>4. Pins(w)'
    BY <1>1, <2>1, <2>3 DEF JobPCs
  <2> QED
    BY <1>2, <1>3, <2>1, <2>2, <2>4
<1>7. ASSUME NEW w \in Workers, Scan(w) PROVE Pinned'
  <2>1. /\ OnTask(w) /\ Active(w) /\ UNCHANGED <<prov, orphans>> /\ task[w].job \in Jobs
        /\ task'[w].pc # "claim"
    BY <1>7, ScanOnTask, ScanTouches, ActiveJob, RecoverMoves
  <2>2. CASE StartJobRun(w)
    <3>1. /\ markers' = markers \cup {task[w].job}
          /\ jobVersion'[task[w].job] # 0
      BY <2>1, <2>2, ActiveJob DEF StartJobRun, PinnedVersion, TypeOK, Keys
    <3>2. Pins(w)'
      BY <2>1, <3>1 DEF OnTask
    <3>3. \A v \in Workers : Pins(v)'
      BY <1>2, <2>1, <3>2 DEF OnTask
    <3>4. \A j \in markers' \cup orphans' : jobVersion'[j] # 0
      BY <1>1, <2>1, <3>1 DEF Pinned, TypeOK
    <3>5. \A s \in Sources, e \in Enrichers : prov'[s][e] # None => jobVersion'[prov'[s][e]] # 0
      BY <1>1, <2>1 DEF Pinned, TypeOK
    <3> QED
      BY <3>3, <3>4, <3>5 DEF Pinned
  <2>3. CASE ~ StartJobRun(w)
    <3>1. markers' = markers /\ task[w].pc # "begin"
      BY <1>7, <2>3 DEF Scan, OpenSource, ReadBatch, StageBatch, FinishSource, MarkSourceStaged,
                        allButTask, pgVars, jobRows
    <3>2. Pins(w)'
      BY <1>1, <2>1, <3>1 DEF OnTask, Active
    <3> QED
      BY <1>2, <1>3, <2>1, <3>1, <3>2 DEF OnTask
  <2> QED
    BY <2>2, <2>3
<1>8. ASSUME NEW w \in Workers, Rewrite(w) PROVE Pinned'
  <2>1. /\ OnTask(w) /\ Active(w) /\ task[w].job \in Jobs
        /\ markers' \subseteq markers /\ orphans' = orphans /\ jobVersion' = jobVersion
    BY <1>8, RewriteOnTask, ActiveJob
  <2>2. task[w].pc # "begin" /\ task'[w].pc # "claim"
    BY <1>8, RewriteKeeps DEF ApplyPCs
  <2>3. Pins(w)'
    BY <1>1, <2>1, <2>2 DEF OnTask, Active
  <2>4. \A v \in Workers : Pins(v)'
    BY <1>2, <2>1, <2>3 DEF OnTask
  <2>5. \A s \in Sources, e \in Enrichers : prov'[s][e] # None => jobVersion'[prov'[s][e]] # 0
    <3>1. prov' = prov \/ prov' = [prov EXCEPT ![task[w].cur][task[w].key[2]] = task[w].job]
      BY <1>8, RewriteProv
    <3>2. jobVersion[task[w].job] # 0
      BY <1>1, <2>1, <2>2 DEF Active
    <3>3. task[w].key[2] \in Enrichers
      BY <2>1, ActiveJob DEF Keys
    <3>4. prov' = prov \/ task[w].cur \in Sources
      BY <1>8, RewriteProv DEF RecordSourceEnrichment, Shape, TaskShape, ApplyPCs
    <3>5. \A s \in Sources, e \in Enrichers : prov'[s][e] = prov[s][e] \/ prov'[s][e] = task[w].job
      <4>1. CASE prov' = prov
        BY <4>1
      <4>2. CASE prov' # prov
        <5> DEFINE c == task[w].cur
                   k == task[w].key[2]
                   j == task[w].job
        <5>1. c \in Sources /\ k \in Enrichers /\ prov' = [prov EXCEPT ![c][k] = j]
          BY <3>1, <3>3, <3>4, <4>2
        <5> HIDE DEF c, k, j
        <5>2. \A s \in Sources, e \in Enrichers : prov'[s][e] = prov[s][e] \/ prov'[s][e] = j
          BY <5>1 DEF TypeOK
        <5> QED
          BY <5>2 DEF j
      <4> QED
        BY <4>1, <4>2
    <3> QED
      BY <2>1, <3>2, <3>5 DEF Pinned
  <2> QED
    BY <2>1, <2>4, <2>5 DEF Pinned
<1>9. ASSUME NEW w \in Workers, ReleaseRun(w) \/ FailToStart(w) PROVE Pinned'
  <2>1. task'[w].pc = "idle" /\ \A v \in Workers \ {w} : task'[v] = task[v]
    BY <1>9 DEF ReleaseRun, FailToStart, Stop, Idle, TypeOK
  <2>2. Rows
    BY <1>9 DEF ReleaseRun, FailToStart, pgVars, jobRows, recVars
  <2>3. Pins(w)'
    BY <2>1 DEF JobPCs
  <2> QED
    BY <1>2, <1>3, <2>1, <2>2, <2>3
<1>10. ASSUME NEW w \in Workers, Fail(w) PROVE Pinned'
  <2>1. OnTask(w) /\ Active(w) /\ task[w].pc # "begin" /\ task'[w].pc # "claim"
        /\ task[w].job \in Jobs
    BY <1>10, FailOnTask, ActiveJob DEF Fail, FailPCs
  <2>2. Rows
    BY <1>10 DEF Fail, pgVars, jobRows, recVars
  <2>3. Pins(w)'
    BY <1>1, <2>1 DEF OnTask, Active
  <2> QED
    BY <1>2, <1>3, <2>1, <2>2, <2>3 DEF OnTask
<1>11. CASE Recover
  <2>1. Rows
    BY <1>11 DEF Recover, ListOrphans, OrphanedRuns, ReconcileOrphan, SkipOrphan, Rerun,
                 SkipRerun, pgVars, jobRows
  <2>2. ASSUME NEW w \in Workers, NEW j \in Jobs, ReconcileOrphan(w, j)
        PROVE  \A v \in Workers : Pins(v)'
    <3>1. task'[w].job = j /\ j \in orphans /\ \A v \in Workers \ {w} : task'[v] = task[v]
      BY <2>2 DEF ReconcileOrphan, TypeOK, Idle
    <3>2. Pins(w)'
      BY <1>1, <3>1 DEF Pinned
    <3> QED
      BY <1>2, <3>1, <3>2
  <2>3. ASSUME NEW w \in Workers, NEW old \in Jobs, NEW j \in Jobs, Rerun(w, old, j)
        PROVE  \A v \in Workers : Pins(v)'
    <3>1. task'[w].pc = "begin" /\ \A v \in Workers \ {w} : task'[v] = task[v]
      BY <2>3 DEF Rerun, TypeOK, Idle
    <3>2. Pins(w)'
      BY <3>1
    <3> QED
      BY <1>2, <3>1, <3>2
  <2>4. ASSUME ListOrphans \/ \E j \in Jobs : SkipOrphan(j) \/ SkipRerun(j)
        PROVE  \A v \in Workers : Pins(v)'
    BY <1>2, <2>4 DEF ListOrphans, SkipOrphan, SkipRerun
  <2> HIDE DEF Pins, Rows
  <2>5. \A v \in Workers : Pins(v)'
    BY <1>11, <2>2, <2>3, <2>4 DEF Recover
  <2> QED
    BY <1>3, <2>1, <2>5
<1>12. CASE Background
  BY <1>2, <1>3, <1>12, BackgroundSpares DEF Spares
<1>13. CASE Crash
  <2>1. \A w \in Workers : Pins(w)'
    BY <1>13 DEF Crash, Idle, JobPCs
  <2> QED
    BY <1>3, <1>13, <2>1 DEF Crash, pgVars, jobRows
<1> QED
  BY <1>4, <1>5, <1>6, <1>7, <1>8, <1>9, <1>10, <1>11, <1>12, <1>13
     DEF Next, Apply, Rewrite, Environment, Background

\* What is marked stays marked, and whole.
LEMMA CompletedGrows ==
    ASSUME Inductive, Present, [Next]_vars
    PROVE  \A j \in Jobs : completed[j] \subseteq completed'[j]
<1> USE DEF Inductive
<1>1. ASSUME NEW w \in Workers, Scan(w)
      PROVE  \A j \in Jobs : completed[j] \subseteq completed'[j]
  <2>1. CASE MarkSourceStaged(w)
    BY <2>1 DEF MarkSourceStaged, TypeOK
  <2>2. CASE ~ MarkSourceStaged(w)
    BY <1>1, <2>2 DEF Scan, StartJobRun, OpenSource, ReadBatch, StageBatch, FinishSource,
                      allButTask, pgVars, jobRows
  <2> QED
    BY <2>1, <2>2
<1> QED
  BY <1>1, Outside, RewriteTouches DEF Spares

LEMMA CompletedWhole ==
    ASSUME Inductive, EvidenceInv, [Next]_vars
    PROVE  \A j \in Jobs : \A s \in completed'[j] \ withdrawn' : Whole(j, s)'
<1> USE DEF Inductive, EvidenceInv
<1>1. \A j \in Jobs : completed[j] # {} => jobKey'[j] = jobKey[j]
  BY JobKeyStable DEF Untouched
<1>2. ASSUME NEW w \in Workers, Scan(w)
      PROVE  \A j \in Jobs : \A s \in completed'[j] \ withdrawn' : Whole(j, s)'
  <2>1. PICK i \in Jobs :
            /\ i = task[w].job /\ Touches(i) /\ task'[w].job = i
            /\ task'[w].pc \in {"open", "read", "write", "mark"}
            /\ UNCHANGED withdrawn
    BY <1>2, ScanOnTask, ScanTouches, ActiveJob DEF OnTask
  <2>2. ASSUME NEW j \in Jobs \ {i} PROVE \A s \in completed'[j] \ withdrawn' : Whole(j, s)'
    <3>1. /\ completed'[j] = completed[j] /\ jobVersion'[j] = jobVersion[j]
          /\ jobKey'[j] = jobKey[j] /\ completed[j] \subseteq Sources
          /\ \A s \in Kept' : staged'[j][s] = staged[j][s]
      BY <2>1 DEF Touches, TypeOK
    <3> QED
      BY <2>1, <3>1 DEF Whole, Full, MarkedAreWhole, Kept
  <2>3. \A s \in completed'[i] \ withdrawn' : Whole(i, s)'
    <3>1. InStep(w)' /\ task'[w] \in TaskType
      BY <1>2, ScanInStep, ScanTyped DEF TypeOK
    <3>2. /\ completed'[i] \subseteq task'[w].done
          /\ task'[w].done \cap task'[w].todo = {}
          /\ \A s \in Kept' \ task'[w].todo : Whole(i, s)'
      BY <2>1, <3>1 DEF InStep, ScanIsInStep, ScanPCs
    <3> QED
      BY <3>1, <3>2 DEF TaskType, Kept
  <2> QED
    BY <2>2, <2>3
<1>3. ASSUME NEW w \in Workers, Rewrite(w)
      PROVE  \A j \in Jobs : \A s \in completed'[j] \ withdrawn' : Whole(j, s)'
  <2>1. UNCHANGED <<completed, jobKey, jobVersion, withdrawn>>
        /\ \A j \in Jobs, s \in Sources : staged'[j][s] \in {staged[j][s], {}}
    BY <1>3, RewriteOnTask, RewriteTouches, RewriteKeeps
  <2>2. \A j \in Jobs, s \in Sources : Whole(j, s) => Whole(j, s)'
    BY <2>1 DEF Whole, Full
  <2> QED
    BY <2>1, <2>2 DEF MarkedAreWhole, TypeOK
<1>4. ASSUME Spares PROVE \A j \in Jobs : \A s \in completed'[j] \ withdrawn' : Whole(j, s)'
  <2>1. \A j \in Jobs : completed'[j] = completed[j] /\ completed[j] \subseteq Sources
    BY <1>4 DEF Spares, TypeOK
  <2>2. ASSUME NEW j \in Jobs, NEW s \in completed'[j] \ withdrawn' PROVE Whole(j, s)'
    <3>1. s \in Kept' /\ s \in completed[j] \ withdrawn /\ jobVersion'[j] = jobVersion[j]
      BY <1>4, <2>1, <2>2 DEF Spares, Kept
    <3>2. staged'[j][s] = staged[j][s] /\ jobKey'[j] = jobKey[j]
      BY <1>1, <1>4, <3>1 DEF Spares, Spared
    <3> QED
      BY <3>1, <3>2 DEF Whole, Full, MarkedAreWhole
  <2> QED
    BY <2>2
<1> QED
  BY <1>2, <1>3, <1>4, Outside

\* A resume and a recovery know what was marked when they read the row.
LEMMA RecallStep ==
    ASSUME Inductive, EvidenceInv, [Next]_vars, NEW v \in Workers,
           task'[v].kind \in {"resume", "reconcile"}
    PROVE  task'[v].job \in Jobs /\ task'[v].done \subseteq completed'[task'[v].job]
<1> USE DEF Inductive, EvidenceInv
<1> DEFINE Recalls == task'[v].job \in Jobs /\ task'[v].done \subseteq completed'[task'[v].job]
           Same == /\ task'[v].kind = task[v].kind /\ task'[v].job = task[v].job
                   /\ task'[v].done = task[v].done
<1>1. ASSUME Same PROVE Recalls
  BY <1>1, CompletedGrows DEF MarkedAreWhole
<1>2. task[v] \in TaskType
  BY TaskAt
<1>3. ASSUME NEW w \in Workers, Request(w) PROVE Recalls
  <2>1. CASE v # w
    BY <1>1, <1>3, <2>1, RequestMoves
  <2>2. CASE v = w
    <3>1. ASSUME NEW j \in Jobs, ResumeTimelineEnricher(w, j) PROVE Recalls
      BY <2>2, <3>1 DEF ResumeTimelineEnricher, TypeOK, Idle, allButTask, pgVars, jobRows
    <3>2. ASSUME NEW k \in Keys, RunTimelineEnricher(w, k) PROVE Recalls
      BY <2>2, <3>2 DEF RunTimelineEnricher, TypeOK, Idle
    <3>3. ASSUME NEW k \in Keys, NEW s \in Sources, TriggerAutomatic(w, k, s) PROVE Recalls
      BY <2>2, <3>3 DEF TriggerAutomatic, TypeOK, Idle
    <3> QED
      BY <1>3, <3>1, <3>2, <3>3 DEF Request
  <2> QED
    BY <2>1, <2>2
<1>4. ASSUME NEW w \in Workers, Handle(w) PROVE Recalls
  <2>1. CASE v # w
    BY <1>1, <1>4, <2>1, HandleMoves
  <2>2. CASE v = w
    <3>1. task[v].pc \in HandlerPCs \ {"claim"} => task[v].kind = "run"
      BY DEF InStep, GrantIsWhole
    <3>2. ASSUME ClaimResume(v) PROVE Recalls
      <4>1. task'[v] = Idle \/ task'[v] = [task[v] EXCEPT !.pc = "list"]
        BY <3>2 DEF ClaimResume, Stop, TypeOK
      <4>2. task'[v] # Idle
        BY DEF Idle
      <4>3. Same
        BY <1>2, <4>1, <4>2 DEF TaskType
      <4> QED
        BY <1>1, <4>3
    <3>3. ASSUME CheckUnfinished(v) \/ AutoCheckUnfinished(v) \/ RefuseRun(v) PROVE Recalls
      <4>1. task[v].kind = "run"
        BY <3>1, <3>3 DEF CheckUnfinished, AutoCheckUnfinished, RefuseRun, HandlerPCs
      <4>2. task'[v] = Idle \/ task'[v].kind = task[v].kind
        BY <1>2, <3>3 DEF CheckUnfinished, AutoCheckUnfinished, RefuseRun, Stop, TypeOK, TaskType
      <4> QED
        BY <4>1, <4>2 DEF Idle
    <3>4. ASSUME NEW j \in Jobs, NEW todo, Claim(v, j, todo), task[v].pc \in {"plan", "autoClaim"}
          PROVE  Recalls
      BY <1>2, <3>1, <3>4 DEF Claim, TypeOK, TaskType, HandlerPCs
    <3>5. ASSUME NEW j \in Jobs, NEW force \in BOOLEAN,
                 PlanAndClaim(v, j, force) \/ AutoClaim(v, j)
          PROVE  Recalls
      BY <3>4, <3>5 DEF PlanAndClaim, AutoClaim
    <3> QED
      BY <1>4, <2>2, <3>2, <3>3, <3>5 DEF Handle
  <2> QED
    BY <2>1, <2>2
<1>5. ASSUME NEW w \in Workers, Scan(w) PROVE Recalls
  <2>1. CASE v # w
    BY <1>1, <1>5, <2>1, ScanOnTask DEF OnTask
  <2>2. CASE v = w
    BY <1>5, <2>2, ScanInStep, ScanOnTask DEF InStep, ScanIsInStep, ScanPCs
  <2> QED
    BY <2>1, <2>2
<1>6. ASSUME NEW w \in Workers, Rewrite(w) PROVE Recalls
  BY <1>1, <1>6, RewriteOnTask, RewriteKeeps DEF OnTask
<1>7. ASSUME NEW w \in Workers, ReleaseRun(w) \/ FailToStart(w) PROVE Recalls
  <2>1. task'[w] = Idle /\ \A x \in Workers \ {w} : task'[x] = task[x]
    BY <1>7 DEF ReleaseRun, FailToStart, Stop, TypeOK
  <2> QED
    BY <1>1, <2>1 DEF Idle
<1>8. ASSUME NEW w \in Workers, Fail(w) PROVE Recalls
  <2>1. /\ task'[w].job = task[w].job /\ \A x \in Workers \ {w} : task'[x] = task[x]
    BY <1>8, FailOnTask DEF OnTask
  <2>2. \/ task'[w].kind = "cleanup"
        \/ task'[w].kind = task[w].kind /\ task'[w].done = task[w].done
    BY <1>8, TaskAt DEF Fail, TypeOK, TaskType
  <2> QED
    BY <1>1, <2>1, <2>2
<1>9. ASSUME Recover PROVE Recalls
  <2>1. ASSUME NEW w \in Workers, NEW j \in Jobs, ReconcileOrphan(w, j) PROVE Recalls
    <3>1. CASE v # w
      BY <1>1, <2>1, <3>1 DEF ReconcileOrphan, TypeOK
    <3>2. CASE v = w
      <4>1. task'[v].job = j /\ task'[v].done = snap[j]
        BY <2>1, <3>2 DEF ReconcileOrphan, TypeOK, Idle
      <4> QED
        BY <4>1, CompletedGrows DEF MarkedAreWhole
    <3> QED
      BY <3>1, <3>2
  <2>2. ASSUME NEW w \in Workers, NEW old \in Jobs, NEW j \in Jobs, Rerun(w, old, j)
        PROVE  Recalls
    BY <1>1, <2>2 DEF Rerun, TypeOK, Idle
  <2>3. ASSUME ListOrphans \/ \E j \in Jobs : SkipOrphan(j) \/ SkipRerun(j) PROVE Recalls
    BY <1>1, <2>3 DEF ListOrphans, SkipOrphan, SkipRerun
  <2> HIDE DEF Recalls
  <2> QED
    BY <1>9, <2>1, <2>2, <2>3 DEF Recover
<1>10. ASSUME Background \/ UNCHANGED vars PROVE Recalls
  BY <1>1, <1>10, BackgroundSpares DEF vars, memVars
<1>11. ASSUME Crash PROVE Recalls
  BY <1>11 DEF Crash, Idle
<1> HIDE DEF Recalls
<1>12. Recalls
  BY <1>3, <1>4, <1>5, <1>6, <1>7, <1>8, <1>9, <1>10, <1>11
     DEF Next, Apply, Rewrite, Environment, Background
<1> QED
  BY <1>12 DEF Recalls

LEMMA MarkedAreWholeStep ==
    ASSUME Inductive, EvidenceInv, [Next]_vars
    PROVE  MarkedAreWhole'
<1> USE DEF Inductive, EvidenceInv
<1>1. \A j \in Jobs : snap'[j] \subseteq completed'[j]
  <2>1. \A j \in Jobs : snap[j] \subseteq completed[j] /\ completed[j] \subseteq completed'[j]
    BY CompletedGrows DEF MarkedAreWhole
  <2>2. ASSUME ListOrphans \/ Crash PROVE \A j \in Jobs : snap'[j] \subseteq completed'[j]
    BY <2>1, <2>2 DEF ListOrphans, Crash
  <2>3. ListOrphans \/ Crash \/ snap' = snap
    <3>1. ASSUME NEW w \in Workers, Request(w) \/ Handle(w) \/ Scan(w) \/ Apply(w)
          PROVE  snap' = snap
      <4>1. Scan(w) \/ Rewrite(w) => snap' = snap
        BY ScanTouches, RewriteTouches
      <4>2. Request(w) \/ Handle(w) \/ ReleaseRun(w) => snap' = snap
        BY DEF Request, RunTimelineEnricher, TriggerAutomatic, ResumeTimelineEnricher, Handle,
               CheckUnfinished, PlanAndClaim, AutoCheckUnfinished, AutoClaim, Claim, RefuseRun,
               ClaimResume, ReleaseRun, allButTask, recVars
      <4> QED
        BY <3>1, <4>1, <4>2 DEF Apply, Rewrite
    <3>2. ASSUME Recover PROVE ListOrphans \/ snap' = snap
      BY <3>2 DEF Recover, ReconcileOrphan, SkipOrphan, Rerun, SkipRerun
    <3>3. ASSUME Environment PROVE Crash \/ snap' = snap
      <4>1. ASSUME NEW w \in Workers, FailToStart(w) \/ Fail(w) PROVE snap' = snap
        BY <4>1 DEF FailToStart, Fail, recVars
      <4> QED
        BY <3>3, <4>1, BackgroundSpares DEF Environment, Background
    <3>4. UNCHANGED vars => snap' = snap
      BY DEF vars, memVars
    <3> QED
      BY <3>1, <3>2, <3>3, <3>4 DEF Next
  <2> QED
    BY <2>1, <2>2, <2>3
<1> QED
  BY <1>1, CompletedWhole, RecallStep DEF MarkedAreWhole

LEMMA EvidenceInvInit == Init => EvidenceInv
<1> SUFFICES ASSUME Init PROVE EvidenceInv
  OBVIOUS
<1>1. Present /\ Untouched
  BY DEF Init, Present, Untouched, Kept
<1>2. Pinned
  BY DEF Init, Pinned, Idle, JobPCs
<1>3. MarkedAreWhole
  BY DEF Init, MarkedAreWhole, Idle
<1>4. \A w \in Workers : InStep(w)
  BY DEF Init, InStep, ScanIsInStep, GrantIsWhole, CopyIsRight, ScanPCs, CopiedPCs, ApplyPCs,
         JobPCs, HandlerPCs, Idle
<1> QED
  BY <1>1, <1>2, <1>3, <1>4 DEF EvidenceInv

LEMMA EvidenceInvStep ==
    ASSUME Inductive, EvidenceInv, [Next]_vars
    PROVE  EvidenceInv'
  BY PresentStep, UntouchedStep, PinnedStep, MarkedAreWholeStep, InStepStep DEF EvidenceInv

\* A complete scan is what an apply writes and certifies, on every source nobody
\* asked to delete, through failures, crashes, resumes, recoveries and the
\* deletes of other sources: the marks in Postgres never run ahead of the staged
\* rows (run_enrichment_job, mark_enrichment_source_staged).
THEOREM AppliesWriteWholeScans == Spec => []ScansAreWhole
<1>1. Inductive /\ EvidenceInv /\ [Next]_vars => EvidenceInv'
  BY EvidenceInvStep
<1> QED
  BY <1>1, EvidenceInvInit, InductiveInvariant, PTL DEF Spec, ScansAreWhole

-----------------------------------------------------------------------------
(* The refinement.                                                          *)

Certified == [s \in Sources |-> [e \in Enrichers |->
                 IF prov[s][e] = None THEN 0 ELSE jobVersion[prov[s][e]]]]

\* As long as neither the partitions nor the provenance rows change, neither
\* does the evidence: a version that a row refers to is pinned.
LEMMA EvidenceKept ==
    ASSUME Inductive, EvidenceInv, [Next]_vars, prov' = prov
    PROVE  Certified' = Certified
<1>1. \A s \in Sources, e \in Enrichers :
          prov[s][e] # None => /\ prov[s][e] \in Jobs
                               /\ jobVersion'[prov[s][e]] = jobVersion[prov[s][e]]
  BY VersionPinned DEF EvidenceInv, Pinned, Inductive, TypeOK
<1> QED
  BY <1>1 DEF Certified

LEMMA ReplaceEnriches ==
    ASSUME Inductive, EvidenceInv, NEW w \in Workers, ReplacePartition(w), Certified' = Certified,
           task[w].cur \in Kept,
           part' = [part EXCEPT ![task[w].cur] =
               Merge(@, staged[task[w].job][task[w].cur], task[w].key[2],
                     jobVersion[task[w].job])]
    PROVE  Evidence!Next
<1> USE DEF Inductive, EvidenceInv
<1> DEFINE j == task[w].job
           s == task[w].cur
           e == task[w].key[2]
<1>1. s \in Sources \ withdrawn /\ withdrawn' = withdrawn
  BY DEF Kept, ReplacePartition, bounds
<1>2. Active(w) /\ task[w].pc = "swap"
  BY DEF ReplacePartition, Active, JobPCs
<1>3. /\ e \in Enrichers /\ jobVersion[j] \in 1 .. MaxVersion
      /\ staged[j][s] \in SUBSET Batches
  BY <1>1, <1>2, ActiveJob DEF Pinned, JobPCs, Keys, TypeOK, Values
<1>4. Evidence!Enrich(s, e, jobVersion[j], staged[j][s])
  BY <1>1 DEF Evidence!Enrich, Merge, Certified
<1>5. \E v \in 1 .. MaxVersion : \E rows \in SUBSET Batches : Evidence!Enrich(s, e, v, rows)
  <2> HIDE DEF j, s, e
  <2> QED
    BY <1>3, <1>4
<1> HIDE DEF j, s, e
<1> QED
  BY <1>1, <1>3, <1>5 DEF Evidence!Next

LEMMA RecordCertifies ==
    ASSUME Inductive, EvidenceInv, NEW w \in Workers, RecordSourceEnrichment(w),
           task[w].cur \in Grant(w), task[w].cur \in Kept
    PROVE  Evidence!Next
<1> USE DEF Inductive, EvidenceInv
<1> DEFINE j == task[w].job
           s == task[w].cur
           e == task[w].key[2]
           v == jobVersion[j]
<1>1. /\ Active(w) /\ task[w].pc = "record" /\ s \in Sources \ withdrawn
      /\ UNCHANGED <<part, jobVersion, withdrawn>> /\ task[w] \in TaskType
      /\ prov' = [prov EXCEPT ![s][e] = j]
  BY TaskAt DEF RecordSourceEnrichment, Active, JobPCs, ApplyPCs, Shape, TaskShape, jobRows, chVars,
                bounds, Kept
<1>2. /\ j \in Jobs /\ j # None /\ e \in Enrichers /\ v \in 1 .. MaxVersion
      /\ jobKey[j] = task[w].key
  <2>1. /\ j \in Jobs /\ j # None /\ jobKey[j] = task[w].key /\ task[w].key \in Keys
    BY <1>1, ActiveJob
  <2>2. v # 0
    BY <1>1 DEF Pinned, JobPCs
  <2> QED
    BY <2>1, <2>2 DEF Keys, TypeOK, Values
<1>3. Whole(j, s)
  <2>1. CASE task[w].kind = "run"
    BY <1>1, <2>1 DEF InStep, GrantIsWhole, ApplyPCs, Kept
  <2>2. CASE task[w].kind = "cleanup"
    BY <1>1, <2>2 DEF InStep, GrantIsWhole, JobPCs, Grant
  <2>3. CASE task[w].kind \in {"resume", "reconcile"}
    BY <1>1, <2>3 DEF MarkedAreWhole, Grant
  <2>4. task[w].kind # "none"
    BY <1>1 DEF InStep, GrantIsWhole, JobPCs
  <2> QED
    BY <1>1, <2>1, <2>2, <2>3, <2>4 DEF TaskType
<1>4. \A b \in DOMAIN part[s] : part[s][b][e] = IF b \in Resolves[e][v] THEN v ELSE 0
  <2>1. staged[j][s] # {}
        /\ \A b \in Batches : part[s][b][e] = IF b \in staged[j][s] THEN v ELSE 0
    BY <1>1 DEF InStep, CopyIsRight, CopiedPCs
  <2>2. staged[j][s] = Resolves[e][v]
    BY <1>2, <1>3, <2>1 DEF Whole, Full
  <2> QED
    BY <1>1, <2>1, <2>2 DEF Present
<1>5. Certified' = [Certified EXCEPT ![s][e] = v]
  <2>1. prov \in [Sources -> [Enrichers -> Jobs \cup {None}]]
    BY DEF TypeOK
  <2>2. /\ prov'[s][e] = j
        /\ \A x \in Enrichers \ {e} : prov'[s][x] = prov[s][x]
        /\ \A x \in Sources \ {s} : prov'[x] = prov[x]
    <3> HIDE DEF j, s, e
    <3> QED
      BY <1>1, <1>2, <2>1
  <2>3. /\ Certified'[s] = [Certified[s] EXCEPT ![e] = v]
        /\ \A x \in Sources \ {s} : Certified'[x] = Certified[x]
    <3>1. v = jobVersion'[j] /\ jobVersion' = jobVersion /\ j # None
      BY <1>1, <1>2
    <3>2. s \in Sources /\ e \in Enrichers
      BY <1>1, <1>2
    <3> HIDE DEF j, s, e, v
    <3>3. \A x \in Sources \ {s} : Certified'[x] = Certified[x]
      BY <2>2, <3>1 DEF Certified
    <3>4. Certified'[s][e] = v /\ \A x \in Enrichers \ {e} : Certified'[s][x] = Certified[s][x]
      BY <2>2, <3>1, <3>2 DEF Certified
    <3>5. Certified'[s] = [Certified[s] EXCEPT ![e] = v]
      BY <3>2, <3>4 DEF Certified
    <3> QED
      BY <3>3, <3>5
  <2> QED
    BY <1>1, <2>3 DEF Certified
<1>6. PICK x \in Sources \ withdrawn, y \in Enrichers, z \in 1 .. MaxVersion : x = s /\ y = e /\ z = v
  BY <1>1, <1>2
<1>7. Evidence!Certify(x, y, z)
  BY <1>1, <1>4, <1>5, <1>6 DEF Evidence!Certify, Certified
<1> QED
  BY <1>7 DEF Evidence!Next

\* Whatever the steps of an apply do to a source whose delete was requested.
LEMMA RewriteDisturbs ==
    ASSUME Inductive, EvidenceInv, [Next]_vars, NEW w \in Workers, Rewrite(w),
           task[w].cur \in withdrawn, \A s \in Sources \ {task[w].cur} : part'[s] = part[s],
           prov' = prov \/ prov' = [prov EXCEPT ![task[w].cur][task[w].key[2]] = task[w].job]
    PROVE  Evidence!Next
<1>1. withdrawn' = withdrawn /\ task[w].cur \in Sources
  BY RewriteTouches DEF Inductive, TypeOK
<1>2. PICK c \in Sources : c = task[w].cur
  BY <1>1
<1>3. ASSUME NEW s \in Sources \ {c} PROVE Certified'[s] = Certified[s]
  <2>1. prov'[s] = prov[s]
    BY <1>1, <1>2 DEF Inductive, TypeOK
  <2>2. \A e \in Enrichers : prov[s][e] # None =>
            /\ prov[s][e] \in Jobs
            /\ jobVersion'[prov[s][e]] = jobVersion[prov[s][e]]
    BY VersionPinned DEF EvidenceInv, Pinned, Inductive, TypeOK
  <2> QED
    BY <2>1, <2>2 DEF Certified
<1>4. Evidence!Disturb(c)
  BY <1>1, <1>2, <1>3 DEF Evidence!Disturb, Certified
<1> QED
  BY <1>2, <1>4 DEF Evidence!Next

\* A delete withdraws its source, and disturbs it.
LEMMA BackgroundWithdraws ==
    ASSUME Inductive, EvidenceInv, [Next]_vars, Background
    PROVE  Evidence!Next \/ UNCHANGED <<part, Certified, withdrawn>>
<1> USE DEF Inductive, EvidenceInv
<1>1. ASSUME NEW s \in Sources, DeleteSource(s) PROVE Evidence!Next
  <2>1. withdrawn' = withdrawn \cup {s} /\ UNCHANGED <<part, prov>>
    BY <1>1 DEF DeleteSource, pgVars, chVars
  <2>2. Evidence!Withdraw(s)
    BY <2>1, EvidenceKept DEF Evidence!Withdraw, Certified
  <2> QED
    BY <2>2 DEF Evidence!Next
<1>2. ASSUME NEW s \in Sources, DropSourceEvents(s) PROVE Evidence!Next
  <2>1. s \in withdrawn /\ withdrawn' = withdrawn
    BY <1>2 DEF DropSourceEvents, Present, Kept, bounds
  <2>2. prov' = prov /\ \A x \in Sources \ {s} : part'[x] = part[x]
    BY <1>2 DEF DropSourceEvents, TypeOK
  <2>3. Evidence!Disturb(s)
    BY <2>1, <2>2, EvidenceKept DEF Evidence!Disturb, Certified
  <2> QED
    BY <2>1, <2>3 DEF Evidence!Next
<1>3. ASSUME NEW s \in Sources, DeleteSourceRow(s) PROVE Evidence!Next
  <2>1. s \in withdrawn /\ UNCHANGED <<part, jobVersion, withdrawn>>
    BY <1>3 DEF DeleteSourceRow, Present, Kept, jobRows, chVars, bounds
  <2>2. \A x \in Sources \ {s} : prov'[x] = prov[x]
    BY <1>3 DEF DeleteSourceRow, TypeOK
  <2>3. Evidence!Disturb(s)
    BY <2>1, <2>2 DEF Evidence!Disturb, Certified
  <2> QED
    BY <2>1, <2>3 DEF Evidence!Next
<1>4. ASSUME NEW s \in Sources, AbortDelete(s) \/ ComputeFill(s) \/ StoreFill(s)
      PROVE  UNCHANGED <<part, prov, withdrawn>>
  BY <1>4 DEF AbortDelete, ComputeFill, StoreFill, pgVars, chVars, bounds
<1>5. ASSUME NEW e \in Enrichers, UpdateData(e) PROVE UNCHANGED <<part, prov, withdrawn>>
  BY <1>5 DEF UpdateData, pgVars, chVars, bounds
<1> QED
  BY <1>1, <1>2, <1>3, <1>4, <1>5, EvidenceKept DEF Background

\* Every step of enrichment is a swap of one enricher's keys, a provenance row
\* that tells the truth, the doing or undoing of a delete on its own source, or
\* leaves the evidence as it is.
LEMMA EvidenceStep ==
    ASSUME Inductive, EvidenceInv, [Next]_vars
    PROVE  Evidence!Next \/ UNCHANGED <<part, Certified, withdrawn>>
<1> USE DEF Inductive, EvidenceInv
<1> DEFINE Mapped == Evidence!Next \/ UNCHANGED <<part, Certified, withdrawn>>
<1>1. ASSUME UNCHANGED <<part, prov, withdrawn>> PROVE Mapped
  BY <1>1, EvidenceKept
<1>2. ASSUME NEW w \in Workers, Scan(w) PROVE Mapped
  BY <1>1, <1>2, ScanTouches
<1>3. ASSUME NEW w \in Workers, Rewrite(w) PROVE Mapped
  <2>1. CASE task[w].cur \in withdrawn /\ (part' # part \/ prov' # prov)
    <3>1. \A s \in Sources \ {task[w].cur} : part'[s] = part[s]
      BY <1>3, RewriteTouches
    <3>2. prov' = prov \/ prov' = [prov EXCEPT ![task[w].cur][task[w].key[2]] = task[w].job]
      BY <1>3, RewriteProv
    <3> QED
      BY <1>3, <2>1, <3>1, <3>2, RewriteDisturbs
  <2>2. CASE RecordSourceEnrichment(w) /\ task[w].cur \notin withdrawn
    <3>1. task[w].cur \in Kept /\ UNCHANGED <<part, withdrawn>>
      BY <2>2 DEF RecordSourceEnrichment, Shape, TaskShape, ApplyPCs, chVars, bounds, Kept
    <3> QED
      BY <1>1, <1>3, <2>2, <3>1, RecordCertifies, RewriteProv
  <2>3. CASE ~ RecordSourceEnrichment(w) /\ task[w].cur \notin withdrawn
    <3>1. Certified' = Certified /\ UNCHANGED <<prov, withdrawn>>
      BY <1>3, <2>3, RewriteProv, EvidenceKept, RewriteTouches
    <3> QED
      BY <1>1, <1>3, <2>3, <3>1, RewritePart, ReplaceEnriches
  <2>4. withdrawn' = withdrawn
    BY <1>3, RewriteTouches
  <2> QED
    BY <1>1, <2>1, <2>2, <2>3, <2>4
<1>4. ASSUME NEW w \in Workers, Request(w) \/ Handle(w) \/ ReleaseRun(w) PROVE Mapped
  BY <1>1, <1>4, RequestMoves
     DEF Handle, CheckUnfinished, PlanAndClaim, AutoCheckUnfinished, AutoClaim, Claim,
         RefuseRun, ClaimResume, ReleaseRun, allButTask, pgVars, chVars, bounds
<1>5. ASSUME Recover PROVE Mapped
  BY <1>1, <1>5 DEF Recover, ListOrphans, ReconcileOrphan, SkipOrphan, Rerun, SkipRerun, pgVars,
                    chVars, bounds
<1>6. ASSUME NEW w \in Workers, FailToStart(w) \/ Fail(w) PROVE Mapped
  BY <1>1, <1>6 DEF FailToStart, Fail, pgVars, chVars
<1>7. ASSUME Crash \/ UNCHANGED vars PROVE Mapped
  BY <1>1, <1>7 DEF Crash, vars, pgVars, chVars, bounds
<1> HIDE DEF Mapped
<1>8. ASSUME Background PROVE Mapped
  BY <1>8, BackgroundWithdraws DEF Mapped
<1>9. Mapped
  BY <1>2, <1>3, <1>4, <1>5, <1>6, <1>7, <1>8
     DEF Next, Apply, Rewrite, Environment, Background
<1> QED
  BY <1>9 DEF Mapped

\* Whatever runs, fails, crashes, recovers and is deleted: the derived keys of an
\* enricher on a source only change in one swap that touches nothing else, and a
\* provenance row is only written over events that carry exactly what it claims,
\* but for the sources a delete was requested for, which no other source notices
\* (_apply_staged_rows, record_source_enrichment, delete_source).
THEOREM EvidenceIsImplemented == Spec => ImplementsEvidence
<1>1. Init => Evidence!Init
  BY DEF Init, Evidence!Init
<1>2. Inductive /\ EvidenceInv /\ [Next]_vars => [Evidence!Next]_(Evidence!evidence)
  BY EvidenceStep DEF Evidence!evidence, Certified
<1> QED
  BY <1>1, <1>2, AppliesWriteWholeScans, PTL
     DEF Spec, ScansAreWhole, ImplementsEvidence, Evidence!Spec
=============================================================================
