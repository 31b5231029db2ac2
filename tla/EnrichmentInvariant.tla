------------------------- MODULE EnrichmentInvariant -------------------------
(***************************************************************************)
(* The inductive invariant of Enrichment, in parts: what the safety         *)
(* invariants rest on.  The instances check it, EnrichmentProofs proves it. *)
(***************************************************************************)
EXTENDS Enrichment

\* The fields of a task that its pc says are set, and are set to the key of
\* its job.
TaskShape(w) ==
    /\ task[w].pc # "idle" => task[w].key \in Keys
    /\ task[w].pc \in JobPCs \cup {"claim"} =>
           task[w].job \in used /\ jobKey[task[w].job] = task[w].key
    /\ task[w].pc \in {"read", "write", "mark"} \cup ApplyPCs => task[w].cur \in Sources
    /\ task[w].pc = "write" => task[w].batch \in Batches

\* Job ids are minted once, with their key, and never forgotten.
Shape ==
    /\ markers \cup orphans \cup recovered \subseteq used
    /\ \A j \in used : jobKey[j] \in Keys
    /\ \A w \in Workers : TaskShape(w)

\* A slot names a job of its own key; one task per run slot, hence per job.
SlotInv ==
    /\ LiveRunHoldsSlot
    /\ \A k \in Keys : slot[k] # None => slot[k] \in used /\ jobKey[slot[k]] = k
    /\ \A v, w \in Workers : v # w /\ Active(v) /\ Active(w) => task[v].key # task[w].key

\* An apply holds the lock of the source it rewrites.
LockInv == \A w \in Workers : Applying(w) => lock[task[w].cur] = w

\* A job has its marker while it stages, and its apply still has every source
\* with staged rows ahead of it, or in hand until they are deleted.
StageInv ==
    /\ NoStrandedStaging
    /\ \A w \in Workers :
           task[w].pc \in {"open", "read", "write", "mark"} => task[w].job \in markers
    /\ \A w \in Workers, s \in Sources :
           task[w].pc \in {"lock"} \cup ApplyPCs /\ staged[task[w].job][s] # {} =>
               \/ s \in task[w].todo
               \/ task[w].pc \in ApplyPCs \ {"stats"} /\ s = task[w].cur

\* A job has no version until its marker is written.
LeakInv ==
    /\ OnlyUnstartedRunsLeakSlots
    /\ \A w \in Workers : task[w].pc = "begin" => jobVersion[task[w].job] = 0
    /\ \A j \in Jobs \ used : jobVersion[j] = 0

\* The conjunction, which every step preserves.
Inductive ==
    /\ TypeOK /\ Shape /\ SlotInv
    /\ LockInv /\ StageInv /\ LeakInv

-----------------------------------------------------------------------------
(* What the refinement of EnrichedEvidence rests on, for the sources nobody  *)
(* has asked to delete.                                                      *)

Kept == Sources \ withdrawn

ScanPCs == {"begin", "open", "read", "write", "mark"}
\* From the page loop, which found rows, until they are deleted.
CopiedPCs == {"copy", "swap", "recheck", "record", "clear"}

\* What job j stages for a source it has read to the end.
Full(j) == Resolves[jobKey[j][2]][jobVersion[j]]
Whole(j, s) == staged[j][s] = {} \/ staged[j][s] = Full(j)

Present ==
    \A s \in Kept : s \in sources /\ deleting[s] = "no" /\ DOMAIN part[s] = Batches

\* A job that was not created yet has left no trace.
Untouched == \A j \in Jobs \ used : completed[j] = {} /\ \A s \in Sources : staged[j][s] = {}

\* Whatever refers to a job, but a task about to start it, sees its version.
Pinned ==
    /\ \A j \in markers \cup orphans : jobVersion[j] # 0
    /\ \A w \in Workers : task[w].pc \in (JobPCs \ {"begin"}) \cup {"claim"} =>
           jobVersion[task[w].job] # 0
    /\ \A s \in Sources, e \in Enrichers : prov[s][e] # None => jobVersion[prov[s][e]] # 0

\* A source that is marked completed is staged to its last event, or applied.
MarkedAreWhole ==
    /\ \A j \in Jobs : \A s \in completed[j] \ withdrawn : Whole(j, s)
    /\ \A j \in Jobs : snap[j] \subseteq completed[j]
    /\ \A w \in Workers : task[w].kind \in {"resume", "reconcile"} =>
           task[w].job \in Jobs /\ task[w].done \subseteq completed[task[w].job]

\* How far the scan of a run is.
ScanIsInStep(w) ==
    LET t == task[w] IN
    t.pc \in ScanPCs =>
        /\ t.kind = "run"
        /\ completed[t.job] \subseteq t.done
        /\ t.done \cap t.todo = {}
        /\ \A s \in Kept \cap t.todo :
               s # t.cur \/ t.pc \notin {"read", "write"} => staged[t.job][s] = {}
        /\ \A s \in Kept \ t.todo : Whole(t.job, s)
        /\ t.pc = "begin" => \A s \in Kept : staged[t.job][s] = {}
        /\ t.pc \in {"read", "write"} => t.cur \in t.todo
        /\ t.pc = "read" /\ t.cur \in Kept =>
               staged[t.job][t.cur] = t.seen \cap Full(t.job)
        /\ t.pc = "write" /\ t.cur \in Kept =>
               staged[t.job][t.cur] \cup ({t.batch} \cap Full(t.job)) = t.seen \cap Full(t.job)
        /\ t.pc = "mark" => t.cur \in t.done

\* What provenance will be granted for is whole.
GrantIsWhole(w) ==
    LET t == task[w] IN
    /\ t.pc \in HandlerPCs \ {"claim"} => t.kind = "run" /\ t.done = {}
    /\ t.pc = "claim" => t.kind = "resume"
    /\ t.pc = "list" => t.kind # "run"
    /\ t.pc \in JobPCs => t.kind # "none"
    /\ t.kind = "run" /\ t.pc \in {"lock"} \cup ApplyPCs => \A s \in Kept : Whole(t.job, s)
    /\ t.kind = "cleanup" /\ t.pc \in JobPCs => \A s \in t.done \ withdrawn : Whole(t.job, s)

\* The scratch tables hold what is staged, then the partition does.
CopyIsRight(w) ==
    LET j == task[w].job
        s == task[w].cur
        e == task[w].key[2]
    IN
    s \in Kept =>
        /\ task[w].pc # "undo"
        /\ task[w].pc \in CopiedPCs => staged[j][s] # {}
        /\ task[w].pc \in {"copy", "swap"} => rowsTbl[j] = staged[j][s]
        /\ task[w].pc = "swap" => eventsTbl[j] = Merge(part[s], staged[j][s], e, jobVersion[j])
        /\ task[w].pc \in {"recheck", "record"} =>
               \A b \in Batches : part[s][b][e] = IF b \in staged[j][s] THEN jobVersion[j] ELSE 0

\* The work of each task is in step with what it has staged and copied.
InStep(w) == ScanIsInStep(w) /\ GrantIsWhole(w) /\ CopyIsRight(w)

EvidenceInv ==
    /\ Present /\ Untouched /\ Pinned /\ MarkedAreWhole
    /\ \A w \in Workers : InStep(w)

\* What an apply writes, and what it is allowed to certify, is what a complete
\* scan staged, on every source nobody asked to delete: across the scan, its
\* marks in Postgres, failures, resumes and recoveries (run_enrichment_job,
\* _apply_staged_rows).  It takes the inductive invariant to be preserved.
ScansAreWhole == Inductive /\ EvidenceInv

-----------------------------------------------------------------------------
(* What ProvenanceDescribesPartition rests on, until something fails.        *)

\* Nothing but the run that staged them applies staged rows.  A resume that was
\* let in when its run had just ended finds none.
AppliesItsOwn(w) ==
    /\ task[w].kind \in {"none", "run", "resume"} /\ task[w].pc # "abort"
    /\ task[w].kind = "resume" => task[w].pc \notin ApplyPCs
    /\ task[w].kind = "resume" /\ task[w].pc = "lock" => task[w].todo = {}
    /\ task[w].pc = "release" => \A s \in Sources : staged[task[w].job][s] = {}

HasItsRun(j) == \E w \in Workers : Active(w) /\ task[w].kind = "run" /\ task[w].job = j

RunsApplyTheirOwn ==
    /\ orphans = {} /\ boot = "up"
    /\ \A w \in Workers : AppliesItsOwn(w)
    /\ \A j \in Jobs, s \in Sources : staged[j][s] # {} => HasItsRun(j)

\* Between the swap and the row that describes it.
IsRewriting(w, s, e) ==
    task[w].pc \in {"recheck", "record"} /\ task[w].cur = s /\ task[w].key[2] = e

Described(s, e) ==
    \A b \in DOMAIN part[s] : part[s][b][e] = Output(e, jobVersion[prov[s][e]], b)

RowsDescribe ==
    \A s \in Kept, e \in Enrichers : prov[s][e] # None =>
        Described(s, e) \/ \E w \in Workers : IsRewriting(w, s, e)

ProvenanceInv == fails = 0 /\ crashes = 0 => RunsApplyTheirOwn /\ RowsDescribe

-----------------------------------------------------------------------------
(* What StaleStatsAreRefreshed rests on, until somebody fills field stats.   *)

\* From the swap that outdates the row to the refresh.
HasOutdated(w, s) ==
    task[w].pc \in {"recheck", "record", "clear", "stats"} /\ task[w].cur = s

HasRowsToApply(s) == \E j \in markers : staged[j][s] # {}

StatsInv ==
    fills = 0 =>
        /\ \A s \in Sources : fill[s] = "none"
        /\ crashes = 0 => \A s \in Kept : stats[s] = "stale" =>
               HasRowsToApply(s) \/ \E w \in Workers : HasOutdated(w, s)
=============================================================================
