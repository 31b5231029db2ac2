-------------------------------- MODULE Ingest --------------------------------
(***************************************************************************)
(* The life of a source: the upload route and its background ingestion job  *)
(* (api/routers/cases.py), the retained original (core/retention.py), the   *)
(* delete route, and the reconciliation of interrupted ingests that runs    *)
(* after a boot while the app serves (api/main.py).                         *)
(*                                                                          *)
(*   Postgres     source rows, one per (case, file hash)                    *)
(*   ClickHouse   one partition of events per source                        *)
(*   disk         one retained file per hash, shared by all cases           *)
(*                                                                          *)
(* An upload is one coroutine: it registers the source, then becomes the    *)
(* job.  Its source id is minted by it, so uploads and sources have the     *)
(* same names.  Each action is the code between two awaits.                 *)
(***************************************************************************)
EXTENDS Naturals, FiniteSets

CONSTANTS
    Uploads,
    Cases,
    Hashes,
    CaseOf, HashOf,   \* the case an upload goes to, the hash of its bytes
    Size,             \* inserts it takes to ingest a file
    RetainWays,       \* os.link may work ("link"), or fail ("copy")
    None,
    MaxFails, MaxCrashes, MaxDeletes   \* bounds on the environment

ASSUME IngestAssumption ==
    /\ IsFiniteSet(Uploads) /\ None \notin Uploads
    /\ CaseOf \in [Uploads -> Cases]
    /\ HashOf \in [Uploads -> Hashes]
    /\ Size \in Nat \ {0}
    /\ RetainWays \subseteq {"link", "copy"}
    /\ {MaxFails, MaxCrashes, MaxDeletes} \subseteq Nat

VARIABLES
    row,        \* row[u]: the source row, "none" | "ingesting" | "ready"
    counted,    \* counted[u]: its event_count
    events,     \* events[u]: the events of its partition
    kept,       \* kept[h]: the retained file, "absent" | "partial" | "whole"
    pc,         \* pc[u]: where upload u is
    sent,       \* sent[u]: what its pipeline has inserted
    deleting,   \* deleting[u]: a delete request, "no" | "drop" | "row"
    boot,       \* startup recovery: "boot" | "up"
    orphans,    \* the ingesting sources it listed and has not come to
    orphan, step,   \* the one it is removing, and how far it is
    fails, crashes, deletes

reqVars  == <<pc, sent>>
recVars  == <<boot, orphans, orphan, step>>
bounds   == <<fails, crashes, deletes>>
vars     == <<row, counted, events, kept, reqVars, deleting, recVars, bounds>>

RegisterPCs == {"check", "retain", "copy", "create", "timeline"}
JobPCs      == {"connect", "insert", "count", "mark", "after"}
UndoPCs     == {"events", "row", "hash", "file"}

Live(u) == pc[u] \in RegisterPCs \cup JobPCs \cup UndoPCs

-----------------------------------------------------------------------------
(***************************************************************************)
(* The tests and choices.  Those named X_Y are faulty variants of X, kept   *)
(* to see that the properties tell them apart.                              *)
(***************************************************************************)

\* get_source_by_hash, and the unique index behind it.
Duplicate(u) ==
    \E v \in Uploads \ {u} :
        row[v] # "none" /\ CaseOf[v] = CaseOf[u] /\ HashOf[v] = HashOf[u]

\* source_hash_in_use: another row, of any case, refers to the file.
InUse(u) == \E v \in Uploads \ {u} : row[v] # "none" /\ HashOf[v] = HashOf[u]

\* Where an exception leads: the request fails before there is a row, the
\* registration is rolled back, the job is rolled back, and a rollback goes on
\* after a failed event delete but not after a failed row delete.
Handler_KeepEvents(p) ==
    IF p \in JobPCs \cup {"timeline", "events"} THEN "row" ELSE "done"
Handler(p) ==
    CASE p \in {"insert", "count", "mark", "after"} -> "events"
      [] p \in {"timeline", "events"}               -> "row"
      [] OTHER                                      -> "done"

\* list_ingesting_sources.
Ingesting_Counted == {u \in Uploads : row[u] = "ingesting" /\ counted[u] > 0}
Ingesting == {u \in Uploads : row[u] = "ingesting"}

\* The orphans that are still tried when one could not be removed.
OtherOrphans_None == {}
OtherOrphans == orphans

\* When the pipeline is done with the file.
Drained_LastBatchLost(u) == sent[u] + 1 >= Size
Drained(u) == sent[u] = Size

Goto(u, p) == pc' = [pc EXCEPT ![u] = p]

-----------------------------------------------------------------------------
Init ==
    /\ row = [u \in Uploads |-> "none"]
    /\ counted = [u \in Uploads |-> 0]
    /\ events = [u \in Uploads |-> 0]
    /\ kept = [h \in Hashes |-> "absent"]
    /\ pc = [u \in Uploads |-> "idle"]
    /\ sent = [u \in Uploads |-> 0]
    /\ deleting = [u \in Uploads |-> "no"]
    /\ boot = "up" /\ orphans = {} /\ orphan = None /\ step = "events"
    /\ fails = 0 /\ crashes = 0 /\ deletes = 0

-----------------------------------------------------------------------------
(***************************************************************************)
(* upload_source and register_source_for_ingest.                            *)
(***************************************************************************)

\* The upload is received into a temp file and hashed.
UploadSource(u) ==
    /\ pc[u] = "idle"
    /\ Goto(u, "check")
    /\ UNCHANGED <<row, counted, events, kept, sent, deleting, recVars, bounds>>

CheckDuplicate(u) ==
    /\ pc[u] = "check"
    /\ Goto(u, IF Duplicate(u) THEN "done" ELSE "retain")
    /\ UNCHANGED <<row, counted, events, kept, sent, deleting, recVars, bounds>>

\* Unknown format, or a broken Parquet footer: a 400.
RejectFile(u) ==
    /\ pc[u] = "retain"
    /\ Goto(u, "done")
    /\ UNCHANGED <<row, counted, events, kept, sent, deleting, recVars, bounds>>

\* retain_file: an existing file is taken for the same bytes, a hard link is
\* made in one step, a copy is not.
RetainFile(u) ==
    LET h == HashOf[u] IN
    /\ pc[u] = "retain"
    /\ \/ kept[h] # "absent" /\ Goto(u, "create") /\ UNCHANGED kept
       \/ /\ kept[h] = "absent" /\ "link" \in RetainWays
          /\ kept' = [kept EXCEPT ![h] = "whole"]
          /\ Goto(u, "create")
       \/ /\ kept[h] = "absent" /\ "copy" \in RetainWays
          /\ kept' = [kept EXCEPT ![h] = "partial"]
          /\ Goto(u, "copy")
    /\ UNCHANGED <<row, counted, events, sent, deleting, recVars, bounds>>

\* The copy ends; the file it wrote may have been unlinked meanwhile.
FinishCopy(u) ==
    /\ pc[u] = "copy"
    /\ kept' = [kept EXCEPT ![HashOf[u]] = IF @ = "absent" THEN "absent" ELSE "whole"]
    /\ Goto(u, "create")
    /\ UNCHANGED <<row, counted, events, sent, deleting, recVars, bounds>>

\* create_source, or the duplicate answer to an IntegrityError.
CreateSource(u) ==
    /\ pc[u] = "create"
    /\ \/ Duplicate(u) /\ Goto(u, "done") /\ UNCHANGED row
       \/ /\ ~ Duplicate(u)
          /\ row' = [row EXCEPT ![u] = "ingesting"]
          /\ Goto(u, "timeline")
    /\ UNCHANGED <<counted, events, kept, sent, deleting, recVars, bounds>>

\* The default timeline lists the source, and the job is scheduled.
AddToTimeline(u) ==
    /\ pc[u] = "timeline"
    /\ Goto(u, "connect")
    /\ UNCHANGED <<row, counted, events, kept, sent, deleting, recVars, bounds>>

-----------------------------------------------------------------------------
(***************************************************************************)
(* _run_ingestion_job.                                                      *)
(***************************************************************************)

\* ClickHouseStore(), before the try.
Connect(u) ==
    /\ pc[u] = "connect"
    /\ Goto(u, "insert")
    /\ UNCHANGED <<row, counted, events, kept, sent, deleting, recVars, bounds>>

\* IngestionPipeline, one insert.
InsertEvents(u) ==
    /\ pc[u] = "insert"
    /\ ~ Drained(u)
    /\ events' = [events EXCEPT ![u] = @ + 1]
    /\ sent' = [sent EXCEPT ![u] = @ + 1]
    /\ UNCHANGED <<row, counted, kept, pc, deleting, recVars, bounds>>

FinishPipeline(u) ==
    /\ pc[u] = "insert"
    /\ Drained(u)
    /\ Goto(u, "count")
    /\ UNCHANGED <<row, counted, events, kept, sent, deleting, recVars, bounds>>

\* Both updates are no-ops on a row that is gone.
UpdateSourceCounts(u) ==
    /\ pc[u] = "count"
    /\ counted' = IF row[u] # "none" THEN [counted EXCEPT ![u] = @ + sent[u]] ELSE counted
    /\ Goto(u, "mark")
    /\ UNCHANGED <<row, events, kept, sent, deleting, recVars, bounds>>

SetSourceReady(u) ==
    /\ pc[u] = "mark"
    /\ row' = IF row[u] # "none" THEN [row EXCEPT ![u] = "ready"] ELSE row
    /\ Goto(u, "after")
    /\ UNCHANGED <<counted, events, kept, sent, deleting, recVars, bounds>>

\* Field stats, columns, enrichments: isolated.  The check of the field
\* mappings is not, its exception reaches the rollback.
FinishIngest(u) ==
    /\ pc[u] = "after"
    /\ Goto(u, "done")
    /\ UNCHANGED <<row, counted, events, kept, sent, deleting, recVars, bounds>>

-----------------------------------------------------------------------------
(***************************************************************************)
(* The four steps that take a source out again: p is where the actor that   *)
(* takes them is, go(q) moves it on.                                        *)
(***************************************************************************)
DropPartition(u) == events' = [events EXCEPT ![u] = 0] /\ UNCHANGED <<row, counted, kept>>

DropRow(u) ==
    /\ row' = [row EXCEPT ![u] = "none"]
    /\ counted' = [counted EXCEPT ![u] = 0]
    /\ UNCHANGED <<events, kept>>

Unlink(u) == kept' = [kept EXCEPT ![HashOf[u]] = "absent"] /\ UNCHANGED <<row, counted, events>>

\* The step p of taking u out, and the step after it.
Undo(u, p, next) ==
    \/ p = "events" /\ DropPartition(u) /\ next = "row"
    \/ p = "row" /\ DropRow(u) /\ next = "hash"
    \/ p = "hash" /\ InUse(u) /\ next = "done" /\ UNCHANGED <<row, counted, events, kept>>
    \/ p = "hash" /\ ~ InUse(u) /\ next = "file" /\ UNCHANGED <<row, counted, events, kept>>
    \/ p = "file" /\ Unlink(u) /\ next = "done"

\* The rollback of a registration or of a job.
RollBack(u) ==
    \E next \in UndoPCs \cup {"done"} :
        /\ pc[u] \in UndoPCs
        /\ Undo(u, pc[u], next)
        /\ Goto(u, next)
        /\ UNCHANGED <<sent, deleting, recVars, bounds>>

\* A database, disk or parser call raises.
Fail(u) ==
    /\ Live(u)
    /\ fails < MaxFails /\ fails' = fails + 1
    /\ Goto(u, Handler(pc[u]))
    /\ UNCHANGED <<row, counted, events, kept, sent, deleting, recVars, crashes, deletes>>

-----------------------------------------------------------------------------
(***************************************************************************)
(* _reconcile_orphaned_ingests, in the background of a boot.                *)
(***************************************************************************)
ListIngesting ==
    /\ boot = "boot"
    /\ boot' = "up"
    /\ orphans' = Ingesting
    /\ UNCHANGED <<row, counted, events, kept, reqVars, deleting, orphan, step, bounds>>

TakeOrphan(u) ==
    /\ orphan = None
    /\ u \in orphans
    /\ orphan' = u /\ step' = "events"
    /\ orphans' = orphans \ {u}
    /\ UNCHANGED <<row, counted, events, kept, reqVars, deleting, boot, bounds>>

RemoveOrphan ==
    \E next \in UndoPCs \cup {"done"} :
        /\ orphan # None
        /\ Undo(orphan, step, next)
        /\ \/ next = "done" /\ orphan' = None /\ UNCHANGED step
           \/ next # "done" /\ step' = next /\ UNCHANGED orphan
        /\ UNCHANGED <<reqVars, deleting, boot, orphans, bounds>>

\* ClickHouse cannot be reached, or one orphan cannot be removed: what is left
\* waits for the next boot.
FailRecovery ==
    /\ fails < MaxFails /\ fails' = fails + 1
    /\ \/ boot = "boot" /\ boot' = "up" /\ UNCHANGED <<orphan, orphans>>
       \/ orphan # None /\ orphan' = None /\ orphans' = OtherOrphans /\ UNCHANGED boot
    /\ UNCHANGED <<row, counted, events, kept, reqVars, deleting, step, crashes,
                   deletes>>

-----------------------------------------------------------------------------
(***************************************************************************)
(* The delete route, and the crash.                                         *)
(***************************************************************************)
DeleteSource(u) ==
    /\ row[u] # "none" /\ deleting[u] = "no"
    /\ deletes < MaxDeletes /\ deletes' = deletes + 1
    /\ deleting' = [deleting EXCEPT ![u] = "drop"]
    /\ UNCHANGED <<row, counted, events, kept, reqVars, recVars, fails, crashes>>

DeleteSourceEvents(u) ==
    /\ deleting[u] = "drop"
    /\ DropPartition(u)
    /\ deleting' = [deleting EXCEPT ![u] = "row"]
    /\ UNCHANGED <<reqVars, recVars, bounds>>

\* 502: the row stays.
AbortDelete(u) ==
    /\ deleting[u] # "no"
    /\ deleting' = [deleting EXCEPT ![u] = "no"]
    /\ UNCHANGED <<row, counted, events, kept, reqVars, recVars, bounds>>

\* The retained file stays.
DeleteSourceRow(u) ==
    /\ deleting[u] = "row"
    /\ DropRow(u)
    /\ deleting' = [deleting EXCEPT ![u] = "no"]
    /\ UNCHANGED <<reqVars, recVars, bounds>>

\* Requests and jobs die, a copy that was being written stays as it is.
Crash ==
    /\ crashes < MaxCrashes /\ crashes' = crashes + 1
    /\ pc' = [u \in Uploads |-> IF Live(u) THEN "done" ELSE pc[u]]
    /\ deleting' = [u \in Uploads |-> "no"]
    /\ boot' = "boot" /\ orphans' = {} /\ orphan' = None /\ step' = "events"
    /\ UNCHANGED <<row, counted, events, kept, sent, fails, deletes>>

-----------------------------------------------------------------------------
Work(u) ==
    \/ CheckDuplicate(u) \/ RetainFile(u) \/ FinishCopy(u)
    \/ CreateSource(u) \/ AddToTimeline(u)
    \/ Connect(u) \/ InsertEvents(u) \/ FinishPipeline(u)
    \/ UpdateSourceCounts(u) \/ SetSourceReady(u) \/ FinishIngest(u)
    \/ RollBack(u)

Recover == ListIngesting \/ (\E u \in Uploads : TakeOrphan(u)) \/ RemoveOrphan

Environment ==
    \/ \E u \in Uploads :
           \/ UploadSource(u) \/ RejectFile(u) \/ Fail(u)
           \/ DeleteSource(u) \/ DeleteSourceEvents(u)
           \/ AbortDelete(u) \/ DeleteSourceRow(u)
    \/ FailRecovery
    \/ Crash

Next == (\E u \in Uploads : Work(u)) \/ Recover \/ Environment

Spec == Init /\ [][Next]_vars

\* Scheduled coroutines run, and what they await returns or raises.  Uploads,
\* deletes, failures and crashes are never owed.
Fairness == WF_vars(Recover) /\ \A u \in Uploads : WF_vars(Work(u))

FairSpec == Spec /\ Fairness

-----------------------------------------------------------------------------
(***************************************************************************)
(* Properties.                                                              *)
(***************************************************************************)

\* Every variable has its type.
TypeOK ==
    /\ row \in [Uploads -> {"none", "ingesting", "ready"}]
    /\ counted \in [Uploads -> Nat]
    /\ events \in [Uploads -> Nat]
    /\ kept \in [Hashes -> {"absent", "partial", "whole"}]
    /\ pc \in [Uploads -> {"idle", "done"} \cup RegisterPCs \cup JobPCs \cup UndoPCs]
    /\ sent \in [Uploads -> 0 .. Size]
    /\ deleting \in [Uploads -> {"no", "drop", "row"}]
    /\ boot \in {"boot", "up"}
    /\ orphans \in SUBSET Uploads
    /\ orphan \in Uploads \cup {None}
    /\ step \in UndoPCs
    /\ {fails, crashes, deletes} \subseteq Nat

\* Somebody is taking the source out.
BeingRemoved(u) == pc[u] \in UndoPCs \/ orphan = u \/ deleting[u] # "no"

\* Only uploads touch the sources, and no rollback fails in its turn: no
\* delete so far, no boot recovery, and one failure at most.
Undisturbed == crashes = 0 /\ deletes = 0 /\ fails <= 1

\* A source that timeline queries and detectors can see has all its events,
\* and its row says how many.  A delete or a rollback that fails half way, and a
\* recovery that mistakes a new upload for a dead one, can break it.
ReadyIsComplete ==
    \A u \in Uploads :
        row[u] = "ready" /\ ~ BeingRemoved(u) /\ Undisturbed =>
            events[u] = Size /\ counted[u] = Size

\* "A failed upload leaves no half-populated source behind": events without a
\* row belong to nobody once no one is at work on the source.
NoOrphanEvents ==
    \A u \in Uploads :
        row[u] = "none" /\ ~ Live(u) /\ ~ BeingRemoved(u) /\ Undisturbed =>
            events[u] = 0

\* The original of a source can be downloaded as it was uploaded.
OriginalIsKept ==
    \A u \in Uploads : row[u] = "ready" => kept[HashOf[u]] = "whole"

\* Recovery after a boot only removes uploads that died with the process.
RecoveryRemovesDeadIngests ==
    [][orphan # None /\ step = "row" /\ step' = "hash" /\ row[orphan] # "none" =>
           pc[orphan] = "done"]_vars

\* As long as nothing fails no source stays "ingesting" for ever: nothing else
\* would flip it, and every upload of the same bytes would be answered
\* "duplicate, still ingesting".
IngestsSettle ==
    \A u \in Uploads :
        row[u] = "ingesting" /\ fails = 0 ~> row[u] # "ingesting" \/ fails > 0

\* An orphan that cannot be removed does not stop the rest of the batch: when
\* only one step may fail, one of two orphans is removed by the same boot.
\* (For MaxFails and MaxCrashes 1.)
OrphansAreTriedIndependently ==
    \A u, v \in Uploads :
        u # v /\ {u, v} \subseteq orphans ~> row[u] = "none" \/ row[v] = "none"
=============================================================================
