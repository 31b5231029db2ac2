---------------------------- MODULE ConverterJob ----------------------------
(***************************************************************************)
(* Generated converters (converters/job.py): the background jobs that turn *)
(* one raw log into a source, each through a script a model writes for it  *)
(* (a generation) or through a script that is already saved (a reuse).     *)
(*                                                                         *)
(* All jobs convert the same raw file in one case.  They share the script  *)
(* rows and their attempt trails, the sources and the one retained copy of *)
(* the raw file, which is content-addressed; everything else is a job's    *)
(* own.  A generation's row is named after its job, a source after the job *)
(* that registered it.  The ingestion of the produced file is module       *)
(* Ingest; here it succeeds or takes its source back.                      *)
(***************************************************************************)
EXTENDS Naturals, FiniteSets, FiniteSetsExt

CONSTANTS Generations, \* jobs that have a script written
          Reuses,      \* jobs that run a saved script again
          Saved,       \* working scripts written from other raw files
          None,
          MaxAttempts, \* converter_max_attempts
          MaxUpsets    \* bound: faults, restarts and deletes together

ASSUME ConverterAssumption ==
    /\ IsFiniteSet(Generations \union Saved) /\ None \notin Generations \union Saved
    /\ Generations \intersect (Reuses \union Saved) = {}
    /\ {MaxAttempts, MaxUpsets} \subseteq Nat

Jobs == Generations \union Reuses
Scripts == Generations \union Saved

VARIABLES job,     \* what each job keeps in memory
          script,  \* the converter_scripts rows
          trail,   \* the last attempt each job recorded on each row
          source,  \* the sources rows, by the job that registered them
          raw,     \* is the raw file retained?
          fate,    \* how each job ended
          raced,   \* was the copy taken while another job counted on it?
          faults,  \* steps that raised
          restarts, deletes

bounds == <<faults, restarts, deletes>>
vars == <<job, script, trail, source, raw, fate, raced, bounds>>

NoRow == [status |-> "none", name |-> "none", version |-> 0]
Fresh(j) ==
    [pc |-> "queued", script |-> None, attempts |-> 0, name |-> "none",
     version |-> 1, declared |-> 0, buffered |-> FALSE, sent |-> FALSE,
     created |-> FALSE]

Init ==
    /\ job = [j \in Jobs |-> Fresh(j)]
    /\ script = [s \in Scripts |->
                    IF s \in Saved
                    THEN [status |-> "working", name |-> "saved", version |-> 1]
                    ELSE NoRow]
    /\ trail = [s \in Scripts |-> [j \in Jobs |-> "none"]]
    /\ source = [j \in Jobs |-> "none"]
    /\ raw = FALSE
    /\ fate = [j \in Jobs |-> "none"]
    /\ raced = FALSE
    /\ faults = 0 /\ restarts = 0 /\ deletes = 0

-----------------------------------------------------------------------------
(* What the jobs ask the database.                                         *)

Upsettable == faults + restarts + deletes < MaxUpsets
At(j, pc) == job[j].pc = pc
Set(j, r) == job' = [job EXCEPT ![j] = r]
Goto(j, pc) == Set(j, [job[j] EXCEPT !.pc = pc])

(* Past the drafting, only the row, the copy and what was sent matter; at  *)
(* the end, the copy no longer does.                                       *)
Past(j, pc) ==
    [Fresh(j) EXCEPT !.pc = pc, !.script = job[j].script, !.sent = job[j].sent,
                     !.created = job[j].created]
Leave(j, pc) == Set(j, Past(j, pc))
Over(j, pc) == [Past(j, pc) EXCEPT !.created = FALSE]
End(j) == Set(j, Over(j, "ended"))

(* next_converter_version: a plain read.                                   *)
NextVersion(name) ==
    1 + Max({0} \union {script[s].version : s \in {x \in Scripts : script[x].name = name}})

(* The unique index (case, name, version).                                 *)
Taken(name, version) ==
    \E s \in Scripts : script[s].name = name /\ script[s].version = version

(* get_source_by_converter_input, and the unique index behind it.          *)
Converted_Never(s) == FALSE
Converted(s) == \E j \in Jobs : source[j] # "none" /\ job[j].script = s

(* A script written from the raw file, or a source converted from it; and  *)
(* source_hash_in_use, which asks for either.                              *)
Referenced ==
    \/ \E g \in Generations : script[g].status # "none"
    \/ \E j \in Jobs : source[j] # "none"
InUse_BySource == \E j \in Jobs : source[j] # "none"
InUse == Referenced

(* _Trail.record: on the row, or buffered until there is one.              *)
Record(j, r, entry) ==
    IF r.script = None
    THEN Set(j, [r EXCEPT !.buffered = TRUE]) /\ UNCHANGED trail
    ELSE Set(j, r) /\ trail' = [trail EXCEPT ![r.script][j] = entry]

(* A job that has asked is about to unlink the copy this one refers to.     *)
Refers == raced' = (raced \/ \E k \in Jobs : At(k, "unlinking"))

(* _Retention.ensure: the job that found no copy will take its own back.   *)
Ensure(j, pc) ==
    /\ Set(j, [job[j] EXCEPT !.pc = pc, !.created = @ \/ ~raw])
    /\ raw' = TRUE

-----------------------------------------------------------------------------
(* A generation, up to a script that passes on the sample.                 *)

StartGeneration(g) ==
    /\ At(g, "queued")
    /\ Goto(g, "drafting")
    /\ UNCHANGED <<script, trail, source, raw, fate, raced, bounds>>

(* A regeneration starts from a row whose raw file is retained, with its   *)
(* name and the next version of it.                                        *)
Regenerate(g, parent) ==
    /\ At(g, "queued") /\ script[parent].status # "none" /\ raw
    /\ Set(g, [job[g] EXCEPT !.pc = "drafting", !.name = script[parent].name,
                             !.version = NextVersion(script[parent].name)])
    /\ UNCHANGED <<script, trail, source, raw, fate, raced, bounds>>

Drafting(g) == At(g, "drafting") /\ job[g].attempts < MaxAttempts
Attempted(g) == [job[g] EXCEPT !.attempts = @ + 1]

(* The probe finds no endpoint, before anything is sent.                   *)
ModelUnavailable(g) ==
    /\ Drafting(g)
    /\ Record(g, [Attempted(g) EXCEPT !.pc = "exhausted"], "bad")
    /\ UNCHANGED <<script, source, raw, fate, raced, bounds>>

ModelError(g) ==
    /\ Drafting(g)
    /\ Record(g, [Attempted(g) EXCEPT !.sent = TRUE], "bad")
    /\ UNCHANGED <<script, source, raw, fate, raced, bounds>>

(* A draft declares the version its prompt asked for; the first one also   *)
(* proposes the name, under which the next version is then read.           *)
DraftArrives(g) ==
    /\ Drafting(g)
    /\ Set(g, [Attempted(g) EXCEPT !.sent = TRUE, !.declared = job[g].version,
                  !.pc = IF job[g].script = None THEN "retaining" ELSE "judging",
                  !.version = IF job[g].name = "none" THEN NextVersion("proposed") ELSE @,
                  !.name = IF @ = "none" THEN "proposed" ELSE @])
    /\ UNCHANGED <<script, trail, source, raw, fate, raced, bounds>>

RetainForRow(g) ==
    /\ At(g, "retaining")
    /\ Ensure(g, "creating")
    /\ UNCHANGED <<script, trail, source, fate, raced, bounds>>

(* _create_row: a version lost to another job is read anew.  The eighth one *)
(* lost raises, with the draft and no row: a Fault at "creating".          *)
CreateRow(g) ==
    /\ At(g, "creating")
    /\ IF Taken(job[g].name, job[g].version)
       THEN /\ Set(g, [job[g] EXCEPT !.version = NextVersion(job[g].name)])
            /\ UNCHANGED <<script, raced>>
       ELSE /\ Refers
            /\ script' = [script EXCEPT ![g] =
                  [status |-> IF job[g].declared = 0 THEN "failed" ELSE "generating",
                   name |-> job[g].name, version |-> job[g].version]]
            /\ Goto(g, "binding")
    /\ UNCHANGED <<trail, source, raw, fate, bounds>>

(* A draft that declared another version than the row got is asked for     *)
(* again, which does not count as an attempt.                              *)
AskAgain_Never(r) == FALSE
AskAgain(r) == r.version # r.declared

(* _Trail.bind flushes the buffer, then the row's id is published.         *)
Bind(g) ==
    LET r == [job[g] EXCEPT !.script = g, !.buffered = FALSE]
    IN  /\ At(g, "binding")
        /\ Set(g, CASE r.declared = 0 -> [Past(g, "releasing") EXCEPT !.script = g]
                    [] r.declared # 0 /\ AskAgain(r) ->
                          [r EXCEPT !.pc = "drafting", !.attempts = @ - 1, !.declared = 0]
                    [] OTHER -> [r EXCEPT !.pc = "judging"])
        /\ trail' = [trail EXCEPT ![g][g] = IF r.buffered \/ AskAgain(r) THEN "bad" ELSE @]
        /\ fate' = [fate EXCEPT ![g] = IF r.declared = 0 THEN "failed" ELSE @]
        /\ UNCHANGED <<script, source, raw, raced, bounds>>

(* The static check, the sample run and the validation, which holds the    *)
(* output against the row's version.                                       *)
Judge(g, ok) ==
    /\ At(g, "judging")
    /\ ok => job[g].declared = job[g].version
    /\ Record(g, IF ok THEN Past(g, "running")
                       ELSE [job[g] EXCEPT !.pc = "drafting", !.declared = 0],
                 IF ok THEN "sample_ok" ELSE "bad")
    /\ UNCHANGED <<script, source, raw, fate, raced, bounds>>

(* Nothing left the host: nothing is kept.  Only prompts left it: a failed *)
(* row says so.  A draft is on a row: the row has failed.                  *)
GiveUp_Silently(g) == job[g].script = None
GiveUp(g) == job[g].script = None /\ ~job[g].sent

Exhausted(g) ==
    /\ \/ At(g, "exhausted")
       \/ At(g, "drafting") /\ job[g].attempts = MaxAttempts
    /\ IF job[g].script = None /\ ~GiveUp(g)
       THEN /\ Set(g, [job[g] EXCEPT !.pc = "retaining",
                                     !.name = IF @ = "none" THEN "from_file" ELSE @])
            /\ UNCHANGED <<script, fate>>
       ELSE /\ Leave(g, "releasing")
            /\ fate' = [fate EXCEPT ![g] = "failed"]
            /\ script' = IF job[g].script = None THEN script
                         ELSE [script EXCEPT ![g].status = "failed"]
    /\ UNCHANGED <<trail, source, raw, raced, bounds>>

-----------------------------------------------------------------------------
(* A reuse, up to the same point.                                          *)

(* A script that is gone or not working, or has converted this file, is    *)
(* refused.                                                                *)
StartReuse(r, s) ==
    /\ At(r, "queued")
    /\ IF script[s].status = "working"
       THEN Set(r, [job[r] EXCEPT !.script = s,
                                  !.pc = IF Converted(s) THEN "failing" ELSE "running"])
       ELSE Goto(r, "failing")
    /\ UNCHANGED <<script, trail, source, raw, fate, raced, bounds>>

-----------------------------------------------------------------------------
(* The full run, the registration and the ingestion.                       *)

Run(j, ok) ==
    /\ At(j, "running")
    /\ Record(j, [job[j] EXCEPT !.pc = IF ok THEN "passed" ELSE "rejected"],
                 IF ok THEN "full_ok" ELSE "bad")
    /\ UNCHANGED <<script, source, raw, fate, raced, bounds>>

(* A generation's script that fails on the file fails; a saved one stays.  *)
Reject(j) ==
    /\ At(j, "rejected")
    /\ script' = IF j \in Generations THEN [script EXCEPT ![j].status = "failed"] ELSE script
    /\ fate' = [fate EXCEPT ![j] = "failed"]
    /\ Goto(j, "releasing")
    /\ UNCHANGED <<trail, source, raw, raced, bounds>>

Accept(j) ==
    /\ At(j, "passed")
    /\ script' = [script EXCEPT ![job[j].script].status = "working"]
    /\ Goto(j, "keeping")
    /\ UNCHANGED <<trail, source, raw, fate, raced, bounds>>

KeepRaw(j) ==
    /\ At(j, "keeping")
    /\ Ensure(j, "registering")
    /\ UNCHANGED <<script, trail, source, fate, raced, bounds>>

(* register_source_for_ingest: the duplicate ends the job as completed.    *)
Register(j) ==
    /\ At(j, "registering")
    /\ IF Converted(job[j].script)
       THEN /\ End(j) /\ fate' = [fate EXCEPT ![j] = "duplicate"]
            /\ UNCHANGED <<source, raced>>
       ELSE /\ Refers
            /\ Goto(j, "ingesting") /\ source' = [source EXCEPT ![j] = "ingesting"]
            /\ UNCHANGED fate
    /\ UNCHANGED <<script, trail, raw, bounds>>

IngestSucceeds(j) ==
    /\ At(j, "ingesting")
    /\ source' = [source EXCEPT ![j] = "ready"]
    /\ fate' = [fate EXCEPT ![j] = "completed"]
    /\ End(j)
    /\ UNCHANGED <<script, trail, raw, raced, bounds>>

(* _run_ingestion_job takes the source back and marks the job; the         *)
(* converter's job notices by asking for the job's status.                 *)
Unnoticed(j) == End(j)
Noticed(j) == Goto(j, "failing")

IngestFails(j) ==
    /\ At(j, "ingesting")
    /\ source' = [source EXCEPT ![j] = "none"]
    /\ fate' = [fate EXCEPT ![j] = "failed"]
    /\ Noticed(j)
    /\ UNCHANGED <<script, trail, raw, raced, bounds>>

-----------------------------------------------------------------------------
(* Failure.                                                                *)

(* Any other step raises: the database, the disk, or a job that lost every *)
(* version it asked for; binding only when it has something to flush.  A   *)
(* copy that fails counts as created.                                      *)
Fault(j) ==
    /\ Upsettable /\ faults' = faults + 1
    /\ job[j].pc \in {"drafting", "exhausted", "retaining", "creating", "binding",
                      "judging", "running", "rejected", "passed", "keeping", "registering"}
    /\ At(j, "binding") => job[j].buffered
    /\ Set(j, [Past(j, "failing") EXCEPT
                  !.created = @ \/ (job[j].pc \in {"retaining", "keeping"} /\ ~raw)])
    /\ UNCHANGED <<script, trail, source, raw, fate, raced, restarts, deletes>>

(* _record_failure: the attempt on the row, if its id was published, and a *)
(* generating row of this job fails.                                       *)
OwnRow_AnyStatus(j) == j \in Generations
OwnRow(j) == j \in Generations /\ script[j].status = "generating"

RecordFailure(j) ==
    /\ At(j, "failing")
    /\ IF job[j].script # None
       THEN /\ trail' = [trail EXCEPT ![job[j].script][j] = "bad"]
            /\ script' = IF OwnRow(j) THEN [script EXCEPT ![j].status = "failed"] ELSE script
       ELSE UNCHANGED <<trail, script>>
    /\ fate' = [fate EXCEPT ![j] = "failed"]
    /\ Goto(j, "releasing")
    /\ UNCHANGED <<source, raw, raced, bounds>>

(* The bookkeeping fails as well: the job's own error is kept.             *)
LoseRecord(j) ==
    /\ At(j, "failing") /\ Upsettable /\ faults' = faults + 1
    /\ fate' = [fate EXCEPT ![j] = "unrecorded"]
    /\ Goto(j, "releasing")
    /\ UNCHANGED <<script, trail, source, raw, raced, restarts, deletes>>

(* release_if_unreferenced: ask, then unlink.                              *)
AskInUse(j) ==
    /\ At(j, "releasing")
    /\ IF job[j].created /\ ~InUse THEN Goto(j, "unlinking") ELSE End(j)
    /\ UNCHANGED <<script, trail, source, raw, fate, raced, bounds>>

CountsOnRaw(j) == job[j].pc \in {"creating", "registering"}

Unlink(j) ==
    /\ At(j, "unlinking")
    /\ raw' = FALSE
    /\ raced' = (raced \/ \E k \in Jobs : CountsOnRaw(k))
    /\ End(j)
    /\ UNCHANGED <<script, trail, source, fate, bounds>>

-----------------------------------------------------------------------------
(* A restart loses the jobs; before the server accepts a request again,    *)
(* every generating row is failed, with an attempt that says so.           *)
Reconciled_Not(row) == row
Reconciled(row) == [row EXCEPT !.status = IF @ = "generating" THEN "failed" ELSE @]

Restart ==
    /\ Upsettable /\ restarts' = restarts + 1
    /\ job' = [j \in Jobs |-> IF job[j].pc \in {"queued", "ended"} THEN job[j]
                              ELSE Over(j, "lost")]
    /\ script' = [s \in Scripts |-> Reconciled(script[s])]
    /\ trail' = [s \in Scripts |->
                   IF script[s].status = "generating" THEN [trail[s] EXCEPT ![s] = "bad"]
                   ELSE trail[s]]
    /\ UNCHANGED <<source, raw, fate, raced, faults, deletes>>

(* Some time after it, the sources of interrupted ingestions are removed.  *)
RemoveOrphan(j) ==
    /\ At(j, "lost") /\ source[j] = "ingesting"
    /\ source' = [source EXCEPT ![j] = "none"]
    /\ UNCHANGED <<job, script, trail, raw, fate, raced, bounds>>

DeleteSource(j) ==
    /\ source[j] = "ready" /\ Upsettable /\ deletes' = deletes + 1
    /\ source' = [source EXCEPT ![j] = "none"]
    /\ UNCHANGED <<job, script, trail, raw, fate, raced, faults, restarts>>

-----------------------------------------------------------------------------
Generate(g) ==
    \/ StartGeneration(g) \/ ModelUnavailable(g) \/ ModelError(g) \/ DraftArrives(g)
    \/ RetainForRow(g) \/ CreateRow(g) \/ Bind(g) \/ Exhausted(g)
    \/ \E ok \in BOOLEAN : Judge(g, ok)

Convert(j) ==
    \/ Reject(j) \/ Accept(j) \/ KeepRaw(j) \/ Register(j)
    \/ IngestSucceeds(j) \/ IngestFails(j) \/ RecordFailure(j)
    \/ AskInUse(j) \/ Unlink(j)
    \/ \E ok \in BOOLEAN : Run(j, ok)

Next ==
    \/ \E g \in Generations : Generate(g) \/ \E p \in Generations : Regenerate(g, p)
    \/ \E r \in Reuses, s \in Scripts : StartReuse(r, s)
    \/ \E j \in Jobs : Convert(j) \/ Fault(j) \/ LoseRecord(j) \/ RemoveOrphan(j)
                       \/ DeleteSource(j)
    \/ Restart

(* A started job runs on: every model call and every run has a timeout.    *)
Fairness ==
    /\ \A g \in Generations : WF_vars(Generate(g) /\ ~At(g, "queued"))
    /\ \A j \in Jobs : WF_vars(Convert(j))

Spec == Init /\ [][Next]_vars /\ Fairness

-----------------------------------------------------------------------------
(* Properties.                                                             *)

Stages == {"queued", "drafting", "exhausted", "retaining", "creating", "binding",
           "judging", "running", "rejected", "passed", "keeping", "registering",
           "ingesting", "failing", "releasing", "unlinking", "ended", "lost"}

Names == {"none", "saved", "proposed", "from_file"}

JobRecords ==
    [pc : Stages, script : Scripts \union {None}, attempts : 0 .. MaxAttempts, name : Names,
     version : Nat \ {0}, declared : Nat, buffered : BOOLEAN, sent : BOOLEAN,
     created : BOOLEAN]
Rows == [status : {"none", "generating", "working", "failed"}, name : Names, version : Nat]

(* Every variable holds a value of its kind.                               *)
TypeOK ==
    /\ job \in [Jobs -> JobRecords]
    /\ script \in [Scripts -> Rows]
    /\ trail \in [Scripts -> [Jobs -> {"none", "bad", "sample_ok", "full_ok"}]]
    /\ source \in [Jobs -> {"none", "ingesting", "ready"}]
    /\ raw \in BOOLEAN /\ raced \in BOOLEAN
    /\ fate \in [Jobs -> {"none", "completed", "duplicate", "failed", "unrecorded"}]
    /\ {faults, restarts, deletes} \subseteq Nat

(* One script turns the raw file into at most one source, whichever jobs   *)
(* run it at once: a converter's output is not byte-stable, so the hash of *)
(* the produced file would not tell.                                       *)
OneSourcePerConversion ==
    \A i, j \in Jobs :
        source[i] # "none" /\ source[j] # "none" /\ job[i].script = job[j].script => i = j

(* A working script stays working: no failure after its acceptance, of its *)
(* own job or of one that reuses it, and no restart takes that back.       *)
WorkingIsFinal ==
    [][\A s \in Scripts : script[s].status = "working" => script'[s].status = "working"]_vars

(* A draft is judged under the version it was asked for: a version lost to *)
(* another job, or a proposed name that exists, costs no attempt.          *)
DraftsAreJudgedFairly ==
    \A g \in Generations : At(g, "judging") => job[g].declared = job[g].version

(* A row that is generating has a job that will settle it, through every   *)
(* failure and restart, except when the flush of buffered attempts fails   *)
(* before the row's id is published, or the recording of a failure fails   *)
(* too: then the row waits for the next restart.                           *)
Unpublished(g) == job[g].pc \in {"failing", "releasing", "unlinking", "ended"} /\ job[g].script = None
GeneratingEnds ==
    \A g \in Generations :
        script[g].status = "generating" ~>
            \/ script[g].status # "generating"
            \/ Unpublished(g) \/ fate[g] = "unrecorded"

(* Once an excerpt of the evidence was sent to the model, a job that ends  *)
(* without a step that raised leaves a row with an attempt of its on it,   *)
(* whatever the model did and whichever versions other jobs took.          *)
SentIsOnRecord ==
    \A g \in Generations :
        At(g, "ended") /\ job[g].sent /\ faults = 0
        => script[g].status # "none" /\ trail[g][g] # "none"

(* The last attempt a job leaves on a trail is a successful full run only  *)
(* when its product landed, or had landed before, or the record of its     *)
(* failure was itself lost to one.                                         *)
TrailTellsTheFate ==
    \A j \in Jobs : \A s \in Scripts :
        At(j, "ended") /\ trail[s][j] = "full_ok"
        => fate[j] \in {"completed", "duplicate", "unrecorded"}

(* The raw file that a script or a source refers to is retained, unless a  *)
(* failed job took its copy back while another was about to refer to it.   *)
RawIsRetained == Referenced /\ ~raced => raw
=============================================================================
