------------------------------ MODULE ColumnJobs ------------------------------
(***************************************************************************)
(* The recommended columns of one timeline: the background job that derives *)
(* and stores them (columns/jobs.py), its triggers, and the two places that *)
(* settle what a dead job left behind: the sweep of a boot (db/postgres.py) *)
(* and the readers of a timeline (api/routers/cases.py).                    *)
(*                                                                          *)
(* All jobs are coroutines of one process.  The claim and the mark are in   *)
(* its memory; the payload is a column of the timeline's row.  Each action  *)
(* is one read or write of Postgres with the code up to the next await.     *)
(***************************************************************************)
EXTENDS Naturals, FiniteSets

CONSTANTS
    Sources,      \* of the timeline
    Telling,      \* those whose statistics suggest columns
    NumJobs,      \* jobs are numbered as they are created
    None,
    MaxAsks, MaxFails, MaxCrashes      \* bounds on the environment

Jobs == 1 .. NumJobs

ASSUME ColumnAssumption ==
    /\ IsFiniteSet(Sources) /\ Telling \subseteq Sources
    /\ None \notin Jobs
    /\ {NumJobs, MaxAsks, MaxFails, MaxCrashes} \subseteq Nat

VARIABLES
    ready,      \* the sources that are ready
    hooks,      \* ready sources whose ingest has not called its hook yet
    removed,    \* sources that were deleted
    stored,     \* the payload of the timeline, None when it has none
    deleted,    \* the timeline is gone
    active,     \* _ACTIVE: the job that holds the claim
    dirty,      \* _DIRTY: a trigger was turned away
    minted,     \* jobs created so far
    known,      \* the jobs the job store has not evicted
    pc,         \* pc[j]: where job j is
    previous,   \* previous[j]: the payload it read
    listed,     \* listed[j]: the ready sources it read
    reader,     \* a reader of the timeline
    overtaken,  \* history: a reader's settlement replaced a later payload
    boot,       \* "boot" | "up"
    asks, fails, crashes

timelineVars == <<ready, hooks, removed, deleted>>
claimVars    == <<active, dirty, minted>>
localVars    == <<previous, listed>>
readerVars   == <<reader, overtaken>>
bounds       == <<asks, fails, crashes>>
vars == <<timelineVars, stored, claimVars, known, pc, localVars, readerVars, boot, bounds>>

\* A job that runs or will.
Live(j) == pc[j] \notin {"unused", "over"}

Idle == [at |-> "idle", job |-> None, payload |-> None]

-----------------------------------------------------------------------------
(***************************************************************************)
(* Operators named X_Y are faulty variants of X, kept to see that the       *)
(* properties tell them apart.                                              *)
(*                                                                          *)
(* Payloads.  by is the job that derived the columns, which the row does    *)
(* not record; at stands for generated_at, the time of a job, and carried   *)
(* for columns_generated_at.                                                *)
(***************************************************************************)
Payload(status, columns, by, sources, job, at, carried) ==
    [status |-> status, columns |-> columns, by |-> by, sources |-> sources,
     job |-> job, at |-> at, carried |-> carried]

HasColumns(p) == p # None /\ p.columns # {}
IsRunning(p)  == p # None /\ p.status = "running"

\* settle_running_payload.
Settled(p) ==
    [p EXCEPT !.status = IF p.columns = {} THEN "insufficient" ELSE "ok",
              !.job = None,
              !.at = IF p.carried = None THEN @ ELSE p.carried,
              !.carried = None]

\* When the columns of p were derived, as a placeholder carries it forward.
CarriedDate_Latest(p) == p.at
CarriedDate(p) == IF p.carried = None THEN p.at ELSE p.carried

\* The placeholder of job j with _carry_forward(p).
Placeholder(j, p) ==
    IF p = None
    THEN Payload("running", {}, None, listed[j], j, j, None)
    ELSE Payload("running", p.columns, p.by, listed[j], j, j, CarriedDate(p))

\* score_columns and pick_columns, over the statistics of the listed sources.
Answer(j) ==
    LET columns == listed[j] \cap Telling IN
    Payload(IF columns = {} THEN "insufficient" ELSE "ok", columns, j, listed[j], j, j, None)

-----------------------------------------------------------------------------
(***************************************************************************)
(* The tests and choices.                                                   *)
(***************************************************************************)
\* The guard of start_column_recommendation and of the job itself.
Claimable == active = None

\* The claim after a job could not be scheduled.
ClaimAfterFailure_Kept == minted + 1
ClaimAfterFailure == None

\* The mark when the source list has been read: it was cleared before.
MarkAfterRead_Cleared == FALSE
MarkAfterRead == dirty

\* One more run, started when the claim has been released; a run asked for
\* before that is turned away.
Reruns_Unreleased == FALSE
Reruns == dirty

\* _restore_previous undoes its own placeholder only.
OwnPlaceholder(j) == IsRunning(stored) /\ stored.job = j

\* What a timeline without a ready source shows.
KeepsAnswer_Never(p) == FALSE
KeepsAnswer(p) == HasColumns(p)

\* _recommendation_is_dead, of the payload a reader has.
Dead_Never(job) == FALSE
Dead(job) == active = None /\ job \notin known

Goto(j, p) == pc' = [pc EXCEPT ![j] = p]
Failing == fails < MaxFails /\ fails' = fails + 1

-----------------------------------------------------------------------------
Init ==
    /\ ready = {} /\ hooks = {} /\ removed = {}
    /\ stored = None /\ deleted = FALSE
    /\ active = None /\ dirty = FALSE /\ minted = 0
    /\ known = {}
    /\ pc = [j \in Jobs |-> "unused"]
    /\ previous = [j \in Jobs |-> None]
    /\ listed = [j \in Jobs |-> {}]
    /\ reader = Idle /\ overtaken = FALSE
    /\ boot = "up"
    /\ asks = 0 /\ fails = 0 /\ crashes = 0

-----------------------------------------------------------------------------
(***************************************************************************)
(* start_column_recommendation and what calls it.                           *)
(***************************************************************************)
Spawn ==
    /\ minted < NumJobs
    /\ minted' = minted + 1
    /\ active' = minted + 1
    /\ known' = known \cup {minted + 1}
    /\ Goto(minted + 1, "start")
    /\ UNCHANGED fails

\* create_task raises: the claim is handed back.
FailToSpawn ==
    /\ minted < NumJobs
    /\ Failing
    /\ minted' = minted + 1
    /\ active' = ClaimAfterFailure
    /\ known' = known \cup {minted + 1}
    /\ Goto(minted + 1, "over")

StartRecommendation ==
    \/ /\ Claimable
       /\ (Spawn \/ FailToSpawn)
       /\ UNCHANGED dirty
    \/ /\ ~ Claimable
       /\ dirty' = TRUE
       /\ UNCHANGED <<active, minted, known, pc, fails>>

\* The ingest of s sets its source ready ...
BecomeReady(s) ==
    /\ boot = "up" /\ s \notin ready \cup removed
    /\ ready' = ready \cup {s}
    /\ hooks' = hooks \cup {s}
    /\ UNCHANGED <<removed, deleted, stored, claimVars, known, pc, localVars, readerVars, boot, bounds>>

\* ... and calls schedule_for_source, which starts a job for each of its timelines.
ScheduleForSource(s) ==
    /\ boot = "up" /\ s \in hooks
    /\ hooks' = hooks \ {s}
    /\ \/ s \notin removed /\ ~ deleted /\ StartRecommendation
       \/ /\ s \in removed \/ deleted
          /\ UNCHANGED <<active, dirty, minted, known, pc, fails>>
    /\ UNCHANGED <<ready, removed, deleted, stored, localVars, readerVars, boot, asks, crashes>>

\* An analyst asks, or the timeline was just created.
Ask ==
    /\ boot = "up" /\ ~ deleted
    /\ asks < MaxAsks /\ asks' = asks + 1
    /\ StartRecommendation
    /\ UNCHANGED <<timelineVars, stored, localVars, readerVars, boot, crashes>>

DeleteSource(s) ==
    /\ boot = "up" /\ s \in ready
    /\ ready' = ready \ {s}
    /\ removed' = removed \cup {s}
    /\ UNCHANGED <<hooks, deleted, stored, claimVars, known, pc, localVars, readerVars, boot, bounds>>

DeleteTimeline ==
    /\ boot = "up" /\ ~ deleted
    /\ deleted' = TRUE
    /\ stored' = None
    /\ UNCHANGED <<ready, hooks, removed, claimVars, known, pc, localVars, readerVars, boot, bounds>>

-----------------------------------------------------------------------------
(***************************************************************************)
(* run_column_recommendation_job.                                           *)
(***************************************************************************)

\* update_timeline_recommended_columns: no row, no write.
Store(p) == stored' = IF deleted THEN None ELSE p

ReadTimeline(j) ==
    /\ pc[j] = "start"
    /\ \/ deleted /\ Goto(j, "release") /\ UNCHANGED previous
       \/ ~ deleted /\ Goto(j, "mark") /\ previous' = [previous EXCEPT ![j] = stored]
    /\ UNCHANGED <<timelineVars, stored, claimVars, known, listed, readerVars, boot, bounds>>

ClearMark(j) ==
    /\ pc[j] = "mark"
    /\ dirty' = FALSE
    /\ Goto(j, "list")
    /\ UNCHANGED <<timelineVars, stored, active, minted, known, localVars, readerVars, boot, bounds>>

ListSources(j) ==
    /\ pc[j] = "list"
    /\ listed' = [listed EXCEPT ![j] = ready]
    /\ Goto(j, CASE ready # {} -> "place"
                 [] ready = {} /\ ~ KeepsAnswer(previous[j]) -> "empty"
                 [] ready = {} /\ KeepsAnswer(previous[j]) ->
                        IF IsRunning(previous[j]) THEN "settle" ELSE "release")
    /\ UNCHANGED <<timelineVars, stored, claimVars, known, previous, readerVars, boot, bounds>>

\* Without a ready source the job keeps an answer, settled when its job died ...
KeepAnswer(j) ==
    /\ pc[j] = "settle"
    /\ Store(Settled(previous[j]))
    /\ Goto(j, "release")
    /\ UNCHANGED <<timelineVars, claimVars, known, localVars, readerVars, boot, bounds>>

\* ... or stores that there is nothing to suggest.
StoreInsufficient(j) ==
    /\ pc[j] = "empty"
    /\ Store(Payload("insufficient", {}, None, {}, j, j, None))
    /\ Goto(j, "release")
    /\ UNCHANGED <<timelineVars, claimVars, known, localVars, readerVars, boot, bounds>>

StorePlaceholder(j) ==
    /\ pc[j] = "place"
    /\ dirty' = MarkAfterRead
    /\ Store(Placeholder(j, previous[j]))
    /\ Goto(j, "score")
    /\ UNCHANGED <<timelineVars, active, minted, known, localVars, readerVars, boot, bounds>>

StoreAnswer(j) ==
    /\ pc[j] = "score"
    /\ Store(Answer(j))
    /\ Goto(j, "audit")
    /\ UNCHANGED <<timelineVars, claimVars, known, localVars, readerVars, boot, bounds>>

RecordAudit(j) ==
    /\ pc[j] = "audit"
    /\ Goto(j, "release")
    /\ UNCHANGED <<timelineVars, stored, claimVars, known, localVars, readerVars, boot, bounds>>

\* Any step of the job raises ...
FailJob(j) ==
    /\ pc[j] \in {"start", "list", "settle", "empty", "place", "score", "audit"}
    /\ Failing
    /\ Goto(j, "restore")
    /\ UNCHANGED <<timelineVars, stored, claimVars, known, localVars, readerVars, boot, asks, crashes>>

\* ... and _restore_previous reads the payload and undoes the placeholder.
CheckPlaceholder(j) ==
    /\ pc[j] = "restore"
    /\ Goto(j, IF OwnPlaceholder(j) THEN "undo" ELSE "release")
    /\ UNCHANGED <<timelineVars, stored, claimVars, known, localVars, readerVars, boot, bounds>>

RestorePrevious(j) ==
    /\ pc[j] = "undo"
    /\ Store(previous[j])
    /\ Goto(j, "release")
    /\ UNCHANGED <<timelineVars, claimVars, known, localVars, readerVars, boot, bounds>>

FailRestore(j) ==
    /\ pc[j] \in {"restore", "undo"}
    /\ Failing
    /\ Goto(j, "release")
    /\ UNCHANGED <<timelineVars, stored, claimVars, known, localVars, readerVars, boot, asks, crashes>>

\* The finally clause with _rerun_if_dirty.
Release(j) ==
    /\ pc[j] = "release"
    /\ previous' = [previous EXCEPT ![j] = None]
    /\ listed' = [listed EXCEPT ![j] = {}]
    /\ dirty' = (dirty /\ ~ Reruns)
    /\ \/ /\ Reruns /\ minted < NumJobs
          /\ minted' = minted + 1
          /\ active' = minted + 1
          /\ known' = known \cup {minted + 1}
          /\ pc' = [pc EXCEPT ![j] = "over", ![minted + 1] = "start"]
          /\ UNCHANGED fails
       \/ /\ Reruns /\ minted < NumJobs
          /\ Failing
          /\ minted' = minted + 1
          /\ active' = ClaimAfterFailure
          /\ known' = known \cup {minted + 1}
          /\ pc' = [pc EXCEPT ![j] = "over", ![minted + 1] = "over"]
       \/ /\ ~ Reruns
          /\ active' = None
          /\ Goto(j, "over")
          /\ UNCHANGED <<minted, known, fails>>
    /\ UNCHANGED <<timelineVars, stored, readerVars, boot, asks, crashes>>

-----------------------------------------------------------------------------
(***************************************************************************)
(* get_timeline and list_timelines: _settle_dead_recommendations.           *)
(***************************************************************************)
ReadPayload ==
    /\ boot = "up" /\ reader.at = "idle"
    /\ IsRunning(stored)
    /\ reader' = [at |-> "judge", job |-> stored.job, payload |-> None]
    /\ UNCHANGED <<timelineVars, stored, claimVars, known, pc, localVars, overtaken, boot, bounds>>

JudgePayload ==
    /\ reader.at = "judge"
    /\ reader' = IF Dead(reader.job) THEN [reader EXCEPT !.at = "select"] ELSE Idle
    /\ UNCHANGED <<timelineVars, stored, claimVars, known, pc, localVars, overtaken, boot, bounds>>

\* settle_running_recommendations reads the row again, unlocked ...
SelectRunning ==
    /\ reader.at = "select"
    /\ reader' = IF IsRunning(stored)
                 THEN [at |-> "update", job |-> stored.job, payload |-> Settled(stored)] ELSE Idle
    /\ UNCHANGED <<timelineVars, stored, claimVars, known, pc, localVars, overtaken, boot, bounds>>

\* ... and commits.
UpdateSettled ==
    /\ reader.at = "update"
    /\ Store(reader.payload)
    /\ reader' = Idle
    /\ overtaken' = (overtaken \/ ~ (IsRunning(stored) /\ stored.job = reader.job))
    /\ UNCHANGED <<timelineVars, claimVars, known, pc, localVars, boot, bounds>>

Read == ReadPayload \/ JudgePayload \/ SelectRunning \/ UpdateSettled

-----------------------------------------------------------------------------
\* A finished job leaves the job store when enough others have finished.
Evict(j) ==
    /\ pc[j] = "over" /\ j \in known
    /\ known' = known \ {j}
    /\ UNCHANGED <<timelineVars, stored, claimVars, pc, localVars, readerVars, boot, bounds>>

Crash ==
    /\ crashes < MaxCrashes /\ crashes' = crashes + 1
    /\ boot' = "boot"
    /\ hooks' = {}
    /\ active' = None /\ dirty' = FALSE /\ known' = {}
    /\ pc' = [j \in Jobs |-> IF Live(j) THEN "over" ELSE pc[j]]
    /\ previous' = [j \in Jobs |-> None]
    /\ listed' = [j \in Jobs |-> {}]
    /\ reader' = Idle
    /\ UNCHANGED <<ready, removed, deleted, stored, minted, overtaken, asks, fails>>

\* clear_stale_running_recommendations, before the app serves.
Boot ==
    /\ boot = "boot"
    /\ boot' = "up"
    /\ \/ /\ stored' = IF IsRunning(stored) THEN Settled(stored) ELSE stored
          /\ UNCHANGED fails
       \/ Failing /\ UNCHANGED stored
    /\ UNCHANGED <<timelineVars, claimVars, known, pc, localVars, readerVars, asks, crashes>>

-----------------------------------------------------------------------------
Step(j) ==
    \/ ReadTimeline(j) \/ ClearMark(j) \/ ListSources(j) \/ KeepAnswer(j)
    \/ StoreInsufficient(j) \/ StorePlaceholder(j) \/ StoreAnswer(j) \/ RecordAudit(j)
    \/ CheckPlaceholder(j) \/ RestorePrevious(j) \/ Release(j)

Next ==
    \/ \E s \in Sources : BecomeReady(s) \/ ScheduleForSource(s) \/ DeleteSource(s)
    \/ \E j \in Jobs : Step(j) \/ FailJob(j) \/ FailRestore(j) \/ Evict(j)
    \/ Ask \/ DeleteTimeline \/ Read \/ Crash \/ Boot

Spec == Init /\ [][Next]_vars

\* Coroutines go on, a boot ends, and somebody looks at the timeline: the
\* explorer polls while it reads "running".
Fairness ==
    /\ \A j \in Jobs : WF_vars(Step(j))
    /\ \A s \in Sources : WF_vars(ScheduleForSource(s))
    /\ WF_vars(Read) /\ WF_vars(Boot)

FairSpec == Spec /\ Fairness

-----------------------------------------------------------------------------
(***************************************************************************)
(* Properties.                                                              *)
(***************************************************************************)
States == {"unused", "start", "mark", "list", "settle", "empty", "place", "score",
           "audit", "restore", "undo", "release", "over"}

Payloads ==
    [status : {"running", "ok", "insufficient"}, columns : SUBSET Telling,
     by : Jobs \cup {None}, sources : SUBSET Sources, job : Jobs \cup {None},
     at : Jobs, carried : Jobs \cup {None}]

ASSUME PayloadAssumption == None \notin Payloads

\* Every variable has its type.
TypeOK ==
    /\ ready \in SUBSET Sources /\ hooks \in SUBSET Sources /\ removed \in SUBSET Sources
    /\ stored \in Payloads \cup {None} /\ deleted \in BOOLEAN
    /\ active \in Jobs \cup {None} /\ dirty \in BOOLEAN
    /\ minted \in 0 .. NumJobs /\ known \in SUBSET Jobs
    /\ pc \in [Jobs -> States]
    /\ previous \in [Jobs -> Payloads \cup {None}]
    /\ listed \in [Jobs -> SUBSET Sources]
    /\ reader \in [at : {"idle", "judge", "select", "update"}, job : Jobs \cup {None},
                   payload : Payloads \cup {None}]
    /\ boot \in {"boot", "up"}
    /\ asks \in Nat /\ fails \in Nat /\ crashes \in Nat

\* A burst of triggers runs one job at a time, and a claim is always that of a
\* job that runs: "a leaked claim is not a slow job", it would turn away every
\* later recommendation for the timeline.
ClaimIsOfTheLiveJob == \A j \in Jobs : Live(j) <=> active = j

\* A trigger that was turned away has a holder that will run again for it.
MarksHaveAHolder == dirty => active # None

\* A stored answer is dated by the run that derived its columns, after any
\* number of crashed recomputes ("a payload never claims its columns were
\* derived later than they were").
AnswersAreDatedTruly ==
    stored # None /\ stored.status = "ok" => stored.at = stored.by

\* Neither a placeholder, a failed or crashed recompute, a boot, nor a moment
\* without ready sources takes an answer away: only another answer does, or
\* the delete of the timeline.  (Unless a reader that settles commits a row it
\* read before the answer of a later job.)
AnswersSurvive ==
    [][HasColumns(stored) /\ ~ HasColumns(stored') =>
        \/ deleted' \/ overtaken'
        \/ \E j \in Jobs : pc[j] = "score" /\ stored'.by = j]_vars

Undisturbed == fails = 0 /\ crashes = 0 /\ ~ overtaken

\* However the triggers of a burst collapse, a source that became ready is in
\* the recommendation that is stored in the end.
ReadySourcesAreCovered ==
    \A s \in Sources :
        s \in hooks ~> \/ deleted \/ s \in removed \/ ~ Undisturbed
                       \/ stored # None /\ ~ IsRunning(stored) /\ s \in stored.sources

\* The explorer does not poll a dead job for ever, after crashes, or one failure
\* of a job, its clean-up or the sweep.  (A job that fails and then fails to undo
\* its placeholder leaves a record that no reader takes for a dead job.)
RunningEnds == IsRunning(stored) ~> ~ IsRunning(stored) \/ fails > 1
=============================================================================
