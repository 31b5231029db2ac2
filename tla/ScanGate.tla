------------------------------- MODULE ScanGate -------------------------------
(***************************************************************************)
(* Admission of scans to ClickHouse: the gates of db/_scan.py, the request  *)
(* wrapper that cancels them (api/scan_exec.py), the value-inventory export *)
(* (api/routers/events.py, db/queries.py) and the rule scan that streams    *)
(* its hits through a queue (sigma/runner.py).                              *)
(*                                                                          *)
(*   threads    tokens of the thread pool every blocking call runs on       *)
(*   gates      semaphores: "heavy" for sweeps, "chart" for aggregations    *)
(*              somebody looks at, "export" (one slot) for streamed files   *)
(*                                                                          *)
(* A scan waits for a slot by polling, so that it can hear that its client  *)
(* has left or that its time is up.  A scan that runs can only be stopped   *)
(* by a KILL, sent once, which finds the query that runs at that moment.    *)
(***************************************************************************)
EXTENDS ScanBudget, FiniteSets, Sequences

CONSTANTS
    Scans,
    Mixes,        \* the kinds the scans of a behaviour may have
    Settings,     \* settings and facts the budget is derived from
    Threads,      \* tokens of the thread pool
    Queries,      \* queries a scan makes one after the other
    Endless,      \* scans whose queries end by a KILL or a failure only
    Batches,      \* batches of hits of a rule
    QueueDepth,   \* of the queue between rule scan and writer
    MaxFails      \* failing queries, writes and KILLs in a behaviour

Gates == {"heavy", "chart", "export"}

\* The three semaphores.
GateSize == [heavy |-> HeavySlots, chart |-> ChartSlots, export |-> 1]

(***************************************************************************)
(*   chart    an aggregation for a request, with a bounded wait             *)
(*   sweep    a detector, or the count before an export, for a request      *)
(*   fill     a field-stats fill for a request, with a bounded wait         *)
(*   job      a heavy scan of a job: nobody to leave, nobody to answer busy *)
(*   rule     a rule scan, on a thread of its own                           *)
(*   export   a value inventory, streamed to the client                     *)
(***************************************************************************)
Kinds == {"chart", "sweep", "fill", "job", "rule", "export"}

ASSUME ScanAssumption ==
    /\ IsFiniteSet(Scans) /\ Endless \subseteq Scans
    /\ Mixes \subseteq [Scans -> Kinds]
    /\ {Threads, Queries, Batches, QueueDepth} \subseteq Nat \ {0}
    /\ MaxFails \in Nat

ASSUME SettingsAssumption ==
    Settings \subseteq [explicit : Nat, percent : Nat, local : Nat, cgroup : Nat, os : Nat,
                        ram : Nat, pinned : Nat, caches : Nat]

VARIABLES
    kind,        \* kind[s], fixed
    pc,          \* pc[s]: where the scan is
    holds,       \* holds[g]: the scans that hold a slot of gate g
    waiting,     \* waiting[g]: the counter of parked callers
    threads,     \* scans that hold a thread of the pool
    left,        \* left[s]: queries s has still to make
    expired,     \* scans whose bounded wait is over
    cancelled,   \* scans whose cancel flag is set
    kill,        \* kill[s]: the KILL, "no" | "sent" | "done"
    queue,       \* queue[s]: what a rule scan has put for its writer
    sent,        \* sent[s]: batches of hits it has read
    stopped,     \* rules whose writer has set the stop flag
    taken,       \* taken[s]: batches the writer took from the queue
    matched,     \* matched[s]: batches it stored
    outcome,     \* outcome[s]: how the rule ended, "none" | "ok" | "error"
    fails

ruleVars == <<queue, sent, stopped, taken, matched, outcome>>
killVars == <<cancelled, kill>>
vars == <<kind, pc, holds, waiting, threads, left, expired, killVars, ruleVars, fails>>

Requests == {"chart", "sweep", "fill"}
Bounded  == {"chart", "fill"}
Gate(s)  == IF kind[s] = "chart" THEN "chart" ELSE "heavy"

Parked   == {"poll", "try"}
\* On ClickHouse, or about to be: what a slot of Gate(s) is held for.
Scanning == {"start", "run", "killed", "put"}
\* What the export slot is held for.
Streaming == {"audit", "respond", "poll", "try", "start", "run", "drain"}

-----------------------------------------------------------------------------
(***************************************************************************)
(* The tests and choices.  Those named X_Y are faulty variants of X, kept   *)
(* to see that the properties tell them apart.                              *)
(***************************************************************************)
Free(g) == Cardinality(holds[g]) < GateSize[g]

ThreadFree == Cardinality(threads) < Threads

\* What makes a parked acquire return to its tests: a plain acquire hears
\* nothing, the loop hears the flag of its context and its deadline.
Hears_DeadlineOnly(s) == s \in expired
Hears(s) == s \in cancelled \cup expired

\* The thread a KILL goes out on: one of its own.
KillThread_OfPool(s) == ThreadFree
KillThread(s) == TRUE

\* _put returns when its item is in the queue or stop is set.
PutReturns_NoStop(s) == Len(queue[s]) < QueueDepth
PutReturns(s) == s \in stopped \/ Len(queue[s]) < QueueDepth

\* The waiting counter after its caller gave up.
Unpark(s) == waiting[Gate(s)] - 1

\* The slots that are left when scan s unwinds: it gives back all it holds.
Released(s) == [g \in Gates |-> holds[g] \ {s}]

\* What an export gives back when its first block is there.
FirstBlock_KeepsSlot(s) == holds
FirstBlock(s) == [holds EXCEPT !["heavy"] = @ \ {s}]

\* A last batch that is not full is put behind the loop.
Exhausted_PartialLost(s) == sent[s] + 1 >= Batches
Exhausted(s) == sent[s] = Batches

-----------------------------------------------------------------------------
Init ==
    /\ kind \in Mixes
    /\ pc = [s \in Scans |-> "idle"]
    /\ holds = [g \in Gates |-> {}]
    /\ waiting = [g \in Gates |-> 0]
    /\ threads = {}
    /\ left = [s \in Scans |-> Queries]
    /\ expired = {}
    /\ cancelled = {}
    /\ kill = [s \in Scans |-> "no"]
    /\ queue = [s \in Scans |-> <<>>]
    /\ sent = [s \in Scans |-> 0]
    /\ stopped = {}
    /\ taken = [s \in Scans |-> 0]
    /\ matched = [s \in Scans |-> 0]
    /\ outcome = [s \in Scans |-> "none"]
    /\ fails = 0

Goto(s, p) == pc' = [pc EXCEPT ![s] = p]

\* A new caller of acquire_scan_slot.
Park(s) ==
    /\ Goto(s, "poll")
    /\ waiting' = [waiting EXCEPT ![Gate(s)] = @ + 1]

\* The scan is over and unwinds: its slots and its thread are given back.
End(s) ==
    /\ Goto(s, "over")
    /\ holds' = Released(s)
    /\ threads' = threads \ {s}

Failing == fails < MaxFails /\ fails' = fails + 1

-----------------------------------------------------------------------------
(***************************************************************************)
(* Arrival.                                                                 *)
(***************************************************************************)

\* A request or a job asks for a thread; a rule scan starts its own.
Submit(s) ==
    /\ pc[s] = "idle"
    /\ \/ kind[s] # "rule" /\ Goto(s, "queued") /\ UNCHANGED waiting
       \/ kind[s] = "rule" /\ Park(s)
    /\ UNCHANGED <<kind, holds, threads, left, expired, killVars, ruleVars, fails>>

TakeThread(s) ==
    /\ pc[s] = "queued"
    /\ ThreadFree
    /\ threads' = threads \cup {s}
    /\ \/ kind[s] = "export" /\ Goto(s, "slot") /\ UNCHANGED waiting
       \/ kind[s] # "export" /\ Park(s)
    /\ UNCHANGED <<kind, holds, left, expired, killVars, ruleVars, fails>>

-----------------------------------------------------------------------------
(***************************************************************************)
(* acquire_scan_slot.                                                       *)
(***************************************************************************)

\* ScanCancelled or ScanBusy: the caller gives up ...
GiveUp(s) ==
    /\ pc[s] = "poll"
    /\ Hears(s)
    /\ End(s)
    /\ waiting' = [waiting EXCEPT ![Gate(s)] = Unpark(s)]
    /\ UNCHANGED <<kind, left, expired, killVars, ruleVars, fails>>

\* ... or tries the semaphore for one poll interval.
Try(s) ==
    /\ pc[s] = "poll"
    /\ ~ Hears(s)
    /\ Goto(s, "try")
    /\ UNCHANGED <<kind, holds, waiting, threads, left, expired, killVars, ruleVars, fails>>

Acquire(s) ==
    /\ pc[s] = "try"
    /\ Free(Gate(s))
    /\ holds' = [holds EXCEPT ![Gate(s)] = @ \cup {s}]
    /\ waiting' = [waiting EXCEPT ![Gate(s)] = @ - 1]
    /\ Goto(s, "start")
    /\ UNCHANGED <<kind, threads, left, expired, killVars, ruleVars, fails>>

\* The interval ends without a slot.  (An interval that would end in the next
\* one, with nothing to hear, is no step.)
PollAgain(s) ==
    /\ pc[s] = "try"
    /\ Hears(s)
    /\ Goto(s, "poll")
    /\ UNCHANGED <<kind, holds, waiting, threads, left, expired, killVars, ruleVars, fails>>

\* The bound of the wait passes.
Expire(s) ==
    /\ pc[s] \in Parked /\ kind[s] \in Bounded /\ s \notin expired
    /\ expired' = expired \cup {s}
    /\ UNCHANGED <<kind, pc, holds, waiting, threads, left, killVars, ruleVars, fails>>

-----------------------------------------------------------------------------
(***************************************************************************)
(* The scan under its slot: one query after the other.  Nothing looks at    *)
(* the cancel flag between them, and no helper of a gated scan is gated.    *)
(***************************************************************************)
StartQuery(s) ==
    /\ pc[s] = "start"
    /\ Goto(s, "run")
    /\ UNCHANGED <<kind, holds, waiting, threads, left, expired, killVars, ruleVars, fails>>

FinishQuery(s) ==
    /\ pc[s] = "run" /\ s \notin Endless
    /\ kind[s] \in Requests \cup {"job"}
    /\ left' = [left EXCEPT ![s] = @ - 1]
    /\ \/ left[s] > 1 /\ Goto(s, "start") /\ UNCHANGED <<holds, threads>>
       \/ left[s] = 1 /\ End(s)
    /\ UNCHANGED <<kind, waiting, expired, killVars, ruleVars, fails>>

\* ClickHouse raises.  The exception of a rule scan is put for its writer.
FailQuery(s) ==
    /\ pc[s] = "run"
    /\ Failing
    /\ \/ kind[s] # "rule" /\ End(s)
       \/ /\ kind[s] = "rule"
          /\ holds' = [holds EXCEPT !["heavy"] = @ \ {s}]
          /\ Goto(s, "error") /\ UNCHANGED threads
    /\ UNCHANGED <<kind, waiting, left, expired, killVars, ruleVars>>

-----------------------------------------------------------------------------
(***************************************************************************)
(* run_scan: the client leaves, or the request is torn down.                *)
(***************************************************************************)
Cancel(s) ==
    /\ kind[s] \in Requests
    /\ pc[s] \notin {"idle", "over"} /\ s \notin cancelled
    /\ cancelled' = cancelled \cup {s}
    /\ kill' = [kill EXCEPT ![s] = "sent"]
    /\ UNCHANGED <<kind, pc, holds, waiting, threads, left, expired, ruleVars, fails>>

\* KILL QUERY ends the tagged queries there are.
KillScanQueries(s) ==
    /\ kill[s] = "sent"
    /\ KillThread(s)
    /\ kill' = [kill EXCEPT ![s] = "done"]
    /\ \/ pc[s] = "run" /\ Goto(s, "killed")
       \/ pc[s] # "run" /\ UNCHANGED pc
    /\ UNCHANGED <<kind, holds, waiting, threads, left, expired, cancelled, ruleVars, fails>>

FailKill(s) ==
    /\ kill[s] = "sent"
    /\ Failing
    /\ kill' = [kill EXCEPT ![s] = "done"]
    /\ UNCHANGED <<kind, pc, holds, waiting, threads, left, expired, cancelled, ruleVars>>

\* QUERY_WAS_CANCELLED reaches the thread.
Unwind(s) ==
    /\ pc[s] = "killed"
    /\ End(s)
    /\ UNCHANGED <<kind, waiting, left, expired, killVars, ruleVars, fails>>

-----------------------------------------------------------------------------
(***************************************************************************)
(* export_field_inventory, after its count.                                 *)
(***************************************************************************)

\* _acquire_export_slot; a 503 when the slot did not come free in time.
AcquireExportSlot(s) ==
    /\ pc[s] = "slot"
    /\ \/ /\ Free("export")
          /\ holds' = [holds EXCEPT !["export"] = @ \cup {s}]
          /\ Goto(s, "audit")
          /\ threads' = threads \ {s}
       \/ ~ Free("export") /\ End(s)
    /\ UNCHANGED <<kind, waiting, left, expired, killVars, ruleVars, fails>>

\* The audit row; a failure, or a request cancelled here, gives the slot back.
AuditExport(s) ==
    /\ pc[s] = "audit"
    /\ \/ Goto(s, "respond") /\ UNCHANGED <<holds, threads>>
       \/ End(s)
    /\ UNCHANGED <<kind, waiting, left, expired, killVars, ruleVars, fails>>

\* The client is gone before the first row is asked for: a generator that was
\* never started has no finally.
DropResponse(s) ==
    /\ pc[s] = "respond"
    /\ Goto(s, "dropped")
    /\ UNCHANGED <<kind, holds, waiting, threads, left, expired, killVars, ruleVars, fails>>

\* iter_field_inventory asks for the slot of its aggregation ...
StartDownload(s) ==
    /\ pc[s] = "respond"
    /\ ThreadFree
    /\ threads' = threads \cup {s}
    /\ Park(s)
    /\ UNCHANGED <<kind, holds, left, expired, killVars, ruleVars, fails>>

\* ... and gives it back when the first block is there.
ReadFirstBlock(s) ==
    /\ pc[s] = "run" /\ s \notin Endless
    /\ kind[s] = "export"
    /\ holds' = FirstBlock(s)
    /\ threads' = threads \ {s}
    /\ Goto(s, "drain")
    /\ UNCHANGED <<kind, waiting, left, expired, killVars, ruleVars, fails>>

\* The client has read everything, has left, or the stream failed.
EndDownload(s) ==
    /\ pc[s] = "drain"
    /\ ThreadFree
    /\ End(s)
    /\ UNCHANGED <<kind, waiting, left, expired, killVars, ruleVars, fails>>

-----------------------------------------------------------------------------
(***************************************************************************)
(* _stream_rule_hits, the producer, and _scan_and_annotate, its consumer.   *)
(***************************************************************************)
ReadHits(s) ==
    /\ pc[s] = "run" /\ s \notin Endless
    /\ kind[s] = "rule"
    /\ \/ /\ ~ Exhausted(s)
          /\ sent' = [sent EXCEPT ![s] = @ + 1]
          /\ Goto(s, "put") /\ UNCHANGED holds
       \/ /\ Exhausted(s)
          /\ holds' = [holds EXCEPT !["heavy"] = @ \ {s}]
          /\ Goto(s, "end") /\ UNCHANGED sent
    /\ UNCHANGED <<kind, waiting, threads, left, expired, killVars, queue, stopped,
                   taken, matched, outcome, fails>>

\* _put of hits, of the end mark, or of an exception; stop aborts the scan.
Put(s) ==
    /\ pc[s] \in {"put", "end", "error"}
    /\ PutReturns(s)
    /\ \/ s \in stopped /\ End(s) /\ UNCHANGED queue
       \/ /\ s \notin stopped
          /\ queue' = [queue EXCEPT ![s] = Append(@, pc[s])]
          /\ Goto(s, IF pc[s] = "put" THEN "run" ELSE "over")
          /\ UNCHANGED <<holds, threads>>
    /\ UNCHANGED <<kind, waiting, left, expired, killVars, sent, stopped, taken,
                   matched, outcome, fails>>

Finish(s, result) ==
    /\ outcome' = [outcome EXCEPT ![s] = result]
    /\ stopped' = stopped \cup {s}

\* The writer waits for an item ...
Take(s) ==
    /\ outcome[s] = "none" /\ taken[s] = matched[s] /\ queue[s] # <<>>
    /\ queue' = [queue EXCEPT ![s] = Tail(@)]
    /\ LET item == Head(queue[s]) IN
       \/ item = "put" /\ taken' = [taken EXCEPT ![s] = @ + 1] /\ UNCHANGED <<outcome, stopped>>
       \/ item = "end" /\ Finish(s, "ok") /\ UNCHANGED taken
       \/ item = "error" /\ Finish(s, "error") /\ UNCHANGED taken
    /\ UNCHANGED <<kind, pc, holds, waiting, threads, left, expired, killVars, sent,
                   matched, fails>>

\* ... and stores its hits with bulk_create_annotations.
Annotate(s) ==
    /\ outcome[s] = "none" /\ matched[s] < taken[s]
    /\ matched' = [matched EXCEPT ![s] = @ + 1]
    /\ UNCHANGED <<kind, pc, holds, waiting, threads, left, expired, killVars, queue,
                   sent, stopped, taken, outcome, fails>>

FailAnnotate(s) ==
    /\ outcome[s] = "none" /\ matched[s] < taken[s]
    /\ Failing
    /\ Finish(s, "error")
    /\ UNCHANGED <<kind, pc, holds, waiting, threads, left, expired, killVars, queue,
                   sent, taken, matched>>

-----------------------------------------------------------------------------
\* What runs by itself: threads, the event loop and the clock.
Proceed(s) ==
    \/ TakeThread(s) \/ GiveUp(s) \/ Try(s) \/ Acquire(s) \/ PollAgain(s) \/ Expire(s)
    \/ StartQuery(s) \/ FinishQuery(s) \/ Unwind(s)
    \/ AcquireExportSlot(s) \/ AuditExport(s) \/ ReadFirstBlock(s)
    \/ ReadHits(s) \/ Put(s)

Environment(s) ==
    \/ Submit(s) \/ Cancel(s) \/ FailQuery(s) \/ FailKill(s) \/ FailAnnotate(s)
    \/ DropResponse(s) \/ StartDownload(s) \/ EndDownload(s)

Next == \E s \in Scans : Proceed(s) \/ KillScanQueries(s) \/ Take(s) \/ Annotate(s) \/ Environment(s)

Spec == Init /\ [][Next]_vars

\* Threads run, time passes and a query that can end does.  A client reads its
\* download when it likes.
Fairness ==
    \A s \in Scans :
        /\ WF_vars(Proceed(s))
        /\ WF_vars(KillScanQueries(s))
        /\ WF_vars(Take(s)) /\ WF_vars(Annotate(s))

FairSpec == Spec /\ Fairness

-----------------------------------------------------------------------------
(***************************************************************************)
(* Properties.                                                              *)
(***************************************************************************)
States == {"idle", "queued", "slot", "audit", "respond", "dropped", "poll", "try",
           "start", "run", "killed", "put", "end", "error", "drain", "over"}

\* Every variable has its type.
TypeOK ==
    /\ kind \in Mixes
    /\ pc \in [Scans -> States]
    /\ holds \in [Gates -> SUBSET Scans]
    /\ waiting \in [Gates -> Nat]
    /\ threads \in SUBSET Scans
    /\ left \in [Scans -> 0 .. Queries]
    /\ expired \in SUBSET Scans /\ cancelled \in SUBSET Scans
    /\ kill \in [Scans -> {"no", "sent", "done"}]
    /\ queue \in [Scans -> Seq({"put", "end", "error"})]
    /\ sent \in [Scans -> 0 .. Batches]
    /\ stopped \in SUBSET Scans
    /\ taken \in [Scans -> Nat] /\ matched \in [Scans -> Nat]
    /\ outcome \in [Scans -> {"none", "ok", "error"}]
    /\ fails \in Nat

SlotsMatchWork ==
    \A g \in {"heavy", "chart"} :
        holds[g] = {s \in Scans : pc[s] \in Scanning /\ Gate(s) = g}

OnlyDroppedResponsesLeak ==
    holds["export"] =
        {s \in Scans : kind[s] = "export" /\ pc[s] \in Streaming \cup {"dropped"}}

WaitingIsParked ==
    \A g \in {"heavy", "chart"} :
        waiting[g] = Cardinality({s \in Scans : pc[s] \in Parked /\ Gate(s) = g})

\* The accounts of the gates are true.  A slot of the heavy or the chart gate
\* is held exactly while its scan has a query to run: not by a caller that gave
\* up, nor by a download at the pace of its client ("holding a detector slot at
\* browser speed is how one backgrounded download starves every sweep on the
\* box").  The slot of the export gate is held by a download in progress, or
\* has been lost with a response whose first row was never asked for.  And
\* "waiting behind N scans" counts the callers that are parked.
GatesAddUp == SlotsMatchWork /\ OnlyDroppedResponsesLeak /\ WaitingIsParked

\* The queries on ClickHouse: those of the scans under a slot, and those of the
\* downloads, which gave their slot back and stream on.
OnClickHouse(g) == Cardinality({s \in Scans : pc[s] \in Scanning /\ Gate(s) = g})
Draining == {s \in Scans : pc[s] = "drain"}

\* What they may use together.
Used(f, width) ==
    Committed(f, OnClickHouse("heavy"), OnClickHouse("chart"), width)
        + Cardinality(Draining) * HeavyCap(f)

\* The budget that was divided, unless it is less than a byte for each query, holds
\* for all that runs on ClickHouse while no download drains, and is exceeded by
\* one cap of a heavy scan at most while one does, since nothing is set aside for
\* it: "admission control is what makes the total budget actually hold",
\* and the export slot what keeps a second download from stacking on the first.
OneDownloadAboveTheBudget ==
    \A f \in Settings, width \in {1, 2} :
        IsDivisible(f, width) =>
            Used(f, width) <= Total(f) + IF Draining = {} THEN 0 ELSE HeavyCap(f)

\* A rule that is reported as evaluated has all its hits stored.
CompletedRulesHaveTheirHits ==
    \A s \in Scans : outcome[s] = "ok" => matched[s] = Batches

\* However long the gate is full, a caller whose client has left does not stay
\* in the queue, and a chart or a fill is admitted or told "busy".
WaitsEnd ==
    \A s \in Scans :
        (s \in cancelled \/ kind[s] \in Bounded) /\ pc[s] \in Parked ~> pc[s] \notin Parked

\* A KILL under way reaches a query that runs, however many scans are parked
\* in the thread pool.
KillsReachRunningQueries ==
    \A s \in Scans :
        kill[s] = "sent" /\ pc[s] = "run" ~> pc[s] # "run" \/ fails > 0

\* A rule scan whose writer has failed lets go of its slot, also when it is
\* blocked on a queue that nobody empties any more.
StoppedProducersLetGo ==
    \A s \in Scans \ Endless : s \in stopped ~> s \notin holds["heavy"]
=============================================================================
