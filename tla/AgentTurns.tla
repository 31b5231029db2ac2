----------------------------- MODULE AgentTurns -----------------------------
(***************************************************************************)
(* The analyst's conversation with the agent (api/routers/agent.py): one   *)
(* conversation row with a replayable history, and the turns that stream   *)
(* into it.                                                                *)
(*                                                                         *)
(* A turn is one POST of a message.  It reads the conversation, checks and *)
(* takes the in-memory reservation, streams, stores mid-turn snapshots as  *)
(* it goes and either its whole history at the end or, when it is stopped  *)
(* or fails, what it had.  What the turns share is the database row (conv) *)
(* and the reservation (active); the rest is each generator's own.         *)
(*                                                                         *)
(* Abstracted: a history is a sequence of turns, each with the attempt and *)
(* the revision its work stands at; texts, tools, window budgets, tokens,  *)
(* the transcript rows, which are only ever appended, and the audit trail  *)
(* are left out.                                                           *)
(***************************************************************************)
EXTENDS Naturals, Sequences, FiniteSets

CONSTANTS Turns,       \* the messages analysts may send
          None,
          MaxRevision, \* bound: checkpoints of one attempt
          MaxAged,     \* bound: reservations that expire unstranded
          MaxCrashes   \* bound: restarts of the server

ASSUME AgentAssumption ==
    /\ IsFiniteSet(Turns) /\ None \notin Turns
    /\ {MaxRevision, MaxAged, MaxCrashes} \subseteq Nat

VARIABLES conv,      \* the agent_conversations row
          active,    \* _active_turns[conversation]: the turn that reserved it
          aged,      \* turns whose reservation is older than _turn_stale_after
          cancelled, \* turns whose cancel event is set
          pc,        \* where each turn stands
          base,      \* the history each turn read, and extends
          took,      \* whose reservation each generator found at its first step
          rec,       \* each turn's TurnRecorder, and the revision it last stored
          completed, \* turns whose last write to the row was their completion
          crashes

lockVars == <<active, aged, cancelled>>
turnVars == <<pc, base, took, rec, completed>>
vars == <<conv, lockVars, turnVars, crashes>>

Stages == {"idle", "read", "reserved", "started", "streaming", "answered",
           "failing", "completed", "ending", "ended", "refused", "stranded"}

Fresh(attempt) == [attempt |-> attempt, revision |-> 0, saved |-> 0]
Snapshot(t, r) ==
    [turn |-> t, attempt |-> r.attempt, revision |-> r.revision, whole |-> FALSE]
Whole(t) == [turn |-> t, attempt |-> 0, revision |-> 0, whole |-> TRUE]

(* A turn whose generator has taken its first step and not its last.       *)
Running(t) == pc[t] \in {"started", "streaming", "answered", "failing", "completed",
                         "ending"}

(* turn_is_active: an over-aged reservation is not believed, and dropped.  *)
Believed_Always(a) == a
Believed(a) == IF a \in aged THEN None ELSE a

(* The 409 of send_message.                                                *)
Free_Unasked == TRUE
Free == Believed(active) = None

(* The generator's `_cancelled`: the event of the reservation it found.    *)
Cancelled_FirstAttempt(t) == took[t] \in cancelled /\ rec[t].attempt = 0
Cancelled(t) == took[t] \in cancelled

Init ==
    /\ conv = [exists |-> TRUE, history |-> <<>>, partial |-> FALSE]
    /\ active = None /\ aged = {} /\ cancelled = {}
    /\ pc = [t \in Turns |-> "idle"]
    /\ base = [t \in Turns |-> <<>>]
    /\ took = [t \in Turns |-> None]
    /\ rec = [t \in Turns |-> Fresh(0)]
    /\ completed = {}
    /\ crashes = 0

-----------------------------------------------------------------------------
(* Sending a message.                                                      *)

(* update_agent_conversation: no row, no effect.                           *)
Stored(history, partial) ==
    IF conv.exists THEN [conv EXCEPT !.history = history, !.partial = partial]
    ELSE conv

(* send_message reads the conversation, its history included ...           *)
SendRead(t) ==
    /\ pc[t] = "idle" /\ conv.exists
    /\ pc' = [pc EXCEPT ![t] = "read"]
    /\ base' = [base EXCEPT ![t] = conv.history]
    /\ UNCHANGED <<conv, lockVars, took, rec, completed, crashes>>

(* ... and then looks at the reservation: 409, or the turn is reserved.    *)
Reserve(t) ==
    /\ pc[t] = "read"
    /\ IF Free
       THEN active' = t /\ pc' = [pc EXCEPT ![t] = "reserved"]
       ELSE active' = active /\ pc' = [pc EXCEPT ![t] = "refused"]
    /\ UNCHANGED <<conv, aged, cancelled, base, took, rec, completed, crashes>>

(* The generator's first step looks its reservation up.                    *)
Start(t) ==
    /\ pc[t] = "reserved"
    /\ took' = [took EXCEPT ![t] = active]
    /\ pc' = [pc EXCEPT ![t] = "started"]
    /\ UNCHANGED <<conv, lockVars, base, rec, completed, crashes>>

(* The client went away before that step: the finally never runs.          *)
NeverStart(t) ==
    /\ pc[t] = "reserved"
    /\ pc' = [pc EXCEPT ![t] = "stranded"]
    /\ UNCHANGED <<conv, lockVars, base, took, rec, completed, crashes>>

-----------------------------------------------------------------------------
(* A turn as it streams.                                                   *)

(* _persist_partial: nothing to store, or nothing new, is not stored; what *)
(* is stored is marked as stored first (persisted_revision), then written. *)
Due(r) == r.revision # 0 /\ r.revision # r.saved
Marked(r) == [r EXCEPT !.saved = r.revision]

StorePartial(t, r) ==
    IF Due(r)
    THEN /\ conv' = Stored(Append(base[t], Snapshot(t, r)), TRUE)
         /\ rec' = [rec EXCEPT ![t] = Marked(r)]
    ELSE conv' = conv /\ rec' = [rec EXCEPT ![t] = r]

(* The top of an attempt: a stop that came before it ends the turn.        *)
BeginAttempt(t) ==
    /\ pc[t] = "started"
    /\ IF Cancelled(t)
       THEN pc' = [pc EXCEPT ![t] = "ending"]
       ELSE pc' = [pc EXCEPT ![t] = "streaming"]
    /\ UNCHANGED <<conv, lockVars, base, took, rec, completed, crashes>>

(* The recorder after the next streamed event, a checkpoint or another one. *)
NextRecorders(t) ==
    {rec[t]} \union
    {[rec[t] EXCEPT !.revision = n] :
        n \in {rec[t].revision + 1} \intersect 1..MaxRevision}

(* A checkpoint event: written, or throttled by _CHECKPOINT_MIN_INTERVAL,  *)
(* which the first of an attempt never is.                                 *)
Checkpoint(t) ==
    /\ pc[t] = "streaming" /\ ~Cancelled(t)
    /\ \E r \in NextRecorders(t) \ {rec[t]} :
          \/ StorePartial(t, r)
          \/ r.revision > 1 /\ conv' = conv /\ rec' = [rec EXCEPT ![t] = r]
    /\ UNCHANGED <<lockVars, pc, base, took, completed, crashes>>

(* The next event finds the stop: what the turn has is stored, unthrottled. *)
Stop(t) ==
    /\ pc[t] = "streaming" /\ Cancelled(t)
    /\ \E r \in NextRecorders(t) : StorePartial(t, r)
    /\ pc' = [pc EXCEPT ![t] = "ending"]
    /\ UNCHANGED <<lockVars, base, took, completed, crashes>>

(* The write of a checkpoint or of a stop fails: the revision is marked,   *)
(* the row is as it was, and the except branch is next.                    *)
FailWrite(t) ==
    /\ pc[t] = "streaming"
    /\ \E r \in NextRecorders(t) :
          /\ Due(r) /\ (Cancelled(t) \/ r # rec[t])
          /\ rec' = [rec EXCEPT ![t] = Marked(r)]
    /\ pc' = [pc EXCEPT ![t] = "failing"]
    /\ UNCHANGED <<conv, lockVars, base, took, completed, crashes>>

(* The provider refuses the context: the turn is re-run once, with an empty *)
(* recorder and nothing stored of it yet.                                  *)
Retries(r) == r.attempt = 0
Emptied_Saved(r) == [Fresh(r.attempt + 1) EXCEPT !.saved = r.saved]
Emptied(r) == Fresh(r.attempt + 1)

Overflow(t) ==
    /\ pc[t] = "streaming" /\ Retries(rec[t])
    /\ rec' = [rec EXCEPT ![t] = Emptied(rec[t])]
    /\ pc' = [pc EXCEPT ![t] = "started"]
    /\ UNCHANGED <<conv, lockVars, base, took, completed, crashes>>

(* The result event finds no stop ...                                      *)
Answer(t) ==
    /\ pc[t] = "streaming" /\ ~Cancelled(t)
    /\ pc' = [pc EXCEPT ![t] = "answered"]
    /\ UNCHANGED <<conv, lockVars, base, took, rec, completed, crashes>>

(* ... and the whole turn joins the history: a turn boundary again.        *)
Boundary_FlagKept(history) == Stored(history, conv.partial)
Boundary(history) == Stored(history, FALSE)

StoreHistory(t) ==
    /\ pc[t] = "answered"
    /\ conv' = Boundary(Append(base[t], Whole(t)))
    /\ pc' = [pc EXCEPT ![t] = "completed"]
    /\ completed' = completed \union {t}
    /\ UNCHANGED <<lockVars, base, took, rec, crashes>>

(* The model or the store fails: the three except branches, which also     *)
(* catch a failure after the answer was stored.  After a failed write      *)
(* nothing is due any more, and they store nothing.                        *)
Fail(t) ==
    /\ pc[t] \in {"streaming", "answered", "failing", "completed"}
    /\ StorePartial(t, rec[t])
    /\ pc' = [pc EXCEPT ![t] = "ending"]
    /\ completed' = IF conv' = conv THEN completed ELSE completed \ {t}
    /\ UNCHANGED <<lockVars, base, took, crashes>>

(* The end of a completed turn stores nothing more.                        *)
Finish_Stores(t) ==
    /\ pc[t] = "completed"
    /\ StorePartial(t, rec[t])
    /\ pc' = [pc EXCEPT ![t] = "ending"]
    /\ UNCHANGED <<lockVars, base, took, completed, crashes>>

Finish(t) ==
    /\ pc[t] = "completed"
    /\ pc' = [pc EXCEPT ![t] = "ending"]
    /\ UNCHANGED <<conv, lockVars, base, took, rec, completed, crashes>>

(* A generator's locals go with it.                                        *)
Forget(S) ==
    /\ pc' = [t \in Turns |-> IF t \in S THEN "ended" ELSE pc[t]]
    /\ base' = [t \in Turns |-> IF t \in S THEN <<>> ELSE base[t]]
    /\ took' = [t \in Turns |-> IF t \in S THEN None ELSE took[t]]
    /\ rec' = [t \in Turns |-> IF t \in S THEN Fresh(0) ELSE rec[t]]

(* The finally of _message_stream: whatever reservation is there goes.     *)
Release(t) ==
    /\ pc[t] = "ending"
    /\ active' = None
    /\ Forget({t})
    /\ UNCHANGED <<conv, aged, cancelled, completed, crashes>>

(* The client's disconnect, or an error outside the try or in an except    *)
(* branch (a failure of its own write included): only the finally.         *)
Drop(t) ==
    /\ pc[t] \in {"started", "streaming", "answered", "failing", "completed"}
    /\ active' = None
    /\ Forget({t})
    /\ UNCHANGED <<conv, aged, cancelled, completed, crashes>>

-----------------------------------------------------------------------------
(* What other requests, time and the operator do.                          *)

(* A read of the conversation asks turn_is_active, which prunes.           *)
Look ==
    /\ conv.exists /\ active # None /\ Believed(active) = None
    /\ active' = None
    /\ UNCHANGED <<conv, aged, cancelled, turnVars, crashes>>

(* cancel_turn: sets the event of the believed reservation.                *)
CancelTurn ==
    /\ conv.exists /\ active # None
    /\ active' = Believed(active)
    /\ cancelled' = cancelled \union ({active'} \ {None})
    /\ UNCHANGED <<conv, aged, turnVars, crashes>>

(* The reservation's limit passes, whether its turn is stranded or slow.   *)
Age ==
    /\ active \in Turns \ aged
    /\ pc[active] = "stranded" \/ Cardinality(aged) < MaxAged
    /\ aged' = aged \union {active}
    /\ UNCHANGED <<conv, active, cancelled, turnVars, crashes>>

(* delete_conversation: the rows go, a running turn does not notice.       *)
Delete ==
    /\ conv.exists
    /\ conv' = [exists |-> FALSE, history |-> <<>>, partial |-> FALSE]
    /\ UNCHANGED <<lockVars, turnVars, crashes>>

(* A restart: requests and reservations are gone, rows stay.               *)
Crash ==
    /\ crashes < MaxCrashes
    /\ crashes' = crashes + 1
    /\ active' = None
    /\ Forget({t \in Turns : pc[t] # "idle"})
    /\ UNCHANGED <<conv, aged, cancelled, completed>>

-----------------------------------------------------------------------------
TurnStep(t) ==
    \/ Start(t) \/ NeverStart(t) \/ BeginAttempt(t) \/ Stop(t) \/ Overflow(t)
    \/ Checkpoint(t) \/ FailWrite(t) \/ Answer(t) \/ StoreHistory(t) \/ Fail(t)
    \/ Finish(t) \/ Release(t) \/ Drop(t)

Next ==
    \/ \E t \in Turns : SendRead(t) \/ Reserve(t) \/ TurnStep(t)
    \/ Look \/ CancelTurn \/ Age \/ Delete \/ Crash

(* A started request runs (the model's requests time out), time passes,    *)
(* and as long as the conversation is there somebody reads it.             *)
Fairness ==
    /\ \A t \in Turns : WF_vars(TurnStep(t))
    /\ WF_vars(Age) /\ WF_vars(Look)

Spec == Init /\ [][Next]_vars /\ Fairness

-----------------------------------------------------------------------------
(* Properties.                                                             *)

Recorders == [attempt : {0, 1}, revision : 0..MaxRevision, saved : 0..MaxRevision]
Entries == [turn : Turns, attempt : {0, 1}, revision : 0..MaxRevision,
            whole : BOOLEAN]

(* Every variable holds a value of its kind.                               *)
TypeOK ==
    /\ conv \in [exists : BOOLEAN, history : Seq(Entries), partial : BOOLEAN]
    /\ active \in Turns \union {None}
    /\ aged \subseteq Turns /\ cancelled \subseteq Turns
    /\ pc \in [Turns -> Stages]
    /\ base \in [Turns -> Seq(Entries)]
    /\ took \in [Turns -> Turns \union {None}]
    /\ rec \in [Turns -> Recorders]
    /\ completed \subseteq Turns
    /\ crashes \in 0..MaxCrashes

(* A reservation has expired under a turn that was still going to use it,  *)
(* the overlap the comment on _turn_stale_after accepts.                   *)
Overtaken == \E t \in aged : pc[t] \notin {"reserved", "stranded"}

(* A turn runs under its own reservation, which every request sees, and so *)
(* alone: unless a reservation expired under a running turn, no end of     *)
(* another turn and no pruning takes it away.                              *)
RunningTurnIsReserved ==
    ~Overtaken => \A t \in Turns : Running(t) => active = t /\ took[t] = t

(* history_partial_at is set exactly when the stored history ends in a     *)
(* mid-turn snapshot, whatever order turns, failures and deletes come in:  *)
(* it decides whether the next turn is told to resume.                     *)
PartialFlagIsTrue ==
    conv.partial <=> /\ conv.history # <<>>
                     /\ ~conv.history[Len(conv.history)].whole

(* A turn ends by a stop or a failure, with something recorded.            *)
Interrupted(t) ==
    /\ pc[t] \in {"streaming", "answered", "failing"} /\ pc'[t] = "ending"
    /\ rec'[t].revision > 0 /\ conv'.exists /\ ~Overtaken

(* The history then ends in all the recorder held, of the attempt that ran. *)
KeepsItsWork(t) ==
    /\ conv'.history # <<>>
    /\ conv'.history[Len(conv'.history)] = Snapshot(t, rec'[t])

(* A stop or a failure leaves in the history everything the recorder held, *)
(* of the attempt that was running: neither the write throttle nor the     *)
(* revision left from the first attempt may skip that last write.  Not so  *)
(* when the failure is that of a snapshot's own write (pc "failing").      *)
InterruptionsKeepTheWork ==
    [][\A t \in Turns : Interrupted(t) /\ pc[t] # "failing" => KeepsItsWork(t)]_vars

(* A turn whose whole history is stored is stored again as a mid-turn      *)
(* snapshot only when it fails afterwards, in the writes that follow: no   *)
(* checkpoint, stop or re-run of its own undoes the completion.            *)
FinishedTurnsStayFinished ==
    [][\A t \in Turns :
          /\ t \in completed /\ conv' # conv /\ conv'.history # <<>>
          /\ conv'.history[Len(conv'.history)].turn = t
          => conv'.history[Len(conv'.history)].whole \/ t \notin completed']_vars

(* Once cancel_turn has set a turn's event, that turn stores no answer: a  *)
(* stop reaches the turn it was meant for, at its next event, in the first *)
(* attempt and in the re-run.                                              *)
StopsAreObeyed ==
    [][\A t \in cancelled :
          pc[t] \in {"started", "streaming"} /\ ~Overtaken
          => pc'[t] # "answered"]_vars

(* No reservation locks a conversation for ever, even one whose generator  *)
(* never took its first step: it is released, replaced or pruned.          *)
LocksAreReleased == \A t \in Turns : active = t ~> (active # t \/ ~conv.exists)

(* Every turn that completed is part of the replayable history.            *)
EveryAnswerIsReplayable ==
    conv.exists =>
        \A t \in completed :
            \E i \in DOMAIN conv.history :
                conv.history[i].turn = t /\ conv.history[i].whole
=============================================================================
