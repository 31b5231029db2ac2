--------------------------- MODULE AgentTurnsProofs ---------------------------
(***************************************************************************)
(* Proofs about AgentTurns, for every number of turns, checkpoints,        *)
(* expired reservations and restarts.                                      *)
(***************************************************************************)
EXTENDS AgentTurns, TLAPS

USE AgentAssumption

-----------------------------------------------------------------------------
(* The inductive invariant.                                                *)

Asking == {"idle", "read", "refused"}

(* A reservation, also one that expired, is that of a turn that was let in. *)
HoldersWereLetIn ==
    \A t \in Turns : active = t \/ t \in aged => pc[t] \notin Asking

(* A turn that was let in keeps its reservation until its first step,      *)
(* unless it expires.                                                      *)
WaitersHold ==
    ~Overtaken => \A t \in Turns : pc[t] = "reserved" /\ t \notin aged => active = t

(* A turn that has not started has recorded nothing.                       *)
BlankUntilStarted ==
    \A t \in Turns : pc[t] \in {"idle", "read", "reserved"} => rec[t] = Fresh(0)

(* What a running turn has marked as stored is what the row ends in, so    *)
(* that _persist_partial is right to skip it; not so once a write of the   *)
(* turn has failed (pc "failing"), the one stage that is left out.         *)
SavedIsStored ==
    /\ \A t \in Turns : rec[t].saved <= rec[t].revision
    /\ ~Overtaken /\ conv.exists =>
         \A t \in Turns :
            /\ pc[t] \in {"started", "streaming", "answered"}
            /\ rec[t].revision > 0 /\ rec[t].saved = rec[t].revision
            => /\ conv.history # <<>>
               /\ conv.history[Len(conv.history)] = Snapshot(t, rec[t])

CompletedIsPast ==
    \A t \in completed : pc[t] \in {"completed", "ending", "ended"}

Inv ==
    /\ TypeOK
    /\ HoldersWereLetIn /\ RunningTurnIsReserved /\ WaitersHold
    /\ PartialFlagIsTrue
    /\ BlankUntilStarted /\ SavedIsStored /\ CompletedIsPast

-----------------------------------------------------------------------------
(* Types.                                                                  *)

LEMMA FreshType == \A a \in {0, 1} : Fresh(a) \in Recorders
BY DEF Fresh, Recorders

LEMMA SnapshotType ==
    ASSUME NEW t \in Turns, NEW r \in Recorders
    PROVE  Snapshot(t, r) \in Entries
BY DEF Snapshot, Recorders, Entries

LEMMA WholeType == \A t \in Turns : Whole(t) \in Entries
BY DEF Whole, Entries

Convs == [exists : BOOLEAN, history : Seq(Entries), partial : BOOLEAN]

LEMMA StoredType ==
    ASSUME conv \in Convs, NEW h \in Seq(Entries), NEW p \in BOOLEAN
    PROVE  Stored(h, p) \in Convs
BY DEF Stored, Convs

LEMMA AppendedType ==
    ASSUME NEW h \in Seq(Entries), NEW e \in Entries
    PROVE  Append(h, e) \in Seq(Entries)
OBVIOUS

(* The last entry of a history that has been extended.                     *)
LEMMA AppendedLast ==
    ASSUME NEW h \in Seq(Entries), NEW e \in Entries
    PROVE  /\ Append(h, e) # <<>>
           /\ Append(h, e)[Len(Append(h, e))] = e
OBVIOUS

LEMMA NextRecordersType ==
    ASSUME TypeOK, NEW t \in Turns, NEW r \in NextRecorders(t)
    PROVE  /\ r \in Recorders
           /\ r.attempt = rec[t].attempt /\ r.saved = rec[t].saved
           /\ r = rec[t] \/ r.revision = rec[t].revision + 1
<1>1. rec[t] \in Recorders
  BY DEF TypeOK
<1>2. CASE r = rec[t]
  BY <1>1, <1>2
<1>3. CASE r # rec[t]
  <2>1. PICK n \in {rec[t].revision + 1} \intersect 1..MaxRevision :
            r = [rec[t] EXCEPT !.revision = n]
    BY <1>3 DEF NextRecorders
  <2> QED
    BY <1>1, <2>1 DEF Recorders
<1> QED
  BY <1>2, <1>3

LEMMA MarkedType ==
    ASSUME NEW r \in Recorders
    PROVE  /\ Marked(r) \in Recorders
           /\ Marked(r).attempt = r.attempt
           /\ Marked(r).revision = r.revision /\ Marked(r).saved = r.revision
BY DEF Marked, Recorders

LEMMA StorePartialType ==
    ASSUME TypeOK, NEW t \in Turns, NEW r \in Recorders, StorePartial(t, r)
    PROVE  /\ conv' \in Convs /\ rec' \in [Turns -> Recorders]
<1>1. /\ conv \in Convs /\ rec \in [Turns -> Recorders]
      /\ base[t] \in Seq(Entries)
  BY DEF TypeOK, Convs
<1>2. Stored(Append(base[t], Snapshot(t, r)), TRUE) \in Convs
  BY <1>1, SnapshotType, AppendedType, StoredType
<1> QED
  BY <1>1, <1>2, MarkedType DEF StorePartial

LEMMA ForgetType ==
    ASSUME TypeOK, NEW S, Forget(S)
    PROVE  /\ pc' \in [Turns -> Stages] /\ base' \in [Turns -> Seq(Entries)]
           /\ took' \in [Turns -> Turns \union {None}] /\ rec' \in [Turns -> Recorders]
<1>1. <<>> \in Seq(Entries)
  OBVIOUS
<1> QED
  BY <1>1, FreshType DEF TypeOK, Forget, Stages

LEMMA InitTyped == Init => TypeOK
<1>1. <<>> \in Seq(Entries)
  OBVIOUS
<1> QED
  BY <1>1, FreshType DEF Init, TypeOK, Stages

LEMMA StepTyped == TypeOK /\ [Next]_vars => TypeOK'
<1> SUFFICES ASSUME TypeOK, [Next]_vars PROVE TypeOK'
  OBVIOUS
<1>0. /\ conv \in Convs /\ conv.history \in Seq(Entries) /\ conv.partial \in BOOLEAN
      /\ <<>> \in Seq(Entries)
  BY DEF TypeOK, Convs
<1>1. ASSUME NEW t \in Turns, SendRead(t) PROVE TypeOK'
  BY <1>0, <1>1 DEF SendRead, TypeOK, lockVars, Stages
<1>2. ASSUME NEW t \in Turns, Reserve(t) PROVE TypeOK'
  BY <1>2 DEF Reserve, TypeOK, Stages
<1>3. ASSUME NEW t \in Turns, Start(t) PROVE TypeOK'
  BY <1>3 DEF Start, TypeOK, lockVars, Stages
<1>4. ASSUME NEW t \in Turns, NeverStart(t) PROVE TypeOK'
  BY <1>4 DEF NeverStart, TypeOK, lockVars, Stages
<1>5. ASSUME NEW t \in Turns, BeginAttempt(t) PROVE TypeOK'
  BY <1>5 DEF BeginAttempt, TypeOK, lockVars, Stages
<1>6. ASSUME NEW t \in Turns, Checkpoint(t) PROVE TypeOK'
  <2>1. PICK r \in NextRecorders(t) : \/ StorePartial(t, r)
                                      \/ conv' = conv /\ rec' = [rec EXCEPT ![t] = r]
    BY <1>6 DEF Checkpoint
  <2>2. r \in Recorders
    BY NextRecordersType
  <2>3. conv' \in Convs /\ rec' \in [Turns -> Recorders]
    BY <1>0, <2>1, <2>2, StorePartialType DEF TypeOK
  <2> QED
    BY <1>6, <2>3 DEF Checkpoint, TypeOK, lockVars, Convs
<1>7. ASSUME NEW t \in Turns, Stop(t) PROVE TypeOK'
  <2>1. PICK r \in NextRecorders(t) : StorePartial(t, r)
    BY <1>7 DEF Stop
  <2>2. r \in Recorders
    BY NextRecordersType
  <2>3. conv' \in Convs /\ rec' \in [Turns -> Recorders]
    BY <2>1, <2>2, StorePartialType
  <2> QED
    BY <1>7, <2>3 DEF Stop, TypeOK, lockVars, Convs, Stages
<1>8. ASSUME NEW t \in Turns, Overflow(t) PROVE TypeOK'
  <2>1. Emptied(rec[t]) \in Recorders
    BY <1>8, FreshType DEF Overflow, Retries, Emptied
  <2> QED
    BY <1>8, <2>1 DEF Overflow, TypeOK, lockVars, Stages
<1>9. ASSUME NEW t \in Turns, Answer(t) PROVE TypeOK'
  BY <1>9 DEF Answer, TypeOK, lockVars, Stages
<1>10. ASSUME NEW t \in Turns, StoreHistory(t) PROVE TypeOK'
  <2>1. Append(base[t], Whole(t)) \in Seq(Entries)
    BY WholeType, AppendedType DEF TypeOK
  <2>2. conv' \in Convs
    BY <1>0, <1>10, <2>1, StoredType DEF StoreHistory, Boundary
  <2> QED
    BY <1>10, <2>2 DEF StoreHistory, TypeOK, lockVars, Convs, Stages
<1>11. ASSUME NEW t \in Turns, Fail(t) PROVE TypeOK'
  <2>1. conv' \in Convs /\ rec' \in [Turns -> Recorders]
    BY <1>11, StorePartialType DEF Fail, TypeOK
  <2> QED
    BY <1>11, <2>1 DEF Fail, TypeOK, lockVars, Convs, Stages
<1>12. ASSUME NEW t \in Turns, Finish(t) PROVE TypeOK'
  BY <1>12 DEF Finish, TypeOK, lockVars, Stages
<1>13. ASSUME NEW t \in Turns, Release(t) PROVE TypeOK'
  BY <1>13, ForgetType DEF Release, TypeOK
<1>14. ASSUME NEW t \in Turns, Drop(t) PROVE TypeOK'
  BY <1>14, ForgetType DEF Drop, TypeOK
<1>15. CASE Look
  BY <1>15 DEF Look, TypeOK, turnVars
<1>16. CASE CancelTurn
  BY <1>16 DEF CancelTurn, Believed, TypeOK, turnVars
<1>17. CASE Age
  BY <1>17 DEF Age, TypeOK, turnVars
<1>18. CASE Delete
  BY <1>0, <1>18 DEF Delete, TypeOK, lockVars, turnVars
<1>19. CASE Crash
  BY <1>19, ForgetType DEF Crash, TypeOK
<1>20. CASE UNCHANGED vars
  BY <1>20 DEF vars, TypeOK, lockVars, turnVars
<1>21. ASSUME NEW t \in Turns, FailWrite(t) PROVE TypeOK'
  <2>1. PICK r \in NextRecorders(t) : rec' = [rec EXCEPT ![t] = Marked(r)]
    BY <1>21 DEF FailWrite
  <2>2. Marked(r) \in Recorders
    BY NextRecordersType, MarkedType
  <2> QED
    BY <1>21, <2>1, <2>2 DEF FailWrite, TypeOK, lockVars, Stages
<1> QED
  BY <1>1, <1>2, <1>3, <1>4, <1>5, <1>6, <1>7, <1>8, <1>9, <1>10, <1>11, <1>12,
     <1>13, <1>14, <1>15, <1>16, <1>17, <1>18, <1>19, <1>20, <1>21 DEF Next, TurnStep

-----------------------------------------------------------------------------
(* Reservations.                                                           *)

Reservations == HoldersWereLetIn /\ RunningTurnIsReserved /\ WaitersHold

(* A step that takes a turn no further than it was let in for leaves an    *)
(* overtaken turn overtaken.                                               *)
LEMMA OvertakenStays ==
    ASSUME TypeOK, HoldersWereLetIn,
           aged' = aged,
           \A t \in aged : pc[t] \notin {"reserved", "stranded"}
                          => pc'[t] \notin {"reserved", "stranded"},
           Overtaken
    PROVE  Overtaken'
BY DEF Overtaken

LEMMA ForgottenEnd ==
    ASSUME TypeOK, NEW S \in SUBSET Turns, Forget(S), NEW t \in Turns
    PROVE  /\ t \in S => pc'[t] = "ended"
           /\ t \notin S => pc'[t] = pc[t] /\ took'[t] = took[t] /\ rec'[t] = rec[t]
BY DEF Forget

(* A running turn whose reservation is gone takes its own only.            *)
LEMMA EndKeepsReservations ==
    ASSUME TypeOK, Reservations, NEW t \in Turns, Running(t), Forget({t}),
           active' = None, aged' = aged
    PROVE  Reservations'
<1>1. ~Overtaken' => ~Overtaken
  <2>1. aged \subseteq Turns /\ {t} \in SUBSET Turns
    BY DEF TypeOK
  <2>2. \A u \in aged : pc[u] \notin {"reserved", "stranded"}
                       => pc'[u] \notin {"reserved", "stranded"}
    <3> SUFFICES ASSUME NEW u \in aged, pc[u] \notin {"reserved", "stranded"}
                 PROVE  pc'[u] \notin {"reserved", "stranded"}
      OBVIOUS
    <3>1. pc'[u] = IF u = t THEN "ended" ELSE pc[u]
      BY <2>1 DEF Forget
    <3> QED
      BY <3>1
  <2> QED
    BY <2>2, OvertakenStays DEF Reservations
<1>2. ~Overtaken => active = t
  BY DEF Reservations, RunningTurnIsReserved
<1>3. HoldersWereLetIn'
  BY ForgottenEnd DEF Reservations, HoldersWereLetIn, Asking
<1>4. RunningTurnIsReserved'
  <2> SUFFICES ASSUME ~Overtaken', NEW u \in Turns, Running(u)' PROVE FALSE
    BY DEF RunningTurnIsReserved
  <2> QED
    BY <1>1, <1>2, ForgottenEnd DEF Reservations, RunningTurnIsReserved, Running
<1>5. WaitersHold'
  <2> SUFFICES ASSUME ~Overtaken', NEW u \in Turns, pc'[u] = "reserved", u \notin aged'
               PROVE  FALSE
    BY DEF WaitersHold
  <2> QED
    BY <1>1, <1>2, ForgottenEnd DEF Reservations, WaitersHold, Running
<1> QED
  BY <1>3, <1>4, <1>5 DEF Reservations

LEMMA StepReserves == TypeOK /\ Reservations /\ [Next]_vars => Reservations'
<1> SUFFICES ASSUME TypeOK, Reservations, [Next]_vars PROVE Reservations'
  OBVIOUS
<1> USE DEF Reservations
<1>0. /\ pc \in [Turns -> Stages] /\ took \in [Turns -> Turns \union {None}]
      /\ active \in Turns \union {None} /\ aged \subseteq Turns
  BY DEF TypeOK
(* A step of a turn that goes on running, or stops before it runs.         *)
<1>a. ASSUME NEW t \in Turns, NEW p \in Stages,
             pc' = [pc EXCEPT ![t] = p], UNCHANGED <<active, aged, took>>,
             \/ /\ Running(t)
                /\ p \in {"started", "streaming", "answered", "failing", "completed", "ending"}
             \/ pc[t] = "idle" /\ p = "read"
             \/ pc[t] = "reserved" /\ p = "stranded"
      PROVE  Reservations'
  <2>1. ~Overtaken' => ~Overtaken
    <3>1. \A u \in aged : pc[u] \notin {"reserved", "stranded"}
                         => pc'[u] \notin {"reserved", "stranded"}
      BY <1>0, <1>a DEF Running
    <3> QED
      BY <1>a, <3>1, OvertakenStays
  <2>2. HoldersWereLetIn'
    BY <1>0, <1>a DEF HoldersWereLetIn, Asking, Running
  <2>3. RunningTurnIsReserved'
    BY <1>0, <1>a, <2>1 DEF RunningTurnIsReserved, Running
  <2>4. WaitersHold'
    BY <1>0, <1>a, <2>1 DEF WaitersHold, Running
  <2> QED
    BY <2>2, <2>3, <2>4
<1>1. ASSUME NEW t \in Turns, SendRead(t) PROVE Reservations'
  BY <1>1, <1>a DEF SendRead, lockVars, Stages
<1>2. ASSUME NEW t \in Turns, Reserve(t) PROVE Reservations'
  <2>1. CASE Free
    <3>1. /\ active' = t /\ pc' = [pc EXCEPT ![t] = "reserved"]
          /\ pc[t] = "read" /\ UNCHANGED <<aged, took>>
          /\ active = None \/ active \in aged
      BY <1>2, <2>1 DEF Reserve, Free, Believed
    <3>2. t \notin aged
      BY <3>1 DEF HoldersWereLetIn, Asking
    <3>3. ~Overtaken' => ~Overtaken
      BY <1>0, <3>1, <3>2, OvertakenStays
    <3>4. \A u \in Turns \ {t} :
             ~Overtaken => ~Running(u) /\ ~(pc[u] = "reserved" /\ u \notin aged)
      BY <3>1 DEF RunningTurnIsReserved, WaitersHold, Overtaken, Running
    <3>5. HoldersWereLetIn'
      BY <1>0, <3>1 DEF HoldersWereLetIn, Asking
    <3>6. RunningTurnIsReserved'
      BY <1>0, <3>1, <3>3, <3>4 DEF RunningTurnIsReserved, Running
    <3>7. WaitersHold'
      BY <1>0, <3>1, <3>3, <3>4 DEF WaitersHold
    <3> QED
      BY <3>5, <3>6, <3>7
  <2>2. CASE ~Free
    <3>1. /\ UNCHANGED <<active, aged, took>> /\ pc[t] = "read"
          /\ pc' = [pc EXCEPT ![t] = "refused"]
      BY <1>2, <2>2 DEF Reserve
    <3>2. ~Overtaken' => ~Overtaken
      BY <1>0, <3>1, OvertakenStays
    <3>3. active # t /\ t \notin aged
      BY <3>1 DEF HoldersWereLetIn, Asking
    <3> QED
      BY <1>0, <3>1, <3>2, <3>3 DEF HoldersWereLetIn, Asking, RunningTurnIsReserved, Running,
                                    WaitersHold
  <2> QED
    BY <2>1, <2>2
<1>3. ASSUME NEW t \in Turns, Start(t) PROVE Reservations'
  <2>1. /\ pc[t] = "reserved" /\ UNCHANGED <<active, aged>>
        /\ took' = [took EXCEPT ![t] = active] /\ pc' = [pc EXCEPT ![t] = "started"]
    BY <1>3 DEF Start, lockVars
  <2>2. ~Overtaken' => ~Overtaken
    BY <1>0, <2>1, OvertakenStays
  <2>3. ~Overtaken' => t \notin aged
    BY <1>0, <2>1 DEF Overtaken
  <2>4. ~Overtaken' => active = t
    BY <2>1, <2>2, <2>3 DEF WaitersHold
  <2>5. HoldersWereLetIn'
    BY <1>0, <2>1 DEF HoldersWereLetIn, Asking
  <2>6. RunningTurnIsReserved'
    BY <1>0, <2>1, <2>2, <2>4 DEF RunningTurnIsReserved, Running
  <2>7. WaitersHold'
    BY <1>0, <2>1, <2>2 DEF WaitersHold
  <2> QED
    BY <2>5, <2>6, <2>7
<1>4. ASSUME NEW t \in Turns, NeverStart(t) PROVE Reservations'
  BY <1>4, <1>a DEF NeverStart, lockVars, Stages
<1>5. ASSUME NEW t \in Turns, BeginAttempt(t) PROVE Reservations'
  BY <1>5, <1>a DEF BeginAttempt, lockVars, Stages, Running
<1>6. ASSUME NEW t \in Turns, Checkpoint(t) PROVE Reservations'
  BY <1>6 DEF Checkpoint, lockVars, HoldersWereLetIn, RunningTurnIsReserved, Running,
              WaitersHold, Overtaken
<1>7. ASSUME NEW t \in Turns, Stop(t) PROVE Reservations'
  BY <1>7, <1>a DEF Stop, lockVars, Stages, Running
<1>8. ASSUME NEW t \in Turns, Overflow(t) PROVE Reservations'
  BY <1>8, <1>a DEF Overflow, lockVars, Stages, Running
<1>9. ASSUME NEW t \in Turns, Answer(t) PROVE Reservations'
  BY <1>9, <1>a DEF Answer, lockVars, Stages, Running
<1>10. ASSUME NEW t \in Turns, StoreHistory(t) PROVE Reservations'
  BY <1>10, <1>a DEF StoreHistory, lockVars, Stages, Running
<1>11. ASSUME NEW t \in Turns, Fail(t) PROVE Reservations'
  BY <1>11, <1>a DEF Fail, lockVars, Stages, Running
<1>12. ASSUME NEW t \in Turns, Finish(t) PROVE Reservations'
  BY <1>12, <1>a DEF Finish, lockVars, Stages, Running
<1>13. ASSUME NEW t \in Turns, Release(t) PROVE Reservations'
  BY <1>13, EndKeepsReservations DEF Release, Running
<1>14. ASSUME NEW t \in Turns, Drop(t) PROVE Reservations'
  BY <1>14, EndKeepsReservations DEF Drop, Running
(* A request that does not believe the reservation drops it.               *)
<1>b. ASSUME active' = Believed(active), UNCHANGED <<aged, pc, took>>
      PROVE  Reservations'
  <2>1. Overtaken' <=> Overtaken
    BY <1>b DEF Overtaken
  <2>2. \A t \in Turns : active = t /\ active' # t => t \in aged
    BY <1>b DEF Believed
  <2>3. HoldersWereLetIn'
    BY <1>b DEF HoldersWereLetIn, Believed, Asking
  <2>4. RunningTurnIsReserved'
    BY <1>b, <2>1, <2>2 DEF RunningTurnIsReserved, Running, Overtaken
  <2>5. WaitersHold'
    BY <1>b, <2>1, <2>2 DEF WaitersHold
  <2> QED
    BY <2>3, <2>4, <2>5
<1>15. CASE Look
  BY <1>15, <1>b DEF Look, turnVars
<1>16. CASE CancelTurn
  BY <1>16, <1>b DEF CancelTurn, turnVars
<1>17. CASE Age
  <2>1. /\ active \in Turns /\ aged' = aged \union {active}
        /\ UNCHANGED <<active, pc, took>>
    BY <1>17 DEF Age, turnVars
  <2>2. ~Overtaken' => ~Overtaken
    BY <2>1 DEF Overtaken
  <2> QED
    BY <2>1, <2>2 DEF HoldersWereLetIn, RunningTurnIsReserved, Running, WaitersHold
<1>18. CASE Delete
  BY <1>18 DEF Delete, lockVars, turnVars, HoldersWereLetIn, RunningTurnIsReserved, Running,
               WaitersHold, Overtaken
<1>19. CASE Crash
  <2> DEFINE S == {t \in Turns : pc[t] # "idle"}
  <2>1. active' = None /\ UNCHANGED aged /\ Forget(S)
    BY <1>19 DEF Crash
  <2>2. \A t \in Turns : pc'[t] = IF pc[t] = "idle" THEN "idle" ELSE "ended"
    BY <2>1, ForgottenEnd
  <2> QED
    BY <1>0, <2>1, <2>2 DEF HoldersWereLetIn, RunningTurnIsReserved, Running, WaitersHold,
                            Asking
<1>20. CASE UNCHANGED vars
  BY <1>20 DEF vars, lockVars, turnVars, HoldersWereLetIn, RunningTurnIsReserved, Running,
               WaitersHold, Overtaken
<1>21. ASSUME NEW t \in Turns, FailWrite(t) PROVE Reservations'
  BY <1>21, <1>a DEF FailWrite, lockVars, Stages, Running
<1> QED
  BY <1>1, <1>2, <1>3, <1>4, <1>5, <1>6, <1>7, <1>8, <1>9, <1>10, <1>11, <1>12,
     <1>13, <1>14, <1>15, <1>16, <1>17, <1>18, <1>19, <1>20, <1>21 DEF Next, TurnStep

-----------------------------------------------------------------------------
(* The stored history.                                                     *)

(* What a write of a running turn leaves in the row.                       *)
LEMMA PartialStored ==
    ASSUME TypeOK, PartialFlagIsTrue, NEW t \in Turns, NEW r \in Recorders,
           StorePartial(t, r)
    PROVE  /\ PartialFlagIsTrue'
           /\ conv'.exists = conv.exists
           /\ \/ /\ r.revision = 0 \/ r.revision = r.saved
                 /\ conv' = conv /\ rec' = [rec EXCEPT ![t] = r]
              \/ /\ rec' = [rec EXCEPT ![t] = Marked(r)]
                 /\ conv.exists =>
                       /\ conv'.history # <<>>
                       /\ conv'.history[Len(conv'.history)] = Snapshot(t, r)
                 /\ ~conv.exists => conv' = conv
<1> DEFINE h == Append(base[t], Snapshot(t, r))
<1>1. conv \in Convs /\ base[t] \in Seq(Entries)
  BY DEF TypeOK, Convs
<1>2. h # <<>> /\ h[Len(h)] = Snapshot(t, r)
  BY <1>1, SnapshotType, AppendedLast
<1>3. CASE ~Due(r) \/ ~conv.exists
  BY <1>3 DEF StorePartial, Due, PartialFlagIsTrue, Stored
<1>4. CASE Due(r) /\ conv.exists
  <2>1. conv.exists /\ conv' = [conv EXCEPT !.history = h, !.partial = TRUE]
    BY <1>4 DEF StorePartial, Stored
  <2>2. /\ conv'.history = h /\ conv'.partial = TRUE /\ conv'.exists = conv.exists
    BY <1>1, <2>1 DEF Convs
  <2>3. ~Snapshot(t, r).whole
    BY DEF Snapshot
  <2>4. PartialFlagIsTrue'
    BY <1>2, <2>2, <2>3 DEF PartialFlagIsTrue
  <2> QED
    BY <1>2, <1>4, <2>1, <2>2, <2>4 DEF StorePartial
<1> QED
  BY <1>3, <1>4

LEMMA HistoryStored ==
    ASSUME TypeOK, PartialFlagIsTrue, NEW t \in Turns, StoreHistory(t)
    PROVE  /\ PartialFlagIsTrue'
           /\ conv'.exists = conv.exists
           /\ conv' # conv => /\ conv'.history # <<>>
                             /\ conv'.history[Len(conv'.history)] = Whole(t)
<1> DEFINE h == Append(base[t], Whole(t))
<1>1. conv \in Convs /\ base[t] \in Seq(Entries)
  BY DEF TypeOK, Convs
<1>2. h # <<>> /\ h[Len(h)] = Whole(t)
  BY <1>1, WholeType, AppendedLast
<1>3. CASE ~conv.exists
  BY <1>3 DEF StoreHistory, Boundary, Stored, PartialFlagIsTrue
<1>4. CASE conv.exists
  <2>1. conv' = [conv EXCEPT !.history = h, !.partial = FALSE]
    BY <1>4 DEF StoreHistory, Boundary, Stored
  <2>2. conv'.history = h /\ conv'.partial = FALSE /\ conv'.exists = conv.exists
    BY <1>1, <2>1 DEF Convs
  <2>3. Whole(t).whole
    BY DEF Whole
  <2> QED
    BY <1>2, <2>2, <2>3 DEF PartialFlagIsTrue
<1> QED
  BY <1>3, <1>4

(* The actions that leave the row alone.                                   *)
LEMMA StepKeepsFlag == TypeOK /\ PartialFlagIsTrue /\ [Next]_vars => PartialFlagIsTrue'
<1> SUFFICES ASSUME TypeOK, PartialFlagIsTrue, [Next]_vars PROVE PartialFlagIsTrue'
  OBVIOUS
<1>1. CASE UNCHANGED conv
  BY <1>1 DEF PartialFlagIsTrue
<1>2. ASSUME NEW t \in Turns, Checkpoint(t) PROVE PartialFlagIsTrue'
  <2>1. PICK r \in NextRecorders(t) : StorePartial(t, r) \/ conv' = conv
    BY <1>2 DEF Checkpoint
  <2>2. r \in Recorders
    BY NextRecordersType
  <2> QED
    BY <1>1, <2>1, <2>2, PartialStored
<1>3. ASSUME NEW t \in Turns, Stop(t) PROVE PartialFlagIsTrue'
  <2>1. PICK r \in NextRecorders(t) : StorePartial(t, r)
    BY <1>3 DEF Stop
  <2>2. r \in Recorders
    BY NextRecordersType
  <2> QED
    BY <2>1, <2>2, PartialStored
<1>4. ASSUME NEW t \in Turns, StoreHistory(t) PROVE PartialFlagIsTrue'
  BY <1>4, HistoryStored
<1>5. ASSUME NEW t \in Turns, Fail(t) PROVE PartialFlagIsTrue'
  <2>1. rec[t] \in Recorders
    BY DEF TypeOK
  <2> QED
    BY <1>5, <2>1, PartialStored DEF Fail
<1>6. CASE Delete
  BY <1>6 DEF Delete, PartialFlagIsTrue
<1> QED
  BY <1>1, <1>2, <1>3, <1>4, <1>5, <1>6
  DEF Next, TurnStep, SendRead, Reserve, Start, NeverStart, BeginAttempt, FailWrite, Overflow,
      Answer, Finish, Release, Drop, Look, CancelTurn, Age, Crash, vars

-----------------------------------------------------------------------------
(* What the turns have recorded.                                           *)

LEMMA StepKeepsBlank ==
    TypeOK /\ BlankUntilStarted /\ [Next]_vars => BlankUntilStarted'
<1> SUFFICES ASSUME TypeOK, BlankUntilStarted, [Next]_vars PROVE BlankUntilStarted'
  OBVIOUS
<1>0. pc \in [Turns -> Stages] /\ rec \in [Turns -> Recorders]
  BY DEF TypeOK
(* A step of a turn that has started.                                      *)
<1>a. ASSUME NEW t \in Turns, Running(t), Running(t)' \/ pc'[t] = "ended",
             \A u \in Turns \ {t} : pc'[u] = pc[u] /\ rec'[u] = rec[u]
      PROVE  BlankUntilStarted'
  BY <1>a DEF BlankUntilStarted, Running
<1>b. ASSUME NEW t \in Turns, NEW r, StorePartial(t, r)
      PROVE  \A u \in Turns \ {t} : rec'[u] = rec[u]
  BY <1>0, <1>b DEF StorePartial
<1>1. ASSUME NEW t \in Turns, SendRead(t) \/ Reserve(t) \/ Start(t) \/ NeverStart(t)
      PROVE  BlankUntilStarted'
  BY <1>0, <1>1 DEF SendRead, Reserve, Start, NeverStart, BlankUntilStarted
<1>2. ASSUME NEW t \in Turns, BeginAttempt(t) \/ Answer(t) \/ StoreHistory(t) \/ Finish(t)
                              \/ Overflow(t) \/ FailWrite(t)
      PROVE  BlankUntilStarted'
  BY <1>0, <1>2, <1>a DEF BeginAttempt, Answer, StoreHistory, Finish, Overflow, FailWrite,
                          Running
<1>3. ASSUME NEW t \in Turns, Checkpoint(t) PROVE BlankUntilStarted'
  <2>1. \A u \in Turns \ {t} : rec'[u] = rec[u]
    BY <1>0, <1>3, <1>b DEF Checkpoint
  <2> QED
    BY <1>0, <1>3, <2>1, <1>a DEF Checkpoint, Running
<1>4. ASSUME NEW t \in Turns, Stop(t) \/ Fail(t) PROVE BlankUntilStarted'
  <2>1. \A u \in Turns \ {t} : rec'[u] = rec[u]
    BY <1>4, <1>b DEF Stop, Fail
  <2> QED
    BY <1>0, <1>4, <2>1, <1>a DEF Stop, Fail, Running
<1>5. ASSUME NEW t \in Turns, Release(t) \/ Drop(t) PROVE BlankUntilStarted'
  <2>1. {t} \in SUBSET Turns /\ Forget({t}) /\ Running(t)
    BY <1>5 DEF Release, Drop, Running
  <2> QED
    BY <2>1, ForgottenEnd, <1>a
<1>6. CASE Crash
  <2> DEFINE S == {t \in Turns : pc[t] # "idle"}
  <2>1. S \in SUBSET Turns /\ Forget(S)
    BY <1>6 DEF Crash
  <2> QED
    BY <2>1, ForgottenEnd DEF BlankUntilStarted
<1>7. CASE Look \/ CancelTurn \/ Age \/ Delete \/ UNCHANGED vars
  BY <1>7 DEF Look, CancelTurn, Age, Delete, vars, turnVars, BlankUntilStarted
<1> QED
  BY <1>1, <1>2, <1>3, <1>4, <1>5, <1>6, <1>7 DEF Next, TurnStep

LEMMA StepKeepsCompleted ==
    TypeOK /\ CompletedIsPast /\ [Next]_vars => CompletedIsPast'
<1> SUFFICES ASSUME TypeOK, CompletedIsPast, [Next]_vars PROVE CompletedIsPast'
  OBVIOUS
<1>0. pc \in [Turns -> Stages] /\ completed \subseteq Turns
  BY DEF TypeOK
<1>1. ASSUME NEW t \in Turns,
             SendRead(t) \/ Reserve(t) \/ Start(t) \/ NeverStart(t) \/ BeginAttempt(t)
             \/ Checkpoint(t) \/ Stop(t) \/ FailWrite(t) \/ Overflow(t) \/ Answer(t)
      PROVE  CompletedIsPast'
  BY <1>0, <1>1 DEF CompletedIsPast, SendRead, Reserve, Start, NeverStart, BeginAttempt,
                    Checkpoint, Stop, FailWrite, Overflow, Answer
<1>2. ASSUME NEW t \in Turns, StoreHistory(t) \/ Finish(t) PROVE CompletedIsPast'
  BY <1>0, <1>2 DEF CompletedIsPast, StoreHistory, Finish
<1>3. ASSUME NEW t \in Turns, Fail(t) PROVE CompletedIsPast'
  <2>1. completed' \subseteq completed
    BY <1>3 DEF Fail
  <2> QED
    BY <1>0, <1>3, <2>1 DEF CompletedIsPast, Fail
<1>4. ASSUME NEW t \in Turns, Release(t) \/ Drop(t) PROVE CompletedIsPast'
  <2>1. {t} \in SUBSET Turns /\ Forget({t}) /\ UNCHANGED completed
    BY <1>4 DEF Release, Drop
  <2> QED
    BY <1>0, <2>1, ForgottenEnd DEF CompletedIsPast
<1>5. CASE Crash
  <2> DEFINE S == {t \in Turns : pc[t] # "idle"}
  <2>1. S \in SUBSET Turns /\ Forget(S) /\ UNCHANGED completed
    BY <1>5 DEF Crash
  <2> QED
    BY <1>0, <2>1, ForgottenEnd DEF CompletedIsPast
<1>6. CASE Look \/ CancelTurn \/ Age \/ Delete \/ UNCHANGED vars
  BY <1>6 DEF Look, CancelTurn, Age, Delete, vars, turnVars, CompletedIsPast
<1> QED
  BY <1>1, <1>2, <1>3, <1>4, <1>5, <1>6 DEF Next, TurnStep

(* A turn that runs in good order is the only one that does.               *)
LEMMA RunsAlone ==
    ASSUME RunningTurnIsReserved, ~Overtaken, NEW t \in Turns, NEW u \in Turns,
           Running(t), Running(u)
    PROVE  t = u
BY DEF RunningTurnIsReserved

(* A checkpoint, a stop or a failure of t that stores what the recorder    *)
(* holds.                                                                  *)
LEMMA WorkStored ==
    ASSUME Inv, NEW t \in Turns, NEW r \in Recorders, StorePartial(t, r),
           pc[t] \in {"streaming", "answered"},
           r = rec[t] \/ (r.revision = rec[t].revision + 1 /\ r.saved = rec[t].saved),
           conv.exists, ~Overtaken, r.revision > 0
    PROVE  /\ conv'.history # <<>>
           /\ conv'.history[Len(conv'.history)] = Snapshot(t, rec'[t])
<1>0. rec \in [Turns -> Recorders] /\ rec[t] \in Recorders
  BY DEF Inv, TypeOK
<1>1. Snapshot(t, Marked(r)) = Snapshot(t, r)
  BY MarkedType DEF Snapshot
<1>2. CASE rec' = [rec EXCEPT ![t] = Marked(r)]
           /\ conv'.history # <<>>
           /\ conv'.history[Len(conv'.history)] = Snapshot(t, r)
  BY <1>0, <1>1, <1>2
<1>3. CASE /\ r.revision = 0 \/ r.revision = r.saved
           /\ conv' = conv /\ rec' = [rec EXCEPT ![t] = r]
  <2>1. r.revision = r.saved
    BY <1>3
  <2>2. r = rec[t]
    BY <1>0, <2>1 DEF Inv, SavedIsStored, Recorders
  <2> QED
    BY <1>0, <1>3, <2>1, <2>2 DEF Inv, SavedIsStored
<1> QED
  BY <1>2, <1>3, PartialStored DEF Inv

LEMMA OvertakenForEver ==
    ASSUME TypeOK, HoldersWereLetIn, [Next]_vars, Overtaken
    PROVE  Overtaken'
<1>1. PICK a \in aged : pc[a] \notin {"reserved", "stranded"}
  BY DEF Overtaken
<1>2. a \in Turns /\ pc[a] \notin Asking /\ pc \in [Turns -> Stages]
  BY <1>1 DEF TypeOK, HoldersWereLetIn
<1> SUFFICES a \in aged' /\ pc'[a] \notin {"reserved", "stranded"}
  BY DEF Overtaken
<1>3. ASSUME NEW t \in Turns,
             SendRead(t) \/ Reserve(t) \/ Start(t) \/ NeverStart(t) \/ BeginAttempt(t)
             \/ Checkpoint(t) \/ Stop(t) \/ Overflow(t)
      PROVE  a \in aged' /\ pc'[a] \notin {"reserved", "stranded"}
  BY <1>1, <1>2, <1>3 DEF SendRead, Reserve, Start, NeverStart, BeginAttempt, Checkpoint,
                          Stop, Overflow, lockVars, Asking
<1>4. ASSUME NEW t \in Turns,
             FailWrite(t) \/ Answer(t) \/ StoreHistory(t) \/ Fail(t) \/ Finish(t)
      PROVE  a \in aged' /\ pc'[a] \notin {"reserved", "stranded"}
  BY <1>1, <1>2, <1>4 DEF FailWrite, Answer, StoreHistory, Fail, Finish, lockVars
<1>5. ASSUME NEW t \in Turns, Release(t) \/ Drop(t)
      PROVE  a \in aged' /\ pc'[a] \notin {"reserved", "stranded"}
  BY <1>1, <1>2, <1>5 DEF Release, Drop, Forget
<1>6. CASE Look \/ CancelTurn \/ Age \/ Delete \/ UNCHANGED vars
  BY <1>1, <1>2, <1>6 DEF Look, CancelTurn, Age, Delete, vars, turnVars, lockVars
<1>7. CASE Crash
  BY <1>1, <1>2, <1>7 DEF Crash, Forget
<1> QED
  BY <1>3, <1>4, <1>5, <1>6, <1>7 DEF Next, TurnStep

LEMMA StepKeepsSaved == Inv /\ [Next]_vars => SavedIsStored'
<1> SUFFICES ASSUME Inv, [Next]_vars PROVE SavedIsStored'
  OBVIOUS
<1> DEFINE Storing == {"started", "streaming", "answered"}
           Behind(r) == r.saved <= r.revision
<1>0. pc \in [Turns -> Stages] /\ rec \in [Turns -> Recorders]
  BY DEF Inv, TypeOK
<1>1. \A u \in Turns : Behind(rec[u])
  BY DEF Inv, SavedIsStored
<1>2. \A n \in {0, 1} : Behind(Fresh(n)) /\ Fresh(n).revision = 0
  BY DEF Fresh
<1>3. ~Overtaken' => ~Overtaken
  BY OvertakenForEver DEF Inv
(* A step that neither stores nor records anything new.                    *)
<1>a. ASSUME UNCHANGED conv,
             \A u \in Turns :
                /\ Behind(rec'[u])
                /\ pc'[u] \in Storing /\ rec'[u].revision > 0
                   => pc[u] \in Storing /\ rec'[u] = rec[u]
      PROVE  SavedIsStored'
  BY <1>3, <1>a DEF Inv, SavedIsStored
(* A step that stores something of t, the only turn that runs.             *)
<1>b. ASSUME NEW t \in Turns, Running(t),
             \A u \in Turns : Behind(rec'[u]),
             \A u \in Turns \ {t} : pc'[u] = pc[u],
             /\ pc'[t] \in Storing /\ ~Overtaken /\ conv'.exists
             /\ rec'[t].revision > 0 /\ rec'[t].saved = rec'[t].revision
             => /\ conv'.history # <<>>
                /\ conv'.history[Len(conv'.history)] = Snapshot(t, rec'[t])
      PROVE  SavedIsStored'
  <2>1. ASSUME ~Overtaken, NEW u \in Turns, pc'[u] \in Storing PROVE u = t
    BY <1>b, <2>1, RunsAlone DEF Inv, Running
  <2> QED
    BY <1>3, <1>b, <2>1 DEF SavedIsStored
<1>c. ASSUME NEW t \in Turns, NEW r \in Recorders, StorePartial(t, r), Behind(r)
      PROVE  \A u \in Turns : Behind(rec'[u])
  <2>1. Behind(Marked(r))
    BY MarkedType DEF Recorders
  <2> QED
    BY <1>0, <1>1, <1>c, <2>1 DEF StorePartial
<1>4. ASSUME NEW t \in Turns, SendRead(t) \/ Reserve(t) \/ NeverStart(t) \/ BeginAttempt(t)
                              \/ Answer(t) \/ Finish(t)
      PROVE  SavedIsStored'
  <2>1. UNCHANGED <<conv, rec>>
        /\ \A u \in Turns : pc'[u] \in Storing => pc[u] \in Storing
    BY <1>0, <1>4 DEF SendRead, Reserve, NeverStart, BeginAttempt, Answer, Finish
  <2> QED
    BY <1>1, <1>a, <2>1
<1>5. ASSUME NEW t \in Turns, Start(t) PROVE SavedIsStored'
  <2>1. /\ UNCHANGED <<conv, rec>> /\ rec[t] = Fresh(0)
        /\ \A u \in Turns \ {t} : pc'[u] = pc[u]
    BY <1>0, <1>5 DEF Start, Inv, BlankUntilStarted
  <2> QED
    BY <1>1, <1>2, <1>a, <2>1
<1>6. ASSUME NEW t \in Turns, Overflow(t) PROVE SavedIsStored'
  <2>1. /\ UNCHANGED conv /\ rec'[t] = Fresh(1)
        /\ \A u \in Turns \ {t} : pc'[u] = pc[u] /\ rec'[u] = rec[u]
    BY <1>0, <1>6 DEF Overflow, Retries, Emptied
  <2> QED
    BY <1>1, <1>2, <1>a, <2>1
<1>7. ASSUME NEW t \in Turns, Release(t) \/ Drop(t) PROVE SavedIsStored'
  <2>1. /\ UNCHANGED conv /\ pc'[t] = "ended" /\ rec'[t] = Fresh(0)
        /\ \A u \in Turns \ {t} : pc'[u] = pc[u] /\ rec'[u] = rec[u]
    BY <1>7 DEF Release, Drop, Forget
  <2> QED
    BY <1>1, <1>2, <1>a, <2>1
<1>8. ASSUME NEW t \in Turns, Checkpoint(t) PROVE SavedIsStored'
  <2>1. PICK r \in NextRecorders(t) \ {rec[t]} :
            \/ StorePartial(t, r)
            \/ r.revision > 1 /\ conv' = conv /\ rec' = [rec EXCEPT ![t] = r]
    BY <1>8 DEF Checkpoint
  <2>2. /\ r \in Recorders /\ r.saved = rec[t].saved
        /\ r.revision = rec[t].revision + 1
    BY <2>1, NextRecordersType DEF Inv
  <2>3. Behind(r) /\ r.saved # r.revision /\ r.revision > 0
    BY <1>0, <1>1, <2>2 DEF Recorders
  <2>4. pc[t] = "streaming" /\ Running(t) /\ UNCHANGED pc
    BY <1>8 DEF Checkpoint, Running
  <2>5. CASE StorePartial(t, r)
    <3>1. conv'.exists = conv.exists
      BY <2>2, <2>5, PartialStored DEF Inv
    <3> QED
      BY <1>b, <1>c, <2>2, <2>3, <2>4, <2>5, <3>1, WorkStored
  <2>6. CASE conv' = conv /\ rec' = [rec EXCEPT ![t] = r]
    BY <1>0, <1>1, <1>b, <2>3, <2>4, <2>6
  <2> QED
    BY <2>1, <2>5, <2>6
<1>9. ASSUME NEW t \in Turns, Stop(t) PROVE SavedIsStored'
  <2>1. PICK r \in NextRecorders(t) : StorePartial(t, r)
    BY <1>9 DEF Stop
  <2>2. r \in Recorders /\ Behind(r)
    BY <1>0, <1>1, NextRecordersType DEF Inv, Recorders
  <2>3. Running(t) /\ pc' = [pc EXCEPT ![t] = "ending"]
    BY <1>9 DEF Stop, Running
  <2> QED
    BY <1>0, <1>b, <1>c, <2>1, <2>2, <2>3
<1>10. ASSUME NEW t \in Turns, Fail(t) PROVE SavedIsStored'
  <2>1. Running(t) /\ pc' = [pc EXCEPT ![t] = "ending"] /\ StorePartial(t, rec[t])
    BY <1>10 DEF Fail, Running
  <2> QED
    BY <1>0, <1>1, <1>b, <1>c, <2>1
<1>11. ASSUME NEW t \in Turns, StoreHistory(t) PROVE SavedIsStored'
  <2>1. Running(t) /\ pc' = [pc EXCEPT ![t] = "completed"] /\ UNCHANGED rec
    BY <1>11 DEF StoreHistory, Running
  <2> QED
    BY <1>0, <1>1, <1>b, <2>1
<1>12. CASE Delete
  <2>1. conv'.exists = FALSE /\ UNCHANGED rec
    BY <1>12 DEF Delete, turnVars
  <2> QED
    BY <1>1, <2>1 DEF SavedIsStored
<1>13. CASE Crash
  <2>1. UNCHANGED conv /\ \A u \in Turns :
            \/ pc'[u] = "ended" /\ rec'[u] = Fresh(0)
            \/ pc'[u] = pc[u] /\ rec'[u] = rec[u]
    BY <1>13 DEF Crash, Forget
  <2> QED
    BY <1>1, <1>2, <1>a, <2>1
<1>14. CASE Look \/ CancelTurn \/ Age \/ UNCHANGED vars
  <2>1. UNCHANGED <<conv, pc, rec>>
    BY <1>14 DEF Look, CancelTurn, Age, vars, turnVars
  <2> QED
    BY <1>1, <1>a, <2>1
<1>15. ASSUME NEW t \in Turns, FailWrite(t) PROVE SavedIsStored'
  <2>1. PICK r \in NextRecorders(t) : rec' = [rec EXCEPT ![t] = Marked(r)]
    BY <1>15 DEF FailWrite
  <2>2. Behind(Marked(r))
    BY NextRecordersType, MarkedType DEF Inv, Recorders
  <2>3. UNCHANGED conv /\ pc'[t] = "failing"
        /\ \A u \in Turns \ {t} : pc'[u] = pc[u] /\ rec'[u] = rec[u]
    BY <1>0, <1>15, <2>1 DEF FailWrite
  <2> QED
    BY <1>0, <1>1, <1>a, <2>1, <2>2, <2>3
<1> QED
  BY <1>4, <1>5, <1>6, <1>7, <1>8, <1>9, <1>10, <1>11, <1>12, <1>13, <1>14, <1>15
  DEF Next, TurnStep

-----------------------------------------------------------------------------
(* The theorems.                                                           *)

LEMMA InitInv == Init => Inv
<1> SUFFICES ASSUME Init PROVE Inv
  OBVIOUS
<1>1. TypeOK
  BY InitTyped
<1>2. Fresh(0).saved = 0 /\ Fresh(0).revision = 0
  BY DEF Fresh
<1> QED
  BY <1>1, <1>2 DEF Init, Inv, HoldersWereLetIn, RunningTurnIsReserved, WaitersHold, Running,
     PartialFlagIsTrue, BlankUntilStarted, SavedIsStored, CompletedIsPast

LEMMA StepInv == Inv /\ [Next]_vars => Inv'
BY StepTyped, StepReserves, StepKeepsFlag, StepKeepsBlank, StepKeepsSaved,
   StepKeepsCompleted DEF Inv, Reservations

LEMMA Invariance == Spec => []Inv
<1> QED
  BY InitInv, StepInv, PTL DEF Spec

(* Every variable holds a value of its kind, for every bound.              *)
THEOREM TypeCorrect == Spec => []TypeOK
<1>1. Inv => TypeOK
  BY DEF Inv
<1> QED
  BY <1>1, Invariance, PTL

(* A turn runs under its own reservation, which every request sees, unless *)
(* a reservation expired under a running turn: however many messages are   *)
(* sent at once, one turn at a time extends the history.                   *)
THEOREM RunsUnderItsReservation == Spec => []RunningTurnIsReserved
<1>1. Inv => RunningTurnIsReserved
  BY DEF Inv
<1> QED
  BY <1>1, Invariance, PTL

(* history_partial_at says whether the history ends in mid-turn.           *)
THEOREM FlagIsTrue == Spec => []PartialFlagIsTrue
<1>1. Inv => PartialFlagIsTrue
  BY DEF Inv
<1> QED
  BY <1>1, Invariance, PTL

(* A stop or a failure leaves in the history what the recorder held,       *)
(* unless what failed was the write of a snapshot itself.                  *)
THEOREM WorkIsKept == Spec => InterruptionsKeepTheWork
<1>1. Inv /\ [Next]_vars
      => [\A t \in Turns : Interrupted(t) /\ pc[t] # "failing" => KeepsItsWork(t)]_vars
  <2> SUFFICES ASSUME Inv, Next, NEW t \in Turns, Interrupted(t), pc[t] # "failing"
               PROVE  KeepsItsWork(t)
    OBVIOUS
  <2> USE DEF Interrupted, KeepsItsWork
  <2>0. pc \in [Turns -> Stages] /\ rec \in [Turns -> Recorders]
    BY DEF Inv, TypeOK
  <2>1. Stop(t) \/ Fail(t)
    BY <2>0 DEF Next, TurnStep, SendRead, Reserve, Start, NeverStart, BeginAttempt, Checkpoint,
       Stop, FailWrite, Overflow, Answer, StoreHistory, Fail, Finish, Release, Drop,
       Forget, Look, CancelTurn, Age, Delete, Crash, turnVars
  <2>2. PICK r \in NextRecorders(t) : StorePartial(t, r)
    BY <2>1 DEF Stop, Fail, NextRecorders
  <2>3. /\ r \in Recorders
        /\ r = rec[t] \/ (r.revision = rec[t].revision + 1 /\ r.saved = rec[t].saved)
    BY NextRecordersType DEF Inv
  <2>4. conv.exists /\ r.revision > 0
    <3>1. conv'.exists = conv.exists
      BY <2>2, <2>3, PartialStored DEF Inv
    <3>2. Marked(r).revision = r.revision
      BY <2>3, MarkedType
    <3>3. rec'[t].revision = r.revision
      BY <2>0, <2>2, <3>2 DEF StorePartial
    <3> QED
      BY <3>1, <3>3
  <2> QED
    BY <2>2, <2>3, <2>4, WorkStored
<1> QED
  BY <1>1, Invariance, PTL DEF Spec, InterruptionsKeepTheWork

(* Once a turn's event is set, it stores no answer.                        *)
THEOREM StopsWork == Spec => StopsAreObeyed
<1> DEFINE Obeyed(t) ==
       pc[t] \in {"started", "streaming"} /\ ~Overtaken => pc'[t] # "answered"
<1>1. Inv /\ [Next]_vars => [\A t \in cancelled : Obeyed(t)]_vars
  <2> SUFFICES ASSUME Inv, Next, NEW t \in cancelled,
                      pc[t] \in {"started", "streaming"}, ~Overtaken, pc'[t] = "answered"
               PROVE  FALSE
    OBVIOUS
  <2>0. t \in Turns /\ pc \in [Turns -> Stages]
    BY DEF Inv, TypeOK
  <2>1. Answer(t)
    BY <2>0 DEF Next, TurnStep, SendRead, Reserve, Start, NeverStart, BeginAttempt, Checkpoint,
       Stop, FailWrite, Overflow, Answer, StoreHistory, Fail, Finish, Release, Drop,
       Forget, Look, CancelTurn, Age, Delete, Crash, turnVars
  <2>2. took[t] = t
    BY <2>0 DEF Inv, RunningTurnIsReserved, Running
  <2> QED
    BY <2>1, <2>2 DEF Answer, Cancelled
<1> QED
  BY <1>1, Invariance, PTL DEF Spec, StopsAreObeyed

(* A completed turn is stored again as a mid-turn snapshot only when it    *)
(* fails afterwards.                                                       *)
THEOREM FinishedStays == Spec => FinishedTurnsStayFinished
<1> DEFINE Stays(t) ==
       /\ t \in completed /\ conv' # conv /\ conv'.history # <<>>
       /\ conv'.history[Len(conv'.history)].turn = t
       => conv'.history[Len(conv'.history)].whole \/ t \notin completed'
<1>1. Inv /\ [Next]_vars => [\A t \in Turns : Stays(t)]_vars
  <2> SUFFICES ASSUME Inv, Next, NEW t \in Turns,
                      t \in completed, t \in completed', conv' # conv, conv'.history # <<>>,
                      conv'.history[Len(conv'.history)].turn = t
               PROVE  conv'.history[Len(conv'.history)].whole
    OBVIOUS
  <2> DEFINE last == conv'.history[Len(conv'.history)]
  <2>0. pc[t] \in {"completed", "ending", "ended"}
    BY DEF Inv, CompletedIsPast
  <2>1. ASSUME NEW u \in Turns, NEW r \in Recorders, StorePartial(u, r),
               pc[u] = "streaming" \/ Fail(u)
        PROVE  FALSE
    <3>1. last = Snapshot(u, r)
      BY <2>1, PartialStored DEF Inv
    <3>2. u = t
      BY <3>1 DEF Snapshot
    <3> QED
      BY <2>0, <2>1, <3>2 DEF Fail
  <2>2. ASSUME NEW u \in Turns, StoreHistory(u) PROVE last.whole
    <3>1. last = Whole(u)
      BY <2>2, HistoryStored DEF Inv
    <3>2. Whole(u).whole
      BY DEF Whole
    <3> QED
      BY <3>1, <3>2
  <2>3. ASSUME NEW u \in Turns, Checkpoint(u) \/ Stop(u) PROVE FALSE
    <3>1. PICK r \in NextRecorders(u) : StorePartial(u, r)
      BY <2>3 DEF Checkpoint, Stop
    <3> QED
      BY <2>1, <2>3, <3>1, NextRecordersType DEF Checkpoint, Stop, Inv
  <2>4. ASSUME NEW u \in Turns, Fail(u) PROVE FALSE
    <3>1. rec[u] \in Recorders
      BY DEF Inv, TypeOK
    <3> QED
      BY <2>1, <2>4, <3>1 DEF Fail
  <2>5. CASE Delete
    BY <2>5 DEF Delete
  <2> QED
    BY <2>2, <2>3, <2>4, <2>5
    DEF Next, TurnStep, SendRead, Reserve, Start, NeverStart, BeginAttempt, FailWrite,
        Overflow, Answer, Finish, Release, Drop, Look, CancelTurn, Age, Crash
<1> QED
  BY <1>1, Invariance, PTL DEF Spec, FinishedTurnsStayFinished
=============================================================================
