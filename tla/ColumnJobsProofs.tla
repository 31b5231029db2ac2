--------------------------- MODULE ColumnJobsProofs ---------------------------
(***************************************************************************)
(* Proofs about ColumnJobs, for every number of sources, jobs, requests,   *)
(* failures and crashes.                                                   *)
(***************************************************************************)
EXTENDS ColumnJobs, TLAPS

USE ColumnAssumption, PayloadAssumption

-----------------------------------------------------------------------------
(* The inductive invariant.                                                *)

(* Jobs are numbered as they are created.                                  *)
MintedInOrder == \A j \in Jobs : j > minted => pc[j] = "unused"

(* What a payload with columns says of when they were derived, whatever    *)
(* becomes of it.                                                          *)
Dated(p) ==
    p # None =>
        /\ p.status = "ok" => p.columns # {} /\ p.at = p.by /\ p.carried = None
        /\ p.status = "running" /\ p.columns # {} => p.by # None /\ p.carried = p.by
        /\ p.status = "insufficient" => p.columns = {}

(* The payloads that may still be stored.                                  *)
PayloadsAreDated ==
    /\ Dated(stored) /\ Dated(reader.payload)
    /\ \A j \in Jobs : Dated(previous[j])

Claims == MintedInOrder /\ ClaimIsOfTheLiveJob /\ MarksHaveAHolder

(* The columns a payload shows, and the job whose placeholder it is.       *)
Columns(p) == IF p = None THEN {} ELSE p.columns
Runs(p, k) == IsRunning(p) /\ p.job = k

(* A placeholder is in the row, or was read from it, only after its job    *)
(* has stored it, and all copies of it show the same columns.              *)
Placed == {"score", "audit", "restore", "undo", "release", "over"}
Kept == {stored} \cup {previous[j] : j \in Jobs}
PlaceholdersAgree ==
    /\ \A p \in Kept : IsRunning(p) => p.job \in Jobs /\ pc[p.job] \in Placed
    /\ \A p, q \in Kept :
          IsRunning(p) /\ IsRunning(q) /\ p.job = q.job => p.columns = q.columns
    /\ \A j \in Jobs : pc[j] = "audit" => ~ Runs(stored, j)
    /\ reader.at = "update" =>
          /\ reader.payload # None /\ ~ IsRunning(reader.payload)
          /\ reader.job \in Jobs /\ pc[reader.job] \in Placed
          /\ \A p \in Kept : Runs(p, reader.job) => p.columns = reader.payload.columns

(* Until a job has its answer, the row shows the columns the job read.     *)
RowIsAsRead ==
    ~ overtaken /\ ~ deleted =>
        \A j \in Jobs :
            /\ pc[j] \in {"mark", "list", "settle", "empty", "place", "score", "undo"}
               => Columns(stored) = Columns(previous[j])
            /\ pc[j] = "restore" /\ Runs(stored, j)
               => Columns(stored) = Columns(previous[j])

(* What decided the way a job without a ready source went.                 *)
WayIsRight ==
    \A j \in Jobs :
        /\ pc[j] = "settle" => HasColumns(previous[j]) /\ IsRunning(previous[j])
        /\ pc[j] = "empty" => ~ HasColumns(previous[j])

Inv == TypeOK /\ Claims /\ WayIsRight /\ PayloadsAreDated /\ PlaceholdersAgree /\ RowIsAsRead

-----------------------------------------------------------------------------
(* Payloads.                                                               *)

LEMMA PayloadType ==
    ASSUME NEW status \in {"running", "ok", "insufficient"}, NEW columns \in SUBSET Telling,
           NEW by \in Jobs \cup {None}, NEW sources \in SUBSET Sources,
           NEW job \in Jobs \cup {None}, NEW at \in Jobs, NEW carried \in Jobs \cup {None}
    PROVE  Payload(status, columns, by, sources, job, at, carried) \in Payloads
BY DEF Payload, Payloads

LEMMA SettledSound ==
    ASSUME NEW p \in Payloads, Dated(p), p # None, IsRunning(p)
    PROVE  Settled(p) \in Payloads /\ Dated(Settled(p))
<1>1. /\ p.columns \in SUBSET Telling /\ p.carried \in Jobs \cup {None} /\ p.at \in Jobs
      /\ p.by \in Jobs \cup {None}
  BY DEF Payloads
<1>2. Settled(p) \in Payloads
  BY <1>1 DEF Settled, Payloads
<1>3. /\ Settled(p).status = IF p.columns = {} THEN "insufficient" ELSE "ok"
      /\ Settled(p).columns = p.columns /\ Settled(p).by = p.by /\ Settled(p).carried = None
      /\ Settled(p).at = IF p.carried = None THEN p.at ELSE p.carried
  BY DEF Settled, Payloads
<1>4. p.columns # {} => p.by # None /\ p.carried = p.by
  BY DEF Dated, IsRunning
<1> QED
  BY <1>2, <1>3, <1>4 DEF Dated

LEMMA PlaceholderSound ==
    ASSUME TypeOK, NEW j \in Jobs, NEW p \in Payloads \cup {None}, Dated(p)
    PROVE  Placeholder(j, p) \in Payloads /\ Dated(Placeholder(j, p))
<1>0. listed[j] \in SUBSET Sources
  BY DEF TypeOK
<1>1. CASE p = None
  <2>1. Placeholder(j, p) \in Payloads
    BY <1>0, <1>1, PayloadType DEF Placeholder
  <2>2. Placeholder(j, p).status = "running" /\ Placeholder(j, p).columns = {}
    BY <1>1 DEF Placeholder, Payload
  <2> QED
    BY <2>1, <2>2 DEF Dated
<1>2. CASE p # None
  <2>1. /\ p \in Payloads /\ p.columns \in SUBSET Telling /\ p.by \in Jobs \cup {None}
        /\ p.status \in {"running", "ok", "insufficient"}
        /\ p.at \in Jobs /\ p.carried \in Jobs \cup {None}
    BY <1>2 DEF Payloads
  <2>2. CarriedDate(p) \in Jobs \cup {None}
    BY <2>1 DEF CarriedDate
  <2>3. Placeholder(j, p) \in Payloads
    BY <1>0, <1>2, <2>1, <2>2, PayloadType DEF Placeholder
  <2>4. /\ Placeholder(j, p).status = "running" /\ Placeholder(j, p).columns = p.columns
        /\ Placeholder(j, p).by = p.by /\ Placeholder(j, p).carried = CarriedDate(p)
    BY <1>2 DEF Placeholder, Payload
  <2>5. p.columns # {} => p.by # None /\ CarriedDate(p) = p.by
    BY <1>2, <2>1 DEF Dated, CarriedDate
  <2> QED
    BY <2>3, <2>4, <2>5 DEF Dated
<1> QED
  BY <1>1, <1>2

LEMMA AnswerSound ==
    ASSUME TypeOK, NEW j \in Jobs
    PROVE  Answer(j) \in Payloads /\ Dated(Answer(j))
<1> DEFINE c == listed[j] \cap Telling
<1>1. listed[j] \in SUBSET Sources /\ c \in SUBSET Telling
  BY DEF TypeOK
<1>2. Answer(j) = Payload(IF c = {} THEN "insufficient" ELSE "ok", c, j, listed[j], j, j, None)
  BY DEF Answer
<1>3. Answer(j) \in Payloads
  BY <1>1, <1>2, PayloadType
<1>4. /\ Answer(j).status = IF c = {} THEN "insufficient" ELSE "ok"
      /\ Answer(j).columns = c /\ Answer(j).by = j /\ Answer(j).at = j
      /\ Answer(j).carried = None
  BY <1>2 DEF Payload
<1> QED
  BY <1>3, <1>4 DEF Dated

LEMMA InsufficientSound ==
    ASSUME NEW j \in Jobs
    PROVE  LET p == Payload("insufficient", {}, None, {}, j, j, None)
           IN  p \in Payloads /\ Dated(p)
<1> DEFINE p == Payload("insufficient", {}, None, {}, j, j, None)
<1>1. p \in Payloads
  BY PayloadType
<1>2. p.status = "insufficient" /\ p.columns = {}
  BY DEF Payload
<1> QED
  BY <1>1, <1>2 DEF Dated

LEMMA StoreSound ==
    ASSUME NEW p \in Payloads \cup {None}, Dated(p), Store(p)
    PROVE  stored' \in Payloads \cup {None} /\ Dated(stored')
BY DEF Store, Dated

-----------------------------------------------------------------------------
(* Jobs and their claims.                                                  *)

LEMMA InitInv == Init => Inv
<1> SUFFICES ASSUME Init PROVE Inv
  OBVIOUS
<1>1. TypeOK
  <2>1. reader \in [at : {"idle", "judge", "select", "update"}, job : Jobs \cup {None},
                    payload : Payloads \cup {None}]
    BY DEF Init, Idle
  <2>2. /\ pc \in [Jobs -> States] /\ previous \in [Jobs -> Payloads \cup {None}]
        /\ listed \in [Jobs -> SUBSET Sources]
    BY DEF Init, States
  <2>3. minted \in 0 .. NumJobs
    BY DEF Init
  <2> QED
    BY <2>1, <2>2, <2>3 DEF Init, TypeOK
<1>2. Claims
  BY DEF Init, Claims, MintedInOrder, ClaimIsOfTheLiveJob, MarksHaveAHolder, Live
<1>3. PayloadsAreDated
  BY DEF Init, PayloadsAreDated, Dated, Idle
<1>4. WayIsRight /\ PlaceholdersAgree /\ RowIsAsRead
  BY DEF Init, WayIsRight, PlaceholdersAgree, RowIsAsRead, Kept, Runs, IsRunning, Idle
<1> QED
  BY <1>1, <1>2, <1>3, <1>4 DEF Inv

(* The next job's number.                                                  *)
LEMMA NextJob ==
    ASSUME TypeOK, MintedInOrder, minted < NumJobs
    PROVE  minted + 1 \in Jobs /\ pc[minted + 1] = "unused" /\ minted + 1 # None
           /\ minted + 1 \in 0 .. NumJobs
BY DEF TypeOK, MintedInOrder, Jobs

(* How a step that creates a job may change the others: those in S end.    *)
Changes(i, S) ==
    \/ pc'[i] = pc[i]
    \/ pc[i] = "unused" /\ pc'[i] \in {"start", "over"}
    \/ i \in S /\ pc'[i] = "over"

(* A job is created, and another may end in the same step.                 *)
LEMMA JobIsCreated ==
    ASSUME pc \in [Jobs -> States], NEW n \in Jobs, pc[n] = "unused",
           NEW p \in {"start", "over"}, pc' = [pc EXCEPT ![n] = p]
    PROVE  /\ pc' \in [Jobs -> States]
           /\ \A i \in Jobs : Changes(i, {})
<1>1. p \in States
  BY DEF States
<1>2. pc' \in [Jobs -> States]
  BY <1>1
<1>3. ASSUME NEW i \in Jobs
      PROVE  Changes(i, {})
  <2>1. CASE i = n
    BY <2>1 DEF Changes
  <2>2. CASE i # n
    BY <2>2 DEF Changes
  <2> QED
    BY <2>1, <2>2
<1> QED
  BY <1>2, <1>3

LEMMA JobIsFollowed ==
    ASSUME pc \in [Jobs -> States], NEW n \in Jobs, pc[n] = "unused", NEW j \in Jobs, j # n,
           NEW p \in {"start", "over"}, pc' = [pc EXCEPT ![j] = "over", ![n] = p]
    PROVE  /\ pc' \in [Jobs -> States]
           /\ \A i \in Jobs : Changes(i, {j})
<1>1. p \in States /\ "over" \in States
  BY DEF States
<1>2. pc' \in [Jobs -> States]
  BY <1>1
<1>3. ASSUME NEW i \in Jobs
      PROVE  Changes(i, {j})
  <2>1. CASE i = n
    BY <2>1 DEF Changes
  <2>2. CASE i = j /\ i # n
    BY <2>2 DEF Changes
  <2>3. CASE i # n /\ i # j
    BY <2>3 DEF Changes
  <2> QED
    BY <2>1, <2>2, <2>3
<1> QED
  BY <1>2, <1>3

LEMMA StartSound ==
    ASSUME TypeOK, Claims, StartRecommendation
    PROVE  /\ Claims' /\ active' \in Jobs \cup {None} /\ dirty' \in BOOLEAN
           /\ minted' \in 0 .. NumJobs /\ known' \in SUBSET Jobs
           /\ pc' \in [Jobs -> States] /\ fails' \in Nat
           /\ \A j \in Jobs : Changes(j, {})
<1>0. /\ pc \in [Jobs -> States] /\ active \in Jobs \cup {None} /\ dirty \in BOOLEAN
      /\ minted \in 0 .. NumJobs /\ known \in SUBSET Jobs /\ fails \in Nat
      /\ MintedInOrder
  BY DEF TypeOK, Claims
<1> USE DEF Goto
<1>1. CASE Claimable /\ Spawn /\ UNCHANGED dirty
  <2>1. /\ active = None /\ ~dirty /\ minted < NumJobs
        /\ \A j \in Jobs : ~Live(j)
    BY <1>0, <1>1 DEF Claimable, Spawn, Claims, ClaimIsOfTheLiveJob, MarksHaveAHolder
  <2>2. /\ minted + 1 \in Jobs /\ minted + 1 # None /\ minted + 1 \in 0 .. NumJobs
        /\ pc[minted + 1] = "unused"
    BY <1>0, <2>1, NextJob
  <2>3. /\ active' = minted + 1 /\ minted' = minted + 1 /\ dirty' = dirty
        /\ pc' = [pc EXCEPT ![minted + 1] = "start"]
    BY <1>1 DEF Spawn
  <2>4. MintedInOrder'
    BY <1>0, <2>2, <2>3 DEF MintedInOrder, Jobs
  <2>5. ClaimIsOfTheLiveJob'
    BY <1>0, <2>1, <2>2, <2>3 DEF ClaimIsOfTheLiveJob, Live
  <2>6. MarksHaveAHolder'
    BY <2>1, <2>3 DEF MarksHaveAHolder
  <2>7. /\ pc' \in [Jobs -> States]
        /\ \A j \in Jobs : Changes(j, {})
    BY <1>0, <2>2, <2>3, JobIsCreated
  <2>8. known' \in SUBSET Jobs /\ fails' \in Nat
    BY <1>0, <1>1, <2>2 DEF Spawn
  <2> QED
    BY <1>0, <2>2, <2>3, <2>4, <2>5, <2>6, <2>7, <2>8 DEF Claims
<1>2. CASE Claimable /\ FailToSpawn /\ UNCHANGED dirty
  <2>1. /\ active = None /\ ~dirty /\ minted < NumJobs
        /\ \A j \in Jobs : ~Live(j)
    BY <1>0, <1>2 DEF Claimable, FailToSpawn, Claims, ClaimIsOfTheLiveJob, MarksHaveAHolder
  <2>2. /\ minted + 1 \in Jobs /\ minted + 1 # None /\ minted + 1 \in 0 .. NumJobs
        /\ pc[minted + 1] = "unused"
    BY <1>0, <2>1, NextJob
  <2>3. /\ active' = None /\ minted' = minted + 1 /\ dirty' = dirty
        /\ pc' = [pc EXCEPT ![minted + 1] = "over"]
    BY <1>2 DEF FailToSpawn, ClaimAfterFailure
  <2>4. MintedInOrder'
    BY <1>0, <2>2, <2>3 DEF MintedInOrder, Jobs
  <2>5. ClaimIsOfTheLiveJob'
    BY <1>0, <2>1, <2>2, <2>3 DEF ClaimIsOfTheLiveJob, Live
  <2>6. MarksHaveAHolder'
    BY <2>1, <2>3 DEF MarksHaveAHolder
  <2>7. /\ pc' \in [Jobs -> States]
        /\ \A j \in Jobs : Changes(j, {})
    BY <1>0, <2>2, <2>3, JobIsCreated
  <2>8. known' \in SUBSET Jobs /\ fails' \in Nat
    BY <1>0, <1>2, <2>2 DEF FailToSpawn, Failing
  <2> QED
    BY <1>0, <2>2, <2>3, <2>4, <2>5, <2>6, <2>7, <2>8 DEF Claims
<1>3. CASE ~Claimable /\ dirty' = TRUE /\ UNCHANGED <<active, minted, known, pc, fails>>
  <2>1. Claims'
    BY <1>0, <1>3 DEF Claimable, Claims, MintedInOrder, ClaimIsOfTheLiveJob, MarksHaveAHolder,
                      Live
  <2>2. /\ pc' \in [Jobs -> States] /\ active' \in Jobs \cup {None} /\ dirty' \in BOOLEAN
        /\ minted' \in 0 .. NumJobs /\ known' \in SUBSET Jobs /\ fails' \in Nat
    BY <1>0, <1>3
  <2>3. \A j \in Jobs : Changes(j, {})
    BY <1>3 DEF Changes
  <2> QED
    BY <2>1, <2>2, <2>3
<1> QED
  BY <1>1, <1>2, <1>3 DEF StartRecommendation

LEMMA ReleaseSound ==
    ASSUME TypeOK, Claims, NEW j \in Jobs, Release(j)
    PROVE  /\ Claims' /\ active' \in Jobs \cup {None} /\ dirty' \in BOOLEAN
           /\ minted' \in 0 .. NumJobs /\ known' \in SUBSET Jobs
           /\ pc' \in [Jobs -> States] /\ fails' \in Nat
           /\ \A i \in Jobs : Changes(i, {j})
<1>0. /\ pc \in [Jobs -> States] /\ active \in Jobs \cup {None} /\ dirty \in BOOLEAN
      /\ minted \in 0 .. NumJobs /\ known \in SUBSET Jobs /\ fails \in Nat
      /\ MintedInOrder
  BY DEF TypeOK, Claims
<1>1. /\ pc[j] = "release" /\ active = j /\ dirty' = FALSE
      /\ \A i \in Jobs \ {j} : ~Live(i)
  BY <1>0 DEF Release, Reruns, Claims, ClaimIsOfTheLiveJob, Live
<1> USE DEF Goto
<1>2. CASE /\ minted < NumJobs
           /\ minted' = minted + 1 /\ active' = minted + 1 /\ known' = known \cup {minted + 1}
           /\ pc' = [pc EXCEPT ![j] = "over", ![minted + 1] = "start"]
           /\ UNCHANGED fails
  <2>1. /\ minted + 1 \in Jobs /\ minted + 1 # None /\ minted + 1 # j
        /\ minted + 1 \in 0 .. NumJobs /\ pc[minted + 1] = "unused"
    BY <1>0, <1>1, <1>2, NextJob
  <2>2. MintedInOrder'
    BY <1>0, <1>1, <1>2, <2>1 DEF MintedInOrder, Jobs
  <2>3. ClaimIsOfTheLiveJob'
    BY <1>0, <1>1, <1>2, <2>1 DEF ClaimIsOfTheLiveJob, Live
  <2>4. Claims'
    BY <1>1, <2>2, <2>3 DEF Claims, MarksHaveAHolder
  <2>5. /\ pc' \in [Jobs -> States]
        /\ \A i \in Jobs : Changes(i, {j})
    BY <1>0, <1>2, <2>1, JobIsFollowed
  <2> QED
    BY <1>0, <1>1, <1>2, <2>1, <2>4, <2>5
<1>3. CASE /\ minted < NumJobs
           /\ minted' = minted + 1 /\ active' = None /\ known' = known \cup {minted + 1}
           /\ pc' = [pc EXCEPT ![j] = "over", ![minted + 1] = "over"]
           /\ fails' = fails + 1
  <2>1. /\ minted + 1 \in Jobs /\ minted + 1 # j
        /\ minted + 1 \in 0 .. NumJobs /\ pc[minted + 1] = "unused"
    BY <1>0, <1>1, <1>3, NextJob
  <2>2. MintedInOrder'
    BY <1>0, <1>1, <1>3, <2>1 DEF MintedInOrder, Jobs
  <2>3. ClaimIsOfTheLiveJob'
    BY <1>0, <1>1, <1>3, <2>1 DEF ClaimIsOfTheLiveJob, Live
  <2>4. Claims'
    BY <1>1, <2>2, <2>3 DEF Claims, MarksHaveAHolder
  <2>5. /\ pc' \in [Jobs -> States]
        /\ \A i \in Jobs : Changes(i, {j})
    BY <1>0, <1>3, <2>1, JobIsFollowed
  <2>6. fails' \in Nat
    BY <1>0, <1>3
  <2> QED
    BY <1>0, <1>1, <1>3, <2>1, <2>4, <2>5, <2>6
<1>4. CASE /\ active' = None /\ pc' = [pc EXCEPT ![j] = "over"]
           /\ UNCHANGED <<minted, known, fails>>
  <2>1. MintedInOrder'
    BY <1>0, <1>1, <1>4 DEF MintedInOrder
  <2>2. ClaimIsOfTheLiveJob'
    BY <1>0, <1>1, <1>4 DEF ClaimIsOfTheLiveJob, Live
  <2>3. Claims'
    BY <1>1, <2>1, <2>2 DEF Claims, MarksHaveAHolder
  <2>0. "over" \in States
    BY DEF States
  <2>4. pc' \in [Jobs -> States]
    BY <1>0, <1>4, <2>0
  <2>5. \A i \in Jobs : Changes(i, {j})
    BY <1>0, <1>4 DEF Changes
  <2>6. /\ active' \in Jobs \cup {None} /\ dirty' \in BOOLEAN
        /\ minted' \in 0 .. NumJobs /\ known' \in SUBSET Jobs /\ fails' \in Nat
    BY <1>0, <1>1, <1>4
  <2> QED
    BY <2>3, <2>4, <2>5, <2>6
<1> QED
  BY <1>2, <1>3, <1>4 DEF Release, ClaimAfterFailure, Failing

(* A job goes on.                                                          *)
LEMMA GoesOn ==
    ASSUME TypeOK, Claims, NEW j \in Jobs, NEW p \in States \ {"unused", "over"},
           Live(j), pc' = [pc EXCEPT ![j] = p],
           UNCHANGED <<active, minted>>, dirty' \in {dirty, FALSE}
    PROVE  Claims' /\ pc' \in [Jobs -> States]
<1>0. pc \in [Jobs -> States]
  BY DEF TypeOK
<1>1. MintedInOrder'
  BY <1>0 DEF Claims, MintedInOrder, Live
<1>2. ClaimIsOfTheLiveJob'
  BY <1>0 DEF Claims, ClaimIsOfTheLiveJob, Live
<1>3. MarksHaveAHolder'
  BY DEF Claims, MarksHaveAHolder
<1> QED
  BY <1>0, <1>1, <1>2, <1>3 DEF Claims

LEMMA StepClaims == TypeOK /\ Claims /\ [Next]_vars => Claims' /\ pc' \in [Jobs -> States]
<1> SUFFICES ASSUME TypeOK, Claims, [Next]_vars PROVE Claims' /\ pc' \in [Jobs -> States]
  OBVIOUS
<1>0. pc \in [Jobs -> States]
  BY DEF TypeOK
<1>a. ASSUME UNCHANGED <<claimVars, pc>> PROVE Claims' /\ pc' \in [Jobs -> States]
  BY <1>0, <1>a DEF claimVars, Claims, MintedInOrder, ClaimIsOfTheLiveJob, MarksHaveAHolder, Live
<1>1. ASSUME NEW s \in Sources, BecomeReady(s) \/ DeleteSource(s)
      PROVE  Claims' /\ pc' \in [Jobs -> States]
  BY <1>1, <1>a DEF BecomeReady, DeleteSource
<1>2. ASSUME NEW s \in Sources, ScheduleForSource(s) PROVE Claims' /\ pc' \in [Jobs -> States]
  BY <1>2, <1>a, StartSound DEF ScheduleForSource, claimVars
<1>3. CASE Ask
  BY <1>3, StartSound DEF Ask
<1>4. ASSUME NEW j \in Jobs, ReadTimeline(j) \/ ClearMark(j) \/ ListSources(j)
      PROVE  Claims' /\ pc' \in [Jobs -> States]
  BY <1>4, GoesOn DEF ReadTimeline, ClearMark, ListSources, Goto, Live, States, claimVars
<1>5. ASSUME NEW j \in Jobs, KeepAnswer(j) \/ StoreInsufficient(j) \/ StoreAnswer(j)
                             \/ RecordAudit(j) \/ CheckPlaceholder(j) \/ RestorePrevious(j)
      PROVE  Claims' /\ pc' \in [Jobs -> States]
  BY <1>5, GoesOn DEF KeepAnswer, StoreInsufficient, StoreAnswer, RecordAudit,
                      CheckPlaceholder, RestorePrevious, Goto, Live, States, claimVars
<1>6. ASSUME NEW j \in Jobs, StorePlaceholder(j) PROVE Claims' /\ pc' \in [Jobs -> States]
  BY <1>6, GoesOn DEF StorePlaceholder, MarkAfterRead, Goto, Live, States, claimVars
<1>7. ASSUME NEW j \in Jobs, FailJob(j) \/ FailRestore(j)
      PROVE  Claims' /\ pc' \in [Jobs -> States]
  BY <1>7, GoesOn DEF FailJob, FailRestore, Goto, Live, States, claimVars
<1>8. ASSUME NEW j \in Jobs, Release(j) PROVE Claims' /\ pc' \in [Jobs -> States]
  BY <1>8, ReleaseSound
<1>9. ASSUME NEW j \in Jobs, Evict(j) PROVE Claims' /\ pc' \in [Jobs -> States]
  BY <1>9, <1>a DEF Evict
<1>10. CASE DeleteTimeline \/ Read \/ Boot \/ UNCHANGED vars
  BY <1>10, <1>a DEF DeleteTimeline, Read, ReadPayload, JudgePayload, SelectRunning,
                     UpdateSettled, Boot, vars
<1>11. CASE Crash
  <2>1. /\ active' = None /\ dirty' = FALSE /\ minted' = minted
        /\ pc' = [j \in Jobs |-> IF Live(j) THEN "over" ELSE pc[j]]
    BY <1>11 DEF Crash
  <2> QED
    BY <1>0, <2>1 DEF Claims, MintedInOrder, ClaimIsOfTheLiveJob, MarksHaveAHolder, Live, States
<1> QED
  BY <1>1, <1>2, <1>3, <1>4, <1>5, <1>6, <1>7, <1>8, <1>9, <1>10, <1>11 DEF Next, Step

-----------------------------------------------------------------------------
(* Types.                                                                  *)

LEMMA StepTyped ==
    TypeOK /\ Claims /\ WayIsRight /\ PayloadsAreDated /\ [Next]_vars => TypeOK'
<1> SUFFICES ASSUME TypeOK, Claims, WayIsRight, PayloadsAreDated, [Next]_vars PROVE TypeOK'
  OBVIOUS
<1>0. pc' \in [Jobs -> States]
  BY StepClaims
<1>1. ASSUME NEW s \in Sources, BecomeReady(s) \/ DeleteSource(s) PROVE TypeOK'
  BY <1>0, <1>1 DEF BecomeReady, DeleteSource, TypeOK, claimVars, localVars, readerVars, bounds
<1>2. ASSUME NEW s \in Sources, ScheduleForSource(s) PROVE TypeOK'
  <2>1. CASE StartRecommendation
    BY <1>2, <2>1, StartSound DEF ScheduleForSource, TypeOK, localVars, readerVars
  <2>2. CASE UNCHANGED <<active, dirty, minted, known, pc, fails>>
    BY <1>2, <2>2 DEF ScheduleForSource, TypeOK, localVars, readerVars
  <2> QED
    BY <1>2, <2>1, <2>2 DEF ScheduleForSource
<1>3. CASE Ask
  BY <1>3, StartSound DEF Ask, TypeOK, timelineVars, localVars, readerVars
<1>4. ASSUME NEW j \in Jobs, ReadTimeline(j) PROVE TypeOK'
  <2>1. previous' \in [Jobs -> Payloads \cup {None}]
    BY <1>4 DEF ReadTimeline, TypeOK
  <2> QED
    BY <1>0, <1>4, <2>1 DEF ReadTimeline, TypeOK, timelineVars, claimVars, readerVars, bounds
<1>18. ASSUME NEW j \in Jobs, ListSources(j) PROVE TypeOK'
  <2>1. listed' \in [Jobs -> SUBSET Sources]
    BY <1>18 DEF ListSources, TypeOK
  <2> QED
    BY <1>0, <1>18, <2>1 DEF ListSources, TypeOK, timelineVars, claimVars, readerVars, bounds
<1>19. ASSUME NEW j \in Jobs, ClearMark(j) \/ RecordAudit(j) \/ CheckPlaceholder(j)
       PROVE  TypeOK'
  BY <1>0, <1>19 DEF ClearMark, RecordAudit, CheckPlaceholder, TypeOK,
                     timelineVars, claimVars, localVars, readerVars, bounds
(* The writes of the row.                                                  *)
<1>a. ASSUME stored' \in Payloads \cup {None}, reader' \in {reader, Idle},
             UNCHANGED <<timelineVars, active, dirty, minted, known, localVars, boot, bounds>>
      PROVE  TypeOK'
  <2>1. reader' \in [at : {"idle", "judge", "select", "update"}, job : Jobs \cup {None},
                     payload : Payloads \cup {None}]
    BY <1>a DEF Idle, TypeOK
  <2> QED
    BY <1>0, <1>a, <2>1 DEF TypeOK, timelineVars, localVars, bounds
<1>5. ASSUME NEW j \in Jobs, KeepAnswer(j) PROVE TypeOK'
  <2>1. /\ previous[j] \in Payloads /\ previous[j] # None /\ IsRunning(previous[j])
        /\ Dated(previous[j])
    BY <1>5 DEF KeepAnswer, WayIsRight, HasColumns, PayloadsAreDated, TypeOK
  <2> QED
    BY <1>5, <1>a, <2>1, SettledSound, StoreSound DEF KeepAnswer, claimVars, readerVars
<1>6. ASSUME NEW j \in Jobs, StoreInsufficient(j) PROVE TypeOK'
  BY <1>6, <1>a, InsufficientSound, StoreSound DEF StoreInsufficient, claimVars, readerVars
<1>7. ASSUME NEW j \in Jobs, StorePlaceholder(j) PROVE TypeOK'
  <2>1. previous[j] \in Payloads \cup {None} /\ Dated(previous[j])
    BY DEF TypeOK, PayloadsAreDated
  <2> QED
    BY <1>7, <1>a, <2>1, PlaceholderSound, StoreSound
    DEF StorePlaceholder, MarkAfterRead, readerVars
<1>8. ASSUME NEW j \in Jobs, StoreAnswer(j) PROVE TypeOK'
  BY <1>8, <1>a, AnswerSound, StoreSound DEF StoreAnswer, claimVars, readerVars
<1>9. ASSUME NEW j \in Jobs, RestorePrevious(j) PROVE TypeOK'
  <2>1. previous[j] \in Payloads \cup {None} /\ Dated(previous[j])
    BY DEF TypeOK, PayloadsAreDated
  <2> QED
    BY <1>9, <1>a, <2>1, StoreSound DEF RestorePrevious, claimVars, readerVars
<1>10. ASSUME NEW j \in Jobs, FailJob(j) \/ FailRestore(j) \/ Evict(j) PROVE TypeOK'
  BY <1>0, <1>10 DEF FailJob, FailRestore, Evict, Failing, TypeOK, timelineVars, claimVars,
                     localVars, readerVars, bounds
<1>11. ASSUME NEW j \in Jobs, Release(j) PROVE TypeOK'
  <2>1. previous' \in [Jobs -> Payloads \cup {None}] /\ listed' \in [Jobs -> SUBSET Sources]
    BY <1>11 DEF Release, TypeOK
  <2> QED
    BY <1>11, <2>1, ReleaseSound DEF Release, TypeOK, timelineVars, readerVars
<1>12. CASE DeleteTimeline
  BY <1>0, <1>12 DEF DeleteTimeline, TypeOK, claimVars, localVars, readerVars, bounds
<1>13. CASE ReadPayload \/ JudgePayload \/ SelectRunning
  <2>1. reader' \in [at : {"idle", "judge", "select", "update"}, job : Jobs \cup {None},
                     payload : Payloads \cup {None}]
    <3>1. CASE ReadPayload
      <4>1. stored.job \in Jobs \cup {None}
        BY <3>1 DEF ReadPayload, IsRunning, TypeOK, Payloads
      <4> QED
        BY <3>1, <4>1 DEF ReadPayload
    <3>2. CASE JudgePayload
      BY <3>2 DEF JudgePayload, Idle, TypeOK
    <3>3. CASE SelectRunning
      <4>1. CASE IsRunning(stored)
        <5>1. stored \in Payloads /\ stored # None /\ Dated(stored)
          BY <4>1 DEF IsRunning, TypeOK, PayloadsAreDated
        <5>2. stored.job \in Jobs \cup {None} /\ Settled(stored) \in Payloads
          BY <4>1, <5>1, SettledSound DEF Payloads
        <5> QED
          BY <3>3, <4>1, <5>2 DEF SelectRunning
      <4>2. CASE ~ IsRunning(stored)
        BY <3>3, <4>2 DEF SelectRunning, Idle
      <4> QED
        BY <4>1, <4>2
    <3> QED
      BY <1>13, <3>1, <3>2, <3>3
  <2> QED
    BY <1>0, <1>13, <2>1 DEF ReadPayload, JudgePayload, SelectRunning, TypeOK, timelineVars,
                             claimVars, localVars, bounds
<1>14. CASE UpdateSettled
  <2>1. reader.payload \in Payloads \cup {None} /\ Dated(reader.payload)
    BY DEF TypeOK, PayloadsAreDated
  <2> QED
    BY <1>14, <1>a, <2>1, StoreSound DEF UpdateSettled, claimVars
<1>15. CASE Boot
  <2>1. stored' \in Payloads \cup {None}
    <3>1. CASE IsRunning(stored)
      <4>1. stored \in Payloads /\ stored # None /\ Dated(stored)
        BY <3>1 DEF IsRunning, TypeOK, PayloadsAreDated
      <4> QED
        BY <1>15, <3>1, <4>1, SettledSound DEF Boot
    <3>2. CASE ~ IsRunning(stored)
      BY <1>15, <3>2 DEF Boot, TypeOK
    <3> QED
      BY <3>1, <3>2
  <2> QED
    BY <1>0, <1>15, <2>1 DEF Boot, Failing, TypeOK, timelineVars, claimVars, localVars, readerVars
<1>16. CASE Crash
  <2>1. reader' \in [at : {"idle", "judge", "select", "update"}, job : Jobs \cup {None},
                     payload : Payloads \cup {None}]
    BY <1>16 DEF Crash, Idle
  <2>2. /\ previous' \in [Jobs -> Payloads \cup {None}]
        /\ listed' \in [Jobs -> SUBSET Sources]
    BY <1>16 DEF Crash
  <2>3. crashes' \in Nat
    BY <1>16 DEF Crash, TypeOK
  <2> QED
    BY <1>0, <1>16, <2>1, <2>2, <2>3 DEF Crash, TypeOK
<1>17. CASE UNCHANGED vars
  BY <1>17 DEF vars, TypeOK, timelineVars, claimVars, localVars, readerVars, bounds
<1> QED
  BY <1>1, <1>2, <1>3, <1>4, <1>5, <1>6, <1>7, <1>8, <1>9, <1>10, <1>11, <1>12, <1>13, <1>14,
     <1>15, <1>16, <1>17, <1>18, <1>19 DEF Next, Step, Read
-----------------------------------------------------------------------------
(* What is written to the row.                                             *)

LEMMA ColumnsOf ==
    /\ \A p \in Payloads : Columns(Settled(p)) = p.columns /\ ~ IsRunning(Settled(p))
                           /\ Settled(p) # None
    /\ \A p : HasColumns(p) <=> Columns(p) # {}
<1>1. ASSUME NEW p \in Payloads
      PROVE  Columns(Settled(p)) = p.columns /\ ~ IsRunning(Settled(p)) /\ Settled(p) # None
  <2>1. Settled(p) \in Payloads
    <3>1. /\ p.columns \in SUBSET Telling /\ p.carried \in Jobs \cup {None} /\ p.at \in Jobs
      BY DEF Payloads
    <3> QED
      BY <3>1 DEF Settled, Payloads
  <2>2. Settled(p).status = IF p.columns = {} THEN "insufficient" ELSE "ok"
    BY DEF Settled, Payloads
  <2>3. Settled(p).columns = p.columns
    BY DEF Settled, Payloads
  <2> QED
    BY <2>1, <2>2, <2>3 DEF Columns, IsRunning
<1> QED
  BY <1>1 DEF HasColumns, Columns

LEMMA PlaceholderShows ==
    ASSUME TypeOK, PayloadsAreDated, NEW j \in Jobs
    PROVE  /\ Columns(Placeholder(j, previous[j])) = Columns(previous[j])
           /\ Placeholder(j, previous[j]).job = j
           /\ Placeholder(j, previous[j]) # None
<1>1. previous[j] \in Payloads \cup {None}
  BY DEF TypeOK
<1>2. Placeholder(j, previous[j]) # None
  BY <1>1, PlaceholderSound DEF PayloadsAreDated
<1> QED
  BY <1>1, <1>2 DEF Placeholder, Payload, Columns

LEMMA AnswerIsSettled ==
    ASSUME TypeOK, NEW j \in Jobs
    PROVE  ~ IsRunning(Answer(j)) /\ Answer(j).by = j
BY DEF Answer, Payload, IsRunning

(* While one job lives the others do not.                                  *)
LEMMA OneAtATime ==
    ASSUME Claims, NEW j \in Jobs, Live(j), NEW i \in Jobs, i # j
    PROVE  ~ Live(i)
BY DEF Claims, ClaimIsOfTheLiveJob

-----------------------------------------------------------------------------
(* The way of a job, and the dates.                                        *)

LEMMA StepWay == TypeOK /\ Claims /\ WayIsRight /\ [Next]_vars => WayIsRight'
<1> SUFFICES ASSUME TypeOK, Claims, WayIsRight, [Next]_vars PROVE WayIsRight'
  OBVIOUS
<1>0. pc \in [Jobs -> States] /\ previous \in [Jobs -> Payloads \cup {None}]
  BY DEF TypeOK
<1>a. ASSUME \A i \in Jobs : /\ pc'[i] = pc[i] \/ pc'[i] \notin {"settle", "empty"}
                             /\ previous'[i] = previous[i] \/ pc'[i] \notin {"settle", "empty"}
      PROVE  WayIsRight'
  BY <1>a DEF WayIsRight
<1>1. ASSUME NEW s \in Sources, BecomeReady(s) \/ DeleteSource(s) PROVE WayIsRight'
  BY <1>1, <1>a DEF BecomeReady, DeleteSource, localVars
<1>2. ASSUME UNCHANGED localVars,
             StartRecommendation \/ UNCHANGED <<active, dirty, minted, known, pc, fails>>
      PROVE  WayIsRight'
  <2>1. \A i \in Jobs : pc'[i] = pc[i] \/ pc'[i] \notin {"settle", "empty"}
    BY <1>2, StartSound DEF Changes
  <2> QED
    BY <1>2, <1>a, <2>1 DEF localVars
<1>3. ASSUME NEW s \in Sources, ScheduleForSource(s) PROVE WayIsRight'
  BY <1>2, <1>3 DEF ScheduleForSource
<1>4. CASE Ask
  BY <1>2, <1>4 DEF Ask
<1>5. ASSUME NEW j \in Jobs, ReadTimeline(j) PROVE WayIsRight'
  <2>1. /\ pc'[j] \notin {"settle", "empty"}
        /\ \A i \in Jobs : i # j => pc'[i] = pc[i] /\ previous'[i] = previous[i]
    BY <1>0, <1>5 DEF ReadTimeline, Goto
  <2> QED
    BY <1>a, <2>1
<1>6. ASSUME NEW j \in Jobs, ListSources(j) PROVE WayIsRight'
  <2>1. /\ previous' = previous
        /\ \A i \in Jobs : i # j => pc'[i] = pc[i]
        /\ pc'[j] = "settle" => HasColumns(previous[j]) /\ IsRunning(previous[j])
        /\ pc'[j] = "empty" => ~ HasColumns(previous[j])
    BY <1>0, <1>6 DEF ListSources, Goto, KeepsAnswer
  <2> QED
    BY <2>1 DEF WayIsRight
<1>7. ASSUME NEW j \in Jobs, \/ ClearMark(j) \/ KeepAnswer(j) \/ StoreInsufficient(j)
                             \/ StorePlaceholder(j) \/ StoreAnswer(j) \/ RecordAudit(j)
                             \/ CheckPlaceholder(j) \/ RestorePrevious(j)
                             \/ FailJob(j) \/ FailRestore(j)
      PROVE  WayIsRight'
  <2>1. /\ previous' = previous
        /\ \A i \in Jobs : pc'[i] = pc[i] \/ pc'[i] \notin {"settle", "empty"}
    BY <1>0, <1>7 DEF ClearMark, KeepAnswer, StoreInsufficient, StorePlaceholder, StoreAnswer,
                      RecordAudit, CheckPlaceholder, RestorePrevious, FailJob, FailRestore,
                      Goto, localVars
  <2> QED
    BY <1>a, <2>1
<1>8. ASSUME NEW j \in Jobs, Release(j) PROVE WayIsRight'
  <2>1. \A i \in Jobs : pc'[i] = pc[i] \/ pc'[i] \notin {"settle", "empty"}
    BY <1>8, ReleaseSound DEF Changes
  <2>2. pc'[j] \notin {"settle", "empty"}
    <3>1. pc[j] = "release"
      BY <1>8 DEF Release
    <3> QED
      BY <2>1, <3>1
  <2>3. \A i \in Jobs : i # j => previous'[i] = previous[i]
    BY <1>0, <1>8 DEF Release
  <2> QED
    BY <1>a, <2>1, <2>2, <2>3
<1>9. ASSUME NEW j \in Jobs, Evict(j) PROVE WayIsRight'
  BY <1>9, <1>a DEF Evict, localVars
<1>10. CASE DeleteTimeline \/ Read \/ Boot \/ UNCHANGED vars
  <2>1. UNCHANGED <<pc, previous>>
    BY <1>10 DEF DeleteTimeline, Read, ReadPayload, JudgePayload, SelectRunning,
                 UpdateSettled, Boot, vars, localVars
  <2> QED
    BY <1>a, <2>1
<1>11. CASE Crash
  <2>1. \A i \in Jobs : pc'[i] \in {"unused", "over"}
    BY <1>0, <1>11 DEF Crash, Live
  <2> QED
    BY <1>a, <2>1
<1> QED
  BY <1>1, <1>3, <1>4, <1>5, <1>6, <1>7, <1>8, <1>9, <1>10, <1>11 DEF Next, Step

LEMMA StepDated ==
    TypeOK /\ Claims /\ WayIsRight /\ PayloadsAreDated /\ [Next]_vars => PayloadsAreDated'
<1> SUFFICES ASSUME TypeOK, Claims, WayIsRight, PayloadsAreDated, [Next]_vars
             PROVE  PayloadsAreDated'
  OBVIOUS
<1>0. previous \in [Jobs -> Payloads \cup {None}] /\ stored \in Payloads \cup {None}
  BY DEF TypeOK
<1>n. Dated(None)
  BY DEF Dated
<1>a. ASSUME UNCHANGED <<stored, previous>>, reader' = reader PROVE PayloadsAreDated'
  BY <1>a DEF PayloadsAreDated
<1>b. ASSUME Dated(stored'), previous' = previous, reader' \in {reader, Idle}
      PROVE  PayloadsAreDated'
  BY <1>b, <1>n DEF PayloadsAreDated, Idle
<1>c. ASSUME NEW j \in Jobs PROVE previous[j] \in Payloads \cup {None} /\ Dated(previous[j])
  BY <1>0 DEF PayloadsAreDated
<1>1. ASSUME NEW s \in Sources,
             BecomeReady(s) \/ DeleteSource(s) \/ ScheduleForSource(s)
      PROVE  PayloadsAreDated'
  BY <1>1, <1>a DEF BecomeReady, DeleteSource, ScheduleForSource, localVars, readerVars
<1>2. CASE Ask
  BY <1>2, <1>a DEF Ask, localVars, readerVars
<1>3. ASSUME NEW j \in Jobs, \/ ClearMark(j) \/ ListSources(j) \/ RecordAudit(j)
                             \/ CheckPlaceholder(j) \/ FailJob(j) \/ FailRestore(j) \/ Evict(j)
      PROVE  PayloadsAreDated'
  BY <1>3, <1>a DEF ClearMark, ListSources, RecordAudit, CheckPlaceholder, FailJob, FailRestore,
                    Evict, localVars, readerVars
<1>4. ASSUME NEW j \in Jobs, ReadTimeline(j) PROVE PayloadsAreDated'
  <2>1. \A i \in Jobs : previous'[i] \in {previous[i], stored}
    BY <1>0, <1>4 DEF ReadTimeline
  <2> QED
    BY <1>4, <2>1 DEF ReadTimeline, PayloadsAreDated, readerVars
<1>5. ASSUME NEW j \in Jobs, KeepAnswer(j) PROVE PayloadsAreDated'
  <2>1. /\ previous[j] \in Payloads /\ previous[j] # None /\ IsRunning(previous[j])
        /\ Dated(previous[j])
    BY <1>5, <1>c DEF KeepAnswer, WayIsRight, HasColumns
  <2> QED
    BY <1>5, <1>b, <2>1, SettledSound, StoreSound DEF KeepAnswer, localVars, readerVars
<1>6. ASSUME NEW j \in Jobs, StoreInsufficient(j) PROVE PayloadsAreDated'
  BY <1>6, <1>b, InsufficientSound, StoreSound DEF StoreInsufficient, localVars, readerVars
<1>7. ASSUME NEW j \in Jobs, StorePlaceholder(j) PROVE PayloadsAreDated'
  BY <1>7, <1>b, <1>c, PlaceholderSound, StoreSound DEF StorePlaceholder, localVars, readerVars
<1>8. ASSUME NEW j \in Jobs, StoreAnswer(j) PROVE PayloadsAreDated'
  BY <1>8, <1>b, AnswerSound, StoreSound DEF StoreAnswer, localVars, readerVars
<1>9. ASSUME NEW j \in Jobs, RestorePrevious(j) PROVE PayloadsAreDated'
  BY <1>9, <1>b, <1>c, StoreSound DEF RestorePrevious, localVars, readerVars
<1>10. ASSUME NEW j \in Jobs, Release(j) PROVE PayloadsAreDated'
  <2>1. \A i \in Jobs : previous'[i] \in {previous[i], None}
    BY <1>0, <1>10 DEF Release
  <2> QED
    BY <1>10, <1>n, <2>1 DEF Release, PayloadsAreDated, readerVars
<1>11. CASE DeleteTimeline
  BY <1>11, <1>b, <1>n DEF DeleteTimeline, localVars, readerVars
<1>12. CASE ReadPayload \/ JudgePayload
  BY <1>12, <1>n DEF ReadPayload, JudgePayload, Idle, PayloadsAreDated, TypeOK, localVars
<1>13. CASE SelectRunning
  <2>1. CASE IsRunning(stored)
    <3>1. stored \in Payloads /\ stored # None /\ Dated(stored)
      BY <1>0, <2>1 DEF IsRunning, PayloadsAreDated
    <3>2. Dated(Settled(stored))
      BY <2>1, <3>1, SettledSound
    <3>3. reader'.payload = Settled(stored)
      BY <1>13, <2>1 DEF SelectRunning
    <3> QED
      BY <1>13, <3>2, <3>3 DEF SelectRunning, PayloadsAreDated, localVars
  <2>2. CASE ~ IsRunning(stored)
    BY <1>13, <1>b, <2>2 DEF SelectRunning, PayloadsAreDated, localVars
  <2> QED
    BY <2>1, <2>2
<1>14. CASE UpdateSettled
  <2>1. reader.payload \in Payloads \cup {None} /\ Dated(reader.payload)
    BY DEF TypeOK, PayloadsAreDated
  <2> QED
    BY <1>14, <1>b, <2>1, StoreSound DEF UpdateSettled, localVars
<1>15. CASE Boot
  <2>1. Dated(stored')
    <3>1. CASE IsRunning(stored)
      <4>1. stored \in Payloads /\ stored # None /\ Dated(stored)
        BY <1>0, <3>1 DEF IsRunning, PayloadsAreDated
      <4> QED
        BY <1>15, <3>1, <4>1, SettledSound DEF Boot
    <3>2. CASE ~ IsRunning(stored)
      BY <1>15, <3>2 DEF Boot, PayloadsAreDated
    <3> QED
      BY <3>1, <3>2
  <2> QED
    BY <1>15, <1>b, <2>1 DEF Boot, localVars, readerVars
<1>16. CASE Crash
  BY <1>16, <1>n DEF Crash, Idle, PayloadsAreDated
<1>17. CASE UNCHANGED vars
  BY <1>17, <1>a DEF vars, localVars, readerVars
<1> QED
  BY <1>1, <1>2, <1>3, <1>4, <1>5, <1>6, <1>7, <1>8, <1>9, <1>10, <1>11, <1>12, <1>13, <1>14,
     <1>15, <1>16, <1>17 DEF Next, Step, Read
-----------------------------------------------------------------------------
(* Placeholders.                                                           *)

LEMMA PlacedStays ==
    TypeOK /\ Claims /\ [Next]_vars => \A i \in Jobs : pc[i] \in Placed => pc'[i] \in Placed
<1> SUFFICES ASSUME TypeOK, Claims, [Next]_vars, NEW i \in Jobs, pc[i] \in Placed
             PROVE  pc'[i] \in Placed
  OBVIOUS
<1>0. pc \in [Jobs -> States] /\ pc[i] # "unused"
  BY DEF TypeOK, Placed
<1>a. ASSUME pc' = pc PROVE pc'[i] \in Placed
  BY <1>a
<1>1. ASSUME NEW s \in Sources, BecomeReady(s) \/ DeleteSource(s) PROVE pc'[i] \in Placed
  BY <1>1, <1>a DEF BecomeReady, DeleteSource
<1>2. ASSUME StartRecommendation \/ UNCHANGED <<active, dirty, minted, known, pc, fails>>
      PROVE  pc'[i] \in Placed
  BY <1>0, <1>2, StartSound DEF Changes
<1>3. ASSUME NEW s \in Sources, ScheduleForSource(s) PROVE pc'[i] \in Placed
  BY <1>2, <1>3 DEF ScheduleForSource
<1>4. CASE Ask
  BY <1>2, <1>4 DEF Ask
<1>5. ASSUME NEW j \in Jobs, Step(j) \/ FailJob(j) \/ FailRestore(j), ~ Release(j)
      PROVE  pc'[i] \in Placed
  <2>1. CASE i # j
    BY <1>0, <1>5, <2>1 DEF Step, ReadTimeline, ClearMark, ListSources, KeepAnswer,
         StoreInsufficient, StorePlaceholder, StoreAnswer, RecordAudit, CheckPlaceholder,
         RestorePrevious, FailJob, FailRestore, Goto
  <2>2. CASE i = j
    BY <1>0, <1>5, <2>2 DEF Step, ReadTimeline, ClearMark, ListSources, KeepAnswer,
         StoreInsufficient, StorePlaceholder, StoreAnswer, RecordAudit, CheckPlaceholder,
         RestorePrevious, FailJob, FailRestore, Goto, Placed
  <2> QED
    BY <2>1, <2>2
<1>6. ASSUME NEW j \in Jobs, Release(j) PROVE pc'[i] \in Placed
  BY <1>0, <1>6, ReleaseSound DEF Changes, Placed
<1>7. ASSUME NEW j \in Jobs, Evict(j) PROVE pc'[i] \in Placed
  BY <1>7, <1>a DEF Evict
<1>8. CASE DeleteTimeline \/ Read \/ Boot \/ UNCHANGED vars
  BY <1>8, <1>a DEF DeleteTimeline, Read, ReadPayload, JudgePayload, SelectRunning,
                    UpdateSettled, Boot, vars
<1>9. CASE Crash
  BY <1>0, <1>9 DEF Crash, Placed
<1> QED
  BY <1>1, <1>3, <1>4, <1>5, <1>6, <1>7, <1>8, <1>9 DEF Next

(* A step that places nothing new.                                         *)
LEMMA NothingPlaced ==
    ASSUME PlaceholdersAgree,
           \A p \in Kept' : p \in Kept \/ ~ IsRunning(p),
           \A i \in Jobs : pc[i] \in Placed => pc'[i] \in Placed,
           \A i \in Jobs : pc'[i] = "audit" => ~ Runs(stored', i),
           reader'.at = "update" => reader' = reader
    PROVE  PlaceholdersAgree'
<1>1. \A p \in Kept' : IsRunning(p) => p.job \in Jobs /\ pc'[p.job] \in Placed
  BY DEF PlaceholdersAgree
<1>2. \A p, q \in Kept' :
         IsRunning(p) /\ IsRunning(q) /\ p.job = q.job => p.columns = q.columns
  BY DEF PlaceholdersAgree
<1>3. reader'.at = "update" =>
        /\ reader'.payload # None /\ ~ IsRunning(reader'.payload)
        /\ reader'.job \in Jobs /\ pc'[reader'.job] \in Placed
        /\ \A p \in Kept' : Runs(p, reader'.job) => p.columns = reader'.payload.columns
  BY DEF PlaceholdersAgree, Runs
<1> QED
  BY <1>1, <1>2, <1>3 DEF PlaceholdersAgree

LEMMA StepAgrees == Inv /\ [Next]_vars => PlaceholdersAgree'
<1> SUFFICES ASSUME Inv, [Next]_vars PROVE PlaceholdersAgree'
  OBVIOUS
<1>0. /\ TypeOK /\ Claims /\ WayIsRight /\ PayloadsAreDated /\ PlaceholdersAgree
      /\ pc \in [Jobs -> States] /\ previous \in [Jobs -> Payloads \cup {None}]
      /\ stored \in Payloads \cup {None}
  BY DEF Inv, TypeOK
<1>p. \A i \in Jobs : pc[i] \in Placed => pc'[i] \in Placed
  BY <1>0, PlacedStays
<1>n. ~ IsRunning(None)
  BY DEF IsRunning
(* What is kept, when the row is written or a payload read.                *)
<1>k. ASSUME stored' \in Kept \/ ~ IsRunning(stored'),
             \A i \in Jobs : previous'[i] \in {previous[i], stored, None}
      PROVE  \A p \in Kept' : p \in Kept \/ ~ IsRunning(p)
  BY <1>k, <1>n DEF Kept
<1>a. ASSUME stored' = stored, reader' \in {reader, Idle},
             \A i \in Jobs : pc'[i] = pc[i] \/ pc'[i] # "audit",
             \A i \in Jobs : previous'[i] \in {previous[i], stored, None}
      PROVE  PlaceholdersAgree'
  <2>1. stored' \in Kept
    BY <1>a DEF Kept
  <2>2. \A i \in Jobs : pc'[i] = "audit" => ~ Runs(stored', i)
    BY <1>0, <1>a DEF PlaceholdersAgree
  <2>3. reader'.at = "update" => reader' = reader
    BY <1>a DEF Idle
  <2> QED
    BY <1>0, <1>a, <1>k, <1>p, <2>1, <2>2, <2>3, NothingPlaced
<1>b. ASSUME ~ IsRunning(stored'), reader' \in {reader, Idle}, previous' = previous
      PROVE  PlaceholdersAgree'
  <2>1. \A i \in Jobs : pc'[i] = "audit" => ~ Runs(stored', i)
    BY <1>b DEF Runs
  <2>2. reader'.at = "update" => reader' = reader
    BY <1>b DEF Idle
  <2> QED
    BY <1>0, <1>b, <1>k, <1>p, <2>1, <2>2, NothingPlaced
<1>1. ASSUME NEW s \in Sources, BecomeReady(s) \/ DeleteSource(s) PROVE PlaceholdersAgree'
  BY <1>1, <1>a DEF BecomeReady, DeleteSource, localVars, readerVars
<1>2. ASSUME UNCHANGED <<stored, localVars, readerVars>>,
             StartRecommendation \/ UNCHANGED <<active, dirty, minted, known, pc, fails>>
      PROVE  PlaceholdersAgree'
  <2>1. \A i \in Jobs : pc'[i] = pc[i] \/ pc'[i] # "audit"
    BY <1>0, <1>2, StartSound DEF Changes
  <2> QED
    BY <1>2, <1>a, <2>1 DEF localVars, readerVars
<1>3. ASSUME NEW s \in Sources, ScheduleForSource(s) PROVE PlaceholdersAgree'
  BY <1>2, <1>3 DEF ScheduleForSource
<1>4. CASE Ask
  BY <1>2, <1>4 DEF Ask
<1>5. ASSUME NEW j \in Jobs,
             \/ ReadTimeline(j) \/ ClearMark(j) \/ ListSources(j) \/ RecordAudit(j)
             \/ CheckPlaceholder(j) \/ FailJob(j) \/ FailRestore(j)
      PROVE  PlaceholdersAgree'
  <2>1. /\ stored' = stored /\ reader' = reader
        /\ \A i \in Jobs : previous'[i] \in {previous[i], stored, None}
    BY <1>0, <1>5 DEF ReadTimeline, ClearMark, ListSources, RecordAudit, CheckPlaceholder,
                      FailJob, FailRestore, localVars, readerVars
  <2>2. \A i \in Jobs : pc'[i] = pc[i] \/ pc'[i] # "audit"
    BY <1>0, <1>5 DEF ReadTimeline, ClearMark, ListSources, RecordAudit, CheckPlaceholder,
                      FailJob, FailRestore, Goto
  <2> QED
    BY <1>a, <2>1, <2>2
<1>6. ASSUME NEW j \in Jobs, KeepAnswer(j) PROVE PlaceholdersAgree'
  <2>1. previous[j] \in Payloads
    BY <1>0, <1>6 DEF KeepAnswer, WayIsRight, HasColumns
  <2>2. ~ IsRunning(Settled(previous[j]))
    BY <2>1, ColumnsOf
  <2> QED
    BY <1>6, <1>b, <1>n, <2>2 DEF KeepAnswer, Store, localVars, readerVars
<1>7. ASSUME NEW j \in Jobs, StoreInsufficient(j) PROVE PlaceholdersAgree'
  <2>1. ~ IsRunning(stored')
    BY <1>7, <1>n DEF StoreInsufficient, Store, Payload, IsRunning
  <2> QED
    BY <1>7, <1>b, <2>1 DEF StoreInsufficient, localVars, readerVars
<1>8. ASSUME NEW j \in Jobs, StoreAnswer(j) PROVE PlaceholdersAgree'
  BY <1>0, <1>8, <1>b, <1>n, AnswerIsSettled DEF StoreAnswer, Store, localVars, readerVars
<1>9. ASSUME NEW j \in Jobs, StorePlaceholder(j) PROVE PlaceholdersAgree'
  <2>1. CASE deleted
    BY <1>9, <1>b, <1>n, <2>1 DEF StorePlaceholder, Store, localVars, readerVars
  <2>2. CASE ~ deleted
    <3> DEFINE P == Placeholder(j, previous[j])
    <3>1. stored' = P /\ P.job = j /\ previous' = previous /\ reader' = reader
      BY <1>0, <1>9, <2>2, PlaceholderShows DEF StorePlaceholder, Store, localVars, readerVars
    <3>2. pc[j] = "place" /\ pc' = [pc EXCEPT ![j] = "score"]
      BY <1>9 DEF StorePlaceholder, Goto
    <3>3. \A p \in Kept : IsRunning(p) => p.job # j /\ p.job \in Jobs
      BY <1>0, <3>2 DEF PlaceholdersAgree, Placed
    <3>4. Kept' \subseteq Kept \cup {P} /\ P \in Kept'
      BY <3>1 DEF Kept
    <3>5. pc'[j] \in Placed
      BY <1>0, <3>2 DEF Placed
    <3>6. \A p \in Kept' : IsRunning(p) => p.job \in Jobs /\ pc'[p.job] \in Placed
      BY <1>0, <1>p, <3>1, <3>4, <3>5 DEF PlaceholdersAgree
    <3>7. \A p, q \in Kept' :
             IsRunning(p) /\ IsRunning(q) /\ p.job = q.job => p.columns = q.columns
      BY <1>0, <3>1, <3>3, <3>4 DEF PlaceholdersAgree
    <3>8. ASSUME NEW i \in Jobs, pc'[i] = "audit" PROVE ~ Runs(stored', i)
      <4>1. i # j
        BY <1>0, <3>2, <3>8
      <4> QED
        BY <3>1, <4>1 DEF Runs
    <3>9. reader.at = "update" => reader.job # j
      BY <1>0, <3>2 DEF PlaceholdersAgree, Placed
    <3>10. reader'.at = "update" =>
             /\ reader'.payload # None /\ ~ IsRunning(reader'.payload)
             /\ reader'.job \in Jobs /\ pc'[reader'.job] \in Placed
             /\ \A p \in Kept' : Runs(p, reader'.job) => p.columns = reader'.payload.columns
      BY <1>0, <1>p, <3>1, <3>4, <3>9 DEF PlaceholdersAgree, Runs
    <3> QED
      BY <3>6, <3>7, <3>8, <3>10 DEF PlaceholdersAgree
  <2> QED
    BY <2>1, <2>2
<1>10. ASSUME NEW j \in Jobs, RestorePrevious(j) PROVE PlaceholdersAgree'
  <2>1. /\ stored' = None \/ stored' = previous[j]
        /\ previous' = previous /\ reader' = reader
        /\ pc[j] = "undo" /\ pc' = [pc EXCEPT ![j] = "release"]
    BY <1>10 DEF RestorePrevious, Store, Goto, localVars, readerVars
  <2>2. stored' \in Kept \/ ~ IsRunning(stored')
    BY <1>n, <2>1 DEF Kept
  <2>3. \A i \in Jobs : pc'[i] # "audit"
    BY <1>0, <2>1, OneAtATime DEF Live
  <2> QED
    BY <1>0, <1>k, <1>p, <2>1, <2>2, <2>3, NothingPlaced
<1>11. ASSUME NEW j \in Jobs, Release(j) PROVE PlaceholdersAgree'
  <2>1. \A i \in Jobs : previous'[i] \in {previous[i], stored, None}
    BY <1>0, <1>11 DEF Release
  <2>2. \A i \in Jobs : pc'[i] = pc[i] \/ pc'[i] # "audit"
    BY <1>0, <1>11, ReleaseSound DEF Changes
  <2> QED
    BY <1>11, <1>a, <2>1, <2>2 DEF Release, readerVars
<1>12. ASSUME NEW j \in Jobs, Evict(j) PROVE PlaceholdersAgree'
  BY <1>12, <1>a DEF Evict, localVars, readerVars
<1>13. CASE DeleteTimeline
  BY <1>13, <1>b, <1>n DEF DeleteTimeline, localVars, readerVars
<1>14. CASE ReadPayload \/ JudgePayload
  <2>1. /\ stored' = stored /\ previous' = previous /\ pc' = pc
        /\ reader'.at = "update" => reader' = reader
    BY <1>0, <1>14 DEF ReadPayload, JudgePayload, Idle, localVars, TypeOK
  <2>2. stored' \in Kept /\ \A i \in Jobs : previous'[i] \in {previous[i], stored, None}
    BY <2>1 DEF Kept
  <2>3. \A i \in Jobs : pc'[i] = "audit" => ~ Runs(stored', i)
    BY <1>0, <2>1 DEF PlaceholdersAgree
  <2> QED
    BY <1>0, <1>k, <1>p, <2>1, <2>2, <2>3, NothingPlaced
<1>15. CASE SelectRunning
  <2>0. stored' = stored /\ previous' = previous /\ pc' = pc
    BY <1>15 DEF SelectRunning, localVars
  <2>1. CASE ~ IsRunning(stored)
    BY <1>15, <1>a, <2>0, <2>1 DEF SelectRunning
  <2>2. CASE IsRunning(stored)
    <3>1. stored \in Payloads /\ stored \in Kept /\ Kept' = Kept
      BY <1>0, <2>0, <2>2 DEF IsRunning, Kept
    <3>2. reader'.job = stored.job /\ reader'.payload = Settled(stored)
      BY <1>15, <2>2 DEF SelectRunning
    <3>3. Settled(stored).columns = stored.columns /\ ~ IsRunning(Settled(stored))
          /\ Settled(stored) # None
      BY <3>1, ColumnsOf DEF Columns
    <3>4. stored.job \in Jobs /\ pc[stored.job] \in Placed
      BY <1>0, <2>2, <3>1 DEF PlaceholdersAgree
    <3>5. \A p \in Kept : Runs(p, stored.job) => p.columns = stored.columns
      BY <1>0, <2>2, <3>1 DEF PlaceholdersAgree, Runs
    <3> QED
      BY <1>0, <2>0, <3>1, <3>2, <3>3, <3>4, <3>5 DEF PlaceholdersAgree
  <2> QED
    BY <2>1, <2>2
<1>16. CASE UpdateSettled
  <2>1. ~ IsRunning(stored')
    BY <1>0, <1>16, <1>n DEF UpdateSettled, Store, PlaceholdersAgree
  <2> QED
    BY <1>16, <1>b, <2>1 DEF UpdateSettled, localVars
<1>17. CASE Boot
  <2>1. CASE stored' = stored
    BY <1>17, <1>a, <2>1 DEF Boot, localVars, readerVars
  <2>2. CASE IsRunning(stored) /\ stored' = Settled(stored)
    <3>1. stored \in Payloads
      BY <1>0, <2>2 DEF IsRunning
    <3> QED
      BY <1>17, <1>b, <2>2, <3>1, ColumnsOf DEF Boot, localVars, readerVars
  <2> QED
    BY <1>17, <2>1, <2>2 DEF Boot
<1>18. CASE Crash
  <2>1. /\ stored' = stored /\ reader' = Idle
        /\ \A i \in Jobs : previous'[i] \in {previous[i], stored, None}
    BY <1>18 DEF Crash
  <2>2. \A i \in Jobs : pc'[i] = pc[i] \/ pc'[i] # "audit"
    BY <1>0, <1>18 DEF Crash
  <2> QED
    BY <1>a, <2>1, <2>2
<1>19. CASE UNCHANGED vars
  BY <1>19, <1>a DEF vars, localVars, readerVars
<1> QED
  BY <1>1, <1>3, <1>4, <1>5, <1>6, <1>7, <1>8, <1>9, <1>10, <1>11, <1>12, <1>13, <1>14, <1>15,
     <1>16, <1>17, <1>18, <1>19 DEF Next, Step, Read
-----------------------------------------------------------------------------
(* What the row shows.                                                     *)

(* Only an answer changes the columns a living timeline shows, unless a    *)
(* reader overtakes one.                                                   *)
LEMMA OnlyAnswersChangeTheRow ==
    ASSUME Inv, [Next]_vars, ~ deleted', ~ overtaken'
    PROVE  \/ Columns(stored') = Columns(stored)
           \/ \E j \in Jobs : StoreAnswer(j) /\ stored'.by = j
<1>0. /\ TypeOK /\ Claims /\ WayIsRight /\ PayloadsAreDated /\ PlaceholdersAgree /\ RowIsAsRead
      /\ stored \in Payloads \cup {None} /\ previous \in [Jobs -> Payloads \cup {None}]
  BY DEF Inv, TypeOK
<1>a. ASSUME stored' = stored PROVE Columns(stored') = Columns(stored)
  BY <1>a
<1>b. ASSUME NEW j \in Jobs, ~ overtaken, ~ deleted,
             pc[j] \in {"mark", "list", "settle", "empty", "place", "score", "undo"}
      PROVE  Columns(stored) = Columns(previous[j])
  BY <1>0, <1>b DEF RowIsAsRead
<1>1. ASSUME NEW s \in Sources, BecomeReady(s) \/ DeleteSource(s) \/ ScheduleForSource(s)
      PROVE  Columns(stored') = Columns(stored)
  BY <1>1, <1>a DEF BecomeReady, DeleteSource, ScheduleForSource
<1>2. CASE Ask
  BY <1>2, <1>a DEF Ask
<1>3. ASSUME NEW j \in Jobs,
             \/ ReadTimeline(j) \/ ClearMark(j) \/ ListSources(j) \/ RecordAudit(j)
             \/ CheckPlaceholder(j) \/ FailJob(j) \/ FailRestore(j) \/ Release(j) \/ Evict(j)
      PROVE  Columns(stored') = Columns(stored)
  BY <1>3, <1>a DEF ReadTimeline, ClearMark, ListSources, RecordAudit, CheckPlaceholder,
                    FailJob, FailRestore, Release, Evict
<1>4. ASSUME NEW j \in Jobs, KeepAnswer(j) PROVE Columns(stored') = Columns(stored)
  <2>1. pc[j] = "settle" /\ ~ overtaken /\ ~ deleted /\ stored' = Settled(previous[j])
    BY <1>4 DEF KeepAnswer, Store, timelineVars, readerVars
  <2>2. previous[j] \in Payloads /\ previous[j] # None
    BY <1>0, <2>1 DEF WayIsRight, HasColumns
  <2>3. Columns(stored') = Columns(previous[j])
    BY <2>1, <2>2, ColumnsOf DEF Columns
  <2> QED
    BY <1>b, <2>1, <2>3
<1>5. ASSUME NEW j \in Jobs, StoreInsufficient(j) PROVE Columns(stored') = Columns(stored)
  <2>1. /\ pc[j] = "empty" /\ ~ overtaken /\ ~ deleted
        /\ stored' = Payload("insufficient", {}, None, {}, j, j, None)
    BY <1>5 DEF StoreInsufficient, Store, timelineVars, readerVars
  <2>2. Columns(stored') = {}
    BY <2>1 DEF Columns, Payload
  <2>3. Columns(previous[j]) = {}
    BY <1>0, <2>1, ColumnsOf DEF WayIsRight
  <2> QED
    BY <1>b, <2>1, <2>2, <2>3
<1>6. ASSUME NEW j \in Jobs, StorePlaceholder(j) PROVE Columns(stored') = Columns(stored)
  <2>1. /\ pc[j] = "place" /\ ~ overtaken /\ ~ deleted
        /\ stored' = Placeholder(j, previous[j])
    BY <1>6 DEF StorePlaceholder, Store, timelineVars, readerVars
  <2> QED
    BY <1>0, <1>b, <2>1, PlaceholderShows
<1>7. ASSUME NEW j \in Jobs, StoreAnswer(j)
      PROVE  \E i \in Jobs : StoreAnswer(i) /\ stored'.by = i
  <2>1. stored' = Answer(j)
    BY <1>7 DEF StoreAnswer, Store, timelineVars
  <2> QED
    BY <1>0, <1>7, <2>1, AnswerIsSettled
<1>8. ASSUME NEW j \in Jobs, RestorePrevious(j) PROVE Columns(stored') = Columns(stored)
  <2>1. pc[j] = "undo" /\ ~ overtaken /\ ~ deleted /\ stored' = previous[j]
    BY <1>8 DEF RestorePrevious, Store, timelineVars, readerVars
  <2> QED
    BY <1>b, <2>1
<1>9. ~ DeleteTimeline
  BY DEF DeleteTimeline
<1>10. CASE ReadPayload \/ JudgePayload \/ SelectRunning
  BY <1>10, <1>a DEF ReadPayload, JudgePayload, SelectRunning
<1>11. CASE UpdateSettled
  <2>1. ~ deleted /\ stored' = reader.payload /\ Runs(stored, reader.job)
    BY <1>11 DEF UpdateSettled, Store, Runs, timelineVars
  <2>2. stored.columns = reader.payload.columns /\ reader.payload # None
    BY <1>0, <1>11, <2>1 DEF UpdateSettled, PlaceholdersAgree, Kept
  <2> QED
    BY <2>1, <2>2 DEF Columns, Runs, IsRunning
<1>12. CASE Boot
  <2>1. CASE stored' = stored
    BY <1>a, <2>1
  <2>2. CASE IsRunning(stored) /\ stored' = Settled(stored)
    <3>1. stored \in Payloads /\ stored # None
      BY <1>0, <2>2 DEF IsRunning
    <3> QED
      BY <2>2, <3>1, ColumnsOf DEF Columns
  <2> QED
    BY <1>12, <2>1, <2>2 DEF Boot
<1>13. CASE Crash
  BY <1>13, <1>a DEF Crash
<1>14. CASE UNCHANGED vars
  BY <1>14, <1>a DEF vars
<1> QED
  BY <1>1, <1>2, <1>3, <1>4, <1>5, <1>6, <1>7, <1>8, <1>9, <1>10, <1>11, <1>12, <1>13, <1>14
  DEF Next, Step, Read

Watched == {"mark", "list", "settle", "empty", "place", "score", "undo", "restore"}

(* When no job comes under watch.                                          *)
LEMMA NobodyNew ==
    ASSUME Inv, [Next]_vars,
           IsRunning(stored') => stored' = stored,
           \A i \in Jobs : ~ StoreAnswer(i),
           \A i \in Jobs : pc'[i] \in Watched => pc'[i] = pc[i] /\ previous'[i] = previous[i]
    PROVE  RowIsAsRead'
<1> SUFFICES ASSUME ~ overtaken', ~ deleted'
             PROVE  \A i \in Jobs :
                      /\ pc'[i] \in Watched \ {"restore"}
                           => Columns(stored') = Columns(previous'[i])
                      /\ pc'[i] = "restore" /\ Runs(stored', i)
                           => Columns(stored') = Columns(previous'[i])
  BY DEF RowIsAsRead, Watched
<1>1. ~ overtaken /\ ~ deleted
  <2>1. deleted => deleted'
    BY DEF Next, Step, Read, vars, timelineVars, BecomeReady, ScheduleForSource, DeleteSource,
           ReadTimeline, ClearMark, ListSources, KeepAnswer, StoreInsufficient, StorePlaceholder,
           StoreAnswer, RecordAudit, CheckPlaceholder, RestorePrevious, Release, FailJob,
           FailRestore, Evict, Ask, DeleteTimeline, ReadPayload, JudgePayload, SelectRunning,
           UpdateSettled, Crash, Boot
  <2>2. overtaken => overtaken'
    BY DEF Next, Step, Read, vars, readerVars, BecomeReady, ScheduleForSource, DeleteSource,
           ReadTimeline, ClearMark, ListSources, KeepAnswer, StoreInsufficient, StorePlaceholder,
           StoreAnswer, RecordAudit, CheckPlaceholder, RestorePrevious, Release, FailJob,
           FailRestore, Evict, Ask, DeleteTimeline, ReadPayload, JudgePayload, SelectRunning,
           UpdateSettled, Crash, Boot
  <2> QED
    BY <2>1, <2>2
<1>2. Columns(stored') = Columns(stored)
  BY OnlyAnswersChangeTheRow
<1>3. ASSUME NEW i \in Jobs, pc'[i] \in Watched \ {"restore"}
      PROVE  Columns(stored') = Columns(previous'[i])
  BY <1>1, <1>2, <1>3 DEF Inv, RowIsAsRead, Watched
<1>4. ASSUME NEW i \in Jobs, pc'[i] = "restore", Runs(stored', i)
      PROVE  Columns(stored') = Columns(previous'[i])
  BY <1>1, <1>2, <1>4 DEF Inv, RowIsAsRead, Watched, Runs
<1> QED
  BY <1>3, <1>4

(* When one job takes a step under watch.                                  *)
LEMMA OneWatched ==
    ASSUME Inv, NEW j \in Jobs, Live(j),
           \A i \in Jobs : i # j => pc'[i] = pc[i],
           ~ overtaken' /\ ~ deleted' =>
             /\ pc'[j] \in Watched \ {"restore"} => Columns(stored') = Columns(previous'[j])
             /\ pc'[j] = "restore" /\ Runs(stored', j) => Columns(stored') = Columns(previous'[j])
    PROVE  RowIsAsRead'
<1>1. \A i \in Jobs : i # j => pc'[i] \notin Watched
  BY OneAtATime DEF Inv, Live, Watched
<1> QED
  BY <1>1 DEF RowIsAsRead, Watched

LEMMA StepReads == Inv /\ [Next]_vars => RowIsAsRead'
<1> SUFFICES ASSUME Inv, [Next]_vars PROVE RowIsAsRead'
  OBVIOUS
<1>0. /\ TypeOK /\ Claims /\ WayIsRight /\ PayloadsAreDated /\ PlaceholdersAgree /\ RowIsAsRead
      /\ stored \in Payloads \cup {None} /\ previous \in [Jobs -> Payloads \cup {None}]
      /\ pc \in [Jobs -> States]
  BY DEF Inv, TypeOK
<1>n. ~ IsRunning(None)
  BY DEF IsRunning
<1>r. ASSUME NEW j \in Jobs, ~ overtaken, ~ deleted,
             pc[j] \in {"mark", "list", "settle", "empty", "place", "score", "undo"}
      PROVE  Columns(stored) = Columns(previous[j])
  BY <1>0, <1>r DEF RowIsAsRead
<1>1. ASSUME NEW j \in Jobs, StoreAnswer(j) PROVE RowIsAsRead'
  <2>1. Live(j) /\ pc'[j] = "audit" /\ \A i \in Jobs : i # j => pc'[i] = pc[i]
    BY <1>0, <1>1 DEF StoreAnswer, Goto, Live
  <2> QED
    BY <2>1, OneWatched DEF Watched
<1>2. ASSUME NEW j \in Jobs, ReadTimeline(j) PROVE RowIsAsRead'
  <2>1. /\ Live(j) /\ pc'[j] \in {"release", "mark"} /\ \A i \in Jobs : i # j => pc'[i] = pc[i]
        /\ pc'[j] = "mark" => previous'[j] = stored /\ stored' = stored
    BY <1>0, <1>2 DEF ReadTimeline, Goto, Live
  <2> QED
    BY <2>1, OneWatched DEF Watched
<1>3. ASSUME NEW j \in Jobs, ClearMark(j) \/ ListSources(j) PROVE RowIsAsRead'
  <2>1. /\ Live(j) /\ pc[j] \in {"mark", "list"} /\ \A i \in Jobs : i # j => pc'[i] = pc[i]
        /\ UNCHANGED <<stored, previous, overtaken, deleted>> /\ pc'[j] # "restore"
    BY <1>0, <1>3 DEF ClearMark, ListSources, Goto, Live, localVars, readerVars, timelineVars
  <2> QED
    BY <1>r, <2>1, OneWatched DEF Watched
<1>4. ASSUME NEW j \in Jobs, StorePlaceholder(j) PROVE RowIsAsRead'
  <2>1. /\ Live(j) /\ pc'[j] = "score" /\ \A i \in Jobs : i # j => pc'[i] = pc[i]
        /\ previous' = previous /\ deleted' = deleted
        /\ ~ deleted => stored' = Placeholder(j, previous[j])
    BY <1>0, <1>4 DEF StorePlaceholder, Store, Goto, Live, localVars, timelineVars
  <2> QED
    BY <1>0, <2>1, OneWatched, PlaceholderShows DEF Watched
<1>5. ASSUME NEW j \in Jobs, FailJob(j) PROVE RowIsAsRead'
  <2>1. /\ Live(j) /\ pc'[j] = "restore" /\ \A i \in Jobs : i # j => pc'[i] = pc[i]
        /\ UNCHANGED <<stored, previous, overtaken, deleted>>
        /\ pc[j] \in {"start", "list", "settle", "empty", "place", "score", "audit"}
    BY <1>0, <1>5 DEF FailJob, Goto, Live, localVars, readerVars, timelineVars
  <2>2. pc[j] \in {"start", "audit"} => ~ Runs(stored, j)
    BY <1>0 DEF PlaceholdersAgree, Runs, Kept, Placed
  <2> QED
    BY <1>r, <2>1, <2>2, OneWatched DEF Watched, Runs
<1>6. ASSUME NEW j \in Jobs, CheckPlaceholder(j) PROVE RowIsAsRead'
  <2>1. /\ Live(j) /\ pc[j] = "restore" /\ \A i \in Jobs : i # j => pc'[i] = pc[i]
        /\ UNCHANGED <<stored, previous, overtaken, deleted>>
        /\ pc'[j] = "release" \/ (pc'[j] = "undo" /\ Runs(stored, j))
    BY <1>0, <1>6 DEF CheckPlaceholder, OwnPlaceholder, Runs, Goto, Live, localVars, readerVars,
                      timelineVars
  <2> QED
    BY <1>0, <2>1, OneWatched DEF Watched, RowIsAsRead
<1>7. ASSUME NEW j \in Jobs, \/ KeepAnswer(j) \/ StoreInsufficient(j) \/ RecordAudit(j)
                             \/ RestorePrevious(j) \/ FailRestore(j)
      PROVE  RowIsAsRead'
  <2>1. Live(j) /\ pc'[j] = "release" /\ \A i \in Jobs : i # j => pc'[i] = pc[i]
    BY <1>0, <1>7 DEF KeepAnswer, StoreInsufficient, RecordAudit, RestorePrevious, FailRestore,
                      Goto, Live
  <2> QED
    BY <2>1, OneWatched DEF Watched
(* The steps of the others.                                                *)
<1>b. ASSUME IsRunning(stored') => stored' = stored,
             \A i \in Jobs : pc'[i] \in Watched => pc'[i] = pc[i] /\ previous'[i] = previous[i]
      PROVE  RowIsAsRead'
  <2>1. CASE \E i \in Jobs : StoreAnswer(i)
    BY <1>1, <2>1
  <2>2. CASE \A i \in Jobs : ~ StoreAnswer(i)
    BY <1>b, <2>2, NobodyNew
  <2> QED
    BY <2>1, <2>2
<1>8. ASSUME UNCHANGED <<stored, localVars>>,
             StartRecommendation \/ UNCHANGED <<active, dirty, minted, known, pc, fails>>
      PROVE  RowIsAsRead'
  <2>1. \A i \in Jobs : pc'[i] \in Watched => pc'[i] = pc[i]
    BY <1>0, <1>8, StartSound DEF Changes, Watched
  <2> QED
    BY <1>8, <1>b, <2>1 DEF localVars
<1>9. ASSUME NEW s \in Sources, ScheduleForSource(s) PROVE RowIsAsRead'
  BY <1>8, <1>9 DEF ScheduleForSource
<1>10. CASE Ask
  BY <1>8, <1>10 DEF Ask
<1>11. ASSUME NEW j \in Jobs, Release(j) PROVE RowIsAsRead'
  <2>0. pc[j] = "release" /\ stored' = stored
    BY <1>11 DEF Release
  <2>1. \A i \in Jobs : pc'[i] \in Watched => pc'[i] = pc[i]
    BY <1>0, <1>11, ReleaseSound DEF Changes, Watched
  <2>2. \A i \in Jobs : i # j => previous'[i] = previous[i]
    BY <1>0, <1>11 DEF Release
  <2>3. pc'[j] \notin Watched
    BY <2>0, <2>1 DEF Watched
  <2> QED
    BY <1>b, <2>0, <2>1, <2>2, <2>3
<1>12. ASSUME NEW s \in Sources, BecomeReady(s) \/ DeleteSource(s) PROVE RowIsAsRead'
  BY <1>12, <1>b DEF BecomeReady, DeleteSource, localVars
<1>13. ASSUME NEW j \in Jobs, Evict(j) PROVE RowIsAsRead'
  BY <1>13, <1>b DEF Evict, localVars
<1>14. CASE DeleteTimeline
  BY <1>14, <1>b, <1>n DEF DeleteTimeline, localVars
<1>15. CASE ReadPayload \/ JudgePayload \/ SelectRunning
  BY <1>15, <1>b DEF ReadPayload, JudgePayload, SelectRunning, localVars
<1>16. CASE UpdateSettled
  <2>1. ~ IsRunning(stored')
    BY <1>0, <1>16, <1>n DEF UpdateSettled, Store, PlaceholdersAgree
  <2> QED
    BY <1>16, <1>b, <2>1 DEF UpdateSettled, localVars
<1>17. CASE Boot
  <2>1. stored' = stored \/ ~ IsRunning(stored')
    <3>1. CASE IsRunning(stored) /\ stored' = Settled(stored)
      <4>1. stored \in Payloads
        BY <1>0, <3>1 DEF IsRunning
      <4> QED
        BY <3>1, <4>1, ColumnsOf
    <3> QED
      BY <1>17, <3>1 DEF Boot
  <2> QED
    BY <1>17, <1>b, <2>1 DEF Boot, localVars
<1>18. CASE Crash
  <2>1. stored' = stored /\ \A i \in Jobs : pc'[i] \notin Watched
    BY <1>0, <1>18 DEF Crash, Live, Watched
  <2> QED
    BY <1>b, <2>1
<1>19. CASE UNCHANGED vars
  BY <1>19, <1>b DEF vars, localVars
<1> QED
  BY <1>1, <1>2, <1>3, <1>4, <1>5, <1>6, <1>7, <1>9, <1>10, <1>11, <1>12, <1>13, <1>14,
     <1>15, <1>16, <1>17, <1>18, <1>19 DEF Next, Step, Read

-----------------------------------------------------------------------------
(* The theorems.                                                           *)

LEMMA StepInv == Inv /\ [Next]_vars => Inv'
<1> SUFFICES ASSUME Inv, [Next]_vars PROVE Inv'
  OBVIOUS
<1>1. TypeOK /\ Claims /\ WayIsRight /\ PayloadsAreDated
  BY DEF Inv
<1>2. TypeOK' /\ Claims' /\ WayIsRight' /\ PayloadsAreDated'
  BY <1>1, StepTyped, StepClaims, StepWay, StepDated
<1> QED
  BY <1>2, StepAgrees, StepReads DEF Inv

LEMMA Invariance == Spec => []Inv
BY InitInv, StepInv, PTL DEF Spec

(* Every variable of the recommendation jobs keeps its type.               *)
THEOREM TypeCorrect == Spec => []TypeOK
<1>1. Inv => TypeOK
  BY DEF Inv
<1> QED
  BY <1>1, Invariance, PTL

(* The claim of a timeline (columns/jobs.py, _ACTIVE) is held by the one   *)
(* job that runs and by no other, however many triggers, failed task       *)
(* creations, reruns and crashes there are.                                *)
THEOREM ClaimsAreHeld == Spec => []ClaimIsOfTheLiveJob
<1>1. Inv => ClaimIsOfTheLiveJob
  BY DEF Inv, Claims
<1> QED
  BY <1>1, Invariance, PTL

(* A trigger that was turned away (_DIRTY) is never left without a job     *)
(* that will run again for it.                                             *)
THEOREM MarksAreHeld == Spec => []MarksHaveAHolder
<1>1. Inv => MarksHaveAHolder
  BY DEF Inv, Claims
<1> QED
  BY <1>1, Invariance, PTL

(* A stored answer carries the date of the run that derived it through any *)
(* number of placeholders, restores and settlements (_carry_forward,       *)
(* settle_running_payload).                                                *)
THEOREM DatesAreTrue == Spec => []AnswersAreDatedTruly
<1>1. Inv => AnswersAreDatedTruly
  BY DEF Inv, PayloadsAreDated, Dated, AnswersAreDatedTruly
<1> QED
  BY <1>1, Invariance, PTL

(* Nothing but another answer or the delete of the timeline takes columns  *)
(* from a timeline that shows some.                                        *)
THEOREM AnswersAreKept == Spec => AnswersSurvive
<1>1. Inv /\ [Next]_vars =>
        [HasColumns(stored) /\ ~ HasColumns(stored') =>
            \/ deleted' \/ overtaken'
            \/ \E j \in Jobs : pc[j] = "score" /\ stored'.by = j]_vars
  <2> SUFFICES ASSUME Inv, [Next]_vars, HasColumns(stored), ~ HasColumns(stored'),
                      ~ deleted', ~ overtaken'
               PROVE  \E j \in Jobs : pc[j] = "score" /\ stored'.by = j
    OBVIOUS
  <2>1. Columns(stored') # Columns(stored)
    BY ColumnsOf
  <2> QED
    BY <2>1, OnlyAnswersChangeTheRow DEF StoreAnswer
<1> QED
  BY <1>1, Invariance, PTL DEF Spec, AnswersSurvive
=============================================================================
