-------------------------- MODULE ConverterJobProofs --------------------------
(***************************************************************************)
(* Proofs about ConverterJob, for every number of generations, reuses and  *)
(* saved scripts, attempts, faults, restarts and deletes.                  *)
(***************************************************************************)
EXTENDS ConverterJob, FiniteSetTheorems, TLAPS

USE ConverterAssumption

-----------------------------------------------------------------------------
(* The inductive invariant.                                                *)

Unaccepted == {"queued", "drafting", "exhausted", "retaining", "creating", "binding", "judging",
               "running", "rejected", "passed"}
Converting == {"judging", "running", "rejected", "passed", "keeping", "registering", "ingesting"}

(* A generation works on its own row, once that is published to it; a      *)
(* reuse only ever runs a working script.                                  *)
RowIsRight(j) ==
    /\ j \in Generations =>
         /\ job[j].script \in {None, j}
         /\ job[j].script = j => script[j].status # "none"
         /\ job[j].pc \in Unaccepted => script[j].status # "working"
         /\ job[j].pc = "binding" => script[j].status # "none"
    /\ j \in Reuses /\ job[j].script # None => script[job[j].script].status = "working"
    /\ job[j].pc \in Converting => job[j].script # None
    /\ job[j].pc = "queued" => job[j].script = None

(* A source is registered last, and settled by its own job.                *)
SourceIsLast(j) ==
    /\ source[j] # "none" => job[j].pc \in {"ingesting", "ended", "lost"}
    /\ job[j].pc = "ingesting" => source[j] = "ingesting"

(* The name comes before the row, a draft under judgement declares the     *)
(* version of the row, and a draft took an attempt.                        *)
DraftIsNamed(j) ==
    j \in Generations =>
        /\ job[j].pc \in {"retaining", "creating", "binding", "judging"} => job[j].name # "none"
        /\ job[j].pc = "drafting" /\ job[j].script # None => job[j].name # "none"
        /\ job[j].pc \in {"queued", "drafting", "exhausted"} => job[j].declared = 0
        /\ job[j].pc \in {"retaining", "creating", "binding"} /\ job[j].declared # 0 =>
             job[j].attempts # 0
        /\ job[j].pc = "judging" => job[j].declared = job[j].version

(* What was sent is on its way to a row, or on one.                        *)
SentIsTraced(j) ==
    j \in Generations /\ faults = 0 =>
        /\ job[j].script = None /\ job[j].sent =>
             job[j].pc \in {"drafting", "exhausted", "retaining", "creating", "binding", "lost"}
        /\ job[j].script = j /\ job[j].pc \notin {"judging", "lost"} => trail[j][j] # "none"

(* A full run is followed by the registration, or by another entry.        *)
TrailIsFollowed(j) ==
    \A s \in Scripts :
        trail[s][j] = "full_ok" =>
            /\ job[j].script = s
            /\ \/ job[j].pc \in {"passed", "keeping", "registering", "ingesting", "failing", "lost"}
               \/ job[j].pc \in {"releasing", "unlinking"} /\ fate[j] = "unrecorded"
               \/ job[j].pc = "ended" /\ fate[j] \in {"completed", "duplicate", "unrecorded"}

Good(j) ==
    RowIsRight(j) /\ SourceIsLast(j) /\ DraftIsNamed(j) /\ SentIsTraced(j) /\ TrailIsFollowed(j)

(* Who counts on the copy finds it, and who unlinks it is not referred to, *)
(* unless the two overlapped.                                              *)
CopyIsSafe ==
    ~ raced =>
        /\ Referenced => raw
        /\ \A j \in Jobs : CountsOnRaw(j) => raw
        /\ (\E j \in Jobs : At(j, "unlinking")) => ~ Referenced

Inv ==
    /\ TypeOK
    /\ \A j \in Jobs : Good(j)
    /\ OneSourcePerConversion
    /\ CopyIsSafe

-----------------------------------------------------------------------------
(* The next version of a name.                                             *)

HasMax(S) == \E x \in S : \A y \in S : x >= y

LEMMA FiniteHasMax ==
    ASSUME NEW S, IsFiniteSet(S), S \subseteq Nat, S # {}
    PROVE  Max(S) \in S
<1> DEFINE Bad == {T \in FiniteSubsetsOf(S) : T # {} /\ ~ HasMax(T)}
<1>1. Bad = {}
  <2> SUFFICES ASSUME Bad # {} PROVE FALSE
    OBVIOUS
  <2>1. IsWellFoundedOn(StrictSubsetOrdering(S), FiniteSubsetsOf(S))
    BY FS_StrictSubsetOrderingWellFounded
  <2>2. Bad \subseteq FiniteSubsetsOf(S)
    OBVIOUS
  <2>3. PICK T \in Bad : \A U \in Bad : <<U, T>> \notin StrictSubsetOrdering(S)
    BY <2>1, <2>2, WFMin
  <2>4. T \subseteq Nat /\ T # {} /\ ~ HasMax(T) /\ T \in FiniteSubsetsOf(S)
    BY <2>3 DEF FiniteSubsetsOf
  <2>5. PICK t \in T : TRUE
    BY <2>4
  <2> DEFINE U == T \ {t}
  <2>6. U \in FiniteSubsetsOf(S) /\ U \subseteq T /\ U # T
    <3>1. IsFiniteSet(U) /\ U \in SUBSET S
      BY <2>4, FS_Subset DEF FiniteSubsetsOf
    <3> QED
      BY <2>5, <3>1 DEF FiniteSubsetsOf
  <2>7. <<U, T>> \in StrictSubsetOrdering(S)
    BY <2>4, <2>6 DEF StrictSubsetOrdering, FiniteSubsetsOf
  <2>8. U = {} \/ HasMax(U)
    BY <2>3, <2>6, <2>7
  <2>9. CASE U = {}
    <3>1. \A y \in T : t >= y
      BY <2>4, <2>5, <2>9
    <3> QED
      BY <2>4, <2>5, <3>1 DEF HasMax
  <2>10. CASE HasMax(U)
    <3>1. PICK u \in U : \A y \in U : u >= y
      BY <2>10 DEF HasMax
    <3>2. u \in T /\ u \in Nat /\ t \in Nat /\ \A y \in T : y \in Nat
      BY <2>4, <2>5, <3>1
    <3>3. (\A y \in T : u >= y) \/ (\A y \in T : t >= y)
      <4>1. CASE u >= t
        BY <3>1, <3>2, <4>1
      <4>2. CASE t >= u
        BY <3>1, <3>2, <4>2
      <4> QED
        BY <3>2, <4>1, <4>2
    <3> QED
      BY <2>4, <2>5, <3>2, <3>3 DEF HasMax
  <2> QED
    BY <2>8, <2>9, <2>10
<1>2. S \in FiniteSubsetsOf(S)
  BY DEF FiniteSubsetsOf
<1>3. HasMax(S)
  BY <1>1, <1>2
<1> QED
  BY <1>3 DEF HasMax, Max

LEMMA NextVersionIsNat ==
    ASSUME TypeOK, NEW n
    PROVE  NextVersion(n) \in Nat \ {0}
<1> DEFINE Named == {x \in Scripts : script[x].name = n}
           Vs == {script[s].version : s \in Named}
<1>1. IsFiniteSet(Named)
  BY FS_Subset DEF Scripts
<1>2. IsFiniteSet(Vs)
  <2> DEFINE f == [x \in Named |-> script[x].version]
  <2>1. f \in Surjection(Named, Vs)
    BY DEF Surjection
  <2> QED
    BY <1>1, <2>1, FS_Surjection
<1>3. IsFiniteSet({0} \union Vs)
  BY <1>2, FS_Singleton, FS_Union
<1>4. {0} \union Vs \subseteq Nat /\ {0} \union Vs # {}
  BY DEF TypeOK, Rows
<1>5. Max({0} \union Vs) \in Nat
  BY <1>3, <1>4, FiniteHasMax
<1> HIDE DEF Vs
<1>6. 1 + Max({0} \union Vs) \in Nat \ {0}
  BY <1>5
<1> QED
  BY <1>6 DEF NextVersion, Vs

-----------------------------------------------------------------------------
(* One job takes a step.                                                   *)

LEMMA SetJob ==
    ASSUME TypeOK, NEW j \in Jobs, NEW r, Set(j, r)
    PROVE  /\ job'[j] = r
           /\ \A k \in Jobs \ {j} : job'[k] = job[k]
           /\ r \in JobRecords => job' \in [Jobs -> JobRecords]
BY DEF Set, TypeOK

LEMMA PastTyped ==
    ASSUME TypeOK, NEW j \in Jobs, NEW pc \in Stages
    PROVE  /\ Past(j, pc) \in JobRecords
           /\ Past(j, pc).pc = pc /\ Past(j, pc).script = job[j].script
           /\ Past(j, pc).sent = job[j].sent /\ Past(j, pc).created = job[j].created
           /\ Past(j, pc).declared = 0
           /\ Over(j, pc) \in JobRecords
           /\ Over(j, pc).pc = pc /\ Over(j, pc).script = job[j].script
           /\ Over(j, pc).sent = job[j].sent
<1>1. job[j] \in JobRecords
  BY DEF TypeOK
<1>2. Fresh(j) \in JobRecords
  BY DEF Fresh, JobRecords, Stages, Names
<1> QED
  BY <1>1, <1>2 DEF Past, Over, Fresh, JobRecords

LEMMA GotoTyped ==
    ASSUME TypeOK, NEW j \in Jobs, NEW pc \in Stages, Goto(j, pc)
    PROVE  /\ job' \in [Jobs -> JobRecords]
           /\ job'[j] = [job[j] EXCEPT !.pc = pc]
           /\ job'[j].pc = pc
           /\ job'[j].script = job[j].script /\ job'[j].attempts = job[j].attempts
           /\ job'[j].name = job[j].name /\ job'[j].version = job[j].version
           /\ job'[j].declared = job[j].declared /\ job'[j].sent = job[j].sent
           /\ job'[j].created = job[j].created
           /\ \A k \in Jobs \ {j} : job'[k] = job[k]
<1>1. job[j] \in JobRecords
  BY DEF TypeOK
<1>2. [job[j] EXCEPT !.pc = pc] \in JobRecords
  BY <1>1 DEF JobRecords
<1>3. job'[j] = [job[j] EXCEPT !.pc = pc]
  BY SetJob DEF Goto
<1>4. job' \in [Jobs -> JobRecords] /\ \A k \in Jobs \ {j} : job'[k] = job[k]
  BY <1>2, SetJob DEF Goto
<1> QED
  BY <1>1, <1>3, <1>4 DEF JobRecords

(* What a step of job j keeps: the other jobs, their sources, fates and    *)
(* attempts, and the status of every row but its own.                      *)
Keeps(j) ==
    /\ \A k \in Jobs \ {j} :
          /\ job'[k] = job[k] /\ source'[k] = source[k] /\ fate'[k] = fate[k]
          /\ \A s \in Scripts : trail'[s][k] = trail[s][k]
    /\ \A s \in Scripts :
          /\ s # j => script'[s].status = script[s].status
          /\ script[s].status = "working" => script'[s].status = "working"
    /\ faults' = 0 => faults = 0

LEMMA OthersStayGood ==
    ASSUME TypeOK, NEW j \in Jobs, Keeps(j), \A k \in Jobs : Good(k), Good(j)'
    PROVE  \A k \in Jobs : Good(k)'
<1> SUFFICES ASSUME NEW k \in Jobs \ {j} PROVE Good(k)'
  OBVIOUS
<1> USE DEF Keeps
<1>0. Good(k) /\ job'[k] = job[k] /\ source'[k] = source[k] /\ fate'[k] = fate[k]
  BY DEF Good
<1>1. RowIsRight(k)'
  <2>1. k \in Generations => k \in Scripts /\ script'[k].status = script[k].status
    BY DEF Scripts
  <2>2. job[k].script # None => job[k].script \in Scripts
    BY DEF TypeOK, JobRecords
  <2> QED
    BY <1>0, <2>1, <2>2 DEF Good, RowIsRight
<1>2. SourceIsLast(k)'
  BY <1>0 DEF Good, SourceIsLast
<1>3. DraftIsNamed(k)'
  BY <1>0 DEF Good, DraftIsNamed
<1>4. SentIsTraced(k)'
  <2>1. k \in Generations => k \in Scripts /\ trail'[k][k] = trail[k][k]
    BY DEF Scripts
  <2> QED
    BY <1>0, <2>1 DEF Good, SentIsTraced
<1>5. TrailIsFollowed(k)'
  BY <1>0 DEF Good, TrailIsFollowed
<1> QED
  BY <1>1, <1>2, <1>3, <1>4, <1>5 DEF Good

-----------------------------------------------------------------------------
(* How a step moves a job.                                                 *)

Moved(j, pc) ==
    /\ job' \in [Jobs -> JobRecords]
    /\ \A k \in Jobs \ {j} : job'[k] = job[k]
    /\ job'[j].pc = pc /\ job'[j].script = job[j].script /\ job'[j].sent = job[j].sent
    /\ job'[j].name = job[j].name /\ job'[j].attempts = job[j].attempts
    /\ job'[j].version = job[j].version /\ job'[j].declared = job[j].declared

MovedPast(j, pc) ==
    /\ job' \in [Jobs -> JobRecords]
    /\ \A k \in Jobs \ {j} : job'[k] = job[k]
    /\ job'[j].pc = pc /\ job'[j].script = job[j].script /\ job'[j].sent = job[j].sent
    /\ job'[j].declared = 0

LEMMA GotoMoves ==
    ASSUME TypeOK, NEW j \in Jobs, NEW pc \in Stages, Goto(j, pc)
    PROVE  Moved(j, pc)
BY GotoTyped DEF Moved

LEMMA EndMoves ==
    ASSUME TypeOK, NEW j \in Jobs, End(j)
    PROVE  MovedPast(j, "ended")
<1>1. "ended" \in Stages
  BY DEF Stages
<1>2. Set(j, Over(j, "ended")) /\ Over(j, "ended") \in JobRecords
  BY <1>1, PastTyped DEF End
<1>3. Over(j, "ended").declared = 0
  <2>1. job[j] \in JobRecords /\ Fresh(j) \in JobRecords
    BY DEF TypeOK, Fresh, JobRecords, Stages, Names
  <2> QED
    BY <2>1 DEF Past, Over, Fresh, JobRecords
<1> QED
  BY <1>1, <1>2, <1>3, PastTyped, SetJob DEF MovedPast

LEMMA LeaveMoves ==
    ASSUME TypeOK, NEW j \in Jobs, NEW pc \in Stages, Leave(j, pc)
    PROVE  MovedPast(j, pc)
<1>1. Set(j, Past(j, pc)) /\ Past(j, pc) \in JobRecords
  BY PastTyped DEF Leave
<1> QED
  BY <1>1, PastTyped, SetJob DEF MovedPast

Recorded(j, r, e) ==
    /\ job' \in [Jobs -> JobRecords]
    /\ \A k \in Jobs \ {j} : job'[k] = job[k]
    /\ job'[j].pc = r.pc /\ job'[j].script = r.script /\ job'[j].sent = r.sent
    /\ job'[j].name = r.name /\ job'[j].attempts = r.attempts
    /\ job'[j].version = r.version /\ job'[j].declared = r.declared
    /\ trail' \in [Scripts -> [Jobs -> {"none", "bad", "sample_ok", "full_ok"}]]
    /\ \A s \in Scripts : \A k \in Jobs \ {j} : trail'[s][k] = trail[s][k]
    /\ r.script = None => trail' = trail
    /\ r.script # None =>
         /\ trail'[r.script][j] = e
         /\ \A s \in Scripts \ {r.script} : trail'[s][j] = trail[s][j]

LEMMA RecordMoves ==
    ASSUME TypeOK, NEW j \in Jobs, NEW r \in JobRecords, r.script = job[j].script,
           NEW e \in {"bad", "sample_ok", "full_ok"}, Record(j, r, e)
    PROVE  Recorded(j, r, e)
<1> USE DEF Recorded
<1>1. CASE r.script = None
  <2> DEFINE b == [r EXCEPT !.buffered = TRUE]
  <2>1. Set(j, b) /\ UNCHANGED trail
    BY <1>1 DEF Record
  <2>2. b \in JobRecords /\ b.pc = r.pc /\ b.script = r.script /\ b.sent = r.sent
        /\ b.name = r.name /\ b.attempts = r.attempts
        /\ b.version = r.version /\ b.declared = r.declared
    BY DEF JobRecords
  <2> HIDE DEF b
  <2> QED
    BY <1>1, <2>1, <2>2, SetJob DEF TypeOK
<1>2. CASE r.script # None
  <2>1. Set(j, r) /\ trail' = [trail EXCEPT ![r.script][j] = e]
    BY <1>2 DEF Record
  <2>2. r.script \in Scripts
    BY <1>2 DEF JobRecords
  <2> QED
    BY <1>2, <2>1, <2>2, SetJob DEF TypeOK
<1> QED
  BY <1>1, <1>2

LEMMA AttemptedTyped ==
    ASSUME TypeOK, NEW g \in Generations, Drafting(g)
    PROVE  /\ Attempted(g) \in JobRecords
           /\ Attempted(g).pc = job[g].pc /\ Attempted(g).script = job[g].script
           /\ Attempted(g).sent = job[g].sent /\ Attempted(g).name = job[g].name
           /\ Attempted(g).version = job[g].version
           /\ Attempted(g).declared = job[g].declared
           /\ Attempted(g).attempts # 0
<1>1. job[g] \in JobRecords
  BY DEF TypeOK, Jobs
<1>2. MaxAttempts \in Nat /\ job[g].attempts \in 0 .. MaxAttempts /\ job[g].attempts < MaxAttempts
  BY <1>1 DEF JobRecords, Drafting
<1>3. job[g].attempts + 1 \in 0 .. MaxAttempts /\ job[g].attempts + 1 # 0
  BY <1>2
<1> QED
  BY <1>1, <1>3 DEF Attempted, JobRecords

-----------------------------------------------------------------------------
(* The steps of a job.                                                     *)

(* A source is there before the step, or its script had converted nothing.  *)
SourcesAreOld ==
    \A k \in Jobs : source'[k] # "none" =>
        \/ source[k] # "none" /\ job'[k].script = job[k].script
        \/ /\ ~ Converted(job'[k].script)
           /\ \A l \in Jobs \ {k} : job'[l].script = job[l].script /\ source'[l] = source[l]

StepIsGood ==
    /\ TypeOK'
    /\ \A k \in Jobs : Good(k)'
    /\ \A s \in Scripts : script[s].status = "working" => script'[s].status = "working"
    /\ SourcesAreOld
    /\ CopyIsSafe => CopyIsSafe'

(* A step that neither touches the copy nor refers to it.                  *)
LeavesCopy(j) ==
    /\ raw' = raw /\ raced' = raced
    /\ job'[j].pc \in {"creating", "registering", "unlinking"} => job'[j].pc = job[j].pc
    /\ j \in Generations /\ script'[j].status # "none" => script[j].status # "none"
    /\ source'[j] # "none" => source[j] # "none"

LEMMA CopyStays ==
    ASSUME TypeOK, NEW j \in Jobs, Keeps(j), LeavesCopy(j), CopyIsSafe
    PROVE  CopyIsSafe'
<1>1. Referenced' => Referenced
  BY DEF Referenced, Keeps, LeavesCopy, Scripts, Jobs
<1>2. \A k \in Jobs : CountsOnRaw(k)' => CountsOnRaw(k)
  BY DEF Keeps, LeavesCopy, CountsOnRaw
<1>3. \A k \in Jobs : At(k, "unlinking")' => At(k, "unlinking")
  BY DEF Keeps, LeavesCopy, At
<1>4. raw' = raw /\ raced' = raced
  BY DEF LeavesCopy
<1> QED
  BY <1>1, <1>2, <1>3, <1>4 DEF CopyIsSafe

LEMMA StartGenerationIsGood ==
    ASSUME TypeOK, \A k \in Jobs : Good(k), NEW g \in Generations, StartGeneration(g)
    PROVE  StepIsGood
<1> USE DEF Jobs, Scripts
<1>0. g \in Jobs /\ job[g] \in JobRecords /\ Good(g)
  BY DEF TypeOK
<1>1. Moved(g, "drafting")
  BY <1>0, GotoMoves DEF StartGeneration, Stages
<1>2. TypeOK'
  BY <1>0, <1>1 DEF StartGeneration, TypeOK, Moved, bounds
<1>3. Keeps(g)
  BY <1>0, <1>1 DEF StartGeneration, TypeOK, Keeps, Moved, bounds
<1>4. RowIsRight(g)'
  BY <1>0, <1>1, <1>2, <1>3
     DEF StartGeneration, Good, RowIsRight, At, TypeOK, JobRecords, Moved, bounds, Unaccepted,
         Converting
<1>5. SourceIsLast(g)'
  BY <1>0, <1>1, <1>2, <1>3
     DEF StartGeneration, Good, SourceIsLast, At, TypeOK, JobRecords, Moved, bounds
<1>6. DraftIsNamed(g)'
  BY <1>0, <1>1, <1>2, <1>3
     DEF StartGeneration, Good, DraftIsNamed, At, TypeOK, JobRecords, Moved, bounds, RowIsRight
<1>7. SentIsTraced(g)'
  BY <1>0, <1>1, <1>2, <1>3
     DEF StartGeneration, Good, SentIsTraced, At, TypeOK, JobRecords, Moved, bounds
<1>8. TrailIsFollowed(g)'
  BY <1>0, <1>1, <1>2, <1>3
     DEF StartGeneration, Good, TrailIsFollowed, At, TypeOK, JobRecords, Moved, bounds
<1>20. SourcesAreOld
  <2>1. source'[g] # "none" => source[g] # "none" /\ job'[g].script = job[g].script
    BY <1>0, <1>1, <1>2, <1>3 DEF StartGeneration, Good, SourceIsLast, At, TypeOK, Moved, bounds
  <2> QED
    BY <1>0, <1>3, <2>1 DEF SourcesAreOld, Keeps
<1>21. CopyIsSafe => CopyIsSafe'
  <2>1. LeavesCopy(g)
    BY <1>0, <1>1, <1>2, <1>3
       DEF StartGeneration, LeavesCopy, Good, RowIsRight, SourceIsLast, At, TypeOK, Unaccepted,
           Converting, Moved, bounds
  <2> QED
    BY <1>0, <1>3, <2>1, CopyStays
<1> QED
  BY <1>0, <1>2, <1>3, <1>4, <1>5, <1>6, <1>7, <1>8, <1>20, <1>21, OthersStayGood
     DEF StepIsGood, Good, Keeps

LEMMA AcceptIsGood ==
    ASSUME TypeOK, \A k \in Jobs : Good(k), NEW j \in Jobs, Accept(j)
    PROVE  StepIsGood
<1> USE DEF Jobs, Scripts
<1>0. j \in Jobs /\ job[j] \in JobRecords /\ Good(j)
  BY DEF TypeOK
<1>1. Moved(j, "keeping")
  BY <1>0, GotoMoves DEF Accept, Stages
<1>9. /\ job[j].script \in Scripts /\ script' \in [Scripts -> Rows]
      /\ script'[job[j].script].status = "working"
      /\ \A s \in Scripts \ {job[j].script} : script'[s] = script[s]
      /\ j \in Generations => job[j].script = j
      /\ j \in Reuses => script[job[j].script].status = "working"
  <2>1. job[j].script \in Scripts /\ (j \in Generations => job[j].script = j)
        /\ (j \in Reuses => script[job[j].script].status = "working")
    BY <1>0 DEF Accept, At, Good, RowIsRight, Converting, JobRecords
  <2>2. script[job[j].script] \in Rows
    BY <2>1 DEF TypeOK
  <2> QED
    BY <2>1, <2>2 DEF Accept, TypeOK, Rows
<1>2. TypeOK'
  BY <1>0, <1>1, <1>9 DEF Accept, TypeOK, Moved, bounds
<1>3. Keeps(j)
  BY <1>0, <1>1, <1>9 DEF Accept, TypeOK, Keeps, Moved, bounds
<1>4. RowIsRight(j)'
  BY <1>0, <1>1, <1>3, <1>9
     DEF Accept, Good, RowIsRight, At, TypeOK, JobRecords, Moved, bounds, Unaccepted, Converting
<1>5. SourceIsLast(j)'
  BY <1>0, <1>1, <1>3, <1>9 DEF Accept, Good, SourceIsLast, At, TypeOK, JobRecords, Moved, bounds
<1>6. DraftIsNamed(j)'
  BY <1>0, <1>1, <1>3, <1>9
     DEF Accept, Good, DraftIsNamed, At, TypeOK, JobRecords, Moved, bounds, RowIsRight
<1>7. SentIsTraced(j)'
  BY <1>0, <1>1, <1>3, <1>9 DEF Accept, Good, SentIsTraced, At, TypeOK, JobRecords, Moved, bounds
<1>8. TrailIsFollowed(j)'
  BY <1>0, <1>1, <1>3, <1>9
     DEF Accept, Good, TrailIsFollowed, At, TypeOK, JobRecords, Moved, bounds
<1>20. SourcesAreOld
  <2>1. source'[j] # "none" => source[j] # "none" /\ job'[j].script = job[j].script
    BY <1>0, <1>1, <1>3, <1>9 DEF Accept, Good, SourceIsLast, At, TypeOK, Moved, bounds
  <2> QED
    BY <1>0, <1>3, <2>1 DEF SourcesAreOld, Keeps
<1>21. CopyIsSafe => CopyIsSafe'
  <2>1. LeavesCopy(j)
    BY <1>0, <1>1, <1>3, <1>9
       DEF Accept, LeavesCopy, Good, RowIsRight, SourceIsLast, At, TypeOK, Unaccepted,
           Converting, Moved, bounds
  <2> QED
    BY <1>0, <1>3, <2>1, CopyStays
<1> QED
  BY <1>0, <1>2, <1>3, <1>4, <1>5, <1>6, <1>7, <1>8, <1>20, <1>21, OthersStayGood
     DEF StepIsGood, Good, Keeps

LEMMA IngestSucceedsIsGood ==
    ASSUME TypeOK, \A k \in Jobs : Good(k), NEW j \in Jobs, IngestSucceeds(j)
    PROVE  StepIsGood
<1> USE DEF Jobs, Scripts
<1>0. j \in Jobs /\ job[j] \in JobRecords /\ Good(j)
  BY DEF TypeOK
<1>1. MovedPast(j, "ended")
  BY <1>0, EndMoves DEF IngestSucceeds
<1>2. TypeOK'
  BY <1>0, <1>1 DEF IngestSucceeds, TypeOK, MovedPast, bounds
<1>3. Keeps(j)
  BY <1>0, <1>1 DEF IngestSucceeds, TypeOK, Keeps, MovedPast, bounds
<1>4. RowIsRight(j)'
  BY <1>0, <1>1, <1>2, <1>3
     DEF IngestSucceeds, Good, RowIsRight, At, TypeOK, JobRecords, MovedPast, bounds, Unaccepted,
         Converting
<1>5. SourceIsLast(j)'
  BY <1>0, <1>1, <1>2, <1>3
     DEF IngestSucceeds, Good, SourceIsLast, At, TypeOK, JobRecords, MovedPast, bounds
<1>6. DraftIsNamed(j)'
  BY <1>0, <1>1, <1>2, <1>3
     DEF IngestSucceeds, Good, DraftIsNamed, At, TypeOK, JobRecords, MovedPast, bounds,
         RowIsRight
<1>7. SentIsTraced(j)'
  BY <1>0, <1>1, <1>2, <1>3
     DEF IngestSucceeds, Good, SentIsTraced, At, TypeOK, JobRecords, MovedPast, bounds
<1>8. TrailIsFollowed(j)'
  BY <1>0, <1>1, <1>2, <1>3
     DEF IngestSucceeds, Good, TrailIsFollowed, At, TypeOK, JobRecords, MovedPast, bounds
<1>20. SourcesAreOld
  <2>1. source'[j] # "none" => source[j] # "none" /\ job'[j].script = job[j].script
    BY <1>0, <1>1, <1>2, <1>3
       DEF IngestSucceeds, Good, SourceIsLast, At, TypeOK, MovedPast, bounds
  <2> QED
    BY <1>0, <1>3, <2>1 DEF SourcesAreOld, Keeps
<1>21. CopyIsSafe => CopyIsSafe'
  <2>1. LeavesCopy(j)
    BY <1>0, <1>1, <1>2, <1>3
       DEF IngestSucceeds, LeavesCopy, Good, RowIsRight, SourceIsLast, At, TypeOK, Unaccepted,
           Converting, MovedPast, bounds
  <2> QED
    BY <1>0, <1>3, <2>1, CopyStays
<1> QED
  BY <1>0, <1>2, <1>3, <1>4, <1>5, <1>6, <1>7, <1>8, <1>20, <1>21, OthersStayGood
     DEF StepIsGood, Good, Keeps

LEMMA ModelUnavailableIsGood ==
    ASSUME TypeOK, \A k \in Jobs : Good(k), NEW g \in Generations, ModelUnavailable(g)
    PROVE  StepIsGood
<1> USE DEF Jobs, Scripts
<1>0. g \in Jobs /\ job[g] \in JobRecords /\ Good(g)
  BY DEF TypeOK
<1> DEFINE r == [Attempted(g) EXCEPT !.pc = "exhausted"]
<1>9. /\ r \in JobRecords /\ r.script = job[g].script
      /\ r.pc = "exhausted" /\ r.sent = job[g].sent /\ r.name = job[g].name
      /\ r.declared = job[g].declared
  BY <1>0, AttemptedTyped DEF ModelUnavailable, Drafting, At, JobRecords, Stages
<1>10. Record(g, r, "bad")
  BY DEF ModelUnavailable, Drafting, At
<1> HIDE DEF r
<1>1. Recorded(g, r, "bad")
  BY <1>0, <1>9, <1>10, RecordMoves
<1>2. TypeOK'
  BY <1>0, <1>1 DEF ModelUnavailable, TypeOK, Recorded, bounds
<1>3. Keeps(g)
  BY <1>0, <1>1 DEF ModelUnavailable, TypeOK, Keeps, Recorded, bounds
<1>4. RowIsRight(g)'
  BY <1>0, <1>1, <1>3, <1>9
     DEF ModelUnavailable, Good, RowIsRight, At, TypeOK, JobRecords, Recorded, bounds, Drafting,
         Unaccepted, Converting
<1>5. SourceIsLast(g)'
  BY <1>0, <1>1, <1>3, <1>9
     DEF ModelUnavailable, Good, SourceIsLast, At, TypeOK, JobRecords, Recorded, bounds, Drafting
<1>6. DraftIsNamed(g)'
  BY <1>0, <1>1, <1>3, <1>9
     DEF ModelUnavailable, Good, DraftIsNamed, At, TypeOK, JobRecords, Recorded, bounds,
         Drafting, RowIsRight
<1>7. SentIsTraced(g)'
  BY <1>0, <1>1, <1>3, <1>9
     DEF ModelUnavailable, Good, SentIsTraced, At, TypeOK, JobRecords, Recorded, bounds, Drafting
<1>8. TrailIsFollowed(g)'
  BY <1>0, <1>1, <1>3, <1>9
     DEF ModelUnavailable, Good, TrailIsFollowed, At, TypeOK, JobRecords, Recorded, bounds,
         Drafting
<1>20. SourcesAreOld
  <2>1. source'[g] # "none" => source[g] # "none" /\ job'[g].script = job[g].script
    BY <1>0, <1>1, <1>3, <1>9
       DEF ModelUnavailable, Good, SourceIsLast, At, TypeOK, Recorded, bounds, Drafting
  <2> QED
    BY <1>0, <1>3, <2>1 DEF SourcesAreOld, Keeps
<1>21. CopyIsSafe => CopyIsSafe'
  <2>1. LeavesCopy(g)
    BY <1>0, <1>1, <1>3, <1>9
       DEF ModelUnavailable, LeavesCopy, Good, RowIsRight, SourceIsLast, At, TypeOK, Unaccepted,
           Converting, Recorded, bounds, Drafting
  <2> QED
    BY <1>0, <1>3, <2>1, CopyStays
<1> QED
  BY <1>0, <1>2, <1>3, <1>4, <1>5, <1>6, <1>7, <1>8, <1>20, <1>21, OthersStayGood
     DEF StepIsGood, Good, Keeps

LEMMA ModelErrorIsGood ==
    ASSUME TypeOK, \A k \in Jobs : Good(k), NEW g \in Generations, ModelError(g)
    PROVE  StepIsGood
<1> USE DEF Jobs, Scripts
<1>0. g \in Jobs /\ job[g] \in JobRecords /\ Good(g)
  BY DEF TypeOK
<1> DEFINE r == [Attempted(g) EXCEPT !.sent = TRUE]
<1>9. /\ r \in JobRecords /\ r.script = job[g].script
      /\ r.pc = "drafting" /\ r.name = job[g].name /\ r.declared = job[g].declared
  <2> DEFINE a == Attempted(g)
  <2>1. Drafting(g) /\ job[g].pc = "drafting"
    BY DEF ModelError, Drafting, At
  <2>2. /\ a \in JobRecords /\ a.pc = "drafting" /\ a.script = job[g].script
        /\ a.sent = job[g].sent /\ a.name = job[g].name
        /\ a.version = job[g].version /\ a.declared = job[g].declared /\ a.attempts # 0
    BY <2>1, AttemptedTyped
  <2>3. r = [a EXCEPT !.sent = TRUE]
    OBVIOUS
  <2> HIDE DEF a, r
  <2> QED
    BY <1>0, <2>2, <2>3 DEF JobRecords, Stages, Names
<1>10. Record(g, r, "bad")
  BY DEF ModelError, Drafting, At
<1> HIDE DEF r
<1>1. Recorded(g, r, "bad")
  BY <1>0, <1>9, <1>10, RecordMoves
<1>2. TypeOK'
  BY <1>0, <1>1 DEF ModelError, TypeOK, Recorded, bounds
<1>3. Keeps(g)
  BY <1>0, <1>1 DEF ModelError, TypeOK, Keeps, Recorded, bounds
<1>4. RowIsRight(g)'
  BY <1>0, <1>1, <1>3, <1>9
     DEF ModelError, Good, RowIsRight, At, TypeOK, JobRecords, Recorded, bounds, Drafting,
         Unaccepted, Converting
<1>5. SourceIsLast(g)'
  BY <1>0, <1>1, <1>3, <1>9
     DEF ModelError, Good, SourceIsLast, At, TypeOK, JobRecords, Recorded, bounds, Drafting
<1>6. DraftIsNamed(g)'
  BY <1>0, <1>1, <1>3, <1>9
     DEF ModelError, Good, DraftIsNamed, At, TypeOK, JobRecords, Recorded, bounds, Drafting,
         RowIsRight
<1>7. SentIsTraced(g)'
  BY <1>0, <1>1, <1>3, <1>9
     DEF ModelError, Good, SentIsTraced, At, TypeOK, JobRecords, Recorded, bounds, Drafting
<1>8. TrailIsFollowed(g)'
  BY <1>0, <1>1, <1>3, <1>9
     DEF ModelError, Good, TrailIsFollowed, At, TypeOK, JobRecords, Recorded, bounds, Drafting
<1>20. SourcesAreOld
  <2>1. source'[g] # "none" => source[g] # "none" /\ job'[g].script = job[g].script
    BY <1>0, <1>1, <1>3, <1>9
       DEF ModelError, Good, SourceIsLast, At, TypeOK, Recorded, bounds, Drafting
  <2> QED
    BY <1>0, <1>3, <2>1 DEF SourcesAreOld, Keeps
<1>21. CopyIsSafe => CopyIsSafe'
  <2>1. LeavesCopy(g)
    BY <1>0, <1>1, <1>3, <1>9
       DEF ModelError, LeavesCopy, Good, RowIsRight, SourceIsLast, At, TypeOK, Unaccepted,
           Converting, Recorded, bounds, Drafting
  <2> QED
    BY <1>0, <1>3, <2>1, CopyStays
<1> QED
  BY <1>0, <1>2, <1>3, <1>4, <1>5, <1>6, <1>7, <1>8, <1>20, <1>21, OthersStayGood
     DEF StepIsGood, Good, Keeps

LEMMA DraftArrivesIsGood ==
    ASSUME TypeOK, \A k \in Jobs : Good(k), NEW g \in Generations, DraftArrives(g)
    PROVE  StepIsGood
<1> USE DEF Jobs, Scripts
<1>0. g \in Jobs /\ job[g] \in JobRecords /\ Good(g)
  BY DEF TypeOK
<1> DEFINE r == [Attempted(g) EXCEPT !.sent = TRUE, !.declared = job[g].version,
                    !.pc = IF job[g].script = None THEN "retaining" ELSE "judging",
                    !.version = IF job[g].name = "none" THEN NextVersion("proposed") ELSE @,
                    !.name = IF @ = "none" THEN "proposed" ELSE @]
<1>9. /\ r \in JobRecords /\ r.script = job[g].script /\ r.name # "none" /\ r.attempts # 0
      /\ r.declared = job[g].version /\ (job[g].name # "none" => r.version = job[g].version)
      /\ r.pc = IF job[g].script = None THEN "retaining" ELSE "judging"
  <2> DEFINE a == Attempted(g)
  <2>1. Drafting(g) /\ job[g].pc = "drafting"
    BY DEF DraftArrives, Drafting, At
  <2>2. /\ a \in JobRecords /\ a.pc = "drafting" /\ a.script = job[g].script
        /\ a.sent = job[g].sent /\ a.name = job[g].name
        /\ a.version = job[g].version /\ a.declared = job[g].declared /\ a.attempts # 0
    BY <2>1, AttemptedTyped
  <2>3. r = [a EXCEPT !.sent = TRUE, !.declared = job[g].version,
                   !.pc = IF job[g].script = None THEN "retaining" ELSE "judging",
                   !.version = IF job[g].name = "none" THEN NextVersion("proposed") ELSE @,
                   !.name = IF @ = "none" THEN "proposed" ELSE @]
    OBVIOUS
  <2> HIDE DEF a, r
  <2> QED
    BY <1>0, <2>2, <2>3, NextVersionIsNat DEF JobRecords, Stages, Names
<1>10. Set(g, r)
  BY DEF DraftArrives
<1> HIDE DEF r
<1>1. /\ job' \in [Jobs -> JobRecords] /\ job'[g] = r
      /\ \A k \in Jobs \ {g} : job'[k] = job[k]
  BY <1>0, <1>9, <1>10, SetJob
<1>2. TypeOK'
  BY <1>0, <1>1 DEF DraftArrives, TypeOK, bounds
<1>3. Keeps(g)
  BY <1>0, <1>1 DEF DraftArrives, TypeOK, Keeps, bounds
<1>4. RowIsRight(g)'
  BY <1>0, <1>1, <1>3, <1>9
     DEF DraftArrives, Good, RowIsRight, At, TypeOK, JobRecords, bounds, Drafting, Unaccepted,
         Converting
<1>5. SourceIsLast(g)'
  BY <1>0, <1>1, <1>3, <1>9
     DEF DraftArrives, Good, SourceIsLast, At, TypeOK, JobRecords, bounds, Drafting
<1>6. DraftIsNamed(g)'
  BY <1>0, <1>1, <1>3, <1>9
     DEF DraftArrives, Good, DraftIsNamed, At, TypeOK, JobRecords, bounds, Drafting, RowIsRight
<1>7. SentIsTraced(g)'
  BY <1>0, <1>1, <1>3, <1>9
     DEF DraftArrives, Good, SentIsTraced, At, TypeOK, JobRecords, bounds, Drafting
<1>8. TrailIsFollowed(g)'
  BY <1>0, <1>1, <1>3, <1>9
     DEF DraftArrives, Good, TrailIsFollowed, At, TypeOK, JobRecords, bounds, Drafting
<1>20. SourcesAreOld
  <2>1. source'[g] # "none" => source[g] # "none" /\ job'[g].script = job[g].script
    BY <1>0, <1>1, <1>3, <1>9 DEF DraftArrives, Good, SourceIsLast, At, TypeOK, bounds, Drafting
  <2> QED
    BY <1>0, <1>3, <2>1 DEF SourcesAreOld, Keeps
<1>21. CopyIsSafe => CopyIsSafe'
  <2>1. LeavesCopy(g)
    BY <1>0, <1>1, <1>3, <1>9
       DEF DraftArrives, LeavesCopy, Good, RowIsRight, SourceIsLast, At, TypeOK, Unaccepted,
           Converting, bounds, Drafting
  <2> QED
    BY <1>0, <1>3, <2>1, CopyStays
<1> QED
  BY <1>0, <1>2, <1>3, <1>4, <1>5, <1>6, <1>7, <1>8, <1>20, <1>21, OthersStayGood
     DEF StepIsGood, Good, Keeps

LEMMA RetainForRowIsGood ==
    ASSUME TypeOK, \A k \in Jobs : Good(k), NEW g \in Generations, RetainForRow(g)
    PROVE  StepIsGood
<1> USE DEF Jobs, Scripts
<1>0. g \in Jobs /\ job[g] \in JobRecords /\ Good(g)
  BY DEF TypeOK
<1> DEFINE r == [job[g] EXCEPT !.pc = "creating", !.created = @ \/ ~raw]
<1>9. /\ r \in JobRecords /\ r.pc = "creating" /\ r.script = job[g].script
      /\ r.sent = job[g].sent /\ r.name = job[g].name /\ r.attempts = job[g].attempts
      /\ r.version = job[g].version /\ r.declared = job[g].declared
  BY <1>0 DEF JobRecords, Stages
<1>10. Set(g, r)
  BY DEF RetainForRow, Ensure
<1> HIDE DEF r
<1>1. Moved(g, "creating")
  BY <1>0, <1>9, <1>10, SetJob DEF Moved
<1>2. TypeOK'
  BY <1>0, <1>1 DEF RetainForRow, TypeOK, Moved, bounds, Ensure
<1>3. Keeps(g)
  BY <1>0, <1>1 DEF RetainForRow, TypeOK, Keeps, Moved, bounds, Ensure
<1>4. RowIsRight(g)'
  BY <1>0, <1>1, <1>2, <1>3
     DEF RetainForRow, Good, RowIsRight, At, TypeOK, JobRecords, Moved, bounds, Ensure,
         Unaccepted, Converting
<1>5. SourceIsLast(g)'
  BY <1>0, <1>1, <1>2, <1>3
     DEF RetainForRow, Good, SourceIsLast, At, TypeOK, JobRecords, Moved, bounds, Ensure
<1>6. DraftIsNamed(g)'
  BY <1>0, <1>1, <1>2, <1>3
     DEF RetainForRow, Good, DraftIsNamed, At, TypeOK, JobRecords, Moved, bounds, Ensure,
         RowIsRight
<1>7. SentIsTraced(g)'
  BY <1>0, <1>1, <1>2, <1>3
     DEF RetainForRow, Good, SentIsTraced, At, TypeOK, JobRecords, Moved, bounds, Ensure
<1>8. TrailIsFollowed(g)'
  BY <1>0, <1>1, <1>2, <1>3
     DEF RetainForRow, Good, TrailIsFollowed, At, TypeOK, JobRecords, Moved, bounds, Ensure
<1>20. SourcesAreOld
  <2>1. source'[g] # "none" => source[g] # "none" /\ job'[g].script = job[g].script
    BY <1>0, <1>1, <1>2, <1>3
       DEF RetainForRow, Good, SourceIsLast, At, TypeOK, Moved, bounds, Ensure
  <2> QED
    BY <1>0, <1>3, <2>1 DEF SourcesAreOld, Keeps
<1>21. CopyIsSafe => CopyIsSafe'
  <2>1. raw' = TRUE /\ raced' = raced /\ script' = script /\ source' = source
    BY DEF RetainForRow, Ensure
  <2>2. Referenced' <=> Referenced
    BY <2>1 DEF Referenced
  <2>3. \A k \in Jobs : At(k, "unlinking")' => At(k, "unlinking")
    BY <1>1 DEF Moved, At
  <2> QED
    BY <2>1, <2>2, <2>3 DEF CopyIsSafe
<1> QED
  BY <1>0, <1>2, <1>3, <1>4, <1>5, <1>6, <1>7, <1>8, <1>20, <1>21, OthersStayGood
     DEF StepIsGood, Good, Keeps

LEMMA KeepRawIsGood ==
    ASSUME TypeOK, \A k \in Jobs : Good(k), NEW j \in Jobs, KeepRaw(j)
    PROVE  StepIsGood
<1> USE DEF Jobs, Scripts
<1>0. j \in Jobs /\ job[j] \in JobRecords /\ Good(j)
  BY DEF TypeOK
<1> DEFINE r == [job[j] EXCEPT !.pc = "registering", !.created = @ \/ ~raw]
<1>9. /\ r \in JobRecords /\ r.pc = "registering" /\ r.script = job[j].script
      /\ r.sent = job[j].sent /\ r.name = job[j].name /\ r.attempts = job[j].attempts
      /\ r.version = job[j].version /\ r.declared = job[j].declared
  BY <1>0 DEF JobRecords, Stages
<1>10. Set(j, r)
  BY DEF KeepRaw, Ensure
<1> HIDE DEF r
<1>1. Moved(j, "registering")
  BY <1>0, <1>9, <1>10, SetJob DEF Moved
<1>2. TypeOK'
  BY <1>0, <1>1 DEF KeepRaw, TypeOK, Moved, bounds, Ensure
<1>3. Keeps(j)
  BY <1>0, <1>1 DEF KeepRaw, TypeOK, Keeps, Moved, bounds, Ensure
<1>4. RowIsRight(j)'
  BY <1>0, <1>1, <1>2, <1>3
     DEF KeepRaw, Good, RowIsRight, At, TypeOK, JobRecords, Moved, bounds, Ensure, Unaccepted,
         Converting
<1>5. SourceIsLast(j)'
  BY <1>0, <1>1, <1>2, <1>3
     DEF KeepRaw, Good, SourceIsLast, At, TypeOK, JobRecords, Moved, bounds, Ensure
<1>6. DraftIsNamed(j)'
  BY <1>0, <1>1, <1>2, <1>3
     DEF KeepRaw, Good, DraftIsNamed, At, TypeOK, JobRecords, Moved, bounds, Ensure, RowIsRight
<1>7. SentIsTraced(j)'
  BY <1>0, <1>1, <1>2, <1>3
     DEF KeepRaw, Good, SentIsTraced, At, TypeOK, JobRecords, Moved, bounds, Ensure
<1>8. TrailIsFollowed(j)'
  BY <1>0, <1>1, <1>2, <1>3
     DEF KeepRaw, Good, TrailIsFollowed, At, TypeOK, JobRecords, Moved, bounds, Ensure
<1>20. SourcesAreOld
  <2>1. source'[j] # "none" => source[j] # "none" /\ job'[j].script = job[j].script
    BY <1>0, <1>1, <1>2, <1>3 DEF KeepRaw, Good, SourceIsLast, At, TypeOK, Moved, bounds, Ensure
  <2> QED
    BY <1>0, <1>3, <2>1 DEF SourcesAreOld, Keeps
<1>21. CopyIsSafe => CopyIsSafe'
  <2>1. raw' = TRUE /\ raced' = raced /\ script' = script /\ source' = source
    BY DEF KeepRaw, Ensure
  <2>2. Referenced' <=> Referenced
    BY <2>1 DEF Referenced
  <2>3. \A k \in Jobs : At(k, "unlinking")' => At(k, "unlinking")
    BY <1>1 DEF Moved, At
  <2> QED
    BY <2>1, <2>2, <2>3 DEF CopyIsSafe
<1> QED
  BY <1>0, <1>2, <1>3, <1>4, <1>5, <1>6, <1>7, <1>8, <1>20, <1>21, OthersStayGood
     DEF StepIsGood, Good, Keeps

LEMMA LoseRecordIsGood ==
    ASSUME TypeOK, \A k \in Jobs : Good(k), NEW j \in Jobs, LoseRecord(j)
    PROVE  StepIsGood
<1> USE DEF Jobs, Scripts
<1>0. j \in Jobs /\ job[j] \in JobRecords /\ Good(j)
  BY DEF TypeOK
<1>1. Moved(j, "releasing")
  BY <1>0, GotoMoves DEF LoseRecord, Stages
<1>2. TypeOK'
  BY <1>0, <1>1 DEF LoseRecord, TypeOK, Moved, bounds
<1>3. Keeps(j)
  BY <1>0, <1>1 DEF LoseRecord, TypeOK, Keeps, Moved, bounds
<1>4. RowIsRight(j)'
  BY <1>0, <1>1, <1>2, <1>3
     DEF LoseRecord, Good, RowIsRight, At, TypeOK, JobRecords, Moved, bounds, Unaccepted,
         Converting
<1>5. SourceIsLast(j)'
  BY <1>0, <1>1, <1>2, <1>3
     DEF LoseRecord, Good, SourceIsLast, At, TypeOK, JobRecords, Moved, bounds
<1>6. DraftIsNamed(j)'
  BY <1>0, <1>1, <1>2, <1>3
     DEF LoseRecord, Good, DraftIsNamed, At, TypeOK, JobRecords, Moved, bounds, RowIsRight
<1>7. SentIsTraced(j)'
  BY <1>0, <1>1, <1>2, <1>3
     DEF LoseRecord, Good, SentIsTraced, At, TypeOK, JobRecords, Moved, bounds
<1>8. TrailIsFollowed(j)'
  BY <1>0, <1>1, <1>2, <1>3
     DEF LoseRecord, Good, TrailIsFollowed, At, TypeOK, JobRecords, Moved, bounds
<1>20. SourcesAreOld
  <2>1. source'[j] # "none" => source[j] # "none" /\ job'[j].script = job[j].script
    BY <1>0, <1>1, <1>2, <1>3 DEF LoseRecord, Good, SourceIsLast, At, TypeOK, Moved, bounds
  <2> QED
    BY <1>0, <1>3, <2>1 DEF SourcesAreOld, Keeps
<1>21. CopyIsSafe => CopyIsSafe'
  <2>1. LeavesCopy(j)
    BY <1>0, <1>1, <1>2, <1>3
       DEF LoseRecord, LeavesCopy, Good, RowIsRight, SourceIsLast, At, TypeOK, Unaccepted,
           Converting, Moved, bounds
  <2> QED
    BY <1>0, <1>3, <2>1, CopyStays
<1> QED
  BY <1>0, <1>2, <1>3, <1>4, <1>5, <1>6, <1>7, <1>8, <1>20, <1>21, OthersStayGood
     DEF StepIsGood, Good, Keeps

LEMMA IngestFailsIsGood ==
    ASSUME TypeOK, \A k \in Jobs : Good(k), NEW j \in Jobs, IngestFails(j)
    PROVE  StepIsGood
<1> USE DEF Jobs, Scripts
<1>0. j \in Jobs /\ job[j] \in JobRecords /\ Good(j)
  BY DEF TypeOK
<1>1. Moved(j, "failing")
  BY <1>0, GotoMoves DEF IngestFails, Noticed, Stages
<1>2. TypeOK'
  BY <1>0, <1>1 DEF IngestFails, TypeOK, Moved, bounds
<1>3. Keeps(j)
  BY <1>0, <1>1 DEF IngestFails, TypeOK, Keeps, Moved, bounds
<1>4. RowIsRight(j)'
  BY <1>0, <1>1, <1>2, <1>3
     DEF IngestFails, Good, RowIsRight, At, TypeOK, JobRecords, Moved, bounds, Unaccepted,
         Converting
<1>5. SourceIsLast(j)'
  BY <1>0, <1>1, <1>2, <1>3
     DEF IngestFails, Good, SourceIsLast, At, TypeOK, JobRecords, Moved, bounds
<1>6. DraftIsNamed(j)'
  BY <1>0, <1>1, <1>2, <1>3
     DEF IngestFails, Good, DraftIsNamed, At, TypeOK, JobRecords, Moved, bounds, RowIsRight
<1>7. SentIsTraced(j)'
  BY <1>0, <1>1, <1>2, <1>3
     DEF IngestFails, Good, SentIsTraced, At, TypeOK, JobRecords, Moved, bounds
<1>8. TrailIsFollowed(j)'
  BY <1>0, <1>1, <1>2, <1>3
     DEF IngestFails, Good, TrailIsFollowed, At, TypeOK, JobRecords, Moved, bounds
<1>20. SourcesAreOld
  <2>1. source'[j] # "none" => source[j] # "none" /\ job'[j].script = job[j].script
    BY <1>0, <1>1, <1>2, <1>3 DEF IngestFails, Good, SourceIsLast, At, TypeOK, Moved, bounds
  <2> QED
    BY <1>0, <1>3, <2>1 DEF SourcesAreOld, Keeps
<1>21. CopyIsSafe => CopyIsSafe'
  <2>1. LeavesCopy(j)
    BY <1>0, <1>1, <1>2, <1>3
       DEF IngestFails, LeavesCopy, Good, RowIsRight, SourceIsLast, At, TypeOK, Unaccepted,
           Converting, Moved, bounds
  <2> QED
    BY <1>0, <1>3, <2>1, CopyStays
<1> QED
  BY <1>0, <1>2, <1>3, <1>4, <1>5, <1>6, <1>7, <1>8, <1>20, <1>21, OthersStayGood
     DEF StepIsGood, Good, Keeps

LEMMA UnlinkIsGood ==
    ASSUME TypeOK, \A k \in Jobs : Good(k), NEW j \in Jobs, Unlink(j)
    PROVE  StepIsGood
<1> USE DEF Jobs, Scripts
<1>0. j \in Jobs /\ job[j] \in JobRecords /\ Good(j)
  BY DEF TypeOK
<1>1. MovedPast(j, "ended")
  BY <1>0, EndMoves DEF Unlink
<1>2. TypeOK'
  BY <1>0, <1>1 DEF Unlink, TypeOK, MovedPast, bounds
<1>3. Keeps(j)
  BY <1>0, <1>1 DEF Unlink, TypeOK, Keeps, MovedPast, bounds
<1>4. RowIsRight(j)'
  BY <1>0, <1>1, <1>2, <1>3
     DEF Unlink, Good, RowIsRight, At, TypeOK, JobRecords, MovedPast, bounds, Unaccepted,
         Converting
<1>5. SourceIsLast(j)'
  BY <1>0, <1>1, <1>2, <1>3
     DEF Unlink, Good, SourceIsLast, At, TypeOK, JobRecords, MovedPast, bounds
<1>6. DraftIsNamed(j)'
  BY <1>0, <1>1, <1>2, <1>3
     DEF Unlink, Good, DraftIsNamed, At, TypeOK, JobRecords, MovedPast, bounds, RowIsRight
<1>7. SentIsTraced(j)'
  BY <1>0, <1>1, <1>2, <1>3
     DEF Unlink, Good, SentIsTraced, At, TypeOK, JobRecords, MovedPast, bounds
<1>8. TrailIsFollowed(j)'
  BY <1>0, <1>1, <1>2, <1>3
     DEF Unlink, Good, TrailIsFollowed, At, TypeOK, JobRecords, MovedPast, bounds
<1>20. SourcesAreOld
  <2>1. source'[j] # "none" => source[j] # "none" /\ job'[j].script = job[j].script
    BY <1>0, <1>1, <1>2, <1>3 DEF Unlink, Good, SourceIsLast, At, TypeOK, MovedPast, bounds
  <2> QED
    BY <1>0, <1>3, <2>1 DEF SourcesAreOld, Keeps
<1>21. CopyIsSafe => CopyIsSafe'
  <2>1. /\ (raced' <=> raced \/ \E k \in Jobs : CountsOnRaw(k)) /\ At(j, "unlinking")
        /\ script' = script /\ source' = source
    BY DEF Unlink, TypeOK
  <2>2. Referenced' <=> Referenced
    BY <2>1 DEF Referenced
  <2>3. \A k \in Jobs :
          (At(k, "unlinking")' => At(k, "unlinking")) /\ (CountsOnRaw(k)' => CountsOnRaw(k))
    BY <1>1 DEF MovedPast, At, CountsOnRaw
  <2> QED
    BY <1>0, <2>1, <2>2, <2>3 DEF CopyIsSafe
<1> QED
  BY <1>0, <1>2, <1>3, <1>4, <1>5, <1>6, <1>7, <1>8, <1>20, <1>21, OthersStayGood
     DEF StepIsGood, Good, Keeps

LEMMA RemoveOrphanIsGood ==
    ASSUME TypeOK, \A k \in Jobs : Good(k), NEW j \in Jobs, RemoveOrphan(j)
    PROVE  StepIsGood
<1> USE DEF Jobs, Scripts
<1>0. j \in Jobs /\ job[j] \in JobRecords /\ Good(j)
  BY DEF TypeOK
<1>1. job' = job
  BY DEF RemoveOrphan
<1>2. TypeOK'
  BY <1>0, <1>1 DEF RemoveOrphan, TypeOK, bounds
<1>3. Keeps(j)
  BY <1>0, <1>1 DEF RemoveOrphan, TypeOK, Keeps, bounds
<1>4. RowIsRight(j)'
  BY <1>0, <1>1, <1>2, <1>3
     DEF RemoveOrphan, Good, RowIsRight, At, TypeOK, JobRecords, bounds, Unaccepted, Converting
<1>5. SourceIsLast(j)'
  BY <1>0, <1>1, <1>2, <1>3 DEF RemoveOrphan, Good, SourceIsLast, At, TypeOK, JobRecords, bounds
<1>6. DraftIsNamed(j)'
  BY <1>0, <1>1, <1>2, <1>3
     DEF RemoveOrphan, Good, DraftIsNamed, At, TypeOK, JobRecords, bounds, RowIsRight
<1>7. SentIsTraced(j)'
  BY <1>0, <1>1, <1>2, <1>3 DEF RemoveOrphan, Good, SentIsTraced, At, TypeOK, JobRecords, bounds
<1>8. TrailIsFollowed(j)'
  BY <1>0, <1>1, <1>2, <1>3
     DEF RemoveOrphan, Good, TrailIsFollowed, At, TypeOK, JobRecords, bounds
<1>20. SourcesAreOld
  <2>1. source'[j] # "none" => source[j] # "none" /\ job'[j].script = job[j].script
    BY <1>0, <1>1, <1>2, <1>3 DEF RemoveOrphan, Good, SourceIsLast, At, TypeOK, bounds
  <2> QED
    BY <1>0, <1>3, <2>1 DEF SourcesAreOld, Keeps
<1>21. CopyIsSafe => CopyIsSafe'
  <2>1. LeavesCopy(j)
    BY <1>0, <1>1, <1>2, <1>3
       DEF RemoveOrphan, LeavesCopy, Good, RowIsRight, SourceIsLast, At, TypeOK, Unaccepted,
           Converting, bounds
  <2> QED
    BY <1>0, <1>3, <2>1, CopyStays
<1> QED
  BY <1>0, <1>2, <1>3, <1>4, <1>5, <1>6, <1>7, <1>8, <1>20, <1>21, OthersStayGood
     DEF StepIsGood, Good, Keeps

LEMMA DeleteSourceIsGood ==
    ASSUME TypeOK, \A k \in Jobs : Good(k), NEW j \in Jobs, DeleteSource(j)
    PROVE  StepIsGood
<1> USE DEF Jobs, Scripts
<1>0. j \in Jobs /\ job[j] \in JobRecords /\ Good(j)
  BY DEF TypeOK
<1>1. job' = job
  BY DEF DeleteSource
<1>2. TypeOK'
  BY <1>0, <1>1 DEF DeleteSource, TypeOK, bounds
<1>3. Keeps(j)
  BY <1>0, <1>1 DEF DeleteSource, TypeOK, Keeps, bounds
<1>4. RowIsRight(j)'
  BY <1>0, <1>1, <1>2, <1>3
     DEF DeleteSource, Good, RowIsRight, At, TypeOK, JobRecords, bounds, Unaccepted, Converting
<1>5. SourceIsLast(j)'
  BY <1>0, <1>1, <1>2, <1>3 DEF DeleteSource, Good, SourceIsLast, At, TypeOK, JobRecords, bounds
<1>6. DraftIsNamed(j)'
  BY <1>0, <1>1, <1>2, <1>3
     DEF DeleteSource, Good, DraftIsNamed, At, TypeOK, JobRecords, bounds, RowIsRight
<1>7. SentIsTraced(j)'
  BY <1>0, <1>1, <1>2, <1>3 DEF DeleteSource, Good, SentIsTraced, At, TypeOK, JobRecords, bounds
<1>8. TrailIsFollowed(j)'
  BY <1>0, <1>1, <1>2, <1>3
     DEF DeleteSource, Good, TrailIsFollowed, At, TypeOK, JobRecords, bounds
<1>20. SourcesAreOld
  <2>1. source'[j] # "none" => source[j] # "none" /\ job'[j].script = job[j].script
    BY <1>0, <1>1, <1>2, <1>3 DEF DeleteSource, Good, SourceIsLast, At, TypeOK, bounds
  <2> QED
    BY <1>0, <1>3, <2>1 DEF SourcesAreOld, Keeps
<1>21. CopyIsSafe => CopyIsSafe'
  <2>1. LeavesCopy(j)
    BY <1>0, <1>1, <1>2, <1>3
       DEF DeleteSource, LeavesCopy, Good, RowIsRight, SourceIsLast, At, TypeOK, Unaccepted,
           Converting, bounds
  <2> QED
    BY <1>0, <1>3, <2>1, CopyStays
<1> QED
  BY <1>0, <1>2, <1>3, <1>4, <1>5, <1>6, <1>7, <1>8, <1>20, <1>21, OthersStayGood
     DEF StepIsGood, Good, Keeps

LEMMA RegenerateIsGood ==
    ASSUME TypeOK, \A k \in Jobs : Good(k), NEW g \in Generations,
           NEW p \in Generations, Regenerate(g, p)
    PROVE  StepIsGood
<1> USE DEF Jobs, Scripts
<1>0. g \in Jobs /\ job[g] \in JobRecords /\ Good(g)
  BY DEF TypeOK
<1> DEFINE r == [job[g] EXCEPT !.pc = "drafting", !.name = script[p].name,
                             !.version = NextVersion(script[p].name)]
<1>9. /\ r \in JobRecords /\ r.pc = "drafting" /\ r.script = job[g].script
      /\ r.sent = job[g].sent /\ r.declared = job[g].declared
  <2>1. script[p].name \in Names
    BY DEF TypeOK, Rows
  <2> QED
    BY <1>0, <2>1, NextVersionIsNat DEF JobRecords, Stages
<1>10. Set(g, r)
  BY DEF Regenerate
<1> HIDE DEF r
<1>1. /\ job' \in [Jobs -> JobRecords] /\ job'[g] = r
      /\ \A k \in Jobs \ {g} : job'[k] = job[k]
  BY <1>0, <1>9, <1>10, SetJob
<1>2. TypeOK'
  BY <1>0, <1>1 DEF Regenerate, TypeOK, bounds
<1>3. Keeps(g)
  BY <1>0, <1>1 DEF Regenerate, TypeOK, Keeps, bounds
<1>4. RowIsRight(g)'
  BY <1>0, <1>1, <1>3, <1>9
     DEF Regenerate, Good, RowIsRight, At, TypeOK, JobRecords, bounds, Unaccepted, Converting
<1>5. SourceIsLast(g)'
  BY <1>0, <1>1, <1>3, <1>9 DEF Regenerate, Good, SourceIsLast, At, TypeOK, JobRecords, bounds
<1>6. DraftIsNamed(g)'
  BY <1>0, <1>1, <1>3, <1>9
     DEF Regenerate, Good, DraftIsNamed, At, TypeOK, JobRecords, bounds, RowIsRight
<1>7. SentIsTraced(g)'
  BY <1>0, <1>1, <1>3, <1>9 DEF Regenerate, Good, SentIsTraced, At, TypeOK, JobRecords, bounds
<1>8. TrailIsFollowed(g)'
  BY <1>0, <1>1, <1>3, <1>9 DEF Regenerate, Good, TrailIsFollowed, At, TypeOK, JobRecords, bounds
<1>20. SourcesAreOld
  <2>1. source'[g] # "none" => source[g] # "none" /\ job'[g].script = job[g].script
    BY <1>0, <1>1, <1>3, <1>9 DEF Regenerate, Good, SourceIsLast, At, TypeOK, bounds
  <2> QED
    BY <1>0, <1>3, <2>1 DEF SourcesAreOld, Keeps
<1>21. CopyIsSafe => CopyIsSafe'
  <2>1. LeavesCopy(g)
    BY <1>0, <1>1, <1>3, <1>9
       DEF Regenerate, LeavesCopy, Good, RowIsRight, SourceIsLast, At, TypeOK, Unaccepted,
           Converting, bounds
  <2> QED
    BY <1>0, <1>3, <2>1, CopyStays
<1> QED
  BY <1>0, <1>2, <1>3, <1>4, <1>5, <1>6, <1>7, <1>8, <1>20, <1>21, OthersStayGood
     DEF StepIsGood, Good, Keeps

LEMMA StartReuseIsGood ==
    ASSUME TypeOK, \A k \in Jobs : Good(k), NEW j \in Reuses, NEW s \in Scripts, StartReuse(j, s)
    PROVE  StepIsGood
<1> USE DEF Jobs, Scripts
<1>0. j \in Jobs /\ job[j] \in JobRecords /\ Good(j)
  BY DEF TypeOK
<1>1. /\ job' \in [Jobs -> JobRecords]
      /\ \A k \in Jobs \ {j} : job'[k] = job[k]
      /\ job'[j].pc \in {"running", "failing"}
      /\ job'[j].script \in {s, None}
      /\ job'[j].script # None => script[s].status = "working"
      /\ job'[j].pc = "running" => job'[j].script # None
  <2>1. CASE script[s].status = "working"
    <3> DEFINE r == [job[j] EXCEPT !.script = s,
                              !.pc = IF Converted(s) THEN "failing" ELSE "running"]
    <3>1. r \in JobRecords /\ r.pc \in {"running", "failing"} /\ r.script = s /\ s # None
      BY <1>0 DEF JobRecords, Stages
    <3>2. Set(j, r)
      BY <2>1 DEF StartReuse
    <3> HIDE DEF r
    <3> QED
      BY <1>0, <2>1, <3>1, <3>2, SetJob
  <2>2. CASE script[s].status # "working"
    <3>1. Moved(j, "failing") /\ job[j].script = None
      BY <1>0, <2>2, GotoMoves DEF StartReuse, Stages, Good, RowIsRight, At
    <3> QED
      BY <3>1 DEF Moved
  <2> QED
    BY <2>1, <2>2
<1>9. j \notin Generations
  OBVIOUS
<1>2. TypeOK'
  BY <1>0, <1>1 DEF StartReuse, TypeOK, bounds
<1>3. Keeps(j)
  BY <1>0, <1>1 DEF StartReuse, TypeOK, Keeps, bounds
<1>4. RowIsRight(j)'
  BY <1>0, <1>1, <1>3, <1>9
     DEF StartReuse, Good, RowIsRight, At, TypeOK, JobRecords, bounds, Unaccepted, Converting
<1>5. SourceIsLast(j)'
  BY <1>0, <1>1, <1>3, <1>9 DEF StartReuse, Good, SourceIsLast, At, TypeOK, JobRecords, bounds
<1>6. DraftIsNamed(j)'
  BY <1>0, <1>1, <1>3, <1>9
     DEF StartReuse, Good, DraftIsNamed, At, TypeOK, JobRecords, bounds, RowIsRight
<1>7. SentIsTraced(j)'
  BY <1>0, <1>1, <1>3, <1>9 DEF StartReuse, Good, SentIsTraced, At, TypeOK, JobRecords, bounds
<1>8. TrailIsFollowed(j)'
  BY <1>0, <1>1, <1>3, <1>9 DEF StartReuse, Good, TrailIsFollowed, At, TypeOK, JobRecords, bounds
<1>20. SourcesAreOld
  <2>1. source'[j] # "none" => source[j] # "none" /\ job'[j].script = job[j].script
    BY <1>0, <1>1, <1>3, <1>9 DEF StartReuse, Good, SourceIsLast, At, TypeOK, bounds
  <2> QED
    BY <1>0, <1>3, <2>1 DEF SourcesAreOld, Keeps
<1>21. CopyIsSafe => CopyIsSafe'
  <2>1. LeavesCopy(j)
    BY <1>0, <1>1, <1>3, <1>9
       DEF StartReuse, LeavesCopy, Good, RowIsRight, SourceIsLast, At, TypeOK, Unaccepted,
           Converting, bounds
  <2> QED
    BY <1>0, <1>3, <2>1, CopyStays
<1> QED
  BY <1>0, <1>2, <1>3, <1>4, <1>5, <1>6, <1>7, <1>8, <1>20, <1>21, OthersStayGood
     DEF StepIsGood, Good, Keeps

LEMMA RunIsGood ==
    ASSUME TypeOK, \A k \in Jobs : Good(k), NEW j \in Jobs, NEW ok \in BOOLEAN, Run(j, ok)
    PROVE  StepIsGood
<1> USE DEF Jobs, Scripts
<1>0. j \in Jobs /\ job[j] \in JobRecords /\ Good(j)
  BY DEF TypeOK
<1> DEFINE r == [job[j] EXCEPT !.pc = IF ok THEN "passed" ELSE "rejected"]
<1>9. /\ r \in JobRecords /\ r.script = job[j].script
      /\ r.pc = (IF ok THEN "passed" ELSE "rejected") /\ r.sent = job[j].sent
  BY <1>0 DEF Run, JobRecords, Stages
<1>10. Record(j, r, (IF ok THEN "full_ok" ELSE "bad"))
  BY DEF Run
<1> HIDE DEF r
<1>1. Recorded(j, r, (IF ok THEN "full_ok" ELSE "bad"))
  BY <1>0, <1>9, <1>10, RecordMoves
<1>2. TypeOK'
  BY <1>0, <1>1 DEF Run, TypeOK, Recorded, bounds
<1>3. Keeps(j)
  BY <1>0, <1>1 DEF Run, TypeOK, Keeps, Recorded, bounds
<1>4. RowIsRight(j)'
  BY <1>0, <1>1, <1>3, <1>9
     DEF Run, Good, RowIsRight, At, TypeOK, JobRecords, Recorded, bounds, Drafting, Unaccepted,
         Converting
<1>5. SourceIsLast(j)'
  BY <1>0, <1>1, <1>3, <1>9
     DEF Run, Good, SourceIsLast, At, TypeOK, JobRecords, Recorded, bounds, Drafting
<1>6. DraftIsNamed(j)'
  BY <1>0, <1>1, <1>3, <1>9
     DEF Run, Good, DraftIsNamed, At, TypeOK, JobRecords, Recorded, bounds, Drafting, RowIsRight
<1>7. SentIsTraced(j)'
  <2>1. job[j].script # None => trail'[job[j].script][j] # "none"
    BY <1>1, <1>9 DEF Recorded
  <2>2. job[j].pc = "running" /\ faults' = faults
    BY DEF Run, At, bounds
  <2> QED
    BY <1>0, <1>1, <1>9, <2>1, <2>2 DEF Good, SentIsTraced, Recorded
<1>8. TrailIsFollowed(j)'
  BY <1>0, <1>1, <1>3, <1>9
     DEF Run, Good, TrailIsFollowed, At, TypeOK, JobRecords, Recorded, bounds, Drafting
<1>20. SourcesAreOld
  <2>1. source'[j] # "none" => source[j] # "none" /\ job'[j].script = job[j].script
    BY <1>0, <1>1, <1>3, <1>9 DEF Run, Good, SourceIsLast, At, TypeOK, Recorded, bounds, Drafting
  <2> QED
    BY <1>0, <1>3, <2>1 DEF SourcesAreOld, Keeps
<1>21. CopyIsSafe => CopyIsSafe'
  <2>1. LeavesCopy(j)
    BY <1>0, <1>1, <1>3, <1>9
       DEF Run, LeavesCopy, Good, RowIsRight, SourceIsLast, At, TypeOK, Unaccepted, Converting,
           Recorded, bounds, Drafting
  <2> QED
    BY <1>0, <1>3, <2>1, CopyStays
<1> QED
  BY <1>0, <1>2, <1>3, <1>4, <1>5, <1>6, <1>7, <1>8, <1>20, <1>21, OthersStayGood
     DEF StepIsGood, Good, Keeps

LEMMA JudgeIsGood ==
    ASSUME TypeOK, \A k \in Jobs : Good(k), NEW g \in Generations, NEW ok \in BOOLEAN, Judge(g, ok)
    PROVE  StepIsGood
<1> USE DEF Jobs, Scripts
<1>0. g \in Jobs /\ job[g] \in JobRecords /\ Good(g)
  BY DEF TypeOK
<1> DEFINE r == IF ok THEN Past(g, "running")
                     ELSE [job[g] EXCEPT !.pc = "drafting", !.declared = 0]
<1>9. /\ r \in JobRecords /\ r.script = job[g].script /\ r.sent = job[g].sent /\ r.declared = 0
      /\ r.pc = IF ok THEN "running" ELSE "drafting"
      /\ ok \/ r.name = job[g].name
  <2>1. CASE ok
    BY <1>0, <2>1, PastTyped DEF Stages
  <2>2. CASE ~ ok
    BY <1>0, <2>2 DEF JobRecords, Stages
  <2> QED
    BY <2>1, <2>2
<1>10. Record(g, r, IF ok THEN "sample_ok" ELSE "bad")
  BY DEF Judge
<1> HIDE DEF r
<1>1. Recorded(g, r, IF ok THEN "sample_ok" ELSE "bad")
  BY <1>0, <1>9, <1>10, RecordMoves
<1>2. TypeOK'
  BY <1>0, <1>1 DEF Judge, TypeOK, Recorded, bounds
<1>3. Keeps(g)
  BY <1>0, <1>1 DEF Judge, TypeOK, Keeps, Recorded, bounds
<1>4. RowIsRight(g)'
  BY <1>0, <1>1, <1>3, <1>9
     DEF Judge, Good, RowIsRight, At, TypeOK, JobRecords, Recorded, bounds, Unaccepted,
         Converting
<1>5. SourceIsLast(g)'
  BY <1>0, <1>1, <1>3, <1>9
     DEF Judge, Good, SourceIsLast, At, TypeOK, JobRecords, Recorded, bounds
<1>6. DraftIsNamed(g)'
  BY <1>0, <1>1, <1>3, <1>9
     DEF Judge, Good, DraftIsNamed, At, TypeOK, JobRecords, Recorded, bounds, RowIsRight
<1>7. SentIsTraced(g)'
  BY <1>0, <1>1, <1>3, <1>9
     DEF Judge, Good, SentIsTraced, At, TypeOK, JobRecords, Recorded, bounds
<1>8. TrailIsFollowed(g)'
  BY <1>0, <1>1, <1>3, <1>9
     DEF Judge, Good, TrailIsFollowed, At, TypeOK, JobRecords, Recorded, bounds
<1>20. SourcesAreOld
  <2>1. source'[g] # "none" => source[g] # "none" /\ job'[g].script = job[g].script
    BY <1>0, <1>1, <1>3, <1>9 DEF Judge, Good, SourceIsLast, At, TypeOK, Recorded, bounds
  <2> QED
    BY <1>0, <1>3, <2>1 DEF SourcesAreOld, Keeps
<1>21. CopyIsSafe => CopyIsSafe'
  <2>1. LeavesCopy(g)
    BY <1>0, <1>1, <1>3, <1>9
       DEF Judge, LeavesCopy, Good, RowIsRight, SourceIsLast, At, TypeOK, Unaccepted, Converting,
           Recorded, bounds
  <2> QED
    BY <1>0, <1>3, <2>1, CopyStays
<1> QED
  BY <1>0, <1>2, <1>3, <1>4, <1>5, <1>6, <1>7, <1>8, <1>20, <1>21, OthersStayGood
     DEF StepIsGood, Good, Keeps

LEMMA RejectIsGood ==
    ASSUME TypeOK, \A k \in Jobs : Good(k), NEW j \in Jobs, Reject(j)
    PROVE  StepIsGood
<1> USE DEF Jobs, Scripts
<1>0. j \in Jobs /\ job[j] \in JobRecords /\ Good(j)
  BY DEF TypeOK
<1>1. Moved(j, "releasing")
  BY <1>0, GotoMoves DEF Reject, Stages
<1>2. TypeOK'
  BY <1>0, <1>1 DEF Reject, TypeOK, Moved, bounds, Rows, Good, RowIsRight, Unaccepted, At
<1>3. Keeps(j)
  BY <1>0, <1>1 DEF Reject, TypeOK, Keeps, Moved, bounds, Rows, Good, RowIsRight, Unaccepted, At
<1>4. RowIsRight(j)'
  BY <1>0, <1>1, <1>2, <1>3
     DEF Reject, Good, RowIsRight, At, TypeOK, JobRecords, Moved, bounds, Rows, Unaccepted,
         Converting
<1>5. SourceIsLast(j)'
  BY <1>0, <1>1, <1>2, <1>3
     DEF Reject, Good, SourceIsLast, At, TypeOK, JobRecords, Moved, bounds, Rows
<1>6. DraftIsNamed(j)'
  BY <1>0, <1>1, <1>2, <1>3
     DEF Reject, Good, DraftIsNamed, At, TypeOK, JobRecords, Moved, bounds, Rows, RowIsRight
<1>7. SentIsTraced(j)'
  BY <1>0, <1>1, <1>2, <1>3
     DEF Reject, Good, SentIsTraced, At, TypeOK, JobRecords, Moved, bounds, Rows
<1>8. TrailIsFollowed(j)'
  BY <1>0, <1>1, <1>2, <1>3
     DEF Reject, Good, TrailIsFollowed, At, TypeOK, JobRecords, Moved, bounds, Rows
<1>20. SourcesAreOld
  <2>1. source'[j] # "none" => source[j] # "none" /\ job'[j].script = job[j].script
    BY <1>0, <1>1, <1>2, <1>3 DEF Reject, Good, SourceIsLast, At, TypeOK, Moved, bounds, Rows
  <2> QED
    BY <1>0, <1>3, <2>1 DEF SourcesAreOld, Keeps
<1>21. CopyIsSafe => CopyIsSafe'
  <2>1. LeavesCopy(j)
    BY <1>0, <1>1, <1>2, <1>3
       DEF Reject, LeavesCopy, Good, RowIsRight, SourceIsLast, At, TypeOK, Unaccepted,
           Converting, Moved, bounds, Rows
  <2> QED
    BY <1>0, <1>3, <2>1, CopyStays
<1> QED
  BY <1>0, <1>2, <1>3, <1>4, <1>5, <1>6, <1>7, <1>8, <1>20, <1>21, OthersStayGood
     DEF StepIsGood, Good, Keeps

LEMMA RecordFailureIsGood ==
    ASSUME TypeOK, \A k \in Jobs : Good(k), NEW j \in Jobs, RecordFailure(j)
    PROVE  StepIsGood
<1> USE DEF Jobs, Scripts
<1>0. j \in Jobs /\ job[j] \in JobRecords /\ Good(j)
  BY DEF TypeOK
<1>1. Moved(j, "releasing")
  BY <1>0, GotoMoves DEF RecordFailure, Stages
<1>2. TypeOK'
  <2>1. CASE job[j].script = None
    BY <1>0, <1>1, <2>1 DEF RecordFailure, TypeOK, Moved, bounds
  <2>2. CASE job[j].script # None
    <3>0. job[j].script \in Scripts
      BY <1>0, <2>2 DEF JobRecords
    <3>1. trail' \in [Scripts -> [Jobs -> {"none", "bad", "sample_ok", "full_ok"}]]
      <4>1. trail' = [trail EXCEPT ![job[j].script][j] = "bad"]
        BY <2>2 DEF RecordFailure
      <4> QED
        BY <1>0, <3>0, <4>1 DEF TypeOK
    <3>2. script' \in [Scripts -> Rows]
      <4>1. CASE OwnRow(j)
        <5>1. script' = [script EXCEPT ![j].status = "failed"] /\ j \in Scripts
          BY <2>2, <4>1 DEF RecordFailure, OwnRow
        <5> QED
          BY <5>1 DEF TypeOK, Rows
      <4>2. CASE ~ OwnRow(j)
        BY <2>2, <4>2 DEF RecordFailure, TypeOK
      <4> QED
        BY <4>1, <4>2
    <3> QED
      BY <1>0, <1>1, <3>1, <3>2 DEF RecordFailure, TypeOK, Moved, bounds
  <2> QED
    BY <2>1, <2>2
<1>3. Keeps(j)
  BY <1>0, <1>1 DEF RecordFailure, TypeOK, Keeps, Moved, bounds, Rows, JobRecords, OwnRow
<1>4. RowIsRight(j)'
  BY <1>0, <1>1, <1>2, <1>3
     DEF RecordFailure, Good, RowIsRight, At, TypeOK, JobRecords, Moved, bounds, Rows, OwnRow,
         Unaccepted, Converting
<1>5. SourceIsLast(j)'
  BY <1>0, <1>1, <1>2, <1>3
     DEF RecordFailure, Good, SourceIsLast, At, TypeOK, JobRecords, Moved, bounds, Rows, OwnRow
<1>6. DraftIsNamed(j)'
  BY <1>0, <1>1, <1>2, <1>3
     DEF RecordFailure, Good, DraftIsNamed, At, TypeOK, JobRecords, Moved, bounds, Rows, OwnRow,
         RowIsRight
<1>7. SentIsTraced(j)'
  BY <1>0, <1>1, <1>2, <1>3
     DEF RecordFailure, Good, SentIsTraced, At, TypeOK, JobRecords, Moved, bounds, Rows, OwnRow
<1>8. TrailIsFollowed(j)'
  BY <1>0, <1>1, <1>2, <1>3
     DEF RecordFailure, Good, TrailIsFollowed, At, TypeOK, JobRecords, Moved, bounds, Rows,
         OwnRow
<1>20. SourcesAreOld
  <2>1. source'[j] # "none" => source[j] # "none" /\ job'[j].script = job[j].script
    BY <1>0, <1>1, <1>2, <1>3
       DEF RecordFailure, Good, SourceIsLast, At, TypeOK, Moved, bounds, Rows, OwnRow
  <2> QED
    BY <1>0, <1>3, <2>1 DEF SourcesAreOld, Keeps
<1>21. CopyIsSafe => CopyIsSafe'
  <2>1. LeavesCopy(j)
    BY <1>0, <1>1, <1>2, <1>3
       DEF RecordFailure, LeavesCopy, Good, RowIsRight, SourceIsLast, At, TypeOK, Unaccepted,
           Converting, Moved, bounds, Rows, OwnRow
  <2> QED
    BY <1>0, <1>3, <2>1, CopyStays
<1> QED
  BY <1>0, <1>2, <1>3, <1>4, <1>5, <1>6, <1>7, <1>8, <1>20, <1>21, OthersStayGood
     DEF StepIsGood, Good, Keeps

LEMMA AskInUseIsGood ==
    ASSUME TypeOK, \A k \in Jobs : Good(k), NEW j \in Jobs, AskInUse(j)
    PROVE  StepIsGood
<1> USE DEF Jobs, Scripts
<1>0. j \in Jobs /\ job[j] \in JobRecords /\ Good(j)
  BY DEF TypeOK
<1>1. /\ job' \in [Jobs -> JobRecords]
      /\ \A k \in Jobs \ {j} : job'[k] = job[k]
      /\ job'[j].pc \in {"unlinking", "ended"} /\ job'[j].script = job[j].script
      /\ job'[j].sent = job[j].sent
      /\ job'[j].pc = "unlinking" => ~ Referenced
  <2>1. CASE Moved(j, "unlinking") /\ ~ InUse
    BY <2>1 DEF Moved, InUse
  <2>2. CASE MovedPast(j, "ended")
    BY <2>2 DEF MovedPast
  <2> QED
    BY <1>0, <2>1, <2>2, GotoMoves, EndMoves DEF AskInUse, Stages
<1>2. TypeOK'
  BY <1>0, <1>1 DEF AskInUse, TypeOK, bounds
<1>3. Keeps(j)
  BY <1>0, <1>1 DEF AskInUse, TypeOK, Keeps, bounds
<1>4. RowIsRight(j)'
  BY <1>0, <1>1, <1>2, <1>3
     DEF AskInUse, Good, RowIsRight, At, TypeOK, JobRecords, bounds, Unaccepted, Converting
<1>5. SourceIsLast(j)'
  BY <1>0, <1>1, <1>2, <1>3 DEF AskInUse, Good, SourceIsLast, At, TypeOK, JobRecords, bounds
<1>6. DraftIsNamed(j)'
  BY <1>0, <1>1, <1>2, <1>3
     DEF AskInUse, Good, DraftIsNamed, At, TypeOK, JobRecords, bounds, RowIsRight
<1>7. SentIsTraced(j)'
  BY <1>0, <1>1, <1>2, <1>3 DEF AskInUse, Good, SentIsTraced, At, TypeOK, JobRecords, bounds
<1>8. TrailIsFollowed(j)'
  BY <1>0, <1>1, <1>2, <1>3 DEF AskInUse, Good, TrailIsFollowed, At, TypeOK, JobRecords, bounds
<1>20. SourcesAreOld
  <2>1. source'[j] # "none" => source[j] # "none" /\ job'[j].script = job[j].script
    BY <1>0, <1>1, <1>2, <1>3 DEF AskInUse, Good, SourceIsLast, At, TypeOK, bounds
  <2> QED
    BY <1>0, <1>3, <2>1 DEF SourcesAreOld, Keeps
<1>21. CopyIsSafe => CopyIsSafe'
  <2>1. raw' = raw /\ raced' = raced /\ script' = script /\ source' = source
    BY DEF AskInUse
  <2>2. Referenced' <=> Referenced
    BY <2>1 DEF Referenced
  <2>3. \A k \in Jobs :
          (At(k, "unlinking")' => At(k, "unlinking") \/ ~ Referenced)
          /\ (CountsOnRaw(k)' => CountsOnRaw(k))
    BY <1>1 DEF At, CountsOnRaw
  <2> QED
    BY <2>1, <2>2, <2>3 DEF CopyIsSafe
<1> QED
  BY <1>0, <1>2, <1>3, <1>4, <1>5, <1>6, <1>7, <1>8, <1>20, <1>21, OthersStayGood
     DEF StepIsGood, Good, Keeps

LEMMA RegisterIsGood ==
    ASSUME TypeOK, \A k \in Jobs : Good(k), NEW j \in Jobs, Register(j)
    PROVE  StepIsGood
<1> USE DEF Jobs, Scripts
<1>0. j \in Jobs /\ job[j] \in JobRecords /\ Good(j)
  BY DEF TypeOK
<1>1. /\ job' \in [Jobs -> JobRecords]
      /\ \A k \in Jobs \ {j} : job'[k] = job[k]
      /\ job'[j].pc = IF Converted(job[j].script) THEN "ended" ELSE "ingesting"
      /\ job'[j].script = job[j].script /\ job'[j].sent = job[j].sent
  <2>1. CASE Converted(job[j].script)
    <3>1. MovedPast(j, "ended")
      BY <1>0, <2>1, EndMoves DEF Register
    <3> QED
      BY <2>1, <3>1 DEF MovedPast
  <2>2. CASE ~ Converted(job[j].script)
    <3>1. Moved(j, "ingesting")
      BY <1>0, <2>2, GotoMoves DEF Register, Stages
    <3> QED
      BY <2>2, <3>1 DEF Moved
  <2> QED
    BY <2>1, <2>2
<1>2. TypeOK'
  BY <1>0, <1>1 DEF Register, TypeOK, bounds, Refers
<1>3. Keeps(j)
  BY <1>0, <1>1 DEF Register, TypeOK, Keeps, bounds, Refers
<1>4. RowIsRight(j)'
  BY <1>0, <1>1, <1>2, <1>3
     DEF Register, Good, RowIsRight, At, TypeOK, JobRecords, bounds, Unaccepted, Converting
<1>5. SourceIsLast(j)'
  BY <1>0, <1>1, <1>2, <1>3 DEF Register, Good, SourceIsLast, At, TypeOK, JobRecords, bounds
<1>6. DraftIsNamed(j)'
  BY <1>0, <1>1, <1>2, <1>3
     DEF Register, Good, DraftIsNamed, At, TypeOK, JobRecords, bounds, RowIsRight
<1>7. SentIsTraced(j)'
  BY <1>0, <1>1, <1>2, <1>3 DEF Register, Good, SentIsTraced, At, TypeOK, JobRecords, bounds
<1>8. TrailIsFollowed(j)'
  BY <1>0, <1>1, <1>2, <1>3 DEF Register, Good, TrailIsFollowed, At, TypeOK, JobRecords, bounds
<1>20. SourcesAreOld
  <2>1. CASE Converted(job[j].script)
    BY <1>0, <1>1, <1>3, <2>1 DEF Register, SourcesAreOld, Keeps
  <2>2. CASE ~ Converted(job[j].script)
    BY <1>0, <1>1, <1>3, <2>2 DEF SourcesAreOld, Keeps
  <2> QED
    BY <2>1, <2>2
<1>21. CopyIsSafe => CopyIsSafe'
  <2>0. At(j, "registering") /\ raw' = raw /\ script' = script
    BY DEF Register
  <2>1. CASE Converted(job[j].script)
    <3>1. LeavesCopy(j)
      BY <1>1, <2>0, <2>1 DEF Register, LeavesCopy
    <3> QED
      BY <1>0, <1>3, <3>1, CopyStays
  <2>2. CASE ~ Converted(job[j].script)
    <3>1. (raced' <=> raced \/ \E k \in Jobs : At(k, "unlinking"))
      BY <2>2 DEF Register, Refers
    <3>2. \A k \in Jobs :
          (At(k, "unlinking")' => At(k, "unlinking")) /\ (CountsOnRaw(k)' => CountsOnRaw(k))
      BY <1>1, <2>2 DEF At, CountsOnRaw
    <3>3. CountsOnRaw(j)
      BY <2>0 DEF CountsOnRaw, At
    <3> QED
      BY <1>0, <2>0, <3>1, <3>2, <3>3 DEF CopyIsSafe
  <2> QED
    BY <2>1, <2>2
<1> QED
  BY <1>0, <1>2, <1>3, <1>4, <1>5, <1>6, <1>7, <1>8, <1>20, <1>21, OthersStayGood
     DEF StepIsGood, Good, Keeps

LEMMA FaultIsGood ==
    ASSUME TypeOK, \A k \in Jobs : Good(k), NEW j \in Jobs, Fault(j)
    PROVE  StepIsGood
<1> USE DEF Jobs, Scripts
<1>0. j \in Jobs /\ job[j] \in JobRecords /\ Good(j)
  BY DEF TypeOK
<1> DEFINE r == [Past(j, "failing") EXCEPT
                  !.created = @ \/ (job[j].pc \in {"retaining", "keeping"} /\ ~raw)]
<1>9. /\ r \in JobRecords /\ r.pc = "failing" /\ r.script = job[j].script /\ r.sent = job[j].sent
      /\ r.declared = 0
  <2> DEFINE q == Past(j, "failing")
  <2>1. /\ q \in JobRecords /\ q.pc = "failing" /\ q.script = job[j].script
        /\ q.sent = job[j].sent /\ q.declared = 0
    BY <1>0, PastTyped DEF Stages
  <2>2. r = [q EXCEPT !.created = @ \/ (job[j].pc \in {"retaining", "keeping"} /\ ~raw)]
    OBVIOUS
  <2> HIDE DEF q, r
  <2> QED
    BY <2>1, <2>2 DEF JobRecords
<1>10. Set(j, r)
  BY DEF Fault
<1> HIDE DEF r
<1>1. MovedPast(j, "failing")
  BY <1>0, <1>9, <1>10, SetJob DEF MovedPast
<1>11. faults' # 0
  BY DEF Fault, TypeOK
<1>2. TypeOK'
  BY <1>0, <1>1 DEF Fault, TypeOK, MovedPast, bounds
<1>3. Keeps(j)
  BY <1>0, <1>1, <1>11 DEF Fault, TypeOK, Keeps, MovedPast, bounds
<1>4. RowIsRight(j)'
  BY <1>0, <1>1, <1>3, <1>11
     DEF Fault, Good, RowIsRight, At, TypeOK, JobRecords, MovedPast, bounds, Unaccepted,
         Converting
<1>5. SourceIsLast(j)'
  BY <1>0, <1>1, <1>3, <1>11
     DEF Fault, Good, SourceIsLast, At, TypeOK, JobRecords, MovedPast, bounds
<1>6. DraftIsNamed(j)'
  BY <1>0, <1>1, <1>3, <1>11
     DEF Fault, Good, DraftIsNamed, At, TypeOK, JobRecords, MovedPast, bounds, RowIsRight
<1>7. SentIsTraced(j)'
  BY <1>0, <1>1, <1>3, <1>11
     DEF Fault, Good, SentIsTraced, At, TypeOK, JobRecords, MovedPast, bounds
<1>8. TrailIsFollowed(j)'
  BY <1>0, <1>1, <1>3, <1>11
     DEF Fault, Good, TrailIsFollowed, At, TypeOK, JobRecords, MovedPast, bounds
<1>20. SourcesAreOld
  <2>1. source'[j] # "none" => source[j] # "none" /\ job'[j].script = job[j].script
    BY <1>0, <1>1, <1>3, <1>11 DEF Fault, Good, SourceIsLast, At, TypeOK, MovedPast, bounds
  <2> QED
    BY <1>0, <1>3, <2>1 DEF SourcesAreOld, Keeps
<1>21. CopyIsSafe => CopyIsSafe'
  <2>1. LeavesCopy(j)
    BY <1>0, <1>1, <1>3, <1>11
       DEF Fault, LeavesCopy, Good, RowIsRight, SourceIsLast, At, TypeOK, Unaccepted, Converting,
           MovedPast, bounds
  <2> QED
    BY <1>0, <1>3, <2>1, CopyStays
<1> QED
  BY <1>0, <1>2, <1>3, <1>4, <1>5, <1>6, <1>7, <1>8, <1>20, <1>21, OthersStayGood
     DEF StepIsGood, Good, Keeps

LEMMA CreateRowIsGood ==
    ASSUME TypeOK, \A k \in Jobs : Good(k), NEW g \in Generations, CreateRow(g)
    PROVE  StepIsGood
<1> USE DEF Jobs, Scripts
<1>0. g \in Jobs /\ job[g] \in JobRecords /\ Good(g)
  BY DEF TypeOK
<1>1. /\ job' \in [Jobs -> JobRecords]
      /\ \A k \in Jobs \ {g} : job'[k] = job[k]
      /\ job'[g].pc \in {"creating", "binding"} /\ job'[g].script = job[g].script
      /\ job'[g].sent = job[g].sent /\ job'[g].name = job[g].name
      /\ job'[g].declared = job[g].declared /\ job'[g].attempts = job[g].attempts
      /\ script' \in [Scripts -> Rows]
      /\ \A s \in Scripts \ {g} : script'[s] = script[s]
      /\ script'[g].status \in {script[g].status, "failed", "generating"}
      /\ job'[g].pc = "binding" => script'[g].status # "none"
  <2>1. CASE Taken(job[g].name, job[g].version)
    <3> DEFINE r == [job[g] EXCEPT !.version = NextVersion(job[g].name)]
    <3>1. /\ r \in JobRecords /\ r.pc = job[g].pc /\ r.script = job[g].script
          /\ r.sent = job[g].sent /\ r.name = job[g].name
          /\ r.declared = job[g].declared /\ r.attempts = job[g].attempts
      BY <1>0, NextVersionIsNat DEF JobRecords
    <3>2. Set(g, r) /\ UNCHANGED script
      BY <2>1 DEF CreateRow
    <3>3. job[g].pc = "creating"
      BY DEF CreateRow, At
    <3>4. script \in [Scripts -> Rows]
      BY DEF TypeOK
    <3> HIDE DEF r
    <3> QED
      BY <1>0, <3>1, <3>2, <3>3, <3>4, SetJob
  <2>2. CASE ~ Taken(job[g].name, job[g].version)
    <3>1. Moved(g, "binding")
      BY <1>0, <2>2, GotoMoves DEF CreateRow, Stages
    <3>2. script' = [script EXCEPT ![g] =
                  [status |-> IF job[g].declared = 0 THEN "failed" ELSE "generating",
                   name |-> job[g].name, version |-> job[g].version]]
      BY <2>2 DEF CreateRow
    <3>3. job[g].name \in Names /\ job[g].version \in Nat
      BY <1>0 DEF JobRecords
    <3> QED
      BY <3>1, <3>2, <3>3 DEF Moved, TypeOK, Rows
  <2> QED
    BY <2>1, <2>2
<1>9. /\ job[g].pc = "creating" /\ script[g].status # "working" /\ script'[g].status # "working"
      /\ source' = source /\ trail' = trail /\ faults' = faults /\ fate' = fate
      /\ script[g].status # "none" => script'[g].status # "none"
  BY <1>0, <1>1 DEF CreateRow, At, Good, RowIsRight, Unaccepted, bounds
<1>10. raced' \in BOOLEAN
  BY DEF CreateRow, Refers, TypeOK
<1>2. TypeOK'
  BY <1>1, <1>9, <1>10 DEF CreateRow, TypeOK, bounds
<1>3. Keeps(g)
  BY <1>1, <1>9 DEF TypeOK, Keeps
<1>4. RowIsRight(g)'
  BY <1>0, <1>1, <1>3, <1>9
     DEF CreateRow, Good, RowIsRight, At, TypeOK, JobRecords, Unaccepted, Converting
<1>5. SourceIsLast(g)'
  BY <1>0, <1>1, <1>3, <1>9 DEF CreateRow, Good, SourceIsLast, At, TypeOK, JobRecords
<1>6. DraftIsNamed(g)'
  BY <1>0, <1>1, <1>3, <1>9 DEF CreateRow, Good, DraftIsNamed, At, TypeOK, JobRecords, RowIsRight
<1>7. SentIsTraced(g)'
  BY <1>0, <1>1, <1>3, <1>9 DEF CreateRow, Good, SentIsTraced, At, TypeOK, JobRecords
<1>8. TrailIsFollowed(g)'
  BY <1>0, <1>1, <1>3, <1>9 DEF CreateRow, Good, TrailIsFollowed, At, TypeOK, JobRecords
<1>20. SourcesAreOld
  <2>1. source'[g] # "none" => source[g] # "none" /\ job'[g].script = job[g].script
    BY <1>0, <1>1, <1>3, <1>9 DEF CreateRow, Good, SourceIsLast, At, TypeOK
  <2> QED
    BY <1>0, <1>3, <2>1 DEF SourcesAreOld, Keeps
<1>21. CopyIsSafe => CopyIsSafe'
  <2>1. CASE Taken(job[g].name, job[g].version)
    <3> DEFINE r == [job[g] EXCEPT !.version = NextVersion(job[g].name)]
    <3>1. r \in JobRecords /\ r.pc = job[g].pc
      BY <1>0, NextVersionIsNat DEF JobRecords
    <3>2. Set(g, r) /\ script' = script /\ raw' = raw /\ raced' = raced
      BY <2>1 DEF CreateRow
    <3> HIDE DEF r
    <3>3. job'[g].pc = job[g].pc
      BY <1>0, <3>1, <3>2, SetJob
    <3>4. LeavesCopy(g)
      BY <1>9, <3>2, <3>3 DEF LeavesCopy
    <3> QED
      BY <1>0, <1>3, <3>4, CopyStays
  <2>2. CASE ~ Taken(job[g].name, job[g].version)
    <3>1. (raced' <=> raced \/ \E k \in Jobs : At(k, "unlinking")) /\ raw' = raw
      BY <2>2 DEF CreateRow, Refers
    <3>2. \A k \in Jobs :
          (At(k, "unlinking")' => At(k, "unlinking"))
          /\ (CountsOnRaw(k)' => CountsOnRaw(k) \/ k = g)
      BY <1>1 DEF At, CountsOnRaw
    <3>3. CountsOnRaw(g)
      BY <1>9 DEF CountsOnRaw
    <3> QED
      BY <1>0, <3>1, <3>2, <3>3 DEF CopyIsSafe
  <2> QED
    BY <2>1, <2>2
<1> QED
  BY <1>0, <1>2, <1>3, <1>4, <1>5, <1>6, <1>7, <1>8, <1>20, <1>21, OthersStayGood
     DEF StepIsGood, Good, Keeps

LEMMA ExhaustedIsGood ==
    ASSUME TypeOK, \A k \in Jobs : Good(k), NEW g \in Generations, Exhausted(g)
    PROVE  StepIsGood
<1> USE DEF Jobs, Scripts
<1>0. g \in Jobs /\ job[g] \in JobRecords /\ Good(g)
  BY DEF TypeOK
<1>1. /\ job' \in [Jobs -> JobRecords]
      /\ \A k \in Jobs \ {g} : job'[k] = job[k]
      /\ job'[g].script = job[g].script /\ job'[g].sent = job[g].sent /\ job'[g].declared = 0
      /\ \/ job'[g].pc = "retaining" /\ job'[g].name # "none" /\ UNCHANGED <<script, fate>>
         \/ job'[g].pc = "releasing" /\ (job[g].script = None => ~ job[g].sent)
  <2>0. job[g].declared = 0
    BY <1>0 DEF Exhausted, At, Good, DraftIsNamed
  <2>1. CASE job[g].script = None /\ ~ GiveUp(g)
    <3> DEFINE r == [job[g] EXCEPT !.pc = "retaining",
                                     !.name = IF @ = "none" THEN "from_file" ELSE @]
    <3>1. /\ r \in JobRecords /\ r.pc = "retaining" /\ r.script = job[g].script
          /\ r.sent = job[g].sent /\ r.name # "none" /\ r.declared = 0
      BY <1>0, <2>0 DEF JobRecords, Stages, Names
    <3>2. Set(g, r) /\ UNCHANGED <<script, fate>>
      BY <2>1 DEF Exhausted
    <3> HIDE DEF r
    <3> QED
      BY <1>0, <3>1, <3>2, SetJob
  <2>2. CASE ~ (job[g].script = None /\ ~ GiveUp(g))
    <3>1. MovedPast(g, "releasing")
      BY <1>0, <2>2, LeaveMoves DEF Exhausted, Stages
    <3> QED
      BY <2>2, <3>1 DEF MovedPast, GiveUp
  <2> QED
    BY <2>1, <2>2
<1>9. /\ script' \in [Scripts -> Rows]
      /\ \A s \in Scripts \ {g} : script'[s] = script[s]
      /\ script'[g].status \in {script[g].status, "failed"}
      /\ script[g].status = "none" => script'[g].status = "none"
      /\ fate' \in [Jobs -> {"none", "completed", "duplicate", "failed", "unrecorded"}]
      /\ \A k \in Jobs \ {g} : fate'[k] = fate[k]
      /\ job[g].pc \in {"exhausted", "drafting"} /\ script[g].status # "working"
      /\ source' = source /\ trail' = trail /\ faults' = faults
  <2>1. job[g].pc \in {"exhausted", "drafting"} /\ script[g].status # "working"
    BY <1>0 DEF Exhausted, At, Good, RowIsRight, Unaccepted
  <2>2. \/ script' = script
        \/ script' = [script EXCEPT ![g].status = "failed"] /\ job[g].script # None
    BY DEF Exhausted
  <2>3. fate' = fate \/ fate' = [fate EXCEPT ![g] = "failed"]
    BY DEF Exhausted
  <2>4. source' = source /\ trail' = trail /\ faults' = faults
    BY DEF Exhausted, bounds
  <2>5. /\ script' \in [Scripts -> Rows]
        /\ \A s \in Scripts \ {g} : script'[s] = script[s]
        /\ script'[g].status \in {script[g].status, "failed"}
        /\ script[g].status = "none" => script'[g].status = "none"
    <3>1. CASE script' = script
      BY <3>1 DEF TypeOK
    <3>2. CASE script' = [script EXCEPT ![g].status = "failed"] /\ job[g].script # None
      <4>1. script \in [Scripts -> Rows] /\ script[g].status # "none"
        BY <1>0, <3>2 DEF TypeOK, Good, RowIsRight
      <4> QED
        BY <3>2, <4>1 DEF Rows
    <3> QED
      BY <2>2, <3>1, <3>2
  <2> QED
    BY <1>0, <2>1, <2>3, <2>4, <2>5 DEF TypeOK
<1>2. TypeOK'
  BY <1>1, <1>9 DEF Exhausted, TypeOK, bounds
<1>3. Keeps(g)
  BY <1>1, <1>9 DEF TypeOK, Keeps
<1>4. RowIsRight(g)'
  BY <1>0, <1>1, <1>3, <1>9
     DEF Exhausted, Good, RowIsRight, At, TypeOK, JobRecords, Unaccepted, Converting
<1>5. SourceIsLast(g)'
  BY <1>0, <1>1, <1>3, <1>9 DEF Exhausted, Good, SourceIsLast, At, TypeOK, JobRecords
<1>6. DraftIsNamed(g)'
  BY <1>0, <1>1, <1>3, <1>9 DEF Exhausted, Good, DraftIsNamed, At, TypeOK, JobRecords, RowIsRight
<1>7. SentIsTraced(g)'
  BY <1>0, <1>1, <1>3, <1>9 DEF Exhausted, Good, SentIsTraced, At, TypeOK, JobRecords
<1>8. TrailIsFollowed(g)'
  BY <1>0, <1>1, <1>3, <1>9 DEF Exhausted, Good, TrailIsFollowed, At, TypeOK, JobRecords
<1>20. SourcesAreOld
  <2>1. source'[g] # "none" => source[g] # "none" /\ job'[g].script = job[g].script
    BY <1>0, <1>1, <1>3, <1>9 DEF Exhausted, Good, SourceIsLast, At, TypeOK
  <2> QED
    BY <1>0, <1>3, <2>1 DEF SourcesAreOld, Keeps
<1>21. CopyIsSafe => CopyIsSafe'
  <2>1. LeavesCopy(g)
    BY <1>0, <1>1, <1>3, <1>9
       DEF Exhausted, LeavesCopy, Good, RowIsRight, SourceIsLast, At, TypeOK, Unaccepted,
           Converting
  <2> QED
    BY <1>0, <1>3, <2>1, CopyStays
<1> QED
  BY <1>0, <1>2, <1>3, <1>4, <1>5, <1>6, <1>7, <1>8, <1>20, <1>21, OthersStayGood
     DEF StepIsGood, Good, Keeps

LEMMA BindIsGood ==
    ASSUME TypeOK, \A k \in Jobs : Good(k), NEW g \in Generations, Bind(g)
    PROVE  StepIsGood
<1> USE DEF Jobs, Scripts
<1>0. g \in Jobs /\ job[g] \in JobRecords /\ Good(g)
  BY DEF TypeOK
<1> DEFINE r == [job[g] EXCEPT !.script = g, !.buffered = FALSE]
<1>1. /\ job' \in [Jobs -> JobRecords]
      /\ \A k \in Jobs \ {g} : job'[k] = job[k]
      /\ job'[g].script = g
      /\ \/ job'[g].pc = "releasing" /\ trail'[g][g] = "bad"
         \/ job'[g].pc = "drafting" /\ trail'[g][g] = "bad" /\ job'[g].name # "none"
            /\ job'[g].declared = 0
         \/ job'[g].pc = "judging" /\ job'[g].name # "none"
            /\ job'[g].declared = job'[g].version /\ trail'[g][g] \in {trail[g][g], "bad"}
  <2>0. /\ job[g].pc = "binding" /\ job[g].name # "none"
        /\ job[g].declared # 0 => job[g].attempts # 0
    BY <1>0 DEF Bind, At, Good, DraftIsNamed
  <2>1. /\ r \in JobRecords /\ r.script = g /\ r.version = job[g].version /\ r.name = job[g].name
        /\ r.declared = job[g].declared /\ r.attempts = job[g].attempts
    BY <1>0 DEF JobRecords
  <2>2. trail' = [trail EXCEPT ![g][g] = IF r.buffered \/ AskAgain(r) THEN "bad" ELSE @]
    BY DEF Bind
  <2>3. trail'[g][g] = (IF r.buffered \/ AskAgain(r) THEN "bad" ELSE trail[g][g])
    BY <1>0, <2>2 DEF TypeOK
  <2>4. CASE r.declared = 0
    <3> DEFINE q == [Past(g, "releasing") EXCEPT !.script = g]
    <3>1. q \in JobRecords /\ q.pc = "releasing" /\ q.script = g
      <4> DEFINE x == Past(g, "releasing")
      <4>1. x \in JobRecords /\ x.pc = "releasing"
        BY <1>0, PastTyped DEF Stages
      <4>2. q = [x EXCEPT !.script = g]
        OBVIOUS
      <4> HIDE DEF x, q
      <4> QED
        BY <4>1, <4>2 DEF JobRecords
    <3>2. Set(g, q)
      BY <2>4 DEF Bind
    <3>3. AskAgain(r)
      BY <1>0, <2>1, <2>4 DEF AskAgain, JobRecords
    <3> HIDE DEF q, r
    <3> QED
      BY <1>0, <2>3, <3>1, <3>2, <3>3, SetJob
  <2>5. CASE r.declared # 0 /\ AskAgain(r)
    <3> DEFINE q == [r EXCEPT !.pc = "drafting", !.attempts = @ - 1, !.declared = 0]
    <3>1. Set(g, q)
      BY <2>5 DEF Bind
    <3>2. r.attempts \in 0 .. MaxAttempts /\ r.attempts # 0
      BY <2>0, <2>1, <2>5 DEF JobRecords
    <3> HIDE DEF r
    <3>3. r.attempts - 1 \in 0 .. MaxAttempts
      BY <3>2
    <3>4. q \in JobRecords /\ q.pc = "drafting" /\ q.script = g /\ q.name = job[g].name
          /\ q.declared = 0
      BY <2>1, <3>3 DEF JobRecords, Stages
    <3> HIDE DEF q
    <3>5. trail'[g][g] = "bad"
      BY <2>3, <2>5
    <3>6. job'[g] = q /\ job' \in [Jobs -> JobRecords] /\ \A k \in Jobs \ {g} : job'[k] = job[k]
      BY <1>0, <3>1, <3>4, SetJob
    <3> QED
      BY <2>0, <3>4, <3>5, <3>6
  <2>6. CASE r.declared # 0 /\ ~ AskAgain(r)
    <3> DEFINE q == [r EXCEPT !.pc = "judging"]
    <3>1. Set(g, q)
      BY <2>6 DEF Bind
    <3> HIDE DEF r
    <3>2. /\ q \in JobRecords /\ q.pc = "judging" /\ q.script = g /\ q.name = job[g].name
          /\ q.declared = r.declared /\ q.version = r.version
      BY <2>1 DEF JobRecords, Stages
    <3>3. r.version = r.declared
      BY <2>6 DEF AskAgain
    <3> HIDE DEF q
    <3>5. trail'[g][g] \in {trail[g][g], "bad"}
      BY <2>3
    <3>6. job'[g] = q /\ job' \in [Jobs -> JobRecords] /\ \A k \in Jobs \ {g} : job'[k] = job[k]
      BY <1>0, <3>1, <3>2, SetJob
    <3> QED
      BY <2>0, <3>2, <3>3, <3>5, <3>6
  <2> QED
    BY <2>4, <2>5, <2>6
<1>9. /\ trail' \in [Scripts -> [Jobs -> {"none", "bad", "sample_ok", "full_ok"}]]
      /\ \A s \in Scripts : \A k \in Jobs \ {g} : trail'[s][k] = trail[s][k]
      /\ \A s \in Scripts \ {g} : trail'[s][g] = trail[s][g]
      /\ trail'[g][g] \in {trail[g][g], "bad"}
      /\ fate' \in [Jobs -> {"none", "completed", "duplicate", "failed", "unrecorded"}]
      /\ \A k \in Jobs \ {g} : fate'[k] = fate[k]
      /\ job[g].pc = "binding"
      /\ source' = source /\ script' = script /\ faults' = faults
  BY <1>0 DEF Bind, At, TypeOK, bounds
<1>2. TypeOK'
  BY <1>1, <1>9 DEF Bind, TypeOK, bounds
<1>3. Keeps(g)
  BY <1>1, <1>9 DEF TypeOK, Keeps
<1>4. RowIsRight(g)'
  BY <1>0, <1>1, <1>3, <1>9
     DEF Bind, Good, RowIsRight, At, TypeOK, JobRecords, Unaccepted, Converting
<1>5. SourceIsLast(g)'
  BY <1>0, <1>1, <1>3, <1>9 DEF Bind, Good, SourceIsLast, At, TypeOK, JobRecords
<1>6. DraftIsNamed(g)'
  BY <1>0, <1>1, <1>3, <1>9 DEF Bind, Good, DraftIsNamed, At, TypeOK, JobRecords, RowIsRight
<1>7. SentIsTraced(g)'
  BY <1>0, <1>1, <1>3, <1>9 DEF Bind, Good, SentIsTraced, At, TypeOK, JobRecords
<1>8. TrailIsFollowed(g)'
  BY <1>0, <1>1, <1>3, <1>9 DEF Bind, Good, TrailIsFollowed, At, TypeOK, JobRecords
<1>20. SourcesAreOld
  <2>1. source'[g] # "none" => source[g] # "none" /\ job'[g].script = job[g].script
    BY <1>0, <1>1, <1>3, <1>9 DEF Bind, Good, SourceIsLast, At, TypeOK
  <2> QED
    BY <1>0, <1>3, <2>1 DEF SourcesAreOld, Keeps
<1>21. CopyIsSafe => CopyIsSafe'
  <2>1. LeavesCopy(g)
    BY <1>0, <1>1, <1>3, <1>9
       DEF Bind, LeavesCopy, Good, RowIsRight, SourceIsLast, At, TypeOK, Unaccepted, Converting
  <2> QED
    BY <1>0, <1>3, <2>1, CopyStays
<1> QED
  BY <1>0, <1>2, <1>3, <1>4, <1>5, <1>6, <1>7, <1>8, <1>20, <1>21, OthersStayGood
     DEF StepIsGood, Good, Keeps

LEMMA RestartIsGood ==
    ASSUME TypeOK, \A k \in Jobs : Good(k), Restart
    PROVE  StepIsGood
<1> USE DEF Jobs, Scripts
<1>1. \A k \in Jobs :
        /\ job'[k] \in JobRecords /\ job'[k].script = job[k].script /\ job'[k].sent = job[k].sent
        /\ job[k].pc \in {"queued", "ended"} => job'[k] = job[k]
        /\ job[k].pc \notin {"queued", "ended"} => job'[k].pc = "lost"
  <2> SUFFICES ASSUME NEW k \in Jobs
               PROVE  /\ job'[k] \in JobRecords /\ job'[k].script = job[k].script
                      /\ job'[k].sent = job[k].sent
                      /\ job[k].pc \in {"queued", "ended"} => job'[k] = job[k]
                      /\ job[k].pc \notin {"queued", "ended"} => job'[k].pc = "lost"
    OBVIOUS
  <2>1. job'[k] = IF job[k].pc \in {"queued", "ended"} THEN job[k] ELSE Over(k, "lost")
    BY DEF Restart
  <2>2. job[k] \in JobRecords
    BY DEF TypeOK
  <2> QED
    BY <2>1, <2>2, PastTyped DEF Stages
<1>2. \A s \in Scripts :
        /\ script'[s] \in Rows
        /\ script'[s].status = IF script[s].status = "generating" THEN "failed"
                               ELSE script[s].status
  BY DEF Restart, Reconciled, TypeOK, Rows
<1>3. \A s \in Scripts : \A k \in Jobs :
        /\ trail'[s][k] \in {trail[s][k], "bad"}
        /\ trail'[s] \in [Jobs -> {"none", "bad", "sample_ok", "full_ok"}]
        /\ trail[s][k] # "none" => trail'[s][k] # "none"
  BY DEF Restart, TypeOK
<1>4. source' = source /\ raw' = raw /\ fate' = fate /\ raced' = raced /\ faults' = faults
  BY DEF Restart
<1>5. TypeOK'
  <2>1. job' \in [Jobs -> JobRecords]
    BY <1>1 DEF Restart
  <2>2. script' \in [Scripts -> Rows]
    BY <1>2 DEF Restart
  <2>3. trail' \in [Scripts -> [Jobs -> {"none", "bad", "sample_ok", "full_ok"}]]
    BY DEF Restart, TypeOK
  <2>4. {faults, restarts, deletes}' \subseteq Nat
    BY DEF Restart, TypeOK
  <2> QED
    BY <1>4, <2>1, <2>2, <2>3, <2>4 DEF TypeOK
<1>6. ASSUME NEW k \in Jobs PROVE Good(k)'
  <2>0. Good(k) /\ job[k] \in JobRecords
    BY DEF TypeOK
  <2>1. RowIsRight(k)'
    BY <1>1, <1>2, <2>0 DEF Good, RowIsRight, Unaccepted, Converting, JobRecords
  <2>2. SourceIsLast(k)'
    BY <1>1, <1>4, <2>0 DEF Good, SourceIsLast
  <2>3. DraftIsNamed(k)'
    BY <1>1, <2>0 DEF Good, DraftIsNamed
  <2>4. SentIsTraced(k)'
    BY <1>1, <1>3, <1>4, <2>0 DEF Good, SentIsTraced
  <2>5. TrailIsFollowed(k)'
    BY <1>1, <1>3, <1>4, <2>0 DEF Good, TrailIsFollowed
  <2> QED
    BY <2>1, <2>2, <2>3, <2>4, <2>5 DEF Good
<1>7. SourcesAreOld
  BY <1>1, <1>4 DEF SourcesAreOld
<1>8. CopyIsSafe => CopyIsSafe'
  <2>1. Referenced' => Referenced
    BY <1>2, <1>4 DEF Referenced
  <2>2. \A k \in Jobs : ~ CountsOnRaw(k)' /\ ~ At(k, "unlinking")'
    BY <1>1 DEF CountsOnRaw, At
  <2> QED
    BY <1>4, <2>1, <2>2 DEF CopyIsSafe
<1> QED
  BY <1>2, <1>5, <1>6, <1>7, <1>8 DEF StepIsGood

-----------------------------------------------------------------------------
(* The invariant.                                                          *)

LEMMA InitInv == Init => Inv
<1> SUFFICES ASSUME Init PROVE Inv
  OBVIOUS
<1>1. \A j \in Jobs : Fresh(j) \in JobRecords
  BY DEF Fresh, JobRecords, Stages, Names
<1>2. TypeOK
  <2>1. job \in [Jobs -> JobRecords]
    BY <1>1 DEF Init
  <2>2. script \in [Scripts -> Rows]
    <3>1. ASSUME NEW s \in Scripts PROVE script[s] \in Rows
      <4>1. CASE s \in Saved
        BY <4>1 DEF Init, Rows, Names
      <4>2. CASE s \notin Saved
        BY <4>2 DEF Init, NoRow, Rows, Names
      <4> QED
        BY <4>1, <4>2
    <3> DEFINE r(s) == IF s \in Saved
                       THEN [status |-> "working", name |-> "saved", version |-> 1] ELSE NoRow
    <3>2. script = [s \in Scripts |-> r(s)]
      BY DEF Init
    <3>3. \A s \in Scripts : script[s] = r(s)
      BY <3>2
    <3> HIDE DEF r
    <3> QED
      BY <3>1, <3>2, <3>3
  <2>3. trail \in [Scripts -> [Jobs -> {"none", "bad", "sample_ok", "full_ok"}]]
    BY DEF Init
  <2>4. source \in [Jobs -> {"none", "ingesting", "ready"}]
    BY DEF Init
  <2>5. fate \in [Jobs -> {"none", "completed", "duplicate", "failed", "unrecorded"}]
    BY DEF Init
  <2>6. raw = FALSE /\ raced = FALSE /\ faults = 0 /\ restarts = 0 /\ deletes = 0
    BY DEF Init
  <2>7. {faults, restarts, deletes} \subseteq Nat
    BY <2>6
  <2> QED
    BY <2>1, <2>2, <2>3, <2>4, <2>5, <2>6, <2>7 DEF TypeOK
<1>3. \A j \in Jobs : Good(j)
  <2> SUFFICES ASSUME NEW j \in Jobs PROVE Good(j)
    OBVIOUS
  <2>1. job[j] = Fresh(j)
    BY DEF Init
  <2>2. j \in Generations => script[j].status = "none"
    BY DEF Init, Scripts, NoRow
  <2>3. RowIsRight(j) /\ SourceIsLast(j) /\ DraftIsNamed(j)
    BY <2>1, <2>2 DEF Init, Fresh, RowIsRight, SourceIsLast, DraftIsNamed, Unaccepted, Converting,
       Jobs
  <2>4. SentIsTraced(j)
    BY <2>1 DEF Fresh, SentIsTraced
  <2>5. TrailIsFollowed(j)
    BY DEF Init, TrailIsFollowed
  <2> QED
    BY <2>3, <2>4, <2>5 DEF Good
<1>4. OneSourcePerConversion
  BY DEF Init, OneSourcePerConversion
<1>5. CopyIsSafe
  <2>1. ~ Referenced
    BY DEF Init, Referenced, Scripts, NoRow
  <2>2. \A j \in Jobs : ~ CountsOnRaw(j)
    BY DEF Init, Fresh, CountsOnRaw
  <2> QED
    BY <2>1, <2>2 DEF CopyIsSafe
<1> QED
  BY <1>2, <1>3, <1>4, <1>5 DEF Inv

LEMMA ActionsAreGood == Inv /\ Next => StepIsGood
<1> SUFFICES ASSUME Inv, Next PROVE StepIsGood
  OBVIOUS
<1>0. TypeOK /\ \A k \in Jobs : Good(k)
  BY DEF Inv
<1>1. ASSUME NEW g \in Generations, Generate(g) PROVE StepIsGood
  <2>1. ASSUME NEW ok \in BOOLEAN, Judge(g, ok) PROVE StepIsGood
    BY <1>0, <2>1, JudgeIsGood
  <2> QED
    BY <1>0, <1>1, <2>1, StartGenerationIsGood, ModelUnavailableIsGood, ModelErrorIsGood,
       DraftArrivesIsGood, RetainForRowIsGood, CreateRowIsGood, BindIsGood, ExhaustedIsGood
       DEF Generate
<1>2. ASSUME NEW g \in Generations, NEW p \in Generations, Regenerate(g, p) PROVE StepIsGood
  BY <1>0, <1>2, RegenerateIsGood
<1>3. ASSUME NEW r \in Reuses, NEW s \in Scripts, StartReuse(r, s) PROVE StepIsGood
  BY <1>0, <1>3, StartReuseIsGood
<1>4. ASSUME NEW j \in Jobs, Convert(j) PROVE StepIsGood
  <2>1. ASSUME NEW ok \in BOOLEAN, Run(j, ok) PROVE StepIsGood
    BY <1>0, <2>1, RunIsGood
  <2> QED
    BY <1>0, <1>4, <2>1, RejectIsGood, AcceptIsGood, KeepRawIsGood, RegisterIsGood,
       IngestSucceedsIsGood, IngestFailsIsGood, RecordFailureIsGood, AskInUseIsGood, UnlinkIsGood
       DEF Convert
<1>5. ASSUME NEW j \in Jobs,
             Fault(j) \/ LoseRecord(j) \/ RemoveOrphan(j) \/ DeleteSource(j)
      PROVE  StepIsGood
  BY <1>0, <1>5, FaultIsGood, LoseRecordIsGood, RemoveOrphanIsGood, DeleteSourceIsGood
<1> QED
  BY <1>0, <1>1, <1>2, <1>3, <1>4, <1>5, RestartIsGood DEF Next

LEMMA SourcesStayUnique ==
    ASSUME OneSourcePerConversion, SourcesAreOld
    PROVE  OneSourcePerConversion'
<1> SUFFICES ASSUME NEW i \in Jobs, NEW k \in Jobs, source'[i] # "none", source'[k] # "none",
                    job'[i].script = job'[k].script, i # k
             PROVE  FALSE
  BY DEF OneSourcePerConversion
<1>1. CASE source[i] # "none" /\ source[k] # "none" /\ job'[i].script = job[i].script
           /\ job'[k].script = job[k].script
  BY <1>1 DEF OneSourcePerConversion
<1>2. CASE ~ Converted(job'[i].script) /\ \A l \in Jobs \ {i} : job'[l].script = job[l].script
                                                              /\ source'[l] = source[l]
  BY <1>2 DEF Converted
<1>3. CASE ~ Converted(job'[k].script) /\ \A l \in Jobs \ {k} : job'[l].script = job[l].script
                                                              /\ source'[l] = source[l]
  BY <1>3 DEF Converted
<1> QED
  BY <1>1, <1>2, <1>3 DEF SourcesAreOld

LEMMA InvStep == Inv /\ [Next]_vars => Inv'
<1> SUFFICES ASSUME Inv, [Next]_vars PROVE Inv'
  OBVIOUS
<1>1. CASE Next
  BY <1>1, ActionsAreGood, SourcesStayUnique DEF Inv, StepIsGood
<1>2. CASE UNCHANGED vars
  <2>1. TypeOK'
    BY <1>2 DEF Inv, TypeOK, vars, bounds
  <2>2. \A j \in Jobs : Good(j)'
    BY <1>2 DEF Inv, Good, RowIsRight, SourceIsLast, DraftIsNamed, SentIsTraced, TrailIsFollowed,
       vars, bounds
  <2>3. OneSourcePerConversion'
    BY <1>2 DEF Inv, OneSourcePerConversion, vars
  <2>4. CopyIsSafe'
    BY <1>2 DEF Inv, CopyIsSafe, Referenced, CountsOnRaw, At, vars
  <2> QED
    BY <2>1, <2>2, <2>3, <2>4 DEF Inv
<1> QED
  BY <1>1, <1>2

LEMMA AlwaysInv == Spec => []Inv
BY InitInv, InvStep, PTL DEF Spec

-----------------------------------------------------------------------------
(* The theorems.                                                           *)

(* Every variable has its type: no attempt is counted past the limit, and  *)
(* no version of a script is zero.                                         *)
THEOREM TypeCorrect == Spec => []TypeOK
<1>1. Inv => TypeOK
  BY DEF Inv
<1> QED
  BY <1>1, AlwaysInv, PTL

(* One script makes at most one source of the raw file, whichever jobs run *)
(* it, register, fail, are lost in a restart or lose their source.         *)
THEOREM ConversionsAreUnique == Spec => []OneSourcePerConversion
<1>1. Inv => OneSourcePerConversion
  BY DEF Inv
<1> QED
  BY <1>1, AlwaysInv, PTL

(* No failure, of its own job or of one that reuses it, and no restart     *)
(* takes the acceptance of a script back.                                  *)
THEOREM AcceptanceIsFinal == Spec => WorkingIsFinal
<1>1. Inv /\ [Next]_vars =>
        [\A s \in Scripts : script[s].status = "working" => script'[s].status = "working"]_vars
  BY ActionsAreGood DEF StepIsGood
<1> QED
  BY <1>1, AlwaysInv, PTL DEF Spec, WorkingIsFinal

(* A draft is held against the version its prompt asked for, whatever      *)
(* versions other jobs took in between.                                    *)
THEOREM JudgementIsFair == Spec => []DraftsAreJudgedFairly
<1>1. Inv => DraftsAreJudgedFairly
  BY DEF Inv, Good, DraftIsNamed, DraftsAreJudgedFairly, At, Jobs
<1> QED
  BY <1>1, AlwaysInv, PTL

(* Evidence that was sent to the model is on record in the end, unless a   *)
(* step of a job raised.                                                   *)
THEOREM SendingIsOnRecord == Spec => []SentIsOnRecord
<1>1. Inv => SentIsOnRecord
  <2> SUFFICES ASSUME Inv, NEW g \in Generations, At(g, "ended"), job[g].sent, faults = 0
               PROVE  script[g].status # "none" /\ trail[g][g] # "none"
    BY DEF SentIsOnRecord
  <2>1. RowIsRight(g) /\ SentIsTraced(g)
    BY DEF Inv, Good, Jobs
  <2> QED
    BY <2>1 DEF RowIsRight, SentIsTraced, At
<1> QED
  BY <1>1, AlwaysInv, PTL

(* A trail ends in a successful full run only for a job whose product      *)
(* landed, or whose failure could not be recorded.                         *)
THEOREM TrailIsTrue == Spec => []TrailTellsTheFate
<1>1. Inv => TrailTellsTheFate
  BY DEF Inv, Good, TrailIsFollowed, TrailTellsTheFate, At
<1> QED
  BY <1>1, AlwaysInv, PTL

(* What a script or a source refers to is retained, unless a clean-up and  *)
(* a new reference overlapped.                                             *)
THEOREM CopyIsKept == Spec => []RawIsRetained
<1>1. Inv => RawIsRetained
  BY DEF Inv, CopyIsSafe, RawIsRetained
<1> QED
  BY <1>1, AlwaysInv, PTL
=============================================================================
