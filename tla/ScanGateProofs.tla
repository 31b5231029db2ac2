---------------------------- MODULE ScanGateProofs ----------------------------
(***************************************************************************)
(* Proofs about ScanGate, for every number of scans, gate sizes, threads,  *)
(* queries and failures, and every combination of settings.                *)
(***************************************************************************)
EXTENDS ScanGate, FiniteSetTheorems, SequenceTheorems, TLAPS

USE BudgetAssumption, ScanAssumption

-----------------------------------------------------------------------------
(* The inductive invariant.                                                *)

(* Which scans get where.                                                  *)
Shape ==
    \A s \in Scans :
        /\ pc[s] \in {"slot", "audit", "respond", "dropped", "drain"} => kind[s] = "export"
        /\ pc[s] \in {"put", "end", "error"} => kind[s] = "rule"
        /\ pc[s] = "killed" \/ kill[s] # "no" => kind[s] \in Requests

Inv == TypeOK /\ Shape /\ GatesAddUp

(* The batches in the queue of a rule scan, behind which an end mark or an *)
(* exception may stand.                                                    *)
Marked(q)  == q # <<>> /\ q[Len(q)] # "put"
Pending(q) == IF Marked(q) THEN Len(q) - 1 ELSE Len(q)
InOrder(q) == \A i \in 1 .. Len(q) : q[i] # "put" => i = Len(q)

(* Every batch that was read is stored, in hand, in the queue, or about to *)
(* be put there.                                                           *)
BatchesAddUp ==
    \A s \in Scans :
        /\ s \in stopped <=> outcome[s] # "none"
        /\ InOrder(queue[s])
        /\ Marked(queue[s]) => pc[s] = "over"
        /\ pc[s] = "end" \/ (Marked(queue[s]) /\ queue[s][Len(queue[s])] = "end")
             => sent[s] = Batches
        /\ s \notin stopped =>
             taken[s] + Pending(queue[s]) + (IF pc[s] = "put" THEN 1 ELSE 0) = sent[s]
        /\ outcome[s] = "ok" => matched[s] = Batches

-----------------------------------------------------------------------------
(* The accounts.                                                           *)

LEMMA Gating ==
    ASSUME NEW s \in Scans
    PROVE  Gate(s) \in {"heavy", "chart"} /\ Gate(s) \in Gates /\ "export" \in Gates
           /\ {"heavy", "chart"} \subseteq Gates
BY DEF Gate, Gates

InWork(g)    == {s \in Scans : pc[s] \in Scanning /\ Gate(s) = g}
InExport     == {s \in Scans : kind[s] = "export" /\ pc[s] \in Streaming \cup {"dropped"}}
InQueue(g)   == {s \in Scans : pc[s] \in Parked /\ Gate(s) = g}

(* One scan moves, and what it holds follows.                              *)
LEMMA SlotsFollow ==
    ASSUME TypeOK, SlotsMatchWork, OnlyDroppedResponsesLeak,
           NEW s \in Scans, NEW p \in States, pc' = [pc EXCEPT ![s] = p], kind' = kind,
           holds' \in [Gates -> SUBSET Scans],
           \A g \in Gates : \A t \in Scans \ {s} : t \in holds'[g] <=> t \in holds[g],
           \A g \in {"heavy", "chart"} : s \in holds'[g] <=> p \in Scanning /\ Gate(s) = g,
           s \in holds'["export"] <=> kind[s] = "export" /\ p \in Streaming \cup {"dropped"}
    PROVE  SlotsMatchWork' /\ OnlyDroppedResponsesLeak'
<1>0. pc \in [Scans -> States]
  BY DEF TypeOK
<1>1. \A t \in Scans \ {s} : pc'[t] = pc[t]
  BY <1>0
<1>2. pc'[s] = p
  BY <1>0
<1>3. \A t : Gate(t)' = Gate(t)
  BY DEF Gate
<1>4. ASSUME NEW g \in {"heavy", "chart"}
      PROVE  holds'[g] = {t \in Scans : pc'[t] \in Scanning /\ Gate(t)' = g}
  <2>1. g \in Gates /\ holds'[g] \subseteq Scans
    BY <1>4, Gating DEF Gates
  <2>2. ASSUME NEW t \in Scans
        PROVE  t \in holds'[g] <=> pc'[t] \in Scanning /\ Gate(t)' = g
    <3>1. CASE t = s
      BY <1>2, <1>3, <1>4, <3>1
    <3>2. CASE t # s
      BY <1>1, <1>3, <1>4, <2>1, <3>2 DEF SlotsMatchWork
    <3> QED
      BY <3>1, <3>2
  <2> QED
    BY <2>1, <2>2
<1>5. holds'["export"] =
        {t \in Scans : kind'[t] = "export" /\ pc'[t] \in Streaming \cup {"dropped"}}
  <2>1. "export" \in Gates /\ holds'["export"] \subseteq Scans
    BY DEF Gates
  <2>2. ASSUME NEW t \in Scans
        PROVE  t \in holds'["export"] <=>
                 kind'[t] = "export" /\ pc'[t] \in Streaming \cup {"dropped"}
    <3>1. CASE t = s
      BY <1>2, <3>1
    <3>2. CASE t # s
      BY <1>1, <2>1, <3>2 DEF OnlyDroppedResponsesLeak
    <3> QED
      BY <3>1, <3>2
  <2> QED
    BY <2>1, <2>2
<1> QED
  BY <1>4, <1>5 DEF SlotsMatchWork, OnlyDroppedResponsesLeak

(* One scan moves and holds what it held.                                  *)
LEMMA SlotsStay ==
    ASSUME TypeOK, SlotsMatchWork, OnlyDroppedResponsesLeak,
           NEW s \in Scans, NEW p \in States, pc' = [pc EXCEPT ![s] = p],
           kind' = kind, holds' = holds,
           p \in Scanning <=> pc[s] \in Scanning,
           kind[s] = "export" =>
             (p \in Streaming \cup {"dropped"} <=> pc[s] \in Streaming \cup {"dropped"})
    PROVE  SlotsMatchWork' /\ OnlyDroppedResponsesLeak'
<1>1. holds \in [Gates -> SUBSET Scans]
  BY DEF TypeOK
<1>2. \A g \in {"heavy", "chart"} : s \in holds'[g] <=> p \in Scanning /\ Gate(s) = g
  BY DEF SlotsMatchWork
<1>3. s \in holds'["export"] <=> kind[s] = "export" /\ p \in Streaming \cup {"dropped"}
  BY DEF OnlyDroppedResponsesLeak
<1> QED
  BY <1>1, <1>2, <1>3, SlotsFollow

(* A scan that ends gives back all it holds.                               *)
LEMMA SlotsReturn ==
    ASSUME TypeOK, SlotsMatchWork, OnlyDroppedResponsesLeak, NEW s \in Scans, End(s), kind' = kind
    PROVE  /\ SlotsMatchWork' /\ OnlyDroppedResponsesLeak'
           /\ holds' \in [Gates -> SUBSET Scans] /\ threads' \in SUBSET Scans
           /\ pc' = [pc EXCEPT ![s] = "over"]
<1>0. holds \in [Gates -> SUBSET Scans] /\ threads \in SUBSET Scans
  BY DEF TypeOK
<1>1. /\ pc' = [pc EXCEPT ![s] = "over"] /\ threads' \in SUBSET Scans
      /\ holds' = [g \in Gates |-> holds[g] \ {s}]
  BY <1>0 DEF End, Goto, Released
<1>2. holds' \in [Gates -> SUBSET Scans]
  BY <1>0, <1>1
<1>3. "over" \in States /\ "over" \notin Scanning /\ "over" \notin Streaming \cup {"dropped"}
  BY DEF States, Scanning, Streaming
<1>4. \A g \in Gates : \A t \in Scans \ {s} : t \in holds'[g] <=> t \in holds[g]
  BY <1>1
<1>5. \A g \in Gates : s \notin holds'[g]
  BY <1>1
<1>6. \A g \in {"heavy", "chart"} : s \in holds'[g] <=> "over" \in Scanning /\ Gate(s) = g
  BY <1>3, <1>5 DEF Gates
<1>7. s \in holds'["export"] <=> kind[s] = "export" /\ "over" \in Streaming \cup {"dropped"}
  BY <1>3, <1>5 DEF Gates
<1> QED
  BY <1>1, <1>2, <1>3, <1>4, <1>6, <1>7, SlotsFollow

(* One scan moves, and the counters follow.                                *)
LEMMA QueueFollows ==
    ASSUME TypeOK, WaitingIsParked, NEW s \in Scans, NEW p \in States,
           pc' = [pc EXCEPT ![s] = p], kind' = kind,
           \/ /\ p \in Parked <=> pc[s] \in Parked
              /\ waiting' = waiting
           \/ /\ p \in Parked /\ pc[s] \notin Parked
              /\ waiting' = [waiting EXCEPT ![Gate(s)] = @ + 1]
           \/ /\ p \notin Parked /\ pc[s] \in Parked
              /\ waiting' = [waiting EXCEPT ![Gate(s)] = @ - 1]
    PROVE  WaitingIsParked' /\ waiting' \in [Gates -> Nat]
<1>0. pc \in [Scans -> States] /\ waiting \in [Gates -> Nat] /\ Gate(s) \in Gates
      /\ Gate(s) \in {"heavy", "chart"}
  BY Gating DEF TypeOK
<1>1. (\A t \in Scans \ {s} : pc'[t] = pc[t]) /\ pc'[s] = p /\ \A t : Gate(t)' = Gate(t)
  BY <1>0 DEF Gate
<1>2. ASSUME NEW g \in {"heavy", "chart"}
      PROVE  IsFiniteSet(InQueue(g)) /\ Cardinality(InQueue(g)) \in Nat
             /\ waiting[g] = Cardinality(InQueue(g))
  <2>1. InQueue(g) \subseteq Scans
    BY DEF InQueue
  <2>2. IsFiniteSet(InQueue(g))
    BY <2>1, FS_Subset
  <2> QED
    BY <1>2, <2>2, FS_CardinalityType DEF WaitingIsParked, InQueue
<1>3. ASSUME NEW g \in {"heavy", "chart"}
      PROVE  waiting'[g] = Cardinality(InQueue(g)')
  <2>1. CASE g # Gate(s) \/ (p \in Parked <=> pc[s] \in Parked)
    <3>1. InQueue(g)' = InQueue(g)
      BY <1>1, <2>1 DEF InQueue
    <3>2. waiting'[g] = waiting[g]
      BY <1>0, <2>1, Gating
    <3> QED
      BY <1>2, <3>1, <3>2
  <2>2. CASE g = Gate(s) /\ p \in Parked /\ pc[s] \notin Parked
    <3>1. InQueue(g)' = InQueue(g) \cup {s} /\ s \notin InQueue(g)
      BY <1>1, <2>2 DEF InQueue
    <3>2. waiting'[g] = waiting[g] + 1
      BY <1>0, <2>2
    <3>3. Cardinality(InQueue(g) \cup {s}) = Cardinality(InQueue(g)) + 1
      BY <1>2, <3>1, FS_AddElement
    <3> QED
      BY <1>2, <3>1, <3>2, <3>3
  <2>3. CASE g = Gate(s) /\ p \notin Parked /\ pc[s] \in Parked
    <3>1. InQueue(g)' = InQueue(g) \ {s} /\ s \in InQueue(g)
      BY <1>1, <2>3 DEF InQueue
    <3>2. waiting'[g] = waiting[g] - 1
      BY <1>0, <2>3
    <3>3. Cardinality(InQueue(g) \ {s}) = Cardinality(InQueue(g)) - 1
      BY <1>2, <3>1, FS_RemoveElement
    <3> QED
      BY <1>2, <3>1, <3>2, <3>3
  <2> QED
    BY <2>1, <2>2, <2>3
<1>4. WaitingIsParked'
  BY <1>3 DEF WaitingIsParked, InQueue
<1>5. ASSUME NEW g \in {"heavy", "chart"} PROVE Cardinality(InQueue(g)') \in Nat
  <2>1. InQueue(g)' \subseteq Scans
    BY DEF InQueue
  <2> QED
    BY <2>1, FS_Subset, FS_CardinalityType
<1>6. \A g \in Gates : waiting'[g] \in Nat
  <2>1. waiting'["export"] = waiting["export"]
    BY <1>0 DEF Gates
  <2> QED
    BY <1>0, <1>3, <1>5, <2>1 DEF Gates
<1>7. waiting' \in [Gates -> Nat]
  BY <1>0, <1>6
<1> QED
  BY <1>4, <1>7

-----------------------------------------------------------------------------
(* Every step keeps the accounts.                                          *)

Accounts == GatesAddUp /\ holds \in [Gates -> SUBSET Scans] /\ waiting \in [Gates -> Nat]

(* A scan goes on with what it holds.                                      *)
LEMMA GoesOn ==
    ASSUME Inv, NEW s \in Scans, NEW p \in States,
           pc' = [pc EXCEPT ![s] = p], kind' = kind, holds' = holds,
           p \in Scanning <=> pc[s] \in Scanning,
           kind[s] = "export" =>
             (p \in Streaming \cup {"dropped"} <=> pc[s] \in Streaming \cup {"dropped"}),
           \/ /\ p \in Parked <=> pc[s] \in Parked
              /\ waiting' = waiting
           \/ /\ p \in Parked /\ pc[s] \notin Parked
              /\ waiting' = [waiting EXCEPT ![Gate(s)] = @ + 1]
    PROVE  Accounts'
<1>1. TypeOK /\ SlotsMatchWork /\ OnlyDroppedResponsesLeak /\ WaitingIsParked
  BY DEF Inv, GatesAddUp
<1>2. SlotsMatchWork' /\ OnlyDroppedResponsesLeak'
  BY <1>1, SlotsStay
<1>3. WaitingIsParked' /\ waiting' \in [Gates -> Nat]
  BY <1>1, QueueFollows
<1> QED
  BY <1>1, <1>2, <1>3 DEF Accounts, GatesAddUp, TypeOK

(* A scan ends.                                                            *)
LEMMA Ends ==
    ASSUME Inv, NEW s \in Scans, End(s), kind' = kind,
           \/ pc[s] \notin Parked /\ waiting' = waiting
           \/ pc[s] \in Parked /\ waiting' = [waiting EXCEPT ![Gate(s)] = @ - 1]
    PROVE  Accounts' /\ threads' \in SUBSET Scans /\ pc' = [pc EXCEPT ![s] = "over"]
<1>1. TypeOK /\ SlotsMatchWork /\ OnlyDroppedResponsesLeak /\ WaitingIsParked
  BY DEF Inv, GatesAddUp
<1>2. /\ SlotsMatchWork' /\ OnlyDroppedResponsesLeak' /\ holds' \in [Gates -> SUBSET Scans]
      /\ pc' = [pc EXCEPT ![s] = "over"] /\ threads' \in SUBSET Scans
  BY <1>1, SlotsReturn
<1>3. "over" \in States /\ "over" \notin Parked
  BY DEF States, Parked
<1>4. WaitingIsParked' /\ waiting' \in [Gates -> Nat]
  BY <1>1, <1>2, <1>3, QueueFollows
<1> QED
  BY <1>2, <1>4 DEF Accounts, GatesAddUp

(* A scan takes a slot of gate g.                                          *)
LEMMA Takes ==
    ASSUME Inv, NEW s \in Scans, NEW p \in States,
           pc' = [pc EXCEPT ![s] = p], kind' = kind,
           NEW g \in Gates, holds' \in [Gates -> SUBSET Scans],
           \A h \in Gates : \A t \in Scans :
              t \in holds'[h] <=> (t \in holds[h] \/ (h = g /\ t = s)),
           \A h \in {"heavy", "chart"} :
              (p \in Scanning /\ Gate(s) = h) <=>
                 (h = g \/ (pc[s] \in Scanning /\ Gate(s) = h)),
           (kind[s] = "export" /\ p \in Streaming \cup {"dropped"}) <=>
              (g = "export" \/ (kind[s] = "export" /\ pc[s] \in Streaming \cup {"dropped"})),
           WaitingIsParked', waiting' \in [Gates -> Nat]
    PROVE  Accounts'
<1>1. TypeOK /\ SlotsMatchWork /\ OnlyDroppedResponsesLeak
      /\ holds \in [Gates -> SUBSET Scans]
  BY DEF Inv, GatesAddUp, TypeOK
<1>3. \A h \in Gates : \A t \in Scans \ {s} : t \in holds'[h] <=> t \in holds[h]
  OBVIOUS
<1>4. \A h \in Gates : s \in holds'[h] <=> h = g \/ s \in holds[h]
  OBVIOUS
<1>5. \A h \in {"heavy", "chart"} : s \in holds'[h] <=> p \in Scanning /\ Gate(s) = h
  BY <1>1, <1>4, Gating DEF SlotsMatchWork
<1>6. s \in holds'["export"] <=> kind[s] = "export" /\ p \in Streaming \cup {"dropped"}
  BY <1>1, <1>4, Gating DEF OnlyDroppedResponsesLeak
<1>7. SlotsMatchWork' /\ OnlyDroppedResponsesLeak'
  BY <1>1, <1>3, <1>5, <1>6, SlotsFollow
<1> QED
  BY <1>7 DEF Accounts, GatesAddUp

(* A scan gives its slot of gate g back.                                   *)
LEMMA Gives ==
    ASSUME Inv, NEW s \in Scans, NEW p \in States,
           pc' = [pc EXCEPT ![s] = p], kind' = kind,
           NEW g \in Gates, holds' = [holds EXCEPT ![g] = @ \ {s}],
           \A h \in {"heavy", "chart"} :
              (p \in Scanning /\ Gate(s) = h) <=>
                 (h # g /\ (pc[s] \in Scanning /\ Gate(s) = h)),
           (kind[s] = "export" /\ p \in Streaming \cup {"dropped"}) <=>
              (g # "export" /\ (kind[s] = "export" /\ pc[s] \in Streaming \cup {"dropped"})),
           WaitingIsParked', waiting' \in [Gates -> Nat]
    PROVE  Accounts'
<1>1. TypeOK /\ SlotsMatchWork /\ OnlyDroppedResponsesLeak
      /\ holds \in [Gates -> SUBSET Scans]
  BY DEF Inv, GatesAddUp, TypeOK
<1>2. holds' \in [Gates -> SUBSET Scans]
  BY <1>1
<1>3. \A h \in Gates : \A t \in Scans \ {s} : t \in holds'[h] <=> t \in holds[h]
  BY <1>1
<1>4. \A h \in Gates : s \in holds'[h] <=> h # g /\ s \in holds[h]
  BY <1>1
<1>5. \A h \in {"heavy", "chart"} : s \in holds'[h] <=> p \in Scanning /\ Gate(s) = h
  BY <1>1, <1>4, Gating DEF SlotsMatchWork
<1>6. s \in holds'["export"] <=> kind[s] = "export" /\ p \in Streaming \cup {"dropped"}
  BY <1>1, <1>4, Gating DEF OnlyDroppedResponsesLeak
<1>7. SlotsMatchWork' /\ OnlyDroppedResponsesLeak'
  BY <1>1, <1>2, <1>3, <1>5, <1>6, SlotsFollow
<1> QED
  BY <1>2, <1>7 DEF Accounts, GatesAddUp

LEMMA SameAccounts ==
    ASSUME Inv, UNCHANGED <<kind, pc, holds, waiting>>
    PROVE  Accounts'
BY DEF Inv, Accounts, GatesAddUp, TypeOK, SlotsMatchWork, OnlyDroppedResponsesLeak,
       WaitingIsParked, Gate

LEMMA StepAccounts ==
    ASSUME Inv, NEW s \in Scans,
           \/ Proceed(s) \/ KillScanQueries(s) \/ Take(s) \/ Annotate(s) \/ Environment(s)
    PROVE  Accounts'
<1>0. /\ TypeOK /\ Shape /\ SlotsMatchWork /\ OnlyDroppedResponsesLeak /\ WaitingIsParked
      /\ pc[s] \in States /\ holds \in [Gates -> SUBSET Scans]
      /\ "export" \in Gates /\ "heavy" \in Gates
  BY Gating DEF Inv, TypeOK, GatesAddUp
<1>a. ASSUME NEW p \in States, Goto(s, p) PROVE pc' = [pc EXCEPT ![s] = p]
  BY <1>a DEF Goto
<1> USE DEF Parked, Scanning, Streaming
<1>1. CASE Submit(s)
  <2>1. CASE Goto(s, "queued") /\ waiting' = waiting
    BY <1>1, <2>1, GoesOn DEF Submit, Goto, States
  <2>2. CASE kind[s] = "rule" /\ Park(s)
    BY <1>1, <2>2, GoesOn DEF Submit, Goto, Park, States
  <2> QED
    BY <1>1, <2>1, <2>2 DEF Submit
<1>2. CASE TakeThread(s)
  <2>1. CASE Goto(s, "slot") /\ waiting' = waiting
    BY <1>2, <2>1, GoesOn DEF TakeThread, Goto, States
  <2>2. CASE kind[s] # "export" /\ Park(s)
    BY <1>2, <2>2, GoesOn DEF TakeThread, Goto, Park, States
  <2> QED
    BY <1>2, <2>1, <2>2 DEF TakeThread
<1>3. CASE GiveUp(s)
  BY <1>3, Ends DEF GiveUp, Unpark
<1>4. CASE Try(s)
  BY <1>4, GoesOn DEF Try, Goto, States
<1>5. CASE Acquire(s)
  <2>1. /\ pc[s] = "try" /\ pc' = [pc EXCEPT ![s] = "start"] /\ kind' = kind
        /\ waiting' = [waiting EXCEPT ![Gate(s)] = @ - 1]
        /\ holds' = [holds EXCEPT ![Gate(s)] = @ \cup {s}]
    BY <1>5 DEF Acquire, Goto
  <2>2. "start" \in States /\ Gate(s) \in Gates /\ Gate(s) # "export"
    BY Gating DEF States
  <2>8. \A h \in {"heavy", "chart"} :
           ("start" \in Scanning /\ Gate(s) = h) <=>
             (h = Gate(s) \/ (pc[s] \in Scanning /\ Gate(s) = h))
    BY <2>1, <2>2
  <2>9. (kind[s] = "export" /\ "start" \in Streaming \cup {"dropped"}) <=>
           (Gate(s) = "export" \/ (kind[s] = "export" /\ pc[s] \in Streaming \cup {"dropped"}))
    BY <2>1, <2>2
  <2>6. /\ holds' \in [Gates -> SUBSET Scans]
        /\ \A h \in Gates : \A t \in Scans :
             t \in holds'[h] <=> (t \in holds[h] \/ (h = Gate(s) /\ t = s))
    BY <1>0, <2>1, <2>2
  <2>7. WaitingIsParked' /\ waiting' \in [Gates -> Nat]
    BY <1>0, <2>1, <2>2, QueueFollows
  <2> QED
    BY <2>1, <2>2, <2>6, <2>7, <2>8, <2>9, Takes
<1>6. CASE PollAgain(s)
  BY <1>6, GoesOn DEF PollAgain, Goto, States
<1>7. CASE StartQuery(s)
  BY <1>7, GoesOn DEF StartQuery, Goto, States
<1>8. CASE FinishQuery(s)
  <2>1. CASE Goto(s, "start") /\ holds' = holds
    BY <1>8, <2>1, GoesOn DEF FinishQuery, Goto, States
  <2>2. CASE End(s)
    BY <1>8, <2>2, Ends DEF FinishQuery
  <2> QED
    BY <1>8, <2>1, <2>2 DEF FinishQuery
<1>9. CASE FailQuery(s)
  <2>1. CASE End(s)
    BY <1>9, <2>1, Ends DEF FailQuery
  <2>2. CASE /\ kind[s] = "rule"
             /\ holds' = [holds EXCEPT !["heavy"] = @ \ {s}]
             /\ Goto(s, "error")
    <3>1. /\ pc[s] = "run" /\ pc' = [pc EXCEPT ![s] = "error"] /\ kind' = kind
          /\ waiting' = waiting /\ holds' = [holds EXCEPT !["heavy"] = @ \ {s}]
      BY <1>9, <2>2 DEF FailQuery, Goto
    <3>2. "error" \in States /\ Gate(s) = "heavy"
      BY <2>2 DEF States, Gate
    <3>8. \A h \in {"heavy", "chart"} :
             ("error" \in Scanning /\ Gate(s) = h) <=>
               (h # "heavy" /\ (pc[s] \in Scanning /\ Gate(s) = h))
      BY <2>2, <3>1, <3>2
    <3>9. (kind[s] = "export" /\ "error" \in Streaming \cup {"dropped"}) <=>
             ("heavy" # "export" /\ (kind[s] = "export" /\ pc[s] \in Streaming \cup {"dropped"}))
      BY <2>2, <3>1, <3>2
    <3>7. WaitingIsParked' /\ waiting' \in [Gates -> Nat]
      BY <1>0, <3>1, <3>2, QueueFollows
    <3> QED
      BY <3>1, <3>2, <3>7, <3>8, <3>9, <1>0, Gives
  <2> QED
    BY <1>9, <2>1, <2>2 DEF FailQuery
<1>10. CASE KillScanQueries(s)
  <2>1. CASE pc[s] = "run" /\ Goto(s, "killed")
    <3>1. kind[s] # "export"
      BY <1>0, <1>10 DEF KillScanQueries, Shape, Requests
    <3> QED
      BY <1>10, <2>1, <3>1, GoesOn DEF KillScanQueries, Goto, States
  <2>2. CASE UNCHANGED pc
    BY <1>10, <2>2, SameAccounts DEF KillScanQueries
  <2> QED
    BY <1>10, <2>1, <2>2 DEF KillScanQueries
<1>11. CASE Unwind(s)
  BY <1>11, Ends DEF Unwind
<1>12. CASE AcquireExportSlot(s)
  <2>1. CASE /\ holds' = [holds EXCEPT !["export"] = @ \cup {s}]
             /\ Goto(s, "audit")
    <3>1. /\ pc[s] = "slot" /\ pc' = [pc EXCEPT ![s] = "audit"] /\ kind' = kind
          /\ waiting' = waiting /\ holds' = [holds EXCEPT !["export"] = @ \cup {s}]
      BY <1>12, <2>1 DEF AcquireExportSlot, Goto
    <3>2. "audit" \in States /\ kind[s] = "export"
      BY <1>0, <3>1 DEF States, Shape
    <3>6. /\ holds' \in [Gates -> SUBSET Scans]
          /\ \A h \in Gates : \A t \in Scans :
               t \in holds'[h] <=> (t \in holds[h] \/ (h = "export" /\ t = s))
      BY <1>0, <3>1, <3>2
    <3>7. WaitingIsParked' /\ waiting' \in [Gates -> Nat]
      BY <1>0, <3>1, <3>2, QueueFollows
    <3>8. \A h \in {"heavy", "chart"} : s \in holds'[h] <=> "audit" \in Scanning /\ Gate(s) = h
      BY <1>0, <3>1, <3>6, Gating DEF SlotsMatchWork
    <3>9. s \in holds'["export"] <=>
            kind[s] = "export" /\ "audit" \in Streaming \cup {"dropped"}
      BY <1>0, <3>2, <3>6
    <3>10. SlotsMatchWork' /\ OnlyDroppedResponsesLeak'
      BY <1>0, <3>1, <3>2, <3>6, <3>8, <3>9, SlotsFollow
    <3> QED
      BY <3>6, <3>7, <3>10 DEF Accounts, GatesAddUp
  <2>2. CASE End(s)
    BY <1>12, <2>2, Ends DEF AcquireExportSlot
  <2> QED
    BY <1>12, <2>1, <2>2 DEF AcquireExportSlot
<1>13. CASE AuditExport(s)
  <2>1. CASE Goto(s, "respond") /\ holds' = holds
    BY <1>13, <2>1, GoesOn DEF AuditExport, Goto, States
  <2>2. CASE End(s)
    BY <1>13, <2>2, Ends DEF AuditExport
  <2> QED
    BY <1>13, <2>1, <2>2 DEF AuditExport
<1>14. CASE DropResponse(s)
  BY <1>14, GoesOn DEF DropResponse, Goto, States
<1>15. CASE StartDownload(s)
  BY <1>15, GoesOn DEF StartDownload, Goto, Park, States
<1>16. CASE ReadFirstBlock(s)
  <2>1. /\ pc[s] = "run" /\ pc' = [pc EXCEPT ![s] = "drain"] /\ kind' = kind
        /\ waiting' = waiting /\ holds' = [holds EXCEPT !["heavy"] = @ \ {s}]
        /\ kind[s] = "export"
    BY <1>16 DEF ReadFirstBlock, FirstBlock, Goto
  <2>2. "drain" \in States /\ Gate(s) = "heavy"
    BY <2>1 DEF States, Gate
  <2>8. \A h \in {"heavy", "chart"} :
           ("drain" \in Scanning /\ Gate(s) = h) <=>
             (h # "heavy" /\ (pc[s] \in Scanning /\ Gate(s) = h))
    BY <2>1, <2>2
  <2>9. (kind[s] = "export" /\ "drain" \in Streaming \cup {"dropped"}) <=>
           ("heavy" # "export" /\ (kind[s] = "export" /\ pc[s] \in Streaming \cup {"dropped"}))
    BY <2>1, <2>2
  <2>7. WaitingIsParked' /\ waiting' \in [Gates -> Nat]
    BY <1>0, <2>1, <2>2, QueueFollows
  <2> QED
    BY <1>0, <2>1, <2>2, <2>7, <2>8, <2>9, Gives
<1>17. CASE EndDownload(s)
  BY <1>17, Ends DEF EndDownload
<1>18. CASE ReadHits(s)
  <2>1. CASE Goto(s, "put") /\ holds' = holds
    BY <1>18, <2>1, GoesOn DEF ReadHits, Goto, States
  <2>2. CASE holds' = [holds EXCEPT !["heavy"] = @ \ {s}] /\ Goto(s, "end")
    <3>1. /\ pc[s] = "run" /\ pc' = [pc EXCEPT ![s] = "end"] /\ kind' = kind
          /\ waiting' = waiting /\ holds' = [holds EXCEPT !["heavy"] = @ \ {s}]
          /\ kind[s] = "rule"
      BY <1>18, <2>2 DEF ReadHits, Goto
    <3>2. "end" \in States /\ Gate(s) = "heavy"
      BY <3>1 DEF States, Gate
    <3>8. \A h \in {"heavy", "chart"} :
             ("end" \in Scanning /\ Gate(s) = h) <=>
               (h # "heavy" /\ (pc[s] \in Scanning /\ Gate(s) = h))
      BY <3>1, <3>2
    <3>9. (kind[s] = "export" /\ "end" \in Streaming \cup {"dropped"}) <=>
             ("heavy" # "export" /\ (kind[s] = "export" /\ pc[s] \in Streaming \cup {"dropped"}))
      BY <3>1, <3>2
    <3>7. WaitingIsParked' /\ waiting' \in [Gates -> Nat]
      BY <1>0, <3>1, <3>2, QueueFollows
    <3> QED
      BY <3>1, <3>2, <3>7, <3>8, <3>9, <1>0, Gives
  <2> QED
    BY <1>18, <2>1, <2>2 DEF ReadHits
<1>19. CASE Put(s)
  <2>1. CASE End(s)
    BY <1>19, <2>1, Ends DEF Put
  <2>2. CASE Goto(s, IF pc[s] = "put" THEN "run" ELSE "over") /\ holds' = holds
    <3>1. kind[s] = "rule"
      BY <1>0, <1>19 DEF Put, Shape
    <3>2. CASE pc[s] = "put"
      BY <1>19, <2>2, <3>1, <3>2, GoesOn DEF Put, Goto, States
    <3>3. CASE pc[s] # "put"
      BY <1>19, <2>2, <3>1, <3>3, GoesOn DEF Put, Goto, States
    <3> QED
      BY <3>2, <3>3
  <2> QED
    BY <1>19, <2>1, <2>2 DEF Put
<1>20. CASE Expire(s) \/ Cancel(s) \/ FailKill(s) \/ Take(s) \/ Annotate(s) \/ FailAnnotate(s)
  BY <1>20, SameAccounts DEF Expire, Cancel, FailKill, Take, Annotate, FailAnnotate
<1> QED
  BY <1>1, <1>2, <1>3, <1>4, <1>5, <1>6, <1>7, <1>8, <1>9, <1>10, <1>11, <1>12, <1>13, <1>14,
     <1>15, <1>16, <1>17, <1>18, <1>19, <1>20 DEF Proceed, Environment

-----------------------------------------------------------------------------
(* Every step keeps the types.                                             *)

(* How a step moves one scan.                                              *)
LEMMA OneMoves ==
    ASSUME TypeOK, NEW s \in Scans,
           \/ Proceed(s) \/ KillScanQueries(s) \/ Take(s) \/ Annotate(s) \/ Environment(s)
    PROVE  kind' = kind /\ \E p \in States : pc' = [pc EXCEPT ![s] = p]
<1>0. pc \in [Scans -> States]
  BY DEF TypeOK
<1>1. kind' = kind
  BY DEF Proceed, Environment, Submit, TakeThread, GiveUp, Try, Acquire, PollAgain, Expire,
         StartQuery, FinishQuery, Unwind, AcquireExportSlot, AuditExport, ReadFirstBlock,
         ReadHits, Put, Cancel, FailQuery, FailKill, FailAnnotate, DropResponse, StartDownload,
         EndDownload, KillScanQueries, Take, Annotate
<1>a. ASSUME NEW p \in States, Goto(s, p) PROVE \E q \in States : pc' = [pc EXCEPT ![s] = q]
  BY <1>a DEF Goto
<1>b. ASSUME pc' = pc PROVE \E q \in States : pc' = [pc EXCEPT ![s] = q]
  <2>1. pc[s] \in States /\ pc' = [pc EXCEPT ![s] = pc[s]]
    BY <1>0, <1>b
  <2> QED
    BY <2>1
<1>c. ASSUME End(s) \/ Park(s) PROVE \E q \in States : pc' = [pc EXCEPT ![s] = q]
  BY <1>a, <1>c DEF End, Park, States
<1>2. CASE Submit(s) \/ TakeThread(s)
  BY <1>2, <1>a, <1>c DEF Submit, TakeThread, States
<1>3. CASE GiveUp(s) \/ Unwind(s) \/ EndDownload(s)
  BY <1>3, <1>c DEF GiveUp, Unwind, EndDownload
<1>4. CASE Try(s) \/ Acquire(s) \/ PollAgain(s) \/ StartQuery(s) \/ DropResponse(s)
           \/ ReadFirstBlock(s)
  BY <1>4, <1>a DEF Try, Acquire, PollAgain, StartQuery, DropResponse, ReadFirstBlock, States
<1>5. CASE FinishQuery(s) \/ FailQuery(s) \/ AcquireExportSlot(s) \/ AuditExport(s)
  BY <1>5, <1>a, <1>c DEF FinishQuery, FailQuery, AcquireExportSlot, AuditExport, States
<1>6. CASE KillScanQueries(s)
  BY <1>6, <1>a, <1>b DEF KillScanQueries, States
<1>7. CASE StartDownload(s)
  BY <1>7, <1>c DEF StartDownload
<1>8. CASE ReadHits(s)
  BY <1>8, <1>a DEF ReadHits, States
<1>9. CASE Put(s)
  BY <1>9, <1>a, <1>c DEF Put, States
<1>10. CASE Expire(s) \/ Cancel(s) \/ FailKill(s) \/ Take(s) \/ Annotate(s) \/ FailAnnotate(s)
  BY <1>10, <1>b DEF Expire, Cancel, FailKill, Take, Annotate, FailAnnotate
<1> QED
  BY <1>1, <1>2, <1>3, <1>4, <1>5, <1>6, <1>7, <1>8, <1>9, <1>10 DEF Proceed, Environment

LEMMA StepShape ==
    ASSUME Inv, NEW s \in Scans,
           \/ Proceed(s) \/ KillScanQueries(s) \/ Take(s) \/ Annotate(s) \/ Environment(s)
    PROVE  Shape'
<1>0. TypeOK /\ Shape /\ pc \in [Scans -> States] /\ kill \in [Scans -> {"no", "sent", "done"}]
  BY DEF Inv, TypeOK
<1>1. kind' = kind
  BY <1>0, OneMoves
<1>2. ASSUME NEW t \in Scans, t # s PROVE pc'[t] = pc[t] /\ kill'[t] = kill[t]
  <2>1. pc'[t] = pc[t]
    BY <1>0, <1>2, OneMoves
  <2>2. kill'[t] = kill[t]
    BY <1>0, <1>2
    DEF Proceed, Environment, Submit, TakeThread, GiveUp, Try, Acquire, PollAgain, Expire,
        StartQuery, FinishQuery, Unwind, AcquireExportSlot, AuditExport, ReadFirstBlock,
        ReadHits, Put, Cancel, FailQuery, FailKill, FailAnnotate, DropResponse, StartDownload,
        EndDownload, KillScanQueries, Take, Annotate, killVars
  <2> QED
    BY <2>1, <2>2
<1>a. ASSUME kill'[s] # "no" => kind[s] \in Requests \/ kill[s] # "no",
             pc'[s] \in {"slot", "audit", "respond", "dropped", "drain"} => kind[s] = "export",
             pc'[s] \in {"put", "end", "error"} => kind[s] = "rule",
             pc'[s] = "killed" => kind[s] \in Requests
      PROVE  Shape'
  BY <1>0, <1>1, <1>2, <1>a DEF Shape
<1>b. /\ kill[s] # "no" => kind[s] \in Requests
      /\ pc[s] \in {"slot", "audit", "respond", "dropped", "drain"} => kind[s] = "export"
      /\ pc[s] \in {"put", "end", "error"} => kind[s] = "rule"
      /\ pc[s] = "killed" => kind[s] \in Requests
  BY <1>0 DEF Shape
<1>3. CASE \/ Submit(s) \/ TakeThread(s) \/ GiveUp(s) \/ Try(s) \/ Acquire(s) \/ PollAgain(s)
           \/ Expire(s) \/ StartQuery(s) \/ FinishQuery(s) \/ Unwind(s)
  BY <1>0, <1>3, <1>a, <1>b DEF Submit, TakeThread, GiveUp, Try, Acquire, PollAgain, Expire,
     StartQuery, FinishQuery, Unwind, Goto, End, Park, killVars
<1>4. CASE \/ AcquireExportSlot(s) \/ AuditExport(s) \/ ReadFirstBlock(s) \/ ReadHits(s)
           \/ Put(s) \/ FailQuery(s) \/ DropResponse(s) \/ StartDownload(s) \/ EndDownload(s)
  BY <1>0, <1>4, <1>a, <1>b DEF AcquireExportSlot, AuditExport, ReadFirstBlock, ReadHits, Put,
     FailQuery, DropResponse, StartDownload, EndDownload, Goto, End, Park, killVars
<1>5. CASE Cancel(s)
  BY <1>0, <1>5, <1>a, <1>b DEF Cancel
<1>6. CASE KillScanQueries(s) \/ FailKill(s)
  BY <1>0, <1>6, <1>a, <1>b DEF KillScanQueries, FailKill, Goto
<1>7. CASE Take(s) \/ Annotate(s) \/ FailAnnotate(s)
  BY <1>0, <1>7, <1>a, <1>b DEF Take, Annotate, FailAnnotate, killVars
<1> QED
  BY <1>3, <1>4, <1>5, <1>6, <1>7 DEF Proceed, Environment

LEMMA StepTyped ==
    ASSUME Inv, NEW s \in Scans,
           \/ Proceed(s) \/ KillScanQueries(s) \/ Take(s) \/ Annotate(s) \/ Environment(s)
    PROVE  TypeOK'
<1>0. TypeOK /\ Queries \in Nat /\ Batches \in Nat
  BY DEF Inv
<1>1. /\ kind' \in Mixes /\ pc' \in [Scans -> States]
      /\ holds' \in [Gates -> SUBSET Scans] /\ waiting' \in [Gates -> Nat]
  BY <1>0, OneMoves, StepAccounts DEF TypeOK, Accounts
<1>2. threads' \in SUBSET Scans
  BY <1>0 DEF TypeOK, Proceed, Environment, Submit, TakeThread, GiveUp, Try, Acquire, PollAgain,
     Expire, StartQuery, FinishQuery, Unwind, AcquireExportSlot, AuditExport, ReadFirstBlock,
     ReadHits, Put, Cancel, FailQuery, FailKill, FailAnnotate, DropResponse, StartDownload,
     EndDownload, KillScanQueries, Take, Annotate, End
<1>3. left' \in [Scans -> 0 .. Queries]
  <2>1. CASE FinishQuery(s)
    <3>1. left[s] \in 1 .. Queries /\ left' = [left EXCEPT ![s] = @ - 1]
      BY <1>0, <2>1 DEF FinishQuery, TypeOK
    <3>2. left[s] - 1 \in 0 .. Queries
      BY <1>0, <3>1
    <3> QED
      BY <1>0, <3>1, <3>2 DEF TypeOK
  <2>2. CASE ~ FinishQuery(s)
    BY <1>0, <2>2 DEF TypeOK, Proceed, Environment, Submit, TakeThread, GiveUp, Try, Acquire,
       PollAgain, Expire, StartQuery, Unwind, AcquireExportSlot, AuditExport, ReadFirstBlock,
       ReadHits, Put, Cancel, FailQuery, FailKill, FailAnnotate, DropResponse, StartDownload,
       EndDownload, KillScanQueries, Take, Annotate
  <2> QED
    BY <2>1, <2>2
<1>4. /\ expired' \in SUBSET Scans /\ cancelled' \in SUBSET Scans
      /\ kill' \in [Scans -> {"no", "sent", "done"}] /\ fails' \in Nat
  <2>1. expired' \in SUBSET Scans /\ cancelled' \in SUBSET Scans
    BY <1>0 DEF TypeOK, Proceed, Environment, Submit, TakeThread, GiveUp, Try, Acquire, PollAgain,
       Expire, StartQuery, FinishQuery, Unwind, AcquireExportSlot, AuditExport, ReadFirstBlock,
       ReadHits, Put, Cancel, FailQuery, FailKill, FailAnnotate, DropResponse, StartDownload,
       EndDownload, KillScanQueries, Take, Annotate, killVars
  <2>2. \/ kill' = kill
        \/ kill' = [kill EXCEPT ![s] = "sent"]
        \/ kill' = [kill EXCEPT ![s] = "done"]
    BY <1>0 DEF Proceed, Environment, Submit, TakeThread, GiveUp, Try, Acquire, PollAgain,
       Expire, StartQuery, FinishQuery, Unwind, AcquireExportSlot, AuditExport, ReadFirstBlock,
       ReadHits, Put, Cancel, FailQuery, FailKill, FailAnnotate, DropResponse, StartDownload,
       EndDownload, KillScanQueries, Take, Annotate, killVars
  <2>3. fails' = fails \/ fails' = fails + 1
    BY <1>0 DEF Failing, Proceed, Environment, Submit, TakeThread, GiveUp, Try, Acquire, PollAgain,
       Expire, StartQuery, FinishQuery, Unwind, AcquireExportSlot, AuditExport, ReadFirstBlock,
       ReadHits, Put, Cancel, FailQuery, FailKill, FailAnnotate, DropResponse, StartDownload,
       EndDownload, KillScanQueries, Take, Annotate, killVars
  <2>4. kill' \in [Scans -> {"no", "sent", "done"}]
    <3>1. kill \in [Scans -> {"no", "sent", "done"}]
      BY <1>0 DEF TypeOK
    <3> QED
      BY <2>2, <3>1
  <2>5. fails' \in Nat
    BY <1>0, <2>3 DEF TypeOK
  <2> QED
    BY <2>1, <2>4, <2>5
<1>5. /\ queue' \in [Scans -> Seq({"put", "end", "error"})] /\ sent' \in [Scans -> 0 .. Batches]
      /\ stopped' \in SUBSET Scans /\ taken' \in [Scans -> Nat] /\ matched' \in [Scans -> Nat]
      /\ outcome' \in [Scans -> {"none", "ok", "error"}]
  <2>0. /\ queue \in [Scans -> Seq({"put", "end", "error"})] /\ sent \in [Scans -> 0 .. Batches]
        /\ stopped \in SUBSET Scans /\ taken \in [Scans -> Nat] /\ matched \in [Scans -> Nat]
        /\ outcome \in [Scans -> {"none", "ok", "error"}]
    BY <1>0 DEF TypeOK
  <2>1. CASE UNCHANGED ruleVars
    BY <2>0, <2>1 DEF ruleVars
  <2>2. CASE ReadHits(s)
    <3>1. CASE sent[s] # Batches /\ sent' = [sent EXCEPT ![s] = @ + 1]
      <4>1. sent[s] + 1 \in 0 .. Batches
        BY <1>0, <2>0, <3>1
      <4> QED
        BY <2>0, <2>2, <3>1, <4>1 DEF ReadHits
    <3>2. CASE sent' = sent
      BY <2>0, <2>2, <3>2 DEF ReadHits
    <3> QED
      BY <2>2, <3>1, <3>2 DEF ReadHits, Exhausted
  <2>3. CASE Put(s)
    <3>1. CASE queue' = queue
      BY <2>0, <2>3, <3>1 DEF Put
    <3>2. CASE queue' = [queue EXCEPT ![s] = Append(@, pc[s])]
      <4>1. Append(queue[s], pc[s]) \in Seq({"put", "end", "error"})
        BY <2>0, <2>3 DEF Put
      <4> QED
        BY <2>0, <2>3, <3>2, <4>1 DEF Put
    <3> QED
      BY <2>3, <3>1, <3>2 DEF Put
  <2>4. CASE Take(s)
    <3>0. queue[s] \in Seq({"put", "end", "error"}) /\ queue[s] # <<>>
      BY <2>0, <2>4 DEF Take
    <3>1. Tail(queue[s]) \in Seq({"put", "end", "error"})
      BY <3>0
    <3>2. queue' = [queue EXCEPT ![s] = Tail(@)] /\ sent' = sent /\ matched' = matched
      BY <2>4 DEF Take
    <3>3. queue' \in [Scans -> Seq({"put", "end", "error"})]
      BY <2>0, <3>1, <3>2
    <3>4. /\ stopped' \in SUBSET Scans /\ taken' \in [Scans -> Nat]
          /\ outcome' \in [Scans -> {"none", "ok", "error"}]
      <4>1. CASE taken' = [taken EXCEPT ![s] = @ + 1] /\ UNCHANGED <<outcome, stopped>>
        BY <2>0, <4>1
      <4>2. CASE taken' = taken /\ (Finish(s, "ok") \/ Finish(s, "error"))
        BY <2>0, <4>2 DEF Finish
      <4> QED
        BY <2>4, <4>1, <4>2 DEF Take
    <3> QED
      BY <2>0, <3>2, <3>3, <3>4
  <2>5. CASE Annotate(s)
    BY <2>0, <2>5 DEF Annotate
  <2>6. CASE FailAnnotate(s)
    BY <2>0, <2>6 DEF FailAnnotate, Finish
  <2> QED
    BY <2>1, <2>2, <2>3, <2>4, <2>5, <2>6
    DEF Proceed, Environment, Submit, TakeThread, GiveUp, Try, Acquire, PollAgain, Expire,
        StartQuery, FinishQuery, Unwind, AcquireExportSlot, AuditExport, ReadFirstBlock,
        Cancel, FailQuery, FailKill, DropResponse, StartDownload, EndDownload, KillScanQueries
<1> QED
  BY <1>1, <1>2, <1>3, <1>4, <1>5 DEF TypeOK

-----------------------------------------------------------------------------
(* The hits of a rule.                                                     *)

Items == {"put", "end", "error"}

LEMMA Popped ==
    ASSUME NEW q \in Seq(Items), q # <<>>, InOrder(q), NEW r, r = Tail(q)
    PROVE  /\ r \in Seq(Items) /\ InOrder(r) /\ Pending(r) \in Nat
           /\ Head(q) = "put" => /\ Pending(q) = Pending(r) + 1 /\ (Marked(r) <=> Marked(q))
                                 /\ Marked(q) => r[Len(r)] = q[Len(q)]
           /\ Head(q) # "put" => /\ Pending(q) = 0 /\ Marked(q) /\ q[Len(q)] = Head(q)
                                 /\ ~ Marked(r) /\ Pending(r) = 0
<1>1. /\ r \in Seq(Items) /\ Len(r) = Len(q) - 1 /\ Len(q) \in Nat /\ Len(q) > 0 /\ Len(r) \in Nat
      /\ \A i \in 1 .. Len(r) : r[i] = q[i + 1]
      /\ Head(q) = q[1]
      /\ Len(r) = 0 <=> r = <<>>
  <2>1. Len(q) \in Nat /\ Len(q) # 0 /\ Head(q) = q[1]
    BY LenProperties, EmptySeq
  <2>2. r \in Seq(Items) /\ Len(r) = Len(q) - 1 /\ \A i \in 1 .. Len(r) : r[i] = q[i + 1]
    BY HeadTailProperties
  <2>3. Len(r) = 0 <=> r = <<>>
    BY <2>2, EmptySeq
  <2> QED
    BY <2>1, <2>2, <2>3
<1>2. InOrder(r)
  <2> SUFFICES ASSUME NEW i \in 1 .. Len(r), r[i] # "put" PROVE i = Len(r)
    BY DEF InOrder
  <2>1. i + 1 \in 1 .. Len(q) /\ q[i + 1] # "put"
    BY <1>1
  <2>2. i + 1 = Len(q)
    BY <2>1 DEF InOrder
  <2>3. Len(r) = Len(q) - 1 /\ Len(q) \in Nat /\ i \in Nat
    BY <1>1
  <2> QED
    BY <2>2, <2>3
<1>3. CASE Len(q) = 1
  <2>1. r = <<>> /\ Len(r) = 0
    BY <1>1, <1>3
  <2>2. ~ Marked(r) /\ Pending(r) = 0
    BY <2>1 DEF Marked, Pending
  <2>3. q[Len(q)] = Head(q)
    BY <1>1, <1>3
  <2>4. Marked(q) <=> Head(q) # "put"
    BY <2>3 DEF Marked
  <2>5. Pending(q) = IF Head(q) # "put" THEN 0 ELSE 1
    BY <1>3, <2>4 DEF Pending
  <2> QED
    BY <1>1, <1>2, <2>2, <2>3, <2>4, <2>5
<1>4. CASE Len(q) > 1
  <2>1. Head(q) = "put"
    <3>1. 1 \in 1 .. Len(q) /\ 1 # Len(q)
      BY <1>1, <1>4
    <3>2. q[1] = "put"
      BY <3>1 DEF InOrder
    <3> QED
      BY <1>1, <3>2
  <2>2. r # <<>> /\ r[Len(r)] = q[Len(q)]
    BY <1>1, <1>4
  <2>3. Marked(r) <=> Marked(q)
    BY <2>2 DEF Marked
  <2>4. Pending(q) = Pending(r) + 1 /\ Pending(r) \in Nat
    BY <1>1, <1>4, <2>3 DEF Pending
  <2> QED
    BY <1>1, <1>2, <2>1, <2>2, <2>3, <2>4
<1>5. Len(q) = 1 \/ Len(q) > 1
  BY <1>1
<1> QED
  BY <1>3, <1>4, <1>5

LEMMA Pushed ==
    ASSUME NEW q \in Seq(Items), ~ Marked(q), InOrder(q), NEW x \in Items, NEW r, r = Append(q, x)
    PROVE  /\ r \in Seq(Items) /\ InOrder(r) /\ Pending(q) \in Nat
           /\ x = "put" => Pending(r) = Pending(q) + 1 /\ ~ Marked(r)
           /\ x # "put" => Pending(r) = Pending(q) /\ Marked(r) /\ r[Len(r)] = x
<1>1. /\ r \in Seq(Items) /\ Len(r) = Len(q) + 1 /\ Len(q) \in Nat /\ r # <<>>
      /\ \A i \in 1 .. Len(q) : r[i] = q[i]
      /\ r[Len(r)] = x
  <2>1. /\ r \in Seq(Items) /\ Len(r) = Len(q) + 1 /\ Len(q) \in Nat
        /\ \A i \in 1 .. Len(q) : r[i] = q[i]
        /\ r[Len(q) + 1] = x
    BY LenProperties, AppendProperties
  <2>2. r # <<>>
    BY <2>1, EmptySeq
  <2> QED
    BY <2>1, <2>2
<1>2. \A i \in 1 .. Len(q) : q[i] = "put"
  <2> SUFFICES ASSUME NEW i \in 1 .. Len(q), q[i] # "put" PROVE FALSE
    OBVIOUS
  <2>1. i = Len(q)
    BY DEF InOrder
  <2>2. q # <<>>
    BY <1>1, EmptySeq
  <2> QED
    BY <2>1, <2>2 DEF Marked
<1>3. InOrder(r)
  BY <1>1, <1>2 DEF InOrder
<1>4. Pending(q) = Len(q)
  BY DEF Pending
<1>5. Marked(r) <=> x # "put"
  BY <1>1 DEF Marked
<1>6. Pending(r) = IF x = "put" THEN Len(q) + 1 ELSE Len(q)
  BY <1>1, <1>5 DEF Pending
<1> QED
  BY <1>1, <1>3, <1>4, <1>5, <1>6

LEMMA StepBatches ==
    ASSUME Inv, BatchesAddUp, NEW s \in Scans,
           \/ Proceed(s) \/ KillScanQueries(s) \/ Take(s) \/ Annotate(s) \/ Environment(s)
    PROVE  BatchesAddUp'
<1>0. /\ TypeOK /\ pc \in [Scans -> States] /\ Batches \in Nat
      /\ queue \in [Scans -> Seq({"put", "end", "error"})] /\ sent \in [Scans -> 0 .. Batches]
      /\ stopped \in SUBSET Scans /\ taken \in [Scans -> Nat] /\ matched \in [Scans -> Nat]
      /\ outcome \in [Scans -> {"none", "ok", "error"}]
  BY DEF Inv, TypeOK
<1>p. \A t \in Scans : t # s => pc'[t] = pc[t]
  BY <1>0, OneMoves
<1> DEFINE Books(t) ==
        /\ t \in stopped <=> outcome[t] # "none"
        /\ InOrder(queue[t])
        /\ Marked(queue[t]) => pc[t] = "over"
        /\ pc[t] = "end" \/ (Marked(queue[t]) /\ queue[t][Len(queue[t])] = "end")
             => sent[t] = Batches
        /\ t \notin stopped =>
             taken[t] + Pending(queue[t]) + (IF pc[t] = "put" THEN 1 ELSE 0) = sent[t]
        /\ outcome[t] = "ok" => matched[t] = Batches
<1>b. \A t \in Scans : Books(t)
  BY DEF BatchesAddUp
<1>q. SUFFICES \A t \in Scans : Books(t)'
  BY DEF BatchesAddUp
<1>a. ASSUME \A t \in Scans : t # s =>
                 /\ queue'[t] = queue[t] /\ sent'[t] = sent[t] /\ (t \in stopped' <=> t \in stopped)
                 /\ taken'[t] = taken[t] /\ matched'[t] = matched[t] /\ outcome'[t] = outcome[t],
             Books(s)'
      PROVE  \A t \in Scans : Books(t)'
  <2> SUFFICES ASSUME NEW t \in Scans, t # s PROVE Books(t)'
    BY <1>a
  <2>1. /\ queue'[t] = queue[t] /\ sent'[t] = sent[t] /\ (t \in stopped' <=> t \in stopped)
        /\ taken'[t] = taken[t] /\ matched'[t] = matched[t] /\ outcome'[t] = outcome[t]
        /\ pc'[t] = pc[t] /\ Books(t)
    BY <1>a, <1>b, <1>p
  <2> QED
    BY <2>1 DEF Marked, Pending, InOrder
<1>c. ASSUME UNCHANGED ruleVars, pc'[s] # "put", pc'[s] # "end", pc[s] # "put",
             pc[s] = "over" => pc'[s] = "over"
      PROVE  \A t \in Scans : Books(t)'
  <2>1. Books(s)'
    <3>1. Books(s)
      BY <1>b
    <3>2. UNCHANGED <<queue, sent, stopped, taken, matched, outcome>>
      BY <1>c DEF ruleVars
    <3> QED
      BY <1>c, <3>1, <3>2 DEF Marked, Pending, InOrder
  <2> QED
    BY <1>a, <1>c, <2>1 DEF ruleVars
<1>d. ASSUME UNCHANGED ruleVars, pc' = pc PROVE \A t \in Scans : Books(t)'
  BY <1>b, <1>d DEF ruleVars, Marked, Pending
<1>1. CASE \/ Submit(s) \/ TakeThread(s) \/ GiveUp(s) \/ Try(s) \/ Acquire(s) \/ PollAgain(s)
           \/ StartQuery(s) \/ FinishQuery(s) \/ Unwind(s) \/ FailQuery(s)
  <2>1. /\ UNCHANGED ruleVars /\ pc'[s] # "put" /\ pc'[s] # "end" /\ pc[s] # "put"
        /\ pc[s] # "over"
    BY <1>0, <1>1 DEF Submit, TakeThread, GiveUp, Try, Acquire, PollAgain, StartQuery,
       FinishQuery, Unwind, FailQuery, Goto, End, Park
  <2> QED
    BY <1>c, <2>1
<1>2. CASE \/ AcquireExportSlot(s) \/ AuditExport(s) \/ ReadFirstBlock(s) \/ DropResponse(s)
           \/ StartDownload(s) \/ EndDownload(s)
  <2>1. /\ UNCHANGED ruleVars /\ pc'[s] # "put" /\ pc'[s] # "end" /\ pc[s] # "put"
        /\ pc[s] # "over"
    BY <1>0, <1>2 DEF AcquireExportSlot, AuditExport, ReadFirstBlock, DropResponse,
       StartDownload, EndDownload, Goto, End, Park
  <2> QED
    BY <1>c, <2>1
<1>3. CASE KillScanQueries(s)
  <2>1. CASE pc[s] = "run" /\ Goto(s, "killed")
    BY <1>0, <1>3, <1>c, <2>1 DEF KillScanQueries, Goto
  <2>2. CASE UNCHANGED pc
    BY <1>3, <1>d, <2>2 DEF KillScanQueries
  <2> QED
    BY <1>3, <2>1, <2>2 DEF KillScanQueries
<1>4. CASE Expire(s) \/ Cancel(s) \/ FailKill(s)
  BY <1>4, <1>d DEF Expire, Cancel, FailKill
<1>5. CASE ReadHits(s)
  <2>0. /\ Books(s) /\ pc[s] = "run" /\ UNCHANGED <<queue, stopped, taken, matched, outcome>>
        /\ ~ Marked(queue[s])
    BY <1>5, <1>b DEF ReadHits
  <2>1. CASE /\ ~ Exhausted(s)
             /\ sent' = [sent EXCEPT ![s] = @ + 1]
             /\ Goto(s, "put")
    <3>1. pc'[s] = "put" /\ sent'[s] = sent[s] + 1 /\ \A t \in Scans : t # s => sent'[t] = sent[t]
      BY <1>0, <2>1 DEF Goto
    <3>2. Pending(queue[s]) \in Nat
      BY <1>0, <2>0 DEF Pending
    <3>3. Books(s)'
      BY <1>0, <2>0, <3>1, <3>2 DEF Marked, Pending, InOrder
    <3> QED
      BY <1>a, <2>0, <3>1, <3>3
  <2>2. CASE Exhausted(s) /\ Goto(s, "end") /\ sent' = sent
    <3>1. pc'[s] = "end" /\ sent[s] = Batches
      BY <1>0, <2>2 DEF Goto, Exhausted
    <3>2. Books(s)'
      BY <1>0, <2>0, <2>2, <3>1 DEF Marked, Pending, InOrder
    <3> QED
      BY <1>a, <2>0, <2>2, <3>2
  <2> QED
    BY <1>5, <2>1, <2>2 DEF ReadHits
<1>6. CASE Put(s)
  <2>0. /\ Books(s) /\ pc[s] \in {"put", "end", "error"} /\ ~ Marked(queue[s])
        /\ UNCHANGED <<sent, stopped, taken, matched, outcome>>
    BY <1>6, <1>b DEF Put
  <2>1. CASE s \in stopped /\ End(s) /\ queue' = queue
    <3>1. pc'[s] = "over"
      BY <1>0, <2>1 DEF End, Goto
    <3>2. Books(s)'
      BY <2>0, <2>1, <3>1 DEF Marked, Pending, InOrder
    <3> QED
      BY <1>a, <2>0, <2>1, <3>2
  <2>2. CASE /\ s \notin stopped
             /\ queue' = [queue EXCEPT ![s] = Append(@, pc[s])]
             /\ Goto(s, IF pc[s] = "put" THEN "run" ELSE "over")
    <3> DEFINE r == Append(queue[s], pc[s])
    <3>1. /\ queue'[s] = r /\ \A t \in Scans : t # s => queue'[t] = queue[t]
          /\ pc'[s] = IF pc[s] = "put" THEN "run" ELSE "over"
      BY <1>0, <2>2 DEF Goto
    <3>2. /\ InOrder(r) /\ Pending(queue[s]) \in Nat
          /\ pc[s] = "put" => Pending(r) = Pending(queue[s]) + 1 /\ ~ Marked(r)
          /\ pc[s] # "put" => Pending(r) = Pending(queue[s]) /\ Marked(r) /\ r[Len(r)] = pc[s]
      <4>1. queue[s] \in Seq(Items) /\ pc[s] \in Items /\ InOrder(queue[s])
        BY <1>0, <2>0 DEF Items
      <4>2. ~ Marked(queue[s])
        BY <2>0
      <4> DEFINE q == queue[s]
                 x == pc[s]
      <4>3. q \in Seq(Items) /\ x \in Items /\ InOrder(q) /\ ~ Marked(q) /\ r = Append(q, x)
        BY <4>1, <4>2
      <4> HIDE DEF q, x, r
      <4>4. /\ InOrder(r) /\ Pending(q) \in Nat
            /\ x = "put" => Pending(r) = Pending(q) + 1 /\ ~ Marked(r)
            /\ x # "put" => Pending(r) = Pending(q) /\ Marked(r) /\ r[Len(r)] = x
        BY <4>3, Pushed
      <4> QED
        BY <4>4 DEF q, x
    <3> HIDE DEF r
    <3>3. /\ s \notin stopped /\ outcome[s] = "none" /\ stopped' = stopped /\ outcome'[s] = "none"
          /\ sent'[s] = sent[s] /\ taken'[s] = taken[s] /\ matched'[s] = matched[s]
          /\ sent[s] \in Nat /\ taken[s] \in Nat
      BY <1>0, <2>0, <2>2
    <3>4. s \notin stopped' /\ outcome'[s] = "none" /\ InOrder(r)
      BY <3>2, <3>3
    <3>5. CASE pc[s] = "put"
      <4>1. /\ pc'[s] = "run" /\ ~ Marked(r) /\ Pending(r) = Pending(queue[s]) + 1
            /\ taken[s] + Pending(queue[s]) + 1 = sent[s]
        BY <2>0, <3>1, <3>2, <3>3, <3>5
      <4>2. taken[s] + Pending(r) + 0 = sent[s]
        <5>1. Pending(queue[s]) \in Nat /\ taken[s] \in Nat /\ sent[s] \in Nat
          BY <3>2, <3>3
        <5> QED
          BY <4>1, <5>1
      <4>3. Books(s)'
        BY <3>1, <3>3, <3>4, <4>1, <4>2 DEF Marked, Pending, InOrder
      <4> QED
        BY <1>a, <2>0, <3>1, <4>3
    <3>6. CASE pc[s] # "put"
      <4>1. /\ pc'[s] = "over" /\ Marked(r) /\ Pending(r) = Pending(queue[s]) /\ r[Len(r)] = pc[s]
            /\ taken[s] + Pending(queue[s]) + 0 = sent[s]
        BY <2>0, <3>1, <3>2, <3>3, <3>6
      <4>2. /\ taken[s] + Pending(r) + 0 = sent[s]
            /\ r[Len(r)] = "end" => sent[s] = Batches
        BY <2>0, <3>2, <3>3, <4>1
      <4>3. Books(s)'
        BY <3>1, <3>3, <3>4, <4>1, <4>2 DEF Marked, Pending, InOrder
      <4> QED
        BY <1>a, <2>0, <3>1, <4>3
    <3> QED
      BY <3>5, <3>6
  <2> QED
    BY <1>6, <2>1, <2>2 DEF Put
<1>7. CASE Take(s)
  <2> DEFINE r == Tail(queue[s])
  <2>0. /\ Books(s) /\ outcome[s] = "none" /\ taken[s] = matched[s] /\ queue[s] # <<>>
        /\ UNCHANGED <<sent, matched, pc>> /\ s \notin stopped
        /\ queue' = [queue EXCEPT ![s] = r]
    BY <1>7, <1>b DEF Take
  <2>1. /\ queue'[s] = r /\ \A t \in Scans : t # s => queue'[t] = queue[t]
    BY <1>0, <2>0
  <2>2. /\ InOrder(r) /\ Pending(r) \in Nat
        /\ Head(queue[s]) = "put" =>
             /\ Pending(queue[s]) = Pending(r) + 1 /\ (Marked(r) <=> Marked(queue[s]))
             /\ Marked(queue[s]) => r[Len(r)] = queue[s][Len(queue[s])]
        /\ Head(queue[s]) # "put" =>
             /\ Pending(queue[s]) = 0 /\ Marked(queue[s])
             /\ queue[s][Len(queue[s])] = Head(queue[s]) /\ ~ Marked(r) /\ Pending(r) = 0
    <3>1. queue[s] \in Seq(Items) /\ InOrder(queue[s])
      BY <1>0, <2>0 DEF Items
    <3> QED
      BY <2>0, <3>1, Popped
  <2> HIDE DEF r
  <2>4. CASE Head(queue[s]) = "put" /\ taken' = [taken EXCEPT ![s] = @ + 1]
             /\ UNCHANGED <<outcome, stopped>>
    <3>1. taken'[s] = taken[s] + 1 /\ \A t \in Scans : t # s => taken'[t] = taken[t]
      BY <1>0, <2>4
    <3>2. Books(s)'
      <4>1. /\ taken[s] \in Nat /\ Pending(r) \in Nat
            /\ Pending(queue[s]) = Pending(r) + 1 /\ (Marked(r) <=> Marked(queue[s]))
            /\ Marked(queue[s]) => r[Len(r)] = queue[s][Len(queue[s])]
        BY <1>0, <2>2, <2>4
      <4>2. s \notin stopped =>
              taken'[s] + Pending(r) + (IF pc[s] = "put" THEN 1 ELSE 0) = sent[s]
        <5> DEFINE hand == IF pc[s] = "put" THEN 1 ELSE 0
        <5>1. s \notin stopped => taken[s] + Pending(queue[s]) + hand = sent[s]
          BY <2>0
        <5>2. hand \in Nat
          OBVIOUS
        <5> HIDE DEF hand
        <5>3. ASSUME s \notin stopped
              PROVE  (taken[s] + 1) + Pending(r) + hand = sent[s]
          <6> DEFINE m == taken[s]
                     n == Pending(r)
          <6>1. m \in Nat /\ n \in Nat /\ hand \in Nat
            BY <4>1, <5>2
          <6>2. m + (n + 1) + hand = sent[s]
            BY <4>1, <5>1, <5>3
          <6> HIDE DEF m, n
          <6>3. (m + 1) + n + hand = sent[s]
            BY <6>1, <6>2
          <6> QED
            BY <6>3 DEF m, n
        <5> QED
          BY <3>1, <5>3 DEF hand
      <4> QED
        BY <2>0, <2>1, <2>2, <2>4, <4>1, <4>2
    <3> QED
      BY <1>a, <2>0, <2>1, <2>4, <3>1, <3>2
  <2>5. CASE Head(queue[s]) = "end" /\ Finish(s, "ok") /\ taken' = taken
    <3>1. /\ outcome'[s] = "ok" /\ s \in stopped'
          /\ \A t \in Scans : t # s => outcome'[t] = outcome[t] /\ (t \in stopped' <=> t \in stopped)
      BY <1>0, <2>5 DEF Finish
    <3>2. sent[s] = Batches /\ pc[s] = "over" /\ taken[s] = sent[s]
      BY <1>0, <2>0, <2>2, <2>5
    <3>3. Books(s)'
      BY <1>0, <2>0, <2>1, <2>2, <2>5, <3>1, <3>2
    <3> QED
      BY <1>a, <2>0, <2>1, <2>5, <3>1, <3>3
  <2>6. CASE Head(queue[s]) = "error" /\ Finish(s, "error") /\ taken' = taken
    <3>1. /\ outcome'[s] = "error" /\ s \in stopped'
          /\ \A t \in Scans : t # s => outcome'[t] = outcome[t] /\ (t \in stopped' <=> t \in stopped)
      BY <1>0, <2>6 DEF Finish
    <3>2. Books(s)'
      BY <1>0, <2>0, <2>1, <2>2, <2>6, <3>1
    <3> QED
      BY <1>a, <2>0, <2>1, <2>6, <3>1, <3>2
  <2> QED
    BY <1>7, <2>4, <2>5, <2>6 DEF Take
<1>8. CASE Annotate(s)
  <2>1. /\ Books(s) /\ outcome[s] = "none" /\ UNCHANGED <<pc, queue, sent, stopped, taken, outcome>>
        /\ \A t \in Scans : t # s => matched'[t] = matched[t]
    BY <1>0, <1>8, <1>b DEF Annotate
  <2>2. Books(s)'
    BY <2>1 DEF Marked, Pending, InOrder
  <2> QED
    BY <1>a, <2>1, <2>2
<1>9. CASE FailAnnotate(s)
  <2>1. /\ Books(s) /\ outcome'[s] = "error" /\ s \in stopped'
        /\ UNCHANGED <<pc, queue, sent, taken, matched>>
        /\ \A t \in Scans : t # s => outcome'[t] = outcome[t] /\ (t \in stopped' <=> t \in stopped)
    BY <1>0, <1>9, <1>b DEF FailAnnotate, Finish
  <2>2. Books(s)'
    BY <2>1 DEF Marked, Pending, InOrder
  <2> QED
    BY <1>a, <2>1, <2>2
<1> QED
  BY <1>1, <1>2, <1>3, <1>4, <1>5, <1>6, <1>7, <1>8, <1>9 DEF Proceed, Environment

-----------------------------------------------------------------------------
(* The size of the gates.                                                  *)

SlotsAreLimited == \A g \in Gates : IsFiniteSet(holds[g]) /\ Cardinality(holds[g]) <= GateSize[g]

LEMMA FewerHold ==
    ASSUME SlotsAreLimited, \A g \in Gates : holds'[g] \subseteq holds[g]
    PROVE  SlotsAreLimited'
<1> SUFFICES ASSUME NEW g \in Gates
             PROVE  IsFiniteSet(holds'[g]) /\ Cardinality(holds'[g]) <= GateSize[g]
  BY DEF SlotsAreLimited, GateSize
<1>1. IsFiniteSet(holds[g]) /\ Cardinality(holds[g]) <= GateSize[g] /\ holds'[g] \subseteq holds[g]
  BY DEF SlotsAreLimited
<1>2. IsFiniteSet(holds'[g]) /\ Cardinality(holds'[g]) <= Cardinality(holds[g])
  BY <1>1, FS_Subset
<1>3. Cardinality(holds[g]) \in Nat /\ Cardinality(holds'[g]) \in Nat /\ GateSize[g] \in Nat
  BY <1>1, <1>2, FS_CardinalityType, BudgetAssumption DEF Gates, GateSize
<1> QED
  BY <1>1, <1>2, <1>3

LEMMA OneMoreHolds ==
    ASSUME TypeOK, SlotsAreLimited, NEW s \in Scans, NEW g \in Gates, Free(g),
           holds' = [holds EXCEPT ![g] = @ \cup {s}]
    PROVE  SlotsAreLimited'
<1> SUFFICES ASSUME NEW h \in Gates
             PROVE  IsFiniteSet(holds'[h]) /\ Cardinality(holds'[h]) <= GateSize[h]
  BY DEF SlotsAreLimited, GateSize
<1>1. IsFiniteSet(holds[h]) /\ Cardinality(holds[h]) <= GateSize[h]
  BY DEF SlotsAreLimited
<1>2. holds \in [Gates -> SUBSET Scans]
  BY DEF TypeOK
<1>3. CASE h # g
  BY <1>1, <1>2, <1>3
<1>4. CASE h = g
  <2>1. holds'[h] = holds[h] \cup {s} /\ Cardinality(holds[h]) < GateSize[h]
    BY <1>2, <1>4 DEF Free
  <2>2. /\ IsFiniteSet(holds'[h])
        /\ Cardinality(holds'[h]) = Cardinality(holds[h]) \/ Cardinality(holds'[h]) = Cardinality(holds[h]) + 1
    <3> DEFINE S == holds[h]
    <3>1. IsFiniteSet(S) /\ holds'[h] = S \cup {s}
      BY <1>1, <2>1
    <3> HIDE DEF S
    <3>2. IsFiniteSet(S \cup {s}) /\ Cardinality(S \cup {s}) =
              IF s \in S THEN Cardinality(S) ELSE Cardinality(S) + 1
      BY <3>1, FS_AddElement, ZenonT(20)
    <3>3. /\ IsFiniteSet(holds'[h])
          /\ Cardinality(holds'[h]) = Cardinality(S) \/ Cardinality(holds'[h]) = Cardinality(S) + 1
      BY <3>1, <3>2
    <3> QED
      BY <3>3 DEF S
  <2>3. Cardinality(holds[h]) \in Nat /\ GateSize[h] \in Nat
    BY <1>1, FS_CardinalityType, BudgetAssumption DEF Gates, GateSize
  <2> QED
    BY <2>1, <2>2, <2>3
<1> QED
  BY <1>3, <1>4

LEMMA StepLimits ==
    ASSUME TypeOK, SlotsAreLimited, NEW s \in Scans,
           \/ Proceed(s) \/ KillScanQueries(s) \/ Take(s) \/ Annotate(s) \/ Environment(s)
    PROVE  SlotsAreLimited'
<1>0. holds \in [Gates -> SUBSET Scans] /\ "heavy" \in Gates
  BY DEF TypeOK, Gates
<1>1. CASE UNCHANGED holds
  BY <1>1, FewerHold
<1>2. CASE End(s)
  <2>1. \A g \in Gates : holds'[g] \subseteq holds[g]
    BY <1>0, <1>2 DEF End, Released
  <2> QED
    BY <2>1, FewerHold
<1>3. CASE holds' = [holds EXCEPT !["heavy"] = @ \ {s}]
  <2>1. \A g \in Gates : holds'[g] \subseteq holds[g]
    BY <1>0, <1>3
  <2> QED
    BY <2>1, FewerHold
<1>4. CASE Acquire(s)
  BY <1>4, OneMoreHolds, Gating DEF Acquire
<1>5. CASE AcquireExportSlot(s)
  <2>1. CASE Free("export") /\ holds' = [holds EXCEPT !["export"] = @ \cup {s}]
    BY <2>1, OneMoreHolds, Gating
  <2> QED
    BY <1>2, <1>5, <2>1 DEF AcquireExportSlot
<1>6. CASE \/ TakeThread(s) \/ GiveUp(s) \/ Try(s) \/ PollAgain(s) \/ Expire(s) \/ StartQuery(s)
           \/ FinishQuery(s) \/ Unwind(s)
  BY <1>1, <1>2, <1>6 DEF TakeThread, GiveUp, Try, PollAgain, Expire, StartQuery, FinishQuery, Unwind
<1>7. CASE AuditExport(s) \/ ReadFirstBlock(s) \/ ReadHits(s) \/ Put(s)
  BY <1>1, <1>2, <1>3, <1>7 DEF AuditExport, ReadFirstBlock, FirstBlock, ReadHits, Put
<1>8. CASE KillScanQueries(s) \/ Take(s) \/ Annotate(s)
  BY <1>1, <1>8 DEF KillScanQueries, Take, Annotate
<1>9. CASE \/ Submit(s) \/ Cancel(s) \/ FailQuery(s) \/ FailKill(s) \/ FailAnnotate(s)
           \/ DropResponse(s) \/ StartDownload(s) \/ EndDownload(s)
  BY <1>1, <1>2, <1>3, <1>9 DEF Submit, Cancel, FailQuery, FailKill, FailAnnotate, DropResponse,
     StartDownload, EndDownload
<1> QED
  BY <1>4, <1>5, <1>6, <1>7, <1>8, <1>9 DEF Proceed, Environment

-----------------------------------------------------------------------------
(* The arithmetic of the budget.                                           *)

LEMMA Quotient ==
    ASSUME NEW a \in Nat, NEW b \in Nat \ {0}
    PROVE  a \div b \in Nat /\ b * (a \div b) <= a
OBVIOUS

LEMMA QuotientAtLeast ==
    ASSUME NEW a \in Nat, NEW b \in Nat \ {0}, NEW k \in Nat, b * k <= a
    PROVE  k <= a \div b
<1> DEFINE q == a \div b
<1>1. q \in Nat /\ a < b * (q + 1)
  OBVIOUS
<1> HIDE DEF q
<1>2. ~ (k >= q + 1)
  <2> SUFFICES ASSUME k >= q + 1 PROVE FALSE
    OBVIOUS
  <2>1. b * k >= b * (q + 1)
    BY <1>1
  <2> QED
    BY <1>1, <2>1
<1>3. k <= q
  BY <1>1, <1>2
<1> QED
  BY <1>3 DEF q

LEMMA Times ==
    ASSUME NEW a \in Nat, NEW b \in Nat, NEW c \in Nat, a <= b
    PROVE  a * c <= b * c /\ c * a <= c * b /\ a * c \in Nat /\ b * c \in Nat
OBVIOUS

LEMMA TotalIsNat ==
    ASSUME NEW f \in Settings
    PROVE  Total(f) \in Nat
<1>1. /\ f.explicit \in Nat /\ f.percent \in Nat /\ f.local \in Nat /\ f.cgroup \in Nat
      /\ f.os \in Nat /\ f.ram \in Nat /\ f.pinned \in Nat /\ f.caches \in Nat
  BY SettingsAssumption
<1>2. \A n, k \in Nat : PartOf(n, k) \in Nat
  <2> SUFFICES ASSUME NEW n \in Nat, NEW k \in Nat PROVE PartOf(n, k) \in Nat
    OBVIOUS
  <2>1. n * k \in Nat
    OBVIOUS
  <2> QED
    BY <2>1, Quotient DEF PartOf
<1>3. RatioCap(f) \in Nat
  BY <1>1, <1>2, BudgetAssumption DEF RatioCap
<1>4. ClickHouseCeiling(f) \in Nat
  BY <1>1, <1>3 DEF ClickHouseCeiling, Least
<1>5. Ceiling(f) \in Nat
  BY <1>1, <1>4 DEF Ceiling, Least
<1>6. Available(f) \in Int
  BY <1>1, <1>5 DEF Available, CachesUnder
<1>7. Fallback \in Nat
  BY BudgetAssumption
<1>8. CASE f.explicit > 0
  BY <1>1, <1>8 DEF Total
<1>9. CASE ~ (f.explicit > 0) /\ Available(f) > 0
  <2>1. PartOf(Available(f), f.percent) \in Nat
    <3>1. Available(f) \in Nat
      <4> DEFINE a == Available(f)
      <4>1. a \in Int /\ a > 0
        BY <1>6, <1>9
      <4> HIDE DEF a
      <4>2. a \in Nat
        BY <4>1
      <4> QED
        BY <4>2 DEF a
    <3> QED
      BY <1>1, <1>2, <3>1
  <2>2. Total(f) = PartOf(Available(f), f.percent)
    BY <1>9, Zenon DEF Total
  <2> QED
    BY <2>1, <2>2
<1>10. CASE ~ (f.explicit > 0) /\ ~ (Available(f) > 0)
  <2>1. PartOf(Ceiling(f), f.percent) \in Nat
    BY <1>1, <1>2, <1>5
  <2>2. \A m, n : Least(m, n) = m \/ Least(m, n) = n
    BY DEF Least
  <2>3. Least(Fallback, PartOf(Ceiling(f), f.percent)) \in Nat
    BY <1>7, <2>1, <2>2, Zenon
  <2>4. Total(f) = Least(Fallback, PartOf(Ceiling(f), f.percent)) \/ Total(f) = Fallback
    BY <1>10, Zenon DEF Total
  <2> QED
    BY <1>7, <2>3, <2>4
<1> QED
  BY <1>8, <1>9, <1>10

LEMMA CommittedFits ==
    ASSUME NEW f \in Settings, NEW w \in {1, 2}, IsDivisible(f, w),
           NEW m \in Nat, m <= HeavySlots, NEW n \in Nat, n <= ChartSlots
    PROVE  Committed(f, m, n, w) <= Total(f)
<1> DEFINE T == Total(f)
           q == T \div Divisor
           c == (q * ChartShare) \div ChartSlots
<1>1. /\ HeavySlots \in Nat \ {0} /\ ChartSlots \in Nat \ {0} /\ ChartShare \in Nat \ {0}
      /\ Divisor \in Nat \ {0} /\ Divisor = HeavySlots + ChartShare /\ w \in Nat \ {0}
      /\ T \in Nat
  BY BudgetAssumption, TotalIsNat DEF Divisor
<1>2. q \in Nat /\ Divisor * q <= T
  BY <1>1, Quotient
<1>3. ChartSlots * w <= q
  <2>1. ChartSlots * w \in Nat /\ Divisor * (ChartSlots * w) <= T
    BY <1>1 DEF IsDivisible
  <2> QED
    BY <1>1, <2>1, QuotientAtLeast
<1>4. q * ChartShare \in Nat /\ c \in Nat /\ ChartSlots * c <= q * ChartShare
  <2>1. q * ChartShare \in Nat
    BY <1>1, <1>2
  <2> QED
    BY <1>1, <2>1, Quotient
<1>5. w <= c
  <2>1. ChartSlots * w \in Nat /\ ChartSlots * w <= q * ChartShare
    <3>0. 1 <= ChartShare /\ 1 \in Nat /\ ChartShare \in Nat /\ ChartSlots * w \in Nat
      BY <1>1
    <3>1. q <= q * ChartShare /\ ChartSlots * w \in Nat
      <4>1. q * 1 <= q * ChartShare
        BY <1>2, <3>0, Times
      <4> QED
        BY <1>2, <3>0, <4>1
    <3> QED
      BY <1>1, <1>2, <1>3, <1>4, <3>1
  <2> QED
    BY <1>1, <1>4, <2>1, QuotientAtLeast
<1>6. w <= q
  <2>1. w <= ChartSlots * w /\ ChartSlots * w \in Nat
    BY <1>1
  <2> QED
    BY <1>1, <1>2, <1>3, <2>1
<1>7. HeavyCap(f) = q /\ ChartCap(f) = c
  <2>1. HeavyCap(f) = q
    BY <1>1, <1>2, <1>6 DEF HeavyCap, Most
  <2>2. ChartCap(f) = c
    BY <1>1, <1>4, <1>5, <2>1 DEF ChartCap, Most
  <2> QED
    BY <2>1, <2>2
<1> HIDE DEF T, q, c
<1>8. ASSUME NEW x \in Nat, w <= x
      PROVE  QueryCap(x, w) \in Nat /\ w * QueryCap(x, w) <= x
  <2>1. x \div w \in Nat /\ w * (x \div w) <= x
    BY <1>1, Quotient
  <2>2. 1 <= x \div w
    <3>1. w * 1 <= x
      BY <1>1, <1>8
    <3> QED
      BY <1>1, <3>1, QuotientAtLeast
  <2>3. QueryCap(x, w) = x \div w
    BY <2>1, <2>2 DEF QueryCap, Most
  <2> QED
    BY <2>1, <2>3
<1> DEFINE a == QueryCap(q, w)
           b == QueryCap(c, w)
<1>9. /\ a \in Nat /\ w * a <= q /\ w * a \in Nat
      /\ b \in Nat /\ w * b <= c /\ w * b \in Nat
  <2>1. a \in Nat /\ w * a <= q /\ b \in Nat /\ w * b <= c
    BY <1>2, <1>4, <1>5, <1>6, <1>8
  <2> HIDE DEF a, b
  <2> QED
    BY <1>1, <2>1
<1>10. Committed(f, m, n, w) = m * w * a + n * w * b
  BY <1>7 DEF Committed
<1> HIDE DEF a, b
<1>11. m * w * a <= HeavySlots * q
  <2>1. m * w * a = m * (w * a)
    BY <1>1, <1>9
  <2>2. m * (w * a) <= m * q
    BY <1>2, <1>9, Times
  <2>3. m * q <= HeavySlots * q
    BY <1>1, <1>2, Times
  <2>4. m * (w * a) \in Nat /\ m * q \in Nat /\ HeavySlots * q \in Nat
    BY <1>1, <1>2, <1>9
  <2> QED
    BY <2>1, <2>2, <2>3, <2>4
<1>12. n * w * b <= q * ChartShare
  <2>1. n * w * b = n * (w * b)
    BY <1>1, <1>9
  <2>2. n * (w * b) <= n * c
    BY <1>4, <1>9, Times
  <2>3. n * c <= ChartSlots * c
    BY <1>1, <1>4, Times
  <2>4. n * (w * b) \in Nat /\ n * c \in Nat /\ ChartSlots * c \in Nat
    BY <1>1, <1>4, <1>9
  <2> QED
    BY <1>4, <2>1, <2>2, <2>3, <2>4
<1>13. HeavySlots * q + q * ChartShare <= T
  <2>1. HeavySlots * q + q * ChartShare = (HeavySlots + ChartShare) * q
    BY <1>1, <1>2
  <2> QED
    BY <1>1, <1>2, <2>1
<1>14. m * w * a \in Nat /\ n * w * b \in Nat /\ HeavySlots * q \in Nat /\ q * ChartShare \in Nat
  BY <1>1, <1>2, <1>4, <1>9
<1>15. Committed(f, m, n, w) <= T
  BY <1>1, <1>10, <1>11, <1>12, <1>13, <1>14
<1> QED
  BY <1>15 DEF T

LEMMA HeavyCapIsNat ==
    ASSUME NEW f \in Settings
    PROVE  HeavyCap(f) \in Nat
<1> DEFINE q == Total(f) \div Divisor
<1>1. Divisor \in Nat \ {0}
  BY BudgetAssumption DEF Divisor
<1>2. q \in Nat
  BY <1>1, TotalIsNat, Quotient
<1> HIDE DEF q
<1>3. Most(q, 1) \in Nat
  BY <1>2 DEF Most
<1> QED
  BY <1>3 DEF HeavyCap, q

LEMMA ChartCapIsNat ==
    ASSUME NEW f \in Settings
    PROVE  ChartCap(f) \in Nat
<1> DEFINE p == HeavyCap(f) * ChartShare
           q == p \div ChartSlots
<1>1. p \in Nat /\ ChartSlots \in Nat \ {0}
  BY HeavyCapIsNat, BudgetAssumption
<1> HIDE DEF p
<1>2. q \in Nat
  BY <1>1, Quotient
<1> HIDE DEF q
<1>3. Most(q, 1) \in Nat
  BY <1>2 DEF Most
<1> QED
  BY <1>3 DEF ChartCap, p, q

LEMMA QueryCapIsNat ==
    ASSUME NEW k \in Nat, NEW w \in {1, 2}
    PROVE  QueryCap(k, w) \in Nat
<1>1. k \div w \in Nat
  BY Quotient
<1> QED
  BY <1>1 DEF QueryCap, Most

(* A download in progress has the slot of the export gate, which is one.   *)
LEMMA OneDrains ==
    ASSUME Shape, GatesAddUp, SlotsAreLimited
    PROVE  /\ Cardinality(Draining) \in {0, 1}
           /\ Draining = {} => Cardinality(Draining) = 0
<1>1. Draining \subseteq holds["export"]
  BY DEF Shape, Draining, GatesAddUp, OnlyDroppedResponsesLeak, Streaming
<1>2. IsFiniteSet(holds["export"]) /\ Cardinality(holds["export"]) <= 1
  BY Gating DEF SlotsAreLimited, Gates, GateSize
<1>3. IsFiniteSet(Draining) /\ Cardinality(Draining) <= Cardinality(holds["export"])
  BY <1>1, <1>2, FS_Subset
<1>4. Cardinality(Draining) \in Nat /\ Cardinality(holds["export"]) \in Nat
  BY <1>2, <1>3, FS_CardinalityType
<1>5. Cardinality(Draining) \in {0, 1}
  BY <1>2, <1>3, <1>4
<1> QED
  BY <1>5, FS_EmptySet

LEMMA BudgetFollows ==
    ASSUME Shape, GatesAddUp, SlotsAreLimited
    PROVE  OneDownloadAboveTheBudget
<1>1. \A g \in {"heavy", "chart"} :
          OnClickHouse(g) \in Nat /\ OnClickHouse(g) <= GateSize[g]
  <2> SUFFICES ASSUME NEW g \in {"heavy", "chart"}
               PROVE  OnClickHouse(g) \in Nat /\ OnClickHouse(g) <= GateSize[g]
    OBVIOUS
  <2>1. OnClickHouse(g) = Cardinality(holds[g])
    BY DEF GatesAddUp, SlotsMatchWork, OnClickHouse
  <2>2. IsFiniteSet(holds[g]) /\ Cardinality(holds[g]) <= GateSize[g]
    BY DEF SlotsAreLimited, Gates
  <2> QED
    BY <2>1, <2>2, FS_CardinalityType
<1>2. GateSize["heavy"] = HeavySlots /\ GateSize["chart"] = ChartSlots
  BY DEF GateSize
<1> SUFFICES ASSUME NEW f \in Settings, NEW width \in {1, 2}, IsDivisible(f, width)
             PROVE  Used(f, width) <= Total(f) + IF Draining = {} THEN 0 ELSE HeavyCap(f)
  BY DEF OneDownloadAboveTheBudget
<1> DEFINE admitted == Committed(f, OnClickHouse("heavy"), OnClickHouse("chart"), width)
           cap == HeavyCap(f)
           total == Total(f)
<1>3. admitted <= total /\ cap \in Nat /\ total \in Nat
  BY <1>1, <1>2, CommittedFits, HeavyCapIsNat, TotalIsNat
<1>4. admitted \in Int
  <2>1. \A k \in Nat : QueryCap(k, width) \in Nat
    BY QueryCapIsNat
  <2>2. ChartCap(f) \in Nat
    BY ChartCapIsNat
  <2> DEFINE x == QueryCap(HeavyCap(f), width)
             y == QueryCap(ChartCap(f), width)
             m == OnClickHouse("heavy")
             n == OnClickHouse("chart")
  <2>3. x \in Nat /\ y \in Nat /\ m \in Nat /\ n \in Nat /\ width \in Nat
    BY <1>1, <1>3, <2>1, <2>2
  <2> HIDE DEF x, y, m, n
  <2>4. m * width * x + n * width * y \in Int
    BY <2>3
  <2> QED
    BY <2>4 DEF Committed, x, y, m, n
<1>5. Used(f, width) = admitted + Cardinality(Draining) * cap
  BY DEF Used
<1>6. /\ Cardinality(Draining) = 0 \/ Cardinality(Draining) = 1
      /\ Draining = {} => Cardinality(Draining) = 0
  BY OneDrains
<1> HIDE DEF admitted, cap, total
<1>7. admitted + Cardinality(Draining) * cap <= total + IF Draining = {} THEN 0 ELSE cap
  BY <1>3, <1>4, <1>6
<1> QED
  BY <1>5, <1>7 DEF cap, total

-----------------------------------------------------------------------------
(* The theorems.                                                           *)

FullInv == Inv /\ BatchesAddUp /\ SlotsAreLimited

LEMMA InitFullInv == Init => FullInv
<1> SUFFICES ASSUME Init PROVE FullInv
  OBVIOUS
<1>1. TypeOK
  <2>1. <<>> \in Seq({"put", "end", "error"})
    OBVIOUS
  <2>2. Queries \in 0 .. Queries /\ 0 \in 0 .. Batches
    BY ScanAssumption
  <2> QED
    BY <2>1, <2>2 DEF Init, TypeOK, States
<1>2. \A s \in Scans : pc[s] = "idle" /\ kill[s] = "no" /\ queue[s] = <<>> /\ outcome[s] = "none"
                       /\ sent[s] = 0 /\ taken[s] = 0 /\ s \notin stopped
  BY DEF Init
<1>3. \A g \in Gates : holds[g] = {} /\ waiting[g] = 0
  BY DEF Init
<1>4. Shape
  BY <1>2 DEF Shape
<1>5. GatesAddUp
  <2>1. SlotsMatchWork
    BY <1>2, <1>3, Gating DEF SlotsMatchWork, Scanning, Gates
  <2>2. OnlyDroppedResponsesLeak
    BY <1>2, <1>3, Gating DEF OnlyDroppedResponsesLeak, Streaming, Gates
  <2>3. WaitingIsParked
    <3> SUFFICES ASSUME NEW g \in {"heavy", "chart"}
                 PROVE  waiting[g] = Cardinality({s \in Scans : pc[s] \in Parked /\ Gate(s) = g})
      BY DEF WaitingIsParked
    <3>1. {s \in Scans : pc[s] \in Parked /\ Gate(s) = g} = {}
      BY <1>2 DEF Parked
    <3>2. waiting[g] = 0
      BY <1>3 DEF Gates
    <3> QED
      BY <3>1, <3>2, FS_EmptySet
  <2> QED
    BY <2>1, <2>2, <2>3 DEF GatesAddUp
<1>6. BatchesAddUp
  <2>1. ~ Marked(<<>>) /\ Pending(<<>>) = 0 /\ InOrder(<<>>)
    BY DEF Marked, Pending, InOrder
  <2> QED
    BY <1>2, <2>1 DEF BatchesAddUp
<1>7. SlotsAreLimited
  <2>1. \A g \in Gates : GateSize[g] \in Nat
    BY BudgetAssumption DEF Gates, GateSize
  <2>2. IsFiniteSet({}) /\ Cardinality({}) = 0
    BY FS_EmptySet
  <2>3. ASSUME NEW g \in Gates PROVE IsFiniteSet(holds[g]) /\ Cardinality(holds[g]) <= GateSize[g]
    <3>1. holds[g] = {} /\ GateSize[g] \in Nat
      BY <1>3, <2>1
    <3> QED
      BY <2>2, <3>1
  <2> QED
    BY <2>3 DEF SlotsAreLimited
<1> QED
  BY <1>1, <1>4, <1>5, <1>6, <1>7 DEF FullInv, Inv

LEMMA StepFullInv == FullInv /\ [Next]_vars => FullInv'
<1> SUFFICES ASSUME FullInv, [Next]_vars PROVE FullInv'
  OBVIOUS
<1>1. CASE UNCHANGED vars
  <2>1. /\ UNCHANGED <<kind, pc, holds, waiting, threads, left, expired, cancelled, kill>>
        /\ UNCHANGED <<queue, sent, stopped, taken, matched, outcome, fails>>
    BY <1>1 DEF vars, killVars, ruleVars
  <2>2. TypeOK' /\ Shape'
    BY <2>1 DEF FullInv, Inv, TypeOK, Shape
  <2>3. GatesAddUp'
    BY <2>1 DEF FullInv, Inv, GatesAddUp, SlotsMatchWork, OnlyDroppedResponsesLeak, WaitingIsParked, Gate
  <2>4. BatchesAddUp' /\ SlotsAreLimited'
    BY <2>1 DEF FullInv, BatchesAddUp, SlotsAreLimited, Marked, Pending, InOrder
  <2> QED
    BY <2>2, <2>3, <2>4 DEF FullInv, Inv
<1>2. CASE Next
  <2>1. PICK s \in Scans :
            Proceed(s) \/ KillScanQueries(s) \/ Take(s) \/ Annotate(s) \/ Environment(s)
    BY <1>2 DEF Next
  <2>2. Inv /\ TypeOK /\ BatchesAddUp /\ SlotsAreLimited
    BY DEF FullInv, Inv
  <2>3. TypeOK'
    BY <2>1, <2>2, StepTyped
  <2>4. Shape'
    BY <2>1, <2>2, StepShape
  <2>5. GatesAddUp'
    BY <2>1, <2>2, StepAccounts DEF Accounts
  <2>6. BatchesAddUp'
    BY <2>1, <2>2, StepBatches
  <2>7. SlotsAreLimited'
    BY <2>1, <2>2, StepLimits
  <2> QED
    BY <2>3, <2>4, <2>5, <2>6, <2>7 DEF FullInv, Inv
<1> QED
  BY <1>1, <1>2

LEMMA Invariance == Spec => []FullInv
BY InitFullInv, StepFullInv, PTL DEF Spec

(* Every variable has its type.                                            *)
THEOREM TypeCorrect == Spec => []TypeOK
<1>1. FullInv => TypeOK
  BY DEF FullInv, Inv
<1> QED
  BY <1>1, Invariance, PTL

(* acquire_scan_slot, the download and the rule scan, whatever is cancelled *)
(* or fails: the slots match the work, an export slot is lost only with a   *)
(* response nobody reads, and the counter of waiting callers is right.      *)
THEOREM GatesAreTrue == Spec => []GatesAddUp
<1>1. FullInv => GatesAddUp
  BY DEF FullInv, Inv
<1> QED
  BY <1>1, Invariance, PTL

(* detect_scan_memory_budget and detect_foreground_memory_budget with the   *)
(* gates: for all settings and gate sizes, all that runs on ClickHouse fits *)
(* while no download drains, and exceeds the budget by one heavy cap at     *)
(* most while one does.                                                     *)
THEOREM BudgetHolds == Spec => []OneDownloadAboveTheBudget
<1>1. FullInv => OneDownloadAboveTheBudget
  BY BudgetFollows DEF FullInv, Inv
<1> QED
  BY <1>1, Invariance, PTL

(* _scan_and_annotate: for every number of batches and depth of the queue,  *)
(* a rule that is reported as evaluated has all its hits stored.            *)
THEOREM RulesAreComplete == Spec => []CompletedRulesHaveTheirHits
<1>1. FullInv => CompletedRulesHaveTheirHits
  BY DEF FullInv, BatchesAddUp, CompletedRulesHaveTheirHits
<1> QED
  BY <1>1, Invariance, PTL
=============================================================================
