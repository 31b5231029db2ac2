----------------------------- MODULE IngestProofs -----------------------------
(***************************************************************************)
(* Proofs about Ingest, for every number of uploads, cases and hashes, every *)
(* file size, and any number of failures, crashes and deletes.             *)
(***************************************************************************)
EXTENDS Ingest, TLAPS

USE IngestAssumption

-----------------------------------------------------------------------------
(* The inductive invariant.                                                *)

(* How far the row, the partition and the count of an upload are.          *)
NothingYet(u) == row[u] = "none" /\ events[u] = 0 /\ counted[u] = 0 /\ sent[u] = 0
Complete(u)   == events[u] = Size /\ sent[u] = Size

Books(u) ==
    /\ pc[u] \in {"idle", "check", "retain", "copy", "create"} => NothingYet(u)
    /\ pc[u] \in {"timeline", "connect"} =>
         row[u] = "ingesting" /\ events[u] = 0 /\ counted[u] = 0 /\ sent[u] = 0
    /\ pc[u] = "insert" => row[u] = "ingesting" /\ events[u] = sent[u] /\ counted[u] = 0
    /\ pc[u] = "count" => row[u] = "ingesting" /\ Complete(u) /\ counted[u] = 0
    /\ pc[u] = "mark" => row[u] = "ingesting" /\ Complete(u) /\ counted[u] = Size
    /\ pc[u] = "after" => row[u] = "ready" /\ Complete(u) /\ counted[u] = Size
    /\ pc[u] \in UndoPCs => fails = 1
    /\ pc[u] = "row" => events[u] = 0
    /\ pc[u] \in {"hash", "file"} => row[u] = "none" /\ events[u] = 0
    /\ pc[u] = "done" /\ row[u] = "none" => events[u] = 0
    /\ pc[u] = "done" /\ row[u] = "ready" => events[u] = Size /\ counted[u] = Size

(* Nobody but the uploads is there.                                        *)
Alone == boot = "up" /\ orphans = {} /\ orphan = None /\ deleting = [u \in Uploads |-> "no"]

UploadsKeepBooks == Undisturbed => Alone /\ \A u \in Uploads : Books(u)

Inv == TypeOK /\ UploadsKeepBooks

LEMMA InitInv == Init => Inv
<1> SUFFICES ASSUME Init PROVE Inv
  OBVIOUS
<1>1. TypeOK
  BY DEF Init, TypeOK, RegisterPCs, JobPCs, UndoPCs
<1>2. UploadsKeepBooks
  BY DEF Init, UploadsKeepBooks, Alone, Books, NothingYet, UndoPCs
<1> QED
  BY <1>1, <1>2 DEF Inv

-----------------------------------------------------------------------------
(* Types.                                                                  *)

PCs == {"idle", "done"} \cup RegisterPCs \cup JobPCs \cup UndoPCs

LEMMA UndoTyped ==
    ASSUME TypeOK, NEW u \in Uploads, NEW p, NEW n, Undo(u, p, n)
    PROVE  /\ row' \in [Uploads -> {"none", "ingesting", "ready"}]
           /\ counted' \in [Uploads -> Nat] /\ events' \in [Uploads -> Nat]
           /\ kept' \in [Hashes -> {"absent", "partial", "whole"}]
           /\ n \in UndoPCs \cup {"done"}
<1>1. CASE p = "events" /\ DropPartition(u) /\ n = "row"
  BY <1>1 DEF TypeOK, DropPartition, UndoPCs
<1>2. CASE p = "row" /\ DropRow(u) /\ n = "hash"
  BY <1>2 DEF TypeOK, DropRow, UndoPCs
<1>3. CASE UNCHANGED <<row, counted, events, kept>> /\ n \in {"done", "file"}
  BY <1>3 DEF TypeOK, UndoPCs
<1>4. CASE p = "file" /\ Unlink(u) /\ n = "done"
  BY <1>4 DEF TypeOK, Unlink, UndoPCs
<1> QED
  BY <1>1, <1>2, <1>3, <1>4 DEF Undo

LEMMA StepTyped == TypeOK /\ [Next]_vars => TypeOK'
<1> SUFFICES ASSUME TypeOK, [Next]_vars PROVE TypeOK'
  OBVIOUS
<1> USE DEF RegisterPCs, JobPCs, UndoPCs
<1>0. Size \in Nat
  OBVIOUS
<1>1. CASE UNCHANGED vars
  BY <1>1 DEF TypeOK, vars, reqVars, recVars, bounds
<1>2. ASSUME NEW u \in Uploads, Work(u) PROVE TypeOK'
  <2>1. CASE CheckDuplicate(u) \/ AddToTimeline(u) \/ Connect(u) \/ FinishPipeline(u) \/ FinishIngest(u)
    BY <2>1 DEF TypeOK, CheckDuplicate, AddToTimeline, Connect, FinishPipeline, FinishIngest, Goto,
       recVars, bounds
  <2>2. CASE RetainFile(u)
    <3>1. UNCHANGED <<row, counted, events, sent, deleting, boot, orphans, orphan, step>>
          /\ UNCHANGED <<fails, crashes, deletes>>
      BY <2>2 DEF RetainFile, recVars, bounds
    <3>2. pc' \in [Uploads -> {"idle", "done"} \cup RegisterPCs \cup JobPCs \cup UndoPCs]
      BY <2>2 DEF TypeOK, RetainFile, Goto
    <3>3. kept' \in [Hashes -> {"absent", "partial", "whole"}]
      BY <2>2 DEF TypeOK, RetainFile
    <3> QED
      BY <3>1, <3>2, <3>3 DEF TypeOK
  <2>3. CASE FinishCopy(u)
    BY <2>3 DEF TypeOK, FinishCopy, Goto, recVars, bounds
  <2>4. CASE CreateSource(u)
    BY <2>4 DEF TypeOK, CreateSource, Goto, recVars, bounds
  <2>5. CASE InsertEvents(u)
    <3>1. sent[u] + 1 \in 0 .. Size
      BY <1>0, <2>5 DEF InsertEvents, Drained, TypeOK
    <3> QED
      BY <2>5, <3>1 DEF TypeOK, InsertEvents, recVars, bounds
  <2>6. CASE UpdateSourceCounts(u)
    <3>1. counted[u] + sent[u] \in Nat
      BY <1>0 DEF TypeOK
    <3>2. counted' \in [Uploads -> Nat]
      BY <2>6, <3>1 DEF TypeOK, UpdateSourceCounts
    <3> QED
      BY <2>6, <3>2 DEF TypeOK, UpdateSourceCounts, Goto, recVars, bounds
  <2>7. CASE SetSourceReady(u)
    BY <2>7 DEF TypeOK, SetSourceReady, Goto, recVars, bounds
  <2>8. CASE RollBack(u)
    <3>1. PICK n \in UndoPCs \cup {"done"} :
              Undo(u, pc[u], n) /\ Goto(u, n) /\ UNCHANGED <<sent, deleting, recVars, bounds>>
      BY <2>8 DEF RollBack
    <3>2. pc' \in [Uploads -> {"idle", "done"} \cup RegisterPCs \cup JobPCs \cup UndoPCs]
      BY <3>1 DEF TypeOK, Goto
    <3> QED
      BY <3>1, <3>2, UndoTyped DEF TypeOK, recVars, bounds
  <2> QED
    BY <1>2, <2>1, <2>2, <2>3, <2>4, <2>5, <2>6, <2>7, <2>8 DEF Work
<1>3. CASE Recover
  <2>1. CASE ListIngesting
    BY <2>1 DEF TypeOK, ListIngesting, Ingesting, reqVars, bounds
  <2>2. CASE \E u \in Uploads : TakeOrphan(u)
    BY <2>2 DEF TypeOK, TakeOrphan, reqVars, bounds
  <2>3. CASE RemoveOrphan
    <3>1. PICK n \in UndoPCs \cup {"done"} :
              /\ orphan # None /\ Undo(orphan, step, n)
              /\ \/ n = "done" /\ orphan' = None /\ UNCHANGED step
                 \/ n # "done" /\ step' = n /\ UNCHANGED orphan
              /\ UNCHANGED <<reqVars, deleting, boot, orphans, bounds>>
      BY <2>3 DEF RemoveOrphan
    <3>2. orphan \in Uploads
      BY <3>1 DEF TypeOK
    <3>3. step' \in UndoPCs /\ orphan' \in Uploads \cup {None}
      BY <3>1 DEF TypeOK
    <3> QED
      BY <3>1, <3>2, <3>3, UndoTyped DEF TypeOK, reqVars, bounds
  <2> QED
    BY <1>3, <2>1, <2>2, <2>3 DEF Recover
<1>4. CASE Environment
  <2>1. ASSUME NEW u \in Uploads, UploadSource(u) \/ RejectFile(u) PROVE TypeOK'
    BY <2>1 DEF TypeOK, UploadSource, RejectFile, Goto, recVars, bounds
  <2>2. ASSUME NEW u \in Uploads, Fail(u) PROVE TypeOK'
    <3>1. Handler(pc[u]) \in {"events", "row", "done"}
      BY DEF Handler
    <3> QED
      BY <2>2, <3>1 DEF TypeOK, Fail, Goto, recVars
  <2>3. ASSUME NEW u \in Uploads, DeleteSource(u) \/ AbortDelete(u) PROVE TypeOK'
    BY <2>3 DEF TypeOK, DeleteSource, AbortDelete, reqVars, recVars, bounds
  <2>4. ASSUME NEW u \in Uploads, DeleteSourceEvents(u) \/ DeleteSourceRow(u) PROVE TypeOK'
    BY <2>4 DEF TypeOK, DeleteSourceEvents, DeleteSourceRow, DropPartition, DropRow, reqVars, recVars,
       bounds
  <2>5. CASE FailRecovery
    BY <2>5 DEF TypeOK, FailRecovery, OtherOrphans, reqVars
  <2>6. CASE Crash
    BY <2>6 DEF TypeOK, Crash
  <2> QED
    BY <1>4, <2>1, <2>2, <2>3, <2>4, <2>5, <2>6 DEF Environment
<1> QED
  BY <1>1, <1>2, <1>3, <1>4 DEF Next

-----------------------------------------------------------------------------
(* The books.                                                              *)

(* Everything of an upload that its books are about stays.                 *)
LEMMA BooksStay ==
    ASSUME NEW u \in Uploads, Books(u), pc'[u] = pc[u], row'[u] = row[u], events'[u] = events[u],
           counted'[u] = counted[u], sent'[u] = sent[u], fails' = fails
    PROVE  Books(u)'
BY DEF Books, NothingYet, Complete

LEMMA StepBooks == Inv /\ [Next]_vars => UploadsKeepBooks'
<1> SUFFICES ASSUME Inv, [Next]_vars, Undisturbed'
             PROVE  Alone' /\ \A u \in Uploads : Books(u)'
  BY DEF UploadsKeepBooks
<1> DEFINE Others(u) ==
        \A v \in Uploads : v # u =>
            /\ pc'[v] = pc[v] /\ row'[v] = row[v] /\ events'[v] = events[v]
            /\ counted'[v] = counted[v] /\ sent'[v] = sent[v]
<1>0. /\ TypeOK /\ {fails, crashes, deletes, MaxFails, MaxCrashes, MaxDeletes} \subseteq Nat
      /\ Size \in Nat \ {0}
      /\ row \in [Uploads -> {"none", "ingesting", "ready"}]
      /\ counted \in [Uploads -> Nat] /\ events \in [Uploads -> Nat] /\ sent \in [Uploads -> 0 .. Size]
      /\ pc \in [Uploads -> PCs] /\ deleting \in [Uploads -> {"no", "drop", "row"}]
  BY DEF Inv, TypeOK, PCs
<1>1. CASE UNCHANGED vars
  <2>1. /\ UNCHANGED <<row, counted, events, pc, sent, deleting, boot, orphans, orphan>>
        /\ UNCHANGED <<fails, crashes, deletes>>
    BY <1>1 DEF vars, reqVars, recVars, bounds
  <2>2. Undisturbed
    BY <2>1 DEF Undisturbed
  <2>3. Alone /\ \A u \in Uploads : Books(u)
    BY <2>2 DEF Inv, UploadsKeepBooks
  <2> QED
    BY <2>1, <2>3, BooksStay DEF Alone
<1>2. ASSUME NEW u \in Uploads, Work(u) PROVE Alone' /\ \A v \in Uploads : Books(v)'
  <2>1. UNCHANGED <<deleting, recVars, bounds>>
    BY <1>2 DEF Work, CheckDuplicate, RetainFile, FinishCopy, CreateSource, AddToTimeline, Connect,
       InsertEvents, FinishPipeline, UpdateSourceCounts, SetSourceReady, FinishIngest, RollBack
  <2>2. UNCHANGED <<deleting, boot, orphans, orphan, fails, crashes, deletes>>
    BY <2>1 DEF recVars, bounds
  <2>3. Undisturbed
    BY <2>2 DEF Undisturbed
  <2>4. Alone /\ \A v \in Uploads : Books(v)
    BY <2>3 DEF Inv, UploadsKeepBooks
  <2>5. Alone'
    BY <2>2, <2>4 DEF Alone
  <2>6. ASSUME Books(u)', Others(u) PROVE \A v \in Uploads : Books(v)'
    BY <2>2, <2>4, <2>6, BooksStay
  <2> DEFINE Goal == \A v \in Uploads : Books(v)'
  <2>7. CASE CheckDuplicate(u) \/ RetainFile(u) \/ FinishCopy(u)
    <3>1. /\ pc[u] \in {"check", "retain", "copy"} /\ pc'[u] \in {"retain", "copy", "create", "done"}
          /\ UNCHANGED <<row, counted, events, sent>> /\ \A v \in Uploads : v # u => pc'[v] = pc[v]
      BY <1>0, <2>7 DEF CheckDuplicate, RetainFile, FinishCopy, Goto
    <3>2. Books(u)'
      BY <2>4, <3>1 DEF Books, NothingYet, UndoPCs
    <3> QED
      BY <2>5, <2>6, <3>1, <3>2
  <2>8. CASE CreateSource(u)
    <3>1. /\ pc[u] = "create" /\ UNCHANGED <<counted, events, sent>>
          /\ \/ pc'[u] = "done" /\ row'[u] = row[u]
             \/ pc'[u] = "timeline" /\ row'[u] = "ingesting"
          /\ Others(u)
      BY <1>0, <2>8 DEF CreateSource, Goto
    <3>2. Books(u)'
      BY <2>4, <3>1 DEF Books, NothingYet, UndoPCs
    <3> QED
      BY <2>5, <2>6, <3>1, <3>2
  <2>9. CASE AddToTimeline(u) \/ Connect(u)
    <3>1. /\ \/ pc[u] = "timeline" /\ pc'[u] = "connect"
             \/ pc[u] = "connect" /\ pc'[u] = "insert"
          /\ UNCHANGED <<row, counted, events, sent>> /\ \A v \in Uploads : v # u => pc'[v] = pc[v]
      BY <1>0, <2>9 DEF AddToTimeline, Connect, Goto
    <3>2. Books(u)'
      BY <2>4, <3>1 DEF Books, UndoPCs
    <3> QED
      BY <2>5, <2>6, <3>1, <3>2
  <2>10. CASE InsertEvents(u)
    <3>1. /\ pc[u] = "insert" /\ events'[u] = events[u] + 1 /\ sent'[u] = sent[u] + 1
          /\ UNCHANGED <<row, counted, pc>> /\ Others(u)
      BY <1>0, <2>10 DEF InsertEvents
    <3>2. Books(u)'
      BY <2>4, <3>1 DEF Books, UndoPCs
    <3> QED
      BY <2>5, <2>6, <3>1, <3>2
  <2>11. CASE FinishPipeline(u) \/ FinishIngest(u)
    <3>1. /\ \/ pc[u] = "insert" /\ sent[u] = Size /\ pc'[u] = "count"
             \/ pc[u] = "after" /\ pc'[u] = "done"
          /\ UNCHANGED <<row, counted, events, sent>> /\ \A v \in Uploads : v # u => pc'[v] = pc[v]
      BY <1>0, <2>11 DEF FinishPipeline, FinishIngest, Drained, Goto
    <3>2. Books(u)'
      BY <2>4, <3>1 DEF Books, Complete, UndoPCs
    <3> QED
      BY <2>5, <2>6, <3>1, <3>2
  <2>12. CASE UpdateSourceCounts(u)
    <3>1. pc[u] = "count" /\ row[u] = "ingesting" /\ counted[u] = 0 /\ Complete(u)
      BY <2>4, <2>12 DEF UpdateSourceCounts, Books
    <3>2. /\ pc'[u] = "mark" /\ counted'[u] = 0 + sent[u]
          /\ UNCHANGED <<row, events, sent>> /\ Others(u)
      BY <1>0, <2>12, <3>1 DEF UpdateSourceCounts, Goto
    <3>3. Books(u)'
      BY <1>0, <3>1, <3>2 DEF Books, Complete, UndoPCs
    <3> QED
      BY <2>5, <2>6, <3>2, <3>3
  <2>13. CASE SetSourceReady(u)
    <3>1. pc[u] = "mark" /\ row[u] = "ingesting" /\ counted[u] = Size /\ Complete(u)
      BY <2>4, <2>13 DEF SetSourceReady, Books
    <3>2. /\ pc'[u] = "after" /\ row'[u] = "ready"
          /\ UNCHANGED <<counted, events, sent>> /\ Others(u)
      BY <1>0, <2>13, <3>1 DEF SetSourceReady, Goto
    <3>3. Books(u)'
      BY <3>1, <3>2 DEF Books, Complete, UndoPCs
    <3> QED
      BY <2>5, <2>6, <3>2, <3>3
  <2>14. CASE RollBack(u)
    <3>1. PICK n \in UndoPCs \cup {"done"} :
              pc[u] \in UndoPCs /\ Undo(u, pc[u], n) /\ Goto(u, n) /\ UNCHANGED sent
      BY <2>14 DEF RollBack
    <3>2. pc'[u] = n /\ (\A v \in Uploads : v # u => pc'[v] = pc[v]) /\ fails' = 1
      BY <1>0, <2>2, <2>4, <3>1 DEF Goto, Books
    <3>3. CASE pc[u] = "events" /\ DropPartition(u) /\ n = "row"
      <4>1. events'[u] = 0 /\ Others(u)
        BY <1>0, <3>1, <3>2, <3>3 DEF DropPartition
      <4>2. Books(u)'
        BY <3>2, <3>3, <4>1 DEF Books, UndoPCs
      <4> QED
        BY <2>5, <2>6, <4>1, <4>2
    <3>4. CASE pc[u] = "row" /\ DropRow(u) /\ n = "hash"
      <4>1. row'[u] = "none" /\ events'[u] = 0 /\ Others(u)
        BY <1>0, <2>4, <3>1, <3>2, <3>4 DEF DropRow, Books
      <4>2. Books(u)'
        BY <3>2, <3>4, <4>1 DEF Books, UndoPCs
      <4> QED
        BY <2>5, <2>6, <4>1, <4>2
    <3>5. CASE /\ pc[u] \in {"hash", "file"} /\ n \in {"file", "done"}
               /\ UNCHANGED <<row, counted, events>>
      <4>1. row'[u] = "none" /\ events'[u] = 0 /\ Others(u)
        BY <2>4, <3>1, <3>2, <3>5 DEF Books
      <4>2. Books(u)'
        BY <3>2, <3>5, <4>1 DEF Books, UndoPCs
      <4> QED
        BY <2>5, <2>6, <4>1, <4>2
    <3> QED
      BY <3>1, <3>3, <3>4, <3>5 DEF Undo, Unlink
  <2> QED
    BY <1>2, <2>7, <2>8, <2>9, <2>10, <2>11, <2>12, <2>13, <2>14 DEF Work
<1>3. ASSUME NEW u \in Uploads, UploadSource(u) \/ RejectFile(u)
      PROVE  Alone' /\ \A v \in Uploads : Books(v)'
  <2>1. /\ UNCHANGED <<row, counted, events, sent, deleting, boot, orphans, orphan>>
        /\ UNCHANGED <<fails, crashes, deletes>>
        /\ pc[u] \in {"idle", "retain"} /\ pc'[u] \in {"check", "done"}
        /\ \A v \in Uploads : v # u => pc'[v] = pc[v]
    BY <1>0, <1>3 DEF UploadSource, RejectFile, Goto, recVars, bounds
  <2>2. Undisturbed
    BY <2>1 DEF Undisturbed
  <2>3. Alone /\ \A v \in Uploads : Books(v)
    BY <2>2 DEF Inv, UploadsKeepBooks
  <2>4. Books(u)'
    BY <2>1, <2>3 DEF Books, NothingYet, UndoPCs
  <2> QED
    BY <2>1, <2>3, <2>4, BooksStay DEF Alone
<1>4. ASSUME NEW u \in Uploads, Fail(u) PROVE Alone' /\ \A v \in Uploads : Books(v)'
  <2>1. /\ UNCHANGED <<row, counted, events, sent, deleting, boot, orphans, orphan>>
        /\ fails' = fails + 1 /\ UNCHANGED <<crashes, deletes>>
        /\ pc'[u] = Handler(pc[u]) /\ Live(u)
        /\ \A v \in Uploads : v # u => pc'[v] = pc[v]
    BY <1>0, <1>4 DEF Fail, Goto, recVars
  <2>2. Undisturbed /\ fails = 0 /\ fails' = 1
    BY <1>0, <2>1 DEF Undisturbed
  <2>3. Alone /\ \A v \in Uploads : Books(v)
    BY <2>2 DEF Inv, UploadsKeepBooks
  <2>4. \A v \in Uploads : pc[v] \notin UndoPCs
    BY <2>2, <2>3 DEF Books
  <2>5. Books(u)'
    <3>1. CASE pc[u] \in {"insert", "count", "mark", "after"}
      <4>1. pc'[u] = "events"
        BY <2>1, <3>1 DEF Handler
      <4> QED
        BY <2>2, <4>1 DEF Books, UndoPCs
    <3>2. CASE pc[u] = "timeline"
      <4>1. pc'[u] = "row"
        BY <2>1, <3>2 DEF Handler
      <4> QED
        BY <2>1, <2>2, <2>3, <3>2, <4>1 DEF Books, UndoPCs
    <3>3. CASE pc[u] \in {"check", "retain", "copy", "create", "connect"}
      <4>1. pc'[u] = "done"
        BY <2>1, <3>3 DEF Handler
      <4> QED
        BY <2>1, <2>3, <3>3, <4>1 DEF Books, NothingYet, UndoPCs
    <3> QED
      BY <2>1, <2>4, <3>1, <3>2, <3>3 DEF Live, RegisterPCs, JobPCs
  <2>6. ASSUME NEW v \in Uploads, v # u PROVE Books(v)'
    BY <2>1, <2>3, <2>4, <2>6 DEF Books, NothingYet, Complete
  <2> QED
    BY <2>1, <2>3, <2>5, <2>6 DEF Alone
<1>5. ~ (\E u \in Uploads : DeleteSource(u)) /\ ~ Crash
  <2>1. ASSUME NEW u \in Uploads, DeleteSource(u) PROVE FALSE
    BY <1>0, <2>1 DEF DeleteSource, Undisturbed
  <2>2. ASSUME Crash PROVE FALSE
    BY <1>0, <2>2 DEF Crash, Undisturbed
  <2> QED
    BY <2>1, <2>2
<1>6. ~ Recover /\ ~ FailRecovery
  <2>1. ASSUME Recover \/ FailRecovery PROVE FALSE
    <3>1. UNCHANGED <<crashes, deletes>> /\ fails' \in {fails, fails + 1}
      BY <2>1 DEF Recover, ListIngesting, TakeOrphan, RemoveOrphan, FailRecovery, bounds
    <3>2. Undisturbed
      BY <1>0, <3>1 DEF Undisturbed
    <3>3. Alone
      BY <3>2 DEF Inv, UploadsKeepBooks
    <3> QED
      BY <2>1, <3>3 DEF Alone, Recover, ListIngesting, TakeOrphan, RemoveOrphan, FailRecovery
  <2> QED
    BY <2>1
<1>7. ASSUME NEW u \in Uploads, DeleteSourceEvents(u) \/ AbortDelete(u) \/ DeleteSourceRow(u)
      PROVE  FALSE
  <2>1. UNCHANGED <<fails, crashes, deletes>> /\ deleting[u] # "no"
    BY <1>7 DEF DeleteSourceEvents, AbortDelete, DeleteSourceRow, bounds
  <2>2. Undisturbed
    BY <2>1 DEF Undisturbed
  <2>3. Alone
    BY <2>2 DEF Inv, UploadsKeepBooks
  <2> QED
    BY <2>1, <2>3 DEF Alone
<1> QED
  BY <1>1, <1>2, <1>3, <1>4, <1>5, <1>6, <1>7 DEF Next, Environment

-----------------------------------------------------------------------------
(* The theorems.                                                           *)

LEMMA Invariance == Spec => []Inv
<1>1. Inv /\ [Next]_vars => Inv'
  BY StepTyped, StepBooks DEF Inv
<1> QED
  BY <1>1, InitInv, PTL DEF Spec

(* Every variable has its type.                                            *)
THEOREM TypeCorrect == Spec => []TypeOK
<1>1. Inv => TypeOK
  BY DEF Inv
<1> QED
  BY <1>1, Invariance, PTL

(* _run_ingestion_job marks a source ready last: for files of every size,  *)
(* what is visible is complete and counted, through any one failure.       *)
THEOREM VisibleIsComplete == Spec => []ReadyIsComplete
<1>1. Inv => ReadyIsComplete
  <2> SUFFICES ASSUME Inv, NEW u \in Uploads, row[u] = "ready", ~ BeingRemoved(u), Undisturbed
               PROVE  events[u] = Size /\ counted[u] = Size
    BY DEF ReadyIsComplete
  <2>1. Books(u) /\ pc[u] \in PCs /\ pc[u] \notin UndoPCs
    BY DEF Inv, TypeOK, PCs, UploadsKeepBooks, BeingRemoved
  <2> QED
    BY <2>1 DEF Books, NothingYet, Complete, PCs, RegisterPCs, JobPCs
<1> QED
  BY <1>1, Invariance, PTL

(* Its rollback drops the partition before the row: a failed upload leaves *)
(* no events that belong to nobody, whichever of its steps failed.         *)
THEOREM FailedUploadsLeaveNothing == Spec => []NoOrphanEvents
<1>1. Inv => NoOrphanEvents
  <2> SUFFICES ASSUME Inv, NEW u \in Uploads, row[u] = "none", ~ Live(u), Undisturbed
               PROVE  events[u] = 0
    BY DEF NoOrphanEvents
  <2>1. Books(u) /\ pc[u] \in {"idle", "done"}
    BY DEF Inv, TypeOK, UploadsKeepBooks, Live
  <2> QED
    BY <2>1 DEF Books, NothingYet
<1> QED
  BY <1>1, Invariance, PTL
=============================================================================
