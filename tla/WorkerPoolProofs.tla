-------------------------- MODULE WorkerPoolProofs --------------------------
(***************************************************************************)
(* Theorems about WorkerPool, for every number of workers, nodes, batches  *)
(* and items and whatever the bounds on faults.                            *)
(***************************************************************************)
EXTENDS WorkerPool, FiniteSetTheorems, TLAPS

(* The counts of a batch's items are natural numbers.                      *)
LEMMA CountsAreNat ==
  ASSUME NEW b \in Batches
  PROVE  DoneCount(b) \in Nat /\ FailedCount(b) \in Nat /\ TotalItems(b) \in Nat
<1>1. IsFiniteSet(Items)
  BY StoreAssumption
<1>2. /\ ItemsOf(b) \subseteq Items
      /\ WithStatus(b, "done") \subseteq Items
      /\ WithStatus(b, "failed") \subseteq Items
  BY DEF ItemsOf, WithStatus
<1>3. /\ IsFiniteSet(ItemsOf(b))
      /\ IsFiniteSet(WithStatus(b, "done"))
      /\ IsFiniteSet(WithStatus(b, "failed"))
  BY <1>1, <1>2, FS_Subset
<1> QED
  BY <1>3, FS_CardinalityType DEF DoneCount, FailedCount, TotalItems

(* The variables of the workers, and what a worker that is busy has.       *)
WorkersOK ==
  /\ pc \in [Workers -> PC]
  /\ rows \in [Workers -> SUBSET Row]
  /\ job \in [Workers -> Job \cup {NoJob}]
  /\ RowsOfBusy

TablesOK == StoreTypeOK /\ OutboxTypeOK

CountersOK == crashes \in 0..MaxCrashes /\ dbErrors \in 0..MaxDbErrors

LEMMA TypeParts == (TypeOK /\ RowsOfBusy) <=> (TablesOK /\ WorkersOK /\ CountersOK)
BY DEF TypeOK, TablesOK, WorkersOK, CountersOK

(* The end of processItem leaves a worker either idle or with a row.       *)
LEMMA NextItemOK ==
  ASSUME WorkersOK, NEW w \in Workers, NextItem(w)
  PROVE  WorkersOK'
BY DEF WorkersOK, RowsOfBusy, NextItem, PC, Recording, Finishing

(* A worker with a job moves on to another call about it.                  *)
LEMMA MoveOnOK ==
  ASSUME WorkersOK, NEW w \in Workers, pc[w] \in Recording \cup Finishing,
         NEW label \in Recording \cup Finishing, GoTo(w, label),
         UNCHANGED <<rows, job>>
  PROVE  WorkersOK'
BY DEF WorkersOK, RowsOfBusy, GoTo, PC, Recording, Finishing

LEMMA VerdictType ==
  ASSUME NEW success \in Nat, NEW failed \in Nat
  PROVE  Verdict(success, failed) \in Verdicts
BY DEF Verdict, Verdicts

(* UpdateItemStatus of a storable outcome keeps the columns' types.        *)
LEMMA UpdateType ==
  ASSUME StoreTypeOK, NEW j \in Job, Storable(j),
         UpdateItemStatus(j.item, j.status, j.retry + 1)
  PROVE  StoreTypeOK'
BY StoreAssumption
DEF StoreTypeOK, Job, Storable, UpdateItemStatus, ItemRow, ItemStatus

LEMMA CompleteType ==
  ASSUME StoreTypeOK, NEW b \in Batches, NEW status \in Verdicts, CompleteBatch(b, status)
  PROVE  StoreTypeOK'
<1>1. DoneCount(b) \in Nat /\ FailedCount(b) \in Nat
  BY CountsAreNat
<1> QED
  BY <1>1 DEF StoreTypeOK, CompleteBatch, BatchRow, BatchStatus, Verdicts

LEMMA ClaimType ==
  ASSUME StoreTypeOK, NEW S \in SUBSET PendingRows, GetPendingItems(S)
  PROVE  StoreTypeOK'
BY DEF StoreTypeOK, GetPendingItems, ItemRow, ItemStatus

(* The event of a worker's batch has the columns' types.                   *)
LEMMA EventType ==
  ASSUME OutboxTypeOK, NEW b \in Batches, NEW verdict \in Verdicts,
         CreateEvent(b, verdict), UNCHANGED dlq
  PROVE  OutboxTypeOK'
BY StoreAssumption DEF OutboxTypeOK, CreateEvent, Event, EventStatus

LEMMA BatchOfJob ==
  ASSUME WorkersOK, NEW w \in Workers, pc[w] \in Recording \cup Finishing
  PROVE  /\ job[w] \in Job
         /\ job[w].item \in Items
         /\ BatchOf[job[w].item] \in Batches
         /\ Verdict(job[w].success, job[w].failed) \in Verdicts
<1>1. job[w] \in Job
  BY DEF WorkersOK, RowsOfBusy
<1>2. job[w].item \in Items /\ job[w].success \in Nat /\ job[w].failed \in Nat
  BY <1>1 DEF Job
<1> QED
  BY <1>1, <1>2, VerdictType, StoreAssumption
-----------------------------------------------------------------------------
LEMMA TypeInit == Init => TypeOK /\ RowsOfBusy
BY StoreAssumption, PoolAssumption
DEF Init, StoreInit, OutboxInit, TypeOK, StoreTypeOK, OutboxTypeOK, BatchRow, ItemRow,
    PC, RowsOfBusy, Recording, Finishing

(* TypeOK is inductive together with RowsOfBusy: UpdateItemStatus writes   *)
(* what the worker's job says.                                             *)
LEMMA TypeStep ==
  ASSUME TypeOK, RowsOfBusy, [Next]_vars
  PROVE  TypeOK' /\ RowsOfBusy'
<1> USE StoreAssumption, PoolAssumption
<1> SUFFICES TablesOK' /\ WorkersOK' /\ CountersOK'
  BY DEF TypeOK, TablesOK, WorkersOK, CountersOK
<1>0. TablesOK /\ WorkersOK /\ CountersOK
  BY TypeParts
<1> USE <1>0
<1>1. ASSUME NEW w \in Workers, NEW S \in SUBSET PendingRows, Claim(w, S)
      PROVE  TablesOK' /\ WorkersOK' /\ CountersOK'
  <2>1. TablesOK'
    BY <1>1, ClaimType DEF Claim, TablesOK, OutboxTypeOK
  <2>2. Rows(S) \in SUBSET Row
    BY DEF Rows, Row, TablesOK, StoreTypeOK, ItemRow, PendingRows
  <2>3. WorkersOK'
    BY <1>1, <2>2 DEF Claim, GoTo, WorkersOK, RowsOfBusy, PC, Recording, Finishing
  <2> QED
    BY <1>1, <2>1, <2>3 DEF Claim, CountersOK, faultVars
<1>2. ASSUME NEW w \in Workers, NEW r \in rows[w], NEW reply \in Replies,
             SendItem(w, r, reply)
      PROVE  TablesOK' /\ WorkersOK' /\ CountersOK'
  <2>1. StatusAfter(reply.ok, r.retry) \in {"pending", "done", "failed"}
    BY DEF StatusAfter
  <2>2. r \in Row /\ reply.fits \in BOOLEAN
    BY DEF WorkersOK, Reply
  <2>3. [item |-> r.item, retry |-> r.retry, status |-> StatusAfter(reply.ok, r.retry),
         fits |-> reply.fits, success |-> 0, failed |-> 0] \in Job
    BY <2>1, <2>2 DEF Row, Job
  <2>4. WorkersOK'
    BY <1>2, <2>3 DEF SendItem, GoTo, WorkersOK, RowsOfBusy, PC, Recording, Finishing
  <2> QED
    BY <1>2, <2>4
    DEF SendItem, TablesOK, StoreTypeOK, OutboxTypeOK, CountersOK, storeVars, faultVars
<1>3. ASSUME NEW w \in Workers, DeadLetter(w)
      PROVE  TablesOK' /\ WorkersOK' /\ CountersOK'
  <2>1. WorkersOK'
    BY <1>3, MoveOnOK DEF DeadLetter, Recording
  <2>2. dlq' \in [Items -> Nat]
    BY <1>3 DEF DeadLetter, InsertDeadLetter, TablesOK, OutboxTypeOK
  <2> QED
    BY <1>3, <2>1, <2>2
    DEF DeadLetter, TablesOK, StoreTypeOK, OutboxTypeOK, CountersOK, storeVars, faultVars
<1>4. ASSUME NEW w \in Workers, RecordResult(w)
      PROVE  TablesOK' /\ WorkersOK' /\ CountersOK'
  <2>1. job[w] \in Job
    BY <1>4, BatchOfJob DEF RecordResult, Recording
  <2>2. TablesOK'
    BY <1>4, <2>1, UpdateType DEF RecordResult, TablesOK, OutboxTypeOK
  <2>3. CASE job[w].status = "pending"
    BY <1>4, <2>2, <2>3, NextItemOK DEF RecordResult, CountersOK, faultVars
  <2>4. CASE job[w].status # "pending"
    BY <1>4, <2>2, <2>4, MoveOnOK DEF RecordResult, CountersOK, faultVars, Recording, Finishing
  <2> QED
    BY <2>3, <2>4
<1>5. ASSUME NEW w \in Workers, RecordRefused(w)
      PROVE  TablesOK' /\ WorkersOK' /\ CountersOK'
  BY <1>5, NextItemOK
  DEF RecordRefused, TablesOK, StoreTypeOK, OutboxTypeOK, CountersOK, storeVars, faultVars
<1>6. ASSUME NEW w \in Workers, CountDone(w)
      PROVE  TablesOK' /\ WorkersOK' /\ CountersOK'
  <2>1. job[w] \in Job /\ BatchOf[job[w].item] \in Batches
    BY <1>6, BatchOfJob DEF CountDone, Finishing
  <2>2. DoneCount(BatchOf[job[w].item]) \in Nat
    BY <2>1, CountsAreNat
  <2>3. job'[w] \in Job
    BY <1>6, <2>1, <2>2 DEF CountDone, WorkersOK, Job
  <2>4. WorkersOK'
    BY <1>6, <2>3 DEF CountDone, GoTo, WorkersOK, RowsOfBusy, PC, Recording, Finishing
  <2> QED
    BY <1>6, <2>4
    DEF CountDone, TablesOK, StoreTypeOK, OutboxTypeOK, CountersOK, storeVars, faultVars
<1>7. ASSUME NEW w \in Workers, CountFailed(w)
      PROVE  TablesOK' /\ WorkersOK' /\ CountersOK'
  <2> DEFINE b == BatchOf[job[w].item]
             complete == IsComplete(b, job[w].success, FailedCount(b))
  <2>1. job[w] \in Job /\ b \in Batches
    BY <1>7, BatchOfJob DEF CountFailed, Finishing
  <2>2. FailedCount(b) \in Nat
    BY <2>1, CountsAreNat
  <2>3. ASSUME complete PROVE WorkersOK'
    <3>1. /\ job' = [job EXCEPT ![w].failed = FailedCount(b)]
          /\ GoTo(w, "complete")
          /\ rows' = rows
      BY <1>7, <2>3, Zenon DEF CountFailed
    <3>2. job' \in [Workers -> Job \cup {NoJob}] /\ job'[w] \in Job
      BY <2>1, <2>2, <3>1 DEF WorkersOK, Job
    <3>3. \A v \in Workers \ {w} : job'[v] = job[v]
      BY <3>1 DEF WorkersOK
    <3> QED
      BY <3>1, <3>2, <3>3 DEF GoTo, WorkersOK, RowsOfBusy, PC, Recording, Finishing
  <2>4. ASSUME ~complete PROVE WorkersOK'
    <3>1. NextItem(w)
      BY <1>7, <2>4, Zenon DEF CountFailed
    <3> QED
      BY <3>1, NextItemOK
  <2>5. WorkersOK'
    BY <2>3, <2>4
  <2> QED
    BY <1>7, <2>5
    DEF CountFailed, TablesOK, StoreTypeOK, OutboxTypeOK, CountersOK, storeVars, faultVars
<1>8. ASSUME NEW w \in Workers, Complete(w)
      PROVE  TablesOK' /\ WorkersOK' /\ CountersOK'
  <2>1. TablesOK'
    BY <1>8, BatchOfJob, CompleteType DEF Complete, TablesOK, OutboxTypeOK, Finishing
  <2>2. WorkersOK'
    BY <1>8, MoveOnOK DEF Complete, Finishing
  <2> QED
    BY <1>8, <2>1, <2>2 DEF Complete, CountersOK, faultVars
<1>9. ASSUME NEW w \in Workers, Enqueue(w)
      PROVE  TablesOK' /\ WorkersOK' /\ CountersOK'
  <2>1. TablesOK'
    BY <1>9, BatchOfJob, EventType DEF Enqueue, TablesOK, StoreTypeOK, storeVars, Finishing
  <2>2. WorkersOK'
    BY <1>9, NextItemOK DEF Enqueue
  <2> QED
    BY <1>9, <2>1, <2>2 DEF Enqueue, CountersOK, faultVars
<1>10. ASSUME NEW w \in Workers, CallFails(w)
       PROVE  TablesOK' /\ WorkersOK' /\ CountersOK'
  <2>1. CASE NextItem(w)
    BY <1>10, <2>1, NextItemOK
    DEF CallFails, DbError, TablesOK, StoreTypeOK, OutboxTypeOK, CountersOK, storeVars
  <2>2. CASE pc[w] = "deadletter" /\ GoTo(w, "update") /\ UNCHANGED <<rows, job>>
    BY <1>10, <2>2, MoveOnOK
    DEF CallFails, DbError, TablesOK, StoreTypeOK, OutboxTypeOK, CountersOK, storeVars, Recording
  <2> QED
    BY <1>10, <2>1, <2>2 DEF CallFails
<1>11. ASSUME NEW w \in Workers, NEW S \in SUBSET PendingRows, ClaimAnswerLost(w, S)
       PROVE  TablesOK' /\ WorkersOK' /\ CountersOK'
  BY <1>11, ClaimType
  DEF ClaimAnswerLost, DbError, TablesOK, OutboxTypeOK, CountersOK, WorkersOK, RowsOfBusy, workerVars
<1>12. ASSUME NEW w \in Workers, AnswerLost(w)
       PROVE  TablesOK' /\ WorkersOK' /\ CountersOK'
  <2>1. StoreTypeOK'
    BY <1>12, BatchOfJob, UpdateType, CompleteType
    DEF AnswerLost, TablesOK, Recording, Finishing
  <2> QED
    BY <1>12, <2>1, NextItemOK DEF AnswerLost, DbError, TablesOK, OutboxTypeOK, CountersOK
<1>13. ASSUME NEW n \in Nodes, Crash(n)
       PROVE  TablesOK' /\ WorkersOK' /\ CountersOK'
  BY <1>13
  DEF Crash, TablesOK, StoreTypeOK, OutboxTypeOK, CountersOK, WorkersOK, RowsOfBusy, PC,
      Recording, Finishing, storeVars
<1>14. ASSUME NEW n \in Nodes, Restart(n)
       PROVE  TablesOK' /\ WorkersOK' /\ CountersOK'
  BY <1>14
  DEF Restart, TablesOK, StoreTypeOK, OutboxTypeOK, CountersOK, WorkersOK, RowsOfBusy, PC,
      Recording, Finishing, storeVars, faultVars
<1>15. ASSUME NEW S \in SUBSET StaleRows, CleanStaleLocks(S)
       PROVE  TablesOK' /\ WorkersOK' /\ CountersOK'
  BY <1>15
  DEF CleanStaleLocks, ResetStaleLocks, StaleRows, TablesOK, StoreTypeOK, OutboxTypeOK, ItemRow, ItemStatus,
      CountersOK, WorkersOK, RowsOfBusy, workerVars, faultVars
<1>16. ASSUME NEW b \in Batches, Submit(b) \/ SubmitItems(b) \/ Cancel(b)
       PROVE  TablesOK' /\ WorkersOK' /\ CountersOK'
  <2>1. ASSUME Submit(b) PROVE StoreTypeOK'
    BY <2>1 DEF Submit, CreateBatch, TablesOK, StoreTypeOK, BatchRow, BatchStatus
  <2>2. ASSUME SubmitItems(b) PROVE StoreTypeOK'
    BY <2>2 DEF SubmitItems, BulkInsertItems, TablesOK, StoreTypeOK, ItemRow, ItemStatus
  <2>3. ASSUME Cancel(b) PROVE StoreTypeOK'
    <3>1. batches' \in [Batches -> BatchRow]
      BY <2>3 DEF Cancel, CancelBatch, TablesOK, StoreTypeOK, BatchRow, BatchStatus
    <3>2. items' \in [Items -> ItemRow]
      BY <2>3 DEF Cancel, CancelBatch, TablesOK, StoreTypeOK, ItemRow, ItemStatus
    <3> QED
      BY <3>1, <3>2 DEF StoreTypeOK
  <2>4. StoreTypeOK'
    BY <1>16, <2>1, <2>2, <2>3
  <2> QED
    BY <1>16, <2>4
    DEF Submit, SubmitItems, Cancel, TablesOK, OutboxTypeOK, CountersOK, WorkersOK,
        RowsOfBusy, workerVars, faultVars
<1>17. ASSUME UNCHANGED vars
       PROVE  TablesOK' /\ WorkersOK' /\ CountersOK'
  BY <1>17
  DEF vars, TablesOK, StoreTypeOK, OutboxTypeOK, CountersOK, WorkersOK, RowsOfBusy
<1> QED
  BY <1>1, <1>2, <1>3, <1>4, <1>5, <1>6, <1>7, <1>8, <1>9, <1>10, <1>11, <1>12, <1>13,
     <1>14, <1>15, <1>16, <1>17
  DEF Next, Work, Fault, Client

(* Every table keeps its columns' types and every worker its variables',   *)
(* however the steps of workers, cleaners, handlers and faults interleave. *)
THEOREM TypeCorrect == Spec => []TypeOK
<1>1. Init => TypeOK /\ RowsOfBusy
  BY TypeInit
<1>2. (TypeOK /\ RowsOfBusy) /\ [Next]_vars => (TypeOK /\ RowsOfBusy)'
  BY TypeStep
<1> QED
  BY <1>1, <1>2, PTL DEF Spec
-----------------------------------------------------------------------------
(* Claims survive a step that only gives some of them up and leaves the    *)
(* rows of the others alone.                                               *)
LEMMA ClaimsKept ==
  ASSUME ClaimsCurrent, ClaimsDisjoint,
         \A v \in Workers : rows'[v] \subseteq rows[v],
         \A v \in Workers : pc'[v] \in Recording => pc[v] \in Recording /\ job'[v] = job[v],
         \A v \in Workers : \A i \in Held(v)' : items'[i] = items[i]
  PROVE  ClaimsCurrent' /\ ClaimsDisjoint'
<1>1. \A v \in Workers : Held(v)' \subseteq Held(v)
  BY DEF Held
<1>2. ClaimsDisjoint'
  BY <1>1 DEF ClaimsDisjoint
<1>3. ASSUME NEW w \in Workers, NEW r \in rows'[w]
      PROVE  items'[r.item] = [status |-> "processing", retry |-> r.retry]
  <2>1. r \in rows[w] /\ r.item \in Held(w)'
    BY DEF Held
  <2> QED
    BY <2>1 DEF ClaimsCurrent
<1>4. ASSUME NEW w \in Workers, pc'[w] \in Recording
      PROVE  /\ items'[job'[w].item] = [status |-> "processing", retry |-> job'[w].retry]
             /\ \A r \in rows'[w] : r.item # job'[w].item
  <2>1. job'[w].item \in Held(w)'
    BY <1>4 DEF Held
  <2> QED
    BY <1>4, <2>1 DEF ClaimsCurrent
<1>5. ClaimsCurrent'
  BY <1>3, <1>4 DEF ClaimsCurrent
<1> QED
  BY <1>2, <1>5

(* What a worker holds is an item whose row is marked processing.          *)
LEMMA HeldProcessing ==
  ASSUME TypeOK, RowsOfBusy, ClaimsCurrent, NEW w \in Workers, NEW i \in Held(w)
  PROVE  i \in Items /\ items[i].status = "processing"
<1>1. ASSUME NEW r \in rows[w], i = r.item
      PROVE  i \in Items /\ items[i].status = "processing"
  <2>1. r \in Row
    BY DEF TypeOK
  <2>2. items[r.item] = [status |-> "processing", retry |-> r.retry]
    BY DEF ClaimsCurrent
  <2> QED
    BY <1>1, <2>1, <2>2 DEF Row
<1>2. ASSUME pc[w] \in Recording, i = job[w].item
      PROVE  i \in Items /\ items[i].status = "processing"
  <2>1. job[w] \in Job
    BY <1>2 DEF RowsOfBusy
  <2>2. items[job[w].item] = [status |-> "processing", retry |-> job[w].retry]
    BY <1>2 DEF ClaimsCurrent
  <2> QED
    BY <1>2, <2>1, <2>2 DEF Job
<1> QED
  BY <1>1, <1>2 DEF Held

(* Once a worker is past recording, nobody holds the item of its job.      *)
LEMMA NobodyElseHolds ==
  ASSUME ClaimsCurrent, ClaimsDisjoint, NEW w \in Workers, pc[w] \in Recording,
         rows' = rows, pc'[w] \notin Recording,
         \A v \in Workers \ {w} : pc'[v] = pc[v] /\ job'[v] = job[v]
  PROVE  \A v \in Workers : \A i \in Held(v)' : i # job[w].item
<1>1. Held(w)' = {r.item : r \in rows[w]}
  BY DEF Held
<1>2. \A r \in rows[w] : r.item # job[w].item
  BY DEF ClaimsCurrent
<1>3. job[w].item \in Held(w)
  BY DEF Held
<1>4. \A v \in Workers \ {w} : Held(v)' = Held(v) /\ Held(v) \cap Held(w) = {}
  BY DEF Held, ClaimsDisjoint
<1> QED
  BY <1>1, <1>2, <1>3, <1>4

LEMMA ClaimInit == Init => ClaimsCurrent /\ ClaimsDisjoint
BY DEF Init, ClaimsCurrent, ClaimsDisjoint, Held, Recording

(* The claims stay exclusive and current: a claim takes pending rows only, *)
(* a worker writes only the row it holds, and the cleaner and the handlers *)
(* touch no row that is held.                                              *)
LEMMA ClaimStep ==
  ASSUME SlowClaims = FALSE, ClaimInv, [Next]_vars
  PROVE  ClaimsCurrent' /\ ClaimsDisjoint'
<1> USE DEF ClaimInv
<1>1. ASSUME NEW w \in Workers, NEW S \in SUBSET PendingRows, Claim(w, S)
      PROVE  ClaimsCurrent' /\ ClaimsDisjoint'
  <2>1. /\ rows' = [rows EXCEPT ![w] = Rows(S)]
        /\ pc' = [pc EXCEPT ![w] = "send"]
        /\ job' = job
        /\ items' = [i \in Items |-> IF i \in S THEN [items[i] EXCEPT !.status = "processing"]
                                                ELSE items[i]]
    BY <1>1 DEF Claim, GetPendingItems, GoTo
  <2>2. S \subseteq Items /\ \A i \in S : items[i].status = "pending" /\ items[i] \in ItemRow
    BY DEF PendingRows, TypeOK, StoreTypeOK
  <2>3. Held(w)' = S
    <3>1. pc'[w] \notin Recording /\ rows'[w] = Rows(S)
      BY <2>1 DEF Recording, TypeOK
    <3>2. Held(w)' = {r.item : r \in rows'[w]}
      BY <3>1 DEF Held
    <3>3. {r.item : r \in Rows(S)} = S
      <4>1. \A i \in S : [item |-> i, retry |-> items[i].retry] \in Rows(S)
        BY DEF Rows
      <4>2. \A r \in Rows(S) : r.item \in S
        BY DEF Rows
      <4>3. ASSUME NEW i \in S PROVE i \in {r.item : r \in Rows(S)}
        <5> DEFINE row == [item |-> i, retry |-> items[i].retry]
        <5>1. row \in Rows(S) /\ row.item = i
          BY <4>1
        <5> QED
          BY <5>1
      <4> QED
        BY <4>2, <4>3
    <3> QED
      BY <3>1, <3>2, <3>3
  <2>4. \A v \in Workers \ {w} : Held(v)' = Held(v) /\ rows'[v] = rows[v] /\ pc'[v] = pc[v]
    BY <2>1 DEF Held, TypeOK
  <2>5. \A v \in Workers \ {w} : \A i \in Held(v) : i \notin S /\ items'[i] = items[i]
    BY <2>1, <2>2, HeldProcessing
  <2>6. ClaimsDisjoint'
    BY <2>3, <2>4, <2>5 DEF ClaimsDisjoint
  <2>7. \A r \in rows'[w] : items'[r.item] = [status |-> "processing", retry |-> r.retry]
    <3>1. \A i \in S : items'[i] = [status |-> "processing", retry |-> items[i].retry]
      BY <2>1, <2>2 DEF ItemRow
    <3>2. rows'[w] = Rows(S)
      BY <2>1 DEF TypeOK
    <3>3. \A r \in Rows(S) : r.item \in S /\ r.retry = items[r.item].retry
      BY DEF Rows
    <3> QED
      BY <3>1, <3>2, <3>3
  <2>8. ASSUME NEW v \in Workers \ {w}
        PROVE  /\ \A r \in rows'[v] : items'[r.item] = [status |-> "processing", retry |-> r.retry]
               /\ pc'[v] \in Recording =>
                   /\ items'[job'[v].item] = [status |-> "processing", retry |-> job'[v].retry]
                   /\ \A r \in rows'[v] : r.item # job'[v].item
    BY <2>1, <2>4, <2>5 DEF ClaimsCurrent, Held
  <2>9. pc'[w] \notin Recording
    BY <2>1 DEF Recording, TypeOK
  <2> QED
    BY <2>6, <2>7, <2>8, <2>9 DEF ClaimsCurrent
<1>2. ASSUME NEW w \in Workers, NEW r \in rows[w], NEW reply \in Replies,
             SendItem(w, r, reply)
      PROVE  ClaimsCurrent' /\ ClaimsDisjoint'
  <2>1. /\ rows' = [rows EXCEPT ![w] = @ \ {r}]
        /\ job'[w].item = r.item /\ job'[w].retry = r.retry
        /\ \A v \in Workers \ {w} : job'[v] = job[v] /\ pc'[v] = pc[v]
        /\ pc[w] = "send" /\ pc'[w] \in Recording
        /\ items' = items
    BY <1>2 DEF SendItem, GoTo, storeVars, Recording, TypeOK
  <2>2. ASSUME NEW s \in rows'[w] PROVE s.item # r.item
    <3>1. s \in rows[w] /\ s # r /\ s \in Row /\ r \in Row
      BY <2>1 DEF TypeOK
    <3>2. /\ items[s.item] = [status |-> "processing", retry |-> s.retry]
          /\ items[r.item] = [status |-> "processing", retry |-> r.retry]
      BY <3>1 DEF ClaimsCurrent
    <3>3. s.item = r.item => s.retry = r.retry
      BY <3>2
    <3> QED
      BY <3>1, <3>3 DEF Row
  <2>3. Held(w)' = Held(w)
    BY <2>1 DEF Held, Recording, TypeOK
  <2>4. \A v \in Workers \ {w} : Held(v)' = Held(v) /\ rows'[v] = rows[v]
    BY <2>1 DEF Held, TypeOK
  <2>5. ClaimsDisjoint'
    BY <2>3, <2>4 DEF ClaimsDisjoint
  <2>6. \A v \in Workers : rows'[v] \subseteq rows[v]
    BY <2>1, <2>4 DEF TypeOK
  <2>7. items'[job'[w].item] = [status |-> "processing", retry |-> job'[w].retry]
    <3>1. items[r.item] = [status |-> "processing", retry |-> r.retry]
      BY DEF ClaimsCurrent
    <3> QED
      BY <2>1, <3>1
  <2>8. ASSUME NEW v \in Workers, NEW s \in rows'[v]
        PROVE  items'[s.item] = [status |-> "processing", retry |-> s.retry]
    <3>1. s \in rows[v]
      BY <2>6
    <3>2. items[s.item] = [status |-> "processing", retry |-> s.retry]
      BY <3>1 DEF ClaimsCurrent
    <3> QED
      BY <2>1, <3>2
  <2>9. ASSUME NEW v \in Workers, pc'[v] \in Recording
        PROVE  /\ items'[job'[v].item] = [status |-> "processing", retry |-> job'[v].retry]
               /\ \A s \in rows'[v] : s.item # job'[v].item
    <3>1. CASE v = w
      BY <2>1, <2>2, <2>7, <3>1
    <3>2. CASE v # w
      BY <2>1, <2>6, <2>9, <3>2 DEF ClaimsCurrent
    <3> QED
      BY <3>1, <3>2
  <2>10. ClaimsCurrent'
    BY <2>8, <2>9 DEF ClaimsCurrent
  <2> QED
    BY <2>5, <2>10
<1>3. ASSUME NEW w \in Workers, DeadLetter(w)
      PROVE  ClaimsCurrent' /\ ClaimsDisjoint'
  BY <1>3, ClaimsKept DEF DeadLetter, GoTo, Recording, TypeOK, storeVars
<1>4. ASSUME NEW w \in Workers, RecordResult(w)
      PROVE  ClaimsCurrent' /\ ClaimsDisjoint'
  <2>1. rows' = rows /\ pc'[w] \notin Recording /\ pc[w] \in Recording
    BY <1>4 DEF RecordResult, NextItem, GoTo, Recording, TypeOK
  <2>2. \A v \in Workers \ {w} : pc'[v] = pc[v] /\ job'[v] = job[v]
    BY <1>4 DEF RecordResult, NextItem, GoTo, TypeOK
  <2>3. \A v \in Workers : \A i \in Held(v)' : i # job[w].item
    BY <2>1, <2>2, NobodyElseHolds
  <2>4. \A i \in Items \ {job[w].item} : items'[i] = items[i]
    BY <1>4 DEF RecordResult, UpdateItemStatus, TypeOK, StoreTypeOK
  <2>5. \A v \in Workers : Held(v)' \subseteq Held(v)
    BY <2>1, <2>2 DEF Held
  <2>6. \A v \in Workers : \A i \in Held(v)' : items'[i] = items[i]
    BY <2>3, <2>4, <2>5, HeldProcessing
  <2> QED
    BY <2>1, <2>2, <2>6, ClaimsKept
<1>5. ASSUME NEW w \in Workers, RecordRefused(w)
      PROVE  ClaimsCurrent' /\ ClaimsDisjoint'
  BY <1>5, ClaimsKept DEF RecordRefused, NextItem, Recording, TypeOK, storeVars
<1>6. ASSUME NEW w \in Workers, CountDone(w)
      PROVE  ClaimsCurrent' /\ ClaimsDisjoint'
  BY <1>6, ClaimsKept DEF CountDone, GoTo, Recording, TypeOK, storeVars
<1>7. ASSUME NEW w \in Workers, CountFailed(w)
      PROVE  ClaimsCurrent' /\ ClaimsDisjoint'
  <2>1. rows' = rows /\ items' = items /\ pc'[w] \notin Recording
    BY <1>7 DEF CountFailed, NextItem, GoTo, Recording, TypeOK, storeVars
  <2>2. \A v \in Workers \ {w} : pc'[v] = pc[v] /\ job'[v] = job[v]
    BY <1>7 DEF CountFailed, NextItem, GoTo, TypeOK
  <2> QED
    BY <2>1, <2>2, ClaimsKept
<1>8. ASSUME NEW w \in Workers, Complete(w)
      PROVE  ClaimsCurrent' /\ ClaimsDisjoint'
  BY <1>8, ClaimsKept DEF Complete, CompleteBatch, GoTo, Recording, TypeOK
<1>9. ASSUME NEW w \in Workers, Enqueue(w)
      PROVE  ClaimsCurrent' /\ ClaimsDisjoint'
  BY <1>9, ClaimsKept DEF Enqueue, NextItem, Recording, TypeOK, storeVars
<1>10. ASSUME NEW w \in Workers, CallFails(w)
       PROVE  ClaimsCurrent' /\ ClaimsDisjoint'
  BY <1>10, ClaimsKept DEF CallFails, NextItem, GoTo, Recording, TypeOK, storeVars
<1>11. ASSUME NEW w \in Workers, NEW S \in SUBSET PendingRows, ClaimAnswerLost(w, S)
       PROVE  ClaimsCurrent' /\ ClaimsDisjoint'
  <2>1. rows' = rows /\ pc' = pc /\ job' = job
    BY <1>11 DEF ClaimAnswerLost, workerVars
  <2>2. \A v \in Workers : Held(v)' = Held(v)
    BY <2>1 DEF Held
  <2>3. \A i \in Items : items[i].status # "pending" => items'[i] = items[i]
    BY <1>11 DEF ClaimAnswerLost, GetPendingItems, PendingRows
  <2>4. \A v \in Workers : \A i \in Held(v)' : items'[i] = items[i]
    BY <2>2, <2>3, HeldProcessing
  <2> QED
    BY <2>1, <2>4, ClaimsKept
<1>12. ASSUME NEW w \in Workers, AnswerLost(w)
       PROVE  ClaimsCurrent' /\ ClaimsDisjoint'
  <2>1. rows' = rows /\ pc'[w] \notin Recording
    BY <1>12 DEF AnswerLost, NextItem, Recording, TypeOK
  <2>2. \A v \in Workers \ {w} : pc'[v] = pc[v] /\ job'[v] = job[v]
    BY <1>12 DEF AnswerLost, NextItem, TypeOK
  <2>3. \A v \in Workers : Held(v)' \subseteq Held(v)
    BY <2>1, <2>2 DEF Held
  <2>4. CASE pc[w] = "update"
    <3>1. \A v \in Workers : \A i \in Held(v)' : i # job[w].item
      BY <2>1, <2>2, <2>4, NobodyElseHolds DEF Recording
    <3>2. \A i \in Items \ {job[w].item} : items'[i] = items[i]
      BY <1>12, <2>4 DEF AnswerLost, UpdateItemStatus, TypeOK, StoreTypeOK
    <3>3. \A v \in Workers : \A i \in Held(v)' : items'[i] = items[i]
      BY <2>3, <3>1, <3>2, HeldProcessing
    <3> QED
      BY <2>1, <2>2, <3>3, ClaimsKept
  <2>5. CASE pc[w] # "update"
    BY <1>12, <2>1, <2>2, <2>5, ClaimsKept DEF AnswerLost, CompleteBatch
  <2> QED
    BY <2>4, <2>5
<1>13. ASSUME NEW n \in Nodes, Crash(n)
       PROVE  ClaimsCurrent' /\ ClaimsDisjoint'
  BY <1>13, ClaimsKept DEF Crash, Recording, TypeOK, storeVars
<1>14. ASSUME NEW n \in Nodes, Restart(n)
       PROVE  ClaimsCurrent' /\ ClaimsDisjoint'
  BY <1>14, ClaimsKept DEF Restart, Recording, TypeOK, storeVars
<1>15. ASSUME NEW S \in SUBSET StaleRows, CleanStaleLocks(S)
       PROVE  ClaimsCurrent' /\ ClaimsDisjoint'
  <2>1. rows' = rows /\ pc' = pc /\ job' = job
    BY <1>15 DEF CleanStaleLocks, workerVars
  <2>2. \A v \in Workers : Held(v)' = Held(v)
    BY <2>1 DEF Held
  <2>3. \A v \in Workers : \A i \in Held(v) : i \in Items /\ i \notin S
    BY HeldProcessing DEF StaleRows, HeldItems
  <2>4. \A i \in Items \ S : items'[i] = items[i]
    BY <1>15 DEF CleanStaleLocks, ResetStaleLocks
  <2> QED
    BY <2>1, <2>2, <2>3, <2>4, ClaimsKept
<1>16. ASSUME NEW b \in Batches, Submit(b) \/ SubmitItems(b) \/ Cancel(b)
       PROVE  ClaimsCurrent' /\ ClaimsDisjoint'
  <2>1. rows' = rows /\ pc' = pc /\ job' = job
    BY <1>16 DEF Submit, SubmitItems, Cancel, workerVars
  <2>2. \A v \in Workers : Held(v)' = Held(v)
    BY <2>1 DEF Held
  <2>3. \A i \in Items : items[i].status = "processing" => items'[i] = items[i]
    BY <1>16
    DEF Submit, SubmitItems, Cancel, CreateBatch, BulkInsertItems, CancelBatch, ItemsOf, WithStatus
  <2> QED
    BY <2>1, <2>2, <2>3, HeldProcessing, ClaimsKept
<1>17. ASSUME UNCHANGED vars
       PROVE  ClaimsCurrent' /\ ClaimsDisjoint'
  BY <1>17, ClaimsKept DEF vars
<1> QED
  BY <1>1, <1>2, <1>3, <1>4, <1>5, <1>6, <1>7, <1>8, <1>9, <1>10, <1>11, <1>12, <1>13,
     <1>14, <1>15, <1>16, <1>17
  DEF Next, Work, Fault, Client

(* SendItem decides the outcome by the number of the try, and the job is   *)
(* not touched until the outcome is recorded.                              *)
LEMMA OutcomeStep ==
  ASSUME TypeOK, OutcomeJustified, [Next]_vars
  PROVE  OutcomeJustified'
<1>1. ASSUME \A v \in Workers : pc'[v] \in Recording => pc[v] \in Recording /\ job'[v] = job[v]
      PROVE  OutcomeJustified'
  BY <1>1 DEF OutcomeJustified
<1>2. ASSUME NEW w \in Workers, NEW S \in SUBSET PendingRows, Claim(w, S)
      PROVE  OutcomeJustified'
  BY <1>1, <1>2 DEF Claim, GoTo, Recording, TypeOK
<1>3. ASSUME NEW w \in Workers, NEW r \in rows[w], NEW reply \in Replies,
             SendItem(w, r, reply)
      PROVE  OutcomeJustified'
  <2>1. /\ job'[w].retry = r.retry
        /\ job'[w].status = StatusAfter(reply.ok, r.retry)
        /\ \A v \in Workers \ {w} : job'[v] = job[v] /\ pc'[v] = pc[v]
    BY <1>3 DEF SendItem, GoTo, TypeOK
  <2>2. r.retry \in Nat /\ reply.ok \in BOOLEAN
    BY StoreAssumption, PoolAssumption DEF TypeOK, Row, Reply
  <2>3. StatusAfter(reply.ok, r.retry) = "failed" => r.retry >= MaxRetries
    BY <2>2, StoreAssumption DEF StatusAfter
  <2> QED
    BY <2>1, <2>3 DEF OutcomeJustified
<1>4. ASSUME NEW w \in Workers,
             DeadLetter(w) \/ RecordResult(w) \/ RecordRefused(w) \/ CountDone(w) \/ Complete(w)
               \/ Enqueue(w)
      PROVE  OutcomeJustified'
  BY <1>1, <1>4
  DEF DeadLetter, RecordResult, RecordRefused, CountDone, Complete, Enqueue, NextItem, GoTo,
      Recording, TypeOK
<1>5. ASSUME NEW w \in Workers, CountFailed(w)
      PROVE  OutcomeJustified'
  <2>1. pc'[w] \notin Recording
    BY <1>5 DEF CountFailed, NextItem, GoTo, Recording, TypeOK
  <2>2. \A v \in Workers \ {w} : pc'[v] = pc[v] /\ job'[v] = job[v]
    BY <1>5 DEF CountFailed, NextItem, GoTo, TypeOK
  <2> QED
    BY <1>1, <2>1, <2>2
<1>6. ASSUME NEW w \in Workers, CallFails(w) \/ AnswerLost(w)
      PROVE  OutcomeJustified'
  BY <1>1, <1>6 DEF CallFails, AnswerLost, NextItem, GoTo, Recording, TypeOK
<1>7. ASSUME NEW w \in Workers, NEW S \in SUBSET PendingRows, ClaimAnswerLost(w, S)
      PROVE  OutcomeJustified'
  BY <1>1, <1>7 DEF ClaimAnswerLost, workerVars
<1>8. ASSUME NEW n \in Nodes, Crash(n) \/ Restart(n)
      PROVE  OutcomeJustified'
  BY <1>1, <1>8 DEF Crash, Restart, Recording, TypeOK
<1>9. ASSUME NEW S \in SUBSET StaleRows, CleanStaleLocks(S)
      PROVE  OutcomeJustified'
  BY <1>1, <1>9 DEF CleanStaleLocks, workerVars
<1>10. ASSUME NEW b \in Batches, Submit(b) \/ SubmitItems(b) \/ Cancel(b)
       PROVE  OutcomeJustified'
  BY <1>1, <1>10 DEF Submit, SubmitItems, Cancel, workerVars
<1>11. ASSUME UNCHANGED vars
       PROVE  OutcomeJustified'
  BY <1>1, <1>11 DEF vars
<1> QED
  BY <1>2, <1>3, <1>4, <1>5, <1>6, <1>7, <1>8, <1>9, <1>10, <1>11
  DEF Next, Work, Fault, Client

(* One item moves along its life when the outcome of a try is recorded.    *)
LEMMA RecordedLife ==
  ASSUME ClaimInv, NEW w \in Workers, pc[w] = "update",
         UpdateItemStatus(job[w].item, job[w].status, job[w].retry + 1)
  PROVE  Lifecycle!Next
<1>1. job[w] \in Job /\ items[job[w].item] = [status |-> "processing", retry |-> job[w].retry]
  BY DEF ClaimInv, RowsOfBusy, ClaimsCurrent, Recording
<1>2. job[w].status = "failed" => job[w].retry >= MaxRetries
  BY DEF ClaimInv, OutcomeJustified, Recording
<1>3. /\ DOMAIN items' = Items
      /\ items'[job[w].item] = [status |-> job[w].status, retry |-> job[w].retry + 1]
      /\ \A i \in Items \ {job[w].item} : items'[i] = items[i]
  BY <1>1 DEF UpdateItemStatus, ClaimInv, TypeOK, StoreTypeOK, Job
<1>4. job[w].status \in {"pending", "done", "failed"}
  BY <1>1 DEF Job
<1>5. \/ Lifecycle!TriedInVain(job[w].item)
      \/ Lifecycle!Done(job[w].item)
      \/ Lifecycle!GivenUp(job[w].item)
  BY <1>1, <1>2, <1>3, <1>4
  DEF Lifecycle!TriedInVain, Lifecycle!Done, Lifecycle!GivenUp, Lifecycle!Becomes
<1> QED
  BY <1>3, <1>5 DEF Lifecycle!Next

(* Claimed rows are taken up, the others stay.                             *)
LEMMA ClaimedLife ==
  ASSUME StoreTypeOK, NEW S \in SUBSET PendingRows, GetPendingItems(S)
  PROVE  Lifecycle!Next
<1>1. DOMAIN items' = Items
  BY DEF GetPendingItems
<1>2. ASSUME NEW i \in S PROVE Lifecycle!TakenUp(i)
  <2>1. i \in Items /\ items[i] \in ItemRow /\ items[i].status = "pending"
    BY DEF PendingRows, StoreTypeOK
  <2>2. items'[i] = [status |-> "processing", retry |-> items[i].retry]
    BY <2>1 DEF GetPendingItems, ItemRow
  <2> QED
    BY <2>1, <2>2 DEF Lifecycle!TakenUp, Lifecycle!Becomes, ItemRow
<1>3. \A i \in Items \ S : items'[i] = items[i]
  BY DEF GetPendingItems
<1> QED
  BY <1>1, <1>2, <1>3 DEF Lifecycle!Next

(* Every step of the pool is a step of the lives of items, or leaves the   *)
(* table alone.                                                            *)
LEMMA LifeStep ==
  ASSUME ClaimInv, [Next]_vars
  PROVE  Lifecycle!Next \/ UNCHANGED items
<1>1. ASSUME NEW w \in Workers, NEW S \in SUBSET PendingRows, Claim(w, S) \/ ClaimAnswerLost(w, S)
      PROVE  Lifecycle!Next
  BY <1>1, ClaimedLife DEF Claim, ClaimAnswerLost, ClaimInv, TypeOK
<1>2. ASSUME NEW w \in Workers, RecordResult(w) \/ (AnswerLost(w) /\ pc[w] = "update")
      PROVE  Lifecycle!Next
  BY <1>2, RecordedLife DEF RecordResult, AnswerLost
<1>3. ASSUME NEW w \in Workers, AnswerLost(w), pc[w] # "update"
      PROVE  UNCHANGED items
  BY <1>3 DEF AnswerLost, CompleteBatch
<1>4. ASSUME NEW S \in SUBSET StaleRows, CleanStaleLocks(S)
      PROVE  Lifecycle!Next
  <2>1. DOMAIN items' = Items /\ \A i \in Items \ S : items'[i] = items[i]
    BY <1>4 DEF CleanStaleLocks, ResetStaleLocks
  <2>2. ASSUME NEW i \in S PROVE Lifecycle!TriedInVain(i)
    BY <1>4
    DEF CleanStaleLocks, ResetStaleLocks, StaleRows, Lifecycle!TriedInVain, Lifecycle!Becomes
  <2> QED
    BY <2>1, <2>2 DEF Lifecycle!Next
<1>5. ASSUME NEW b \in Batches, SubmitItems(b)
      PROVE  Lifecycle!Next
  <2>1. DOMAIN items' = Items /\ \A i \in Items \ ItemsOf(b) : items'[i] = items[i]
    BY <1>5 DEF SubmitItems, BulkInsertItems, ItemsOf
  <2>2. ASSUME NEW i \in ItemsOf(b) PROVE Lifecycle!Submitted(i)
    <3>1. i \in Items /\ items[i].status = "absent" /\ items'[i] = [status |-> "pending", retry |-> 0]
      BY <1>5 DEF SubmitItems, BulkInsertItems, ItemsOf
    <3>2. items[i].retry = 0
      BY <3>1 DEF ClaimInv, AbsentRowsFresh
    <3> QED
      BY <3>1, <3>2 DEF Lifecycle!Submitted, Lifecycle!Becomes
  <2> QED
    BY <2>1, <2>2 DEF Lifecycle!Next
<1>6. ASSUME NEW b \in Batches, Cancel(b)
      PROVE  Lifecycle!Next
  <2> DEFINE S == WithStatus(b, "pending")
  <2>1. /\ DOMAIN items' = Items
        /\ \A i \in Items \ S : items'[i] = items[i]
        /\ \A i \in S : items'[i] = [items[i] EXCEPT !.status = "cancelled"]
    BY <1>6 DEF Cancel, CancelBatch, WithStatus, ItemsOf
  <2>2. ASSUME NEW i \in S PROVE Lifecycle!Cancelled(i)
    <3>1. items[i] \in ItemRow /\ items[i].status = "pending"
      BY DEF WithStatus, ItemsOf, ClaimInv, TypeOK, StoreTypeOK
    <3> QED
      BY <2>1, <3>1 DEF Lifecycle!Cancelled, Lifecycle!Becomes, ItemRow
  <2> QED
    BY <2>1, <2>2 DEF Lifecycle!Next
<1>7. ASSUME NEW w \in Workers, NEW r \in rows[w], NEW reply \in Replies,
             SendItem(w, r, reply)
      PROVE  UNCHANGED items
  BY <1>7 DEF SendItem, storeVars
<1>8. ASSUME NEW w \in Workers,
             DeadLetter(w) \/ RecordRefused(w) \/ CountDone(w) \/ CountFailed(w) \/ Complete(w)
               \/ Enqueue(w) \/ CallFails(w)
      PROVE  UNCHANGED items
  BY <1>8
  DEF DeadLetter, RecordRefused, CountDone, CountFailed, Complete, CompleteBatch, Enqueue,
      CallFails, storeVars
<1>9. ASSUME \/ \E n \in Nodes : Crash(n) \/ Restart(n)
             \/ \E b \in Batches : Submit(b)
             \/ UNCHANGED vars
      PROVE  UNCHANGED items
  BY <1>9 DEF Crash, Restart, Submit, CreateBatch, storeVars, vars
<1> QED
  BY <1>1, <1>2, <1>3, <1>4, <1>5, <1>6, <1>7, <1>8, <1>9
  DEF Next, Work, Fault, Client

(* What a step of its life does to an item.                                *)
LEMMA LifeCases ==
  ASSUME Lifecycle!Next \/ UNCHANGED items, NEW i \in Items, items'[i] # items[i]
  PROVE  \E to \in ItemStatus, tries \in {0, 1} :
           items'[i] = [status |-> to, retry |-> items[i].retry + tries]
<1>1. \/ Lifecycle!Submitted(i) \/ Lifecycle!TakenUp(i) \/ Lifecycle!Cancelled(i)
      \/ Lifecycle!TriedInVain(i) \/ Lifecycle!Done(i) \/ Lifecycle!GivenUp(i)
  BY DEF Lifecycle!Next
<1> QED
  BY <1>1
  DEF Lifecycle!Submitted, Lifecycle!TakenUp, Lifecycle!Cancelled, Lifecycle!TriedInVain,
      Lifecycle!Done, Lifecycle!GivenUp, Lifecycle!Becomes, ItemStatus

LEMMA FreshStep ==
  ASSUME ClaimInv, [Next]_vars
  PROVE  AbsentRowsFresh'
<1>1. ASSUME NEW i \in Items, items'[i].status = "absent", items'[i] # items[i]
      PROVE  FALSE
  <2>1. PICK to \in ItemStatus, tries \in {0, 1} :
          items'[i] = [status |-> to, retry |-> items[i].retry + tries]
    BY <1>1, LifeStep, LifeCases
  <2> QED
    BY <1>1, <2>1 DEF ItemStatus
<1> QED
  BY <1>1 DEF AbsentRowsFresh, ClaimInv

LEMMA ClaimInvInit == Init => ClaimInv
<1>1. Init => OutcomeJustified /\ AbsentRowsFresh
  BY DEF Init, StoreInit, OutcomeJustified, AbsentRowsFresh, Recording
<1> QED
  BY <1>1, TypeInit, ClaimInit DEF ClaimInv

LEMMA ClaimInvStep ==
  ASSUME SlowClaims = FALSE, ClaimInv, [Next]_vars
  PROVE  ClaimInv'
<1>1. TypeOK' /\ RowsOfBusy'
  BY TypeStep DEF ClaimInv
<1>2. ClaimsCurrent' /\ ClaimsDisjoint'
  BY ClaimStep
<1>3. OutcomeJustified'
  BY OutcomeStep DEF ClaimInv
<1>4. AbsentRowsFresh'
  BY FreshStep
<1> QED
  BY <1>1, <1>2, <1>3, <1>4 DEF ClaimInv

(* The steps of an item's life, by its status.                             *)
ItemLives(i) ==
  \/ items'[i] = items[i]
  \/ /\ items[i].status = "absent" /\ items[i].retry = 0
     /\ items'[i].status = "pending" /\ items'[i].retry = 0
  \/ /\ items[i].status = "pending" /\ items'[i].status \in {"processing", "cancelled"}
     /\ items'[i].retry = items[i].retry
  \/ /\ items[i].status = "processing" /\ items'[i].status \in {"pending", "done", "failed"}
     /\ items'[i].retry = items[i].retry + 1

(* The same as an implication, for a module that instantiates the pool.    *)
LEMMA ClaimsFollow ==
  SlowClaims = FALSE =>
    (ClaimInv /\ [Next]_vars => ClaimInv' /\ \A i \in Items : ItemLives(i))
<1> SUFFICES ASSUME SlowClaims = FALSE, ClaimInv, [Next]_vars
             PROVE  ClaimInv' /\ \A i \in Items : ItemLives(i)
  OBVIOUS
<1>1. ClaimInv'
  BY ClaimInvStep
<1>2. ASSUME NEW i \in Items PROVE ItemLives(i)
  <2>1. items[i].retry \in Nat
    BY StoreAssumption DEF ClaimInv, TypeOK, StoreTypeOK, ItemRow
  <2>2. items[i].status = "absent" => items[i].retry = 0
    BY DEF ClaimInv, AbsentRowsFresh
  <2>3. \/ items'[i] = items[i]
        \/ Lifecycle!Submitted(i) \/ Lifecycle!TakenUp(i) \/ Lifecycle!Cancelled(i)
        \/ Lifecycle!TriedInVain(i) \/ Lifecycle!Done(i) \/ Lifecycle!GivenUp(i)
    BY LifeStep DEF Lifecycle!Next
  <2> QED
    BY <2>1, <2>2, <2>3
    DEF ItemLives, Lifecycle!Submitted, Lifecycle!TakenUp, Lifecycle!Cancelled,
        Lifecycle!TriedInVain, Lifecycle!Done, Lifecycle!GivenUp, Lifecycle!Becomes
<1> QED
  BY <1>1, <1>2

(* As long as live workers keep no row beyond the threshold, no item is    *)
(* held by two of them, whatever crashes or fails.                         *)
THEOREM ClaimsExclusive ==
  ASSUME SlowClaims = FALSE
  PROVE  Spec => []SingleHolder
<1>1. Init => ClaimInv
  BY ClaimInvInit
<1>2. ClaimInv /\ [Next]_vars => ClaimInv'
  BY ClaimInvStep
<1>3. ClaimInv => SingleHolder
  BY HeldProcessing DEF ClaimInv, SingleHolder, ClaimsDisjoint
<1> QED
  BY <1>1, <1>2, <1>3, PTL DEF Spec

(* Under the same assumption the tables implement the abstract life of     *)
(* the items: the variable items itself is the refinement mapping.         *)
THEOREM LifecycleImplemented ==
  ASSUME SlowClaims = FALSE
  PROVE  Spec => ImplementsLifecycle
<1>1. Init => ClaimInv /\ Lifecycle!Init
  BY ClaimInvInit DEF Init, StoreInit, Lifecycle!Init
<1>2. ClaimInv /\ [Next]_vars => ClaimInv'
  BY ClaimInvStep
<1>3. ClaimInv /\ [Next]_vars => [Lifecycle!Next]_items
  BY LifeStep
<1> QED
  BY <1>1, <1>2, <1>3, PTL DEF Spec, ImplementsLifecycle, Lifecycle!Spec

(* Done, failed and cancelled items are never touched again.               *)
THEOREM TerminalItems ==
  ASSUME SlowClaims = FALSE
  PROVE  Spec => TerminalItemsStay
<1>1. ClaimInv /\ [Next]_vars =>
        [\A i \in Items : items[i].status \in Terminal => items'[i] = items[i]]_vars
  BY LifeStep
  DEF Lifecycle!Next, Lifecycle!Submitted, Lifecycle!TakenUp, Lifecycle!Cancelled,
      Lifecycle!TriedInVain, Lifecycle!Done, Lifecycle!GivenUp, Lifecycle!Becomes, Terminal
<1>2. Init => ClaimInv
  BY ClaimInvInit
<1>3. ClaimInv /\ [Next]_vars => ClaimInv'
  BY ClaimInvStep
<1> QED
  BY <1>1, <1>2, <1>3, PTL DEF Spec, TerminalItemsStay

(* The tries of an item are never taken back.                              *)
THEOREM RetriesCounted ==
  ASSUME SlowClaims = FALSE
  PROVE  Spec => RetriesNeverRefunded
<1>1. ClaimInv /\ [Next]_vars => [\A i \in Items : items'[i].retry >= items[i].retry]_vars
  <2> SUFFICES ASSUME ClaimInv, [Next]_vars, NEW i \in Items
               PROVE  items'[i].retry >= items[i].retry
    OBVIOUS
  <2>1. items[i].retry \in Nat
    BY StoreAssumption DEF ClaimInv, TypeOK, StoreTypeOK, ItemRow
  <2>2. ASSUME items'[i] # items[i] PROVE items'[i].retry >= items[i].retry
    <3>1. PICK to \in ItemStatus, tries \in {0, 1} :
            items'[i] = [status |-> to, retry |-> items[i].retry + tries]
      BY <2>2, LifeStep, LifeCases
    <3> QED
      BY <2>1, <3>1
  <2> QED
    BY <2>1, <2>2
<1>2. Init => ClaimInv
  BY ClaimInvInit
<1>3. ClaimInv /\ [Next]_vars => ClaimInv'
  BY ClaimInvStep
<1> QED
  BY <1>1, <1>2, <1>3, PTL DEF Spec, RetriesNeverRefunded
-----------------------------------------------------------------------------

LEMMA FiniteItems ==
  ASSUME NEW b \in Batches
  PROVE  /\ IsFiniteSet(ItemsOf(b))
         /\ \A s \in ItemStatus : IsFiniteSet(WithStatus(b, s))
<1>1. IsFiniteSet(Items) /\ ItemsOf(b) \subseteq Items
  BY StoreAssumption DEF ItemsOf
<1>2. IsFiniteSet(ItemsOf(b))
  BY <1>1, FS_Subset
<1>3. \A s \in ItemStatus : WithStatus(b, s) \subseteq ItemsOf(b)
  BY DEF WithStatus
<1> QED
  BY <1>2, <1>3, FS_Subset

(* The arithmetic of checkBatchCompletion: if as many items are done and   *)
(* failed as there are, every item is done or failed, also when the done   *)
(* ones were counted too early.                                            *)
LEMMA CountedAll ==
  ASSUME NEW b \in Batches, NEW success \in Nat, success <= DoneCount(b),
         success + FailedCount(b) = TotalItems(b)
  PROVE  AllFinished(b) /\ success = DoneCount(b)
<1> DEFINE D == WithStatus(b, "done")
           F == WithStatus(b, "failed")
<1>1. IsFiniteSet(D) /\ IsFiniteSet(F) /\ IsFiniteSet(ItemsOf(b))
  BY FiniteItems DEF ItemStatus
<1>2. D \cap F = {} /\ D \cup F \subseteq ItemsOf(b)
  BY DEF WithStatus
<1>3. Cardinality(D \cup F) = Cardinality(D) + Cardinality(F)
  <2>1. Cardinality(D \cap F) = 0
    BY <1>2, FS_EmptySet
  <2>2. Cardinality(D) \in Nat /\ Cardinality(F) \in Nat
    BY <1>1, FS_CardinalityType
  <2>3. Cardinality(D \cup F) = Cardinality(D) + Cardinality(F) - Cardinality(D \cap F)
    BY <1>1, FS_Union
  <2> HIDE DEF D, F
  <2> QED
    BY <2>1, <2>2, <2>3
<1>4. Cardinality(D \cup F) <= Cardinality(ItemsOf(b))
  BY <1>1, <1>2, FS_Subset
<1>5. DoneCount(b) \in Nat /\ FailedCount(b) \in Nat /\ TotalItems(b) \in Nat
  BY CountsAreNat
<1>6. success = DoneCount(b) /\ Cardinality(D \cup F) = Cardinality(ItemsOf(b))
  BY <1>3, <1>4, <1>5 DEF DoneCount, FailedCount, TotalItems
<1>7. D \cup F = ItemsOf(b)
  BY <1>1, <1>2, <1>6, FS_Subset
<1> QED
  BY <1>6, <1>7 DEF AllFinished, WithStatus

LEMMA CountsAreNatNext ==
  ASSUME NEW b \in Batches
  PROVE  DoneCount(b)' \in Nat
<1>1. WithStatus(b, "done")' \subseteq ItemsOf(b)
  BY DEF WithStatus
<1> QED
  BY <1>1, FiniteItems, FS_Subset, FS_CardinalityType DEF DoneCount

(* Items that are done or failed stay so.                                  *)
LEMMA FinishedItemsStay ==
  ASSUME ClaimInv, [Next]_vars, NEW i \in Items, items[i].status \in {"done", "failed"}
  PROVE  items'[i] = items[i]
BY LifeStep
DEF Lifecycle!Next, Lifecycle!Submitted, Lifecycle!TakenUp, Lifecycle!Cancelled,
    Lifecycle!TriedInVain, Lifecycle!Done, Lifecycle!GivenUp, Lifecycle!Becomes

LEMMA FinishedKept ==
  ASSUME ClaimInv, [Next]_vars, NEW b \in Batches, AllFinished(b)
  PROVE  /\ AllFinished(b)'
         /\ DoneCount(b)' = DoneCount(b)
         /\ FailedCount(b)' = FailedCount(b)
<1>1. \A i \in ItemsOf(b) : items'[i] = items[i]
  BY FinishedItemsStay DEF AllFinished, ItemsOf
<1>2. \A s \in ItemStatus : WithStatus(b, s)' = WithStatus(b, s)
  BY <1>1 DEF WithStatus
<1> QED
  BY <1>1, <1>2 DEF AllFinished, DoneCount, FailedCount, ItemStatus

LEMMA DoneGrows ==
  ASSUME ClaimInv, [Next]_vars, NEW b \in Batches
  PROVE  DoneCount(b) <= DoneCount(b)'
<1>1. WithStatus(b, "done") \subseteq WithStatus(b, "done")'
  BY FinishedItemsStay DEF WithStatus, ItemsOf
<1>2. IsFiniteSet(WithStatus(b, "done")')
  <2>1. WithStatus(b, "done")' \subseteq ItemsOf(b)
    BY DEF WithStatus
  <2> QED
    BY <2>1, FiniteItems, FS_Subset
<1> QED
  BY <1>1, <1>2, FS_Subset DEF DoneCount
-----------------------------------------------------------------------------
(* What a step may do to the row of a batch.                               *)
BatchMove(b) ==
  \/ batches'[b] = batches[b]
  \/ /\ batches[b].status = "absent"
     /\ batches'[b].status = "pending"
     /\ UNCHANGED items
  \/ /\ batches[b].status \in {"pending", "processing"}
     /\ batches'[b].status = "cancelled"
  \/ /\ \E w \in Workers :
          /\ pc[w] = "complete"
          /\ b = BatchOf[job[w].item]
          /\ batches'[b] = [status |-> Verdict(job[w].success, job[w].failed),
                            processed |-> DoneCount(b), failed |-> FailedCount(b)]
     /\ UNCHANGED items

LEMMA CompleteMove ==
  ASSUME ClaimInv, NEW w \in Workers, pc[w] = "complete",
         CompleteBatch(BatchOf[job[w].item], Verdict(job[w].success, job[w].failed)),
         NEW b \in Batches
  PROVE  BatchMove(b)
<1>1. CASE b = BatchOf[job[w].item]
  BY <1>1 DEF CompleteBatch, BatchMove, ClaimInv, TypeOK, StoreTypeOK
<1>2. CASE b # BatchOf[job[w].item]
  BY <1>2 DEF CompleteBatch, BatchMove, ClaimInv, TypeOK, StoreTypeOK
<1> QED
  BY <1>1, <1>2

LEMMA BatchStep ==
  ASSUME ClaimInv, [Next]_vars, NEW b \in Batches
  PROVE  BatchMove(b)
<1>1. ASSUME NEW w \in Workers, Complete(w)
      PROVE  BatchMove(b)
  BY <1>1, CompleteMove DEF Complete
<1>2. ASSUME NEW w \in Workers, AnswerLost(w)
      PROVE  BatchMove(b)
  <2>1. CASE pc[w] = "complete"
    BY <1>2, <2>1, CompleteMove DEF AnswerLost
  <2>2. CASE pc[w] # "complete"
    BY <1>2, <2>2 DEF AnswerLost, UpdateItemStatus, BatchMove
  <2> QED
    BY <2>1, <2>2
<1>3. ASSUME NEW c \in Batches, Submit(c)
      PROVE  BatchMove(b)
  <2>1. batches' = [batches EXCEPT ![c].status = "pending"] /\ batches[c].status = "absent"
        /\ items' = items
    BY <1>3 DEF Submit, CreateBatch
  <2>2. batches[c] \in BatchRow /\ batches \in [Batches -> BatchRow]
    BY DEF ClaimInv, TypeOK, StoreTypeOK
  <2>3. CASE b = c
    <3>1. batches'[b].status = "pending"
      BY <2>1, <2>2, <2>3 DEF BatchRow
    <3> QED
      BY <2>1, <2>3, <3>1 DEF BatchMove
  <2>4. CASE b # c
    BY <2>1, <2>2, <2>4 DEF BatchMove
  <2> QED
    BY <2>3, <2>4
<1>4. ASSUME NEW c \in Batches, Cancel(c)
      PROVE  BatchMove(b)
  <2>1. batches' = [batches EXCEPT ![c].status =
                      IF @ \in {"pending", "processing"} THEN "cancelled" ELSE @]
    BY <1>4 DEF Cancel, CancelBatch
  <2>2. batches[c] \in BatchRow /\ batches \in [Batches -> BatchRow]
    BY DEF ClaimInv, TypeOK, StoreTypeOK
  <2>3. CASE b = c /\ batches[c].status \in {"pending", "processing"}
    <3>1. batches'[b].status = "cancelled"
      BY <2>1, <2>2, <2>3 DEF BatchRow
    <3> QED
      BY <2>3, <3>1 DEF BatchMove
  <2>4. CASE b = c /\ batches[c].status \notin {"pending", "processing"}
    <3>1. batches'[b] = batches[b]
      BY <2>1, <2>2, <2>4 DEF BatchRow
    <3> QED
      BY <3>1 DEF BatchMove
  <2>5. CASE b # c
    BY <2>1, <2>2, <2>5 DEF BatchMove
  <2> QED
    BY <2>3, <2>4, <2>5
<1>5. ASSUME NEW c \in Batches, SubmitItems(c)
      PROVE  BatchMove(b)
  BY <1>5 DEF SubmitItems, BulkInsertItems, BatchMove
<1>6. ASSUME NEW w \in Workers, NEW S \in SUBSET PendingRows, Claim(w, S) \/ ClaimAnswerLost(w, S)
      PROVE  BatchMove(b)
  BY <1>6 DEF Claim, ClaimAnswerLost, GetPendingItems, BatchMove
<1>7. ASSUME NEW w \in Workers, NEW r \in rows[w], NEW reply \in Replies,
             SendItem(w, r, reply)
      PROVE  BatchMove(b)
  BY <1>7 DEF SendItem, storeVars, BatchMove
<1>8. ASSUME NEW w \in Workers,
             DeadLetter(w) \/ RecordResult(w) \/ RecordRefused(w) \/ CountDone(w)
               \/ CountFailed(w) \/ Enqueue(w) \/ CallFails(w)
      PROVE  BatchMove(b)
  BY <1>8
  DEF DeadLetter, RecordResult, UpdateItemStatus, RecordRefused, CountDone, CountFailed, Enqueue,
      CallFails, storeVars, BatchMove
<1>9. ASSUME \/ \E n \in Nodes : Crash(n) \/ Restart(n)
             \/ \E S \in SUBSET StaleRows : CleanStaleLocks(S)
             \/ UNCHANGED vars
      PROVE  BatchMove(b)
  BY <1>9 DEF Crash, Restart, CleanStaleLocks, ResetStaleLocks, storeVars, vars, BatchMove
<1> QED
  BY <1>1, <1>2, <1>3, <1>4, <1>5, <1>6, <1>7, <1>8, <1>9
  DEF Next, Work, Fault, Client

(* A completed batch keeps its row: a second completion writes the same.   *)
LEMMA VerdictKept ==
  ASSUME PoolInv, [Next]_vars, NEW b \in Batches, batches[b].status \in Verdicts
  PROVE  batches'[b] = batches[b]
<1>1. ASSUME NEW w \in Workers, pc[w] = "complete", b = BatchOf[job[w].item]
      PROVE  batches[b] = [status |-> Verdict(job[w].success, job[w].failed),
                           processed |-> DoneCount(b), failed |-> FailedCount(b)]
  <2>1. job[w].success = DoneCount(b) /\ job[w].failed = FailedCount(b)
    BY <1>1 DEF PoolInv, CountsCurrent, CountsOfWorker
  <2> QED
    BY <2>1 DEF PoolInv, FinishedVerdict
<1>2. BatchMove(b)
  BY BatchStep DEF PoolInv
<1> QED
  BY <1>1, <1>2 DEF BatchMove, Verdicts
-----------------------------------------------------------------------------
LEMMA FinishedVerdictStep ==
  ASSUME PoolInv, [Next]_vars
  PROVE  FinishedVerdict'
<1> SUFFICES ASSUME NEW b \in Batches, batches'[b].status \in Verdicts
             PROVE  /\ AllFinished(b)'
                    /\ batches'[b] = [status |-> Verdict(DoneCount(b)', FailedCount(b)'),
                                      processed |-> DoneCount(b)', failed |-> FailedCount(b)']
  BY DEF FinishedVerdict, Verdict
<1>1. CASE batches[b].status \in Verdicts
  <2>1. batches'[b] = batches[b]
    BY <1>1, VerdictKept
  <2>2. /\ AllFinished(b)
        /\ batches[b] = [status |-> Verdict(DoneCount(b), FailedCount(b)),
                         processed |-> DoneCount(b), failed |-> FailedCount(b)]
    BY <1>1 DEF PoolInv, FinishedVerdict
  <2> QED
    BY <2>1, <2>2, FinishedKept DEF PoolInv
<1>2. CASE batches[b].status \notin Verdicts
  <2>1. BatchMove(b)
    BY BatchStep DEF PoolInv
  <2>2. PICK w \in Workers :
          /\ pc[w] = "complete"
          /\ b = BatchOf[job[w].item]
          /\ batches'[b] = [status |-> Verdict(job[w].success, job[w].failed),
                            processed |-> DoneCount(b), failed |-> FailedCount(b)]
    BY <1>2, <2>1 DEF BatchMove, Verdicts
  <2>3. AllFinished(b) /\ job[w].success = DoneCount(b) /\ job[w].failed = FailedCount(b)
    BY <2>2 DEF PoolInv, CountsCurrent, CountsOfWorker
  <2> QED
    BY <2>2, <2>3, FinishedKept DEF PoolInv
<1> QED
  BY <1>1, <1>2

(* The rows of a batch that is not there are not there either.             *)
LEMMA FollowStep ==
  ASSUME PoolInv, [Next]_vars
  PROVE  ItemsFollowBatch'
<1> SUFFICES ASSUME NEW i \in Items, batches'[BatchOf[i]].status = "absent"
             PROVE  items'[i].status = "absent"
  BY DEF ItemsFollowBatch
<1> DEFINE b == BatchOf[i]
<1>1. b \in Batches
  BY StoreAssumption
<1>2. batches[b].status = "absent"
  <2>1. BatchMove(b)
    BY <1>1, BatchStep DEF PoolInv
  <2>2. \A success, failed : Verdict(success, failed) # "absent"
    BY DEF Verdict
  <2>3. ASSUME NEW w \in Workers, NEW p, NEW f,
               batches'[b] = [status |-> Verdict(job[w].success, job[w].failed),
                              processed |-> p, failed |-> f]
        PROVE  FALSE
    BY <2>2, <2>3
  <2> QED
    BY <2>1, <2>3 DEF BatchMove
<1>3. items[i].status = "absent"
  BY <1>2 DEF PoolInv, ItemsFollowBatch
<1>4. ASSUME NEW c \in Batches, SubmitItems(c)
      PROVE  items'[i] = items[i]
  BY <1>2, <1>4 DEF SubmitItems, BulkInsertItems
<1>5. ASSUME NEW w \in Workers, NEW S \in SUBSET PendingRows, Claim(w, S) \/ ClaimAnswerLost(w, S)
      PROVE  items'[i] = items[i]
  BY <1>3, <1>5 DEF Claim, ClaimAnswerLost, GetPendingItems, PendingRows
<1>6. ASSUME NEW w \in Workers, pc[w] = "update",
             UpdateItemStatus(job[w].item, job[w].status, job[w].retry + 1)
      PROVE  items'[i] = items[i]
  <2>1. items[job[w].item] = [status |-> "processing", retry |-> job[w].retry]
    BY <1>6 DEF PoolInv, ClaimInv, ClaimsCurrent, Recording
  <2>2. i # job[w].item
    BY <1>3, <2>1
  <2> QED
    BY <1>6, <2>2 DEF UpdateItemStatus
<1>7. ASSUME NEW S \in SUBSET StaleRows, CleanStaleLocks(S)
      PROVE  items'[i] = items[i]
  BY <1>3, <1>7 DEF CleanStaleLocks, ResetStaleLocks, StaleRows
<1>8. ASSUME NEW c \in Batches, Cancel(c)
      PROVE  items'[i] = items[i]
  BY <1>3, <1>8 DEF Cancel, CancelBatch, WithStatus
<1>9. ASSUME NEW w \in Workers, NEW r \in rows[w], NEW reply \in Replies,
             SendItem(w, r, reply)
      PROVE  items'[i] = items[i]
  BY <1>9 DEF SendItem, storeVars
<1>10. ASSUME NEW w \in Workers,
              DeadLetter(w) \/ RecordRefused(w) \/ CountDone(w) \/ CountFailed(w) \/ Complete(w)
                \/ Enqueue(w) \/ CallFails(w)
       PROVE  items'[i] = items[i]
  BY <1>10
  DEF DeadLetter, RecordRefused, CountDone, CountFailed, Complete, CompleteBatch, Enqueue,
      CallFails, storeVars
<1>11. ASSUME \/ \E n \in Nodes : Crash(n) \/ Restart(n)
              \/ \E c \in Batches : Submit(c)
              \/ UNCHANGED vars
       PROVE  items'[i] = items[i]
  BY <1>11 DEF Crash, Restart, Submit, CreateBatch, storeVars, vars
<1>12. items'[i] = items[i]
  BY <1>4, <1>5, <1>6, <1>7, <1>8, <1>9, <1>10, <1>11
  DEF Next, Work, Fault, Client, RecordResult, AnswerLost, CompleteBatch
<1> QED
  BY <1>3, <1>12

(* An item becomes cancelled only together with its batch, and a batch     *)
(* that has a cancelled item cannot be completed.                          *)
LEMMA CancelledStep ==
  ASSUME PoolInv, [Next]_vars
  PROVE  CancelledItemsBlockCompletion'
<1> SUFFICES ASSUME NEW i \in Items, items'[i].status = "cancelled"
             PROVE  batches'[BatchOf[i]].status = "cancelled"
  BY DEF CancelledItemsBlockCompletion
<1> DEFINE b == BatchOf[i]
<1>1. b \in Batches /\ i \in ItemsOf(b)
  BY StoreAssumption DEF ItemsOf
<1>2. CASE items[i].status = "cancelled"
  <2>1. batches[b].status = "cancelled"
    BY <1>2 DEF PoolInv, CancelledItemsBlockCompletion
  <2>2. ~AllFinished(b)
    BY <1>1, <1>2 DEF AllFinished
  <2>3. ASSUME NEW w \in Workers, pc[w] = "complete" PROVE b # BatchOf[job[w].item]
    BY <2>2, <2>3 DEF PoolInv, CountsCurrent, CountsOfWorker
  <2>4. BatchMove(b)
    BY <1>1, BatchStep DEF PoolInv
  <2> QED
    BY <2>1, <2>3, <2>4 DEF BatchMove
<1>3. CASE items[i].status # "cancelled"
  <2>1. PICK c \in Batches : Cancel(c)
    <3>1. items'[i] # items[i]
      BY <1>3
    <3>2. ASSUME NEW c \in Batches, SubmitItems(c) PROVE FALSE
      BY <1>3, <3>2 DEF SubmitItems, BulkInsertItems
    <3>3. ASSUME NEW w \in Workers, NEW S \in SUBSET PendingRows,
                 Claim(w, S) \/ ClaimAnswerLost(w, S)
          PROVE  FALSE
      <4>1. items'[i] = IF i \in S THEN [items[i] EXCEPT !.status = "processing"] ELSE items[i]
        BY <3>3 DEF Claim, ClaimAnswerLost, GetPendingItems
      <4>2. items[i] \in ItemRow
        BY DEF PoolInv, ClaimInv, TypeOK, StoreTypeOK
      <4> QED
        BY <3>1, <4>1, <4>2 DEF ItemRow
    <3>4. ASSUME NEW w \in Workers, pc[w] = "update",
                 UpdateItemStatus(job[w].item, job[w].status, job[w].retry + 1)
          PROVE  FALSE
      <4>1. job[w] \in Job
        BY <3>4 DEF PoolInv, ClaimInv, RowsOfBusy, Recording
      <4> QED
        BY <3>1, <3>4, <4>1
        DEF UpdateItemStatus, Job, PoolInv, ClaimInv, TypeOK, StoreTypeOK
    <3>5. ASSUME NEW S \in SUBSET StaleRows, CleanStaleLocks(S) PROVE FALSE
      BY <1>3, <3>5 DEF CleanStaleLocks, ResetStaleLocks
    <3>6. ASSUME NEW w \in Workers, NEW r \in rows[w], NEW reply \in Replies,
                 SendItem(w, r, reply)
          PROVE  FALSE
      BY <3>1, <3>6 DEF SendItem, storeVars
    <3>7. ASSUME NEW w \in Workers,
                 DeadLetter(w) \/ RecordRefused(w) \/ CountDone(w) \/ CountFailed(w) \/ Complete(w)
                   \/ Enqueue(w) \/ CallFails(w)
          PROVE  FALSE
      BY <3>1, <3>7
      DEF DeadLetter, RecordRefused, CountDone, CountFailed, Complete, CompleteBatch, Enqueue,
          CallFails, storeVars
    <3>8. ASSUME \/ \E n \in Nodes : Crash(n) \/ Restart(n)
                 \/ \E c \in Batches : Submit(c)
                 \/ UNCHANGED vars
          PROVE  FALSE
      BY <3>1, <3>8 DEF Crash, Restart, Submit, CreateBatch, storeVars, vars
    <3> QED
      BY <3>1, <3>2, <3>3, <3>4, <3>5, <3>6, <3>7, <3>8
      DEF Next, Work, Fault, Client, RecordResult, AnswerLost, CompleteBatch
  <2>2. /\ batches[c].status # "absent"
        /\ batches' = [batches EXCEPT ![c].status =
                         IF @ \in {"pending", "processing"} THEN "cancelled" ELSE @]
        /\ items' = [j \in Items |-> IF j \in WithStatus(c, "pending")
                                     THEN [items[j] EXCEPT !.status = "cancelled"]
                                     ELSE items[j]]
    BY <2>1 DEF Cancel, CancelBatch
  <2>3. i \in WithStatus(c, "pending")
    BY <1>3, <2>2
  <2>4. b = c /\ ~AllFinished(b)
    BY <2>3 DEF WithStatus, ItemsOf, AllFinished
  <2>5. batches[b].status \notin Verdicts
    BY <1>1, <2>4 DEF PoolInv, FinishedVerdict
  <2>6. batches[b] \in BatchRow /\ batches \in [Batches -> BatchRow]
    BY <1>1 DEF PoolInv, ClaimInv, TypeOK, StoreTypeOK
  <2>7. batches[b].status \in {"pending", "processing", "cancelled"}
    BY <2>2, <2>4, <2>5, <2>6 DEF BatchRow, BatchStatus, Verdicts
  <2> QED
    BY <2>2, <2>4, <2>6, <2>7 DEF BatchRow
<1> QED
  BY <1>2, <1>3

(* A worker in the middle of a completion check that goes on with the same *)
(* job still has the right counts: finished items stay finished.           *)
LEMMA CountsKept ==
  ASSUME PoolInv, [Next]_vars, NEW w \in Workers, pc'[w] = pc[w], job'[w] = job[w],
         pc[w] \in Finishing
  PROVE  CountsOfWorker(w)'
<1> USE DEF PoolInv
<1>1. job[w] \in Job /\ BatchOf[job[w].item] \in Batches
  BY StoreAssumption DEF ClaimInv, RowsOfBusy, Job
<1>2. PICK b \in Batches : b = BatchOf[job[w].item]
  BY <1>1
<1>3. BatchOf[job'[w].item] = b
  BY <1>2
<1>4. CountsOfWorker(w)
  BY DEF CountsCurrent
<1>5. pc[w] = "countFailed" => job[w].success <= DoneCount(b)'
  <2>1. pc[w] = "countFailed" => job[w].success <= DoneCount(b)
    BY <1>2, <1>4 DEF CountsOfWorker
  <2>2. DoneCount(b) \in Nat /\ DoneCount(b)' \in Nat /\ job[w].success \in Nat
    BY <1>1, CountsAreNat, CountsAreNatNext DEF Job
  <2> QED
    BY <2>1, <2>2, DoneGrows
<1>6. ASSUME pc[w] \in {"complete", "enqueue"}
      PROVE  /\ AllFinished(b)'
             /\ job[w].success = DoneCount(b)'
             /\ job[w].failed = FailedCount(b)'
  <2>1. AllFinished(b) /\ job[w].success = DoneCount(b) /\ job[w].failed = FailedCount(b)
    BY <1>2, <1>4, <1>6 DEF CountsOfWorker
  <2> QED
    BY <2>1, FinishedKept
<1>7. ASSUME pc[w] = "enqueue"
      PROVE  batches'[b].status = Verdict(job[w].success, job[w].failed)
  <2>1. batches[b].status = Verdict(job[w].success, job[w].failed)
    BY <1>2, <1>4, <1>7 DEF CountsOfWorker
  <2>2. Verdict(job[w].success, job[w].failed) \in Verdicts
    BY <1>1, VerdictType DEF Job
  <2>3. batches'[b] = batches[b]
    BY <2>1, <2>2, VerdictKept
  <2> QED
    BY <2>1, <2>3
<1> QED
  BY <1>3, <1>5, <1>6, <1>7 DEF CountsOfWorker, Verdict

(* What a step does to a worker that is in, or enters, the completion      *)
(* check: it counts the done items, then the failed ones, completes the    *)
(* batch, or is left alone.                                                *)
LEMMA FinishingStep ==
  ASSUME ClaimInv, [Next]_vars, NEW w \in Workers,
         pc'[w] \in {"countFailed", "complete", "enqueue"}
  PROVE  \/ pc[w] \in Finishing /\ pc'[w] = pc[w] /\ job'[w] = job[w]
         \/ CountDone(w) \/ CountFailed(w) \/ Complete(w)
<1> DEFINE Same == pc'[w] = pc[w] /\ job'[w] = job[w]
<1> SUFFICES Same \/ CountDone(w) \/ CountFailed(w) \/ Complete(w)
  BY DEF Finishing
<1> USE DEF ClaimInv
<1>1. ASSUME NEW v \in Workers, NEW S \in SUBSET PendingRows, Claim(v, S) \/ ClaimAnswerLost(v, S)
      PROVE  Same
  BY <1>1 DEF Claim, ClaimAnswerLost, GoTo, TypeOK, workerVars
<1>2. ASSUME NEW v \in Workers, NEW r \in rows[v], NEW reply \in Replies, SendItem(v, r, reply)
      PROVE  Same
  BY <1>2 DEF SendItem, GoTo, TypeOK
<1>3. ASSUME NEW v \in Workers,
             DeadLetter(v) \/ RecordResult(v) \/ RecordRefused(v) \/ Enqueue(v)
      PROVE  Same
  BY <1>3 DEF DeadLetter, RecordResult, RecordRefused, Enqueue, NextItem, GoTo, TypeOK
<1>4. ASSUME NEW v \in Workers, CallFails(v) \/ AnswerLost(v)
      PROVE  Same
  BY <1>4 DEF CallFails, AnswerLost, NextItem, GoTo, TypeOK
<1>5. ASSUME NEW v \in Workers, v # w, CountDone(v) \/ CountFailed(v) \/ Complete(v)
      PROVE  Same
  BY <1>5 DEF CountDone, CountFailed, Complete, NextItem, GoTo, TypeOK
<1>6. ASSUME NEW n \in Nodes, Crash(n) \/ Restart(n)
      PROVE  Same
  BY <1>6 DEF Crash, Restart, TypeOK
<1>7. ASSUME \/ \E S \in SUBSET StaleRows : CleanStaleLocks(S)
             \/ \E c \in Batches : Submit(c) \/ SubmitItems(c) \/ Cancel(c)
             \/ UNCHANGED vars
      PROVE  Same
  BY <1>7 DEF CleanStaleLocks, Submit, SubmitItems, Cancel, workerVars, vars
<1> QED
  BY <1>1, <1>2, <1>3, <1>4, <1>5, <1>6, <1>7 DEF Next, Work, Fault, Client

LEMMA CountsStep ==
  ASSUME PoolInv, [Next]_vars
  PROVE  CountsCurrent'
<1> SUFFICES ASSUME NEW w \in Workers, pc'[w] \in {"countFailed", "complete", "enqueue"}
             PROVE  CountsOfWorker(w)'
  BY DEF CountsCurrent, CountsOfWorker
<1> USE DEF PoolInv
<1>0. /\ pc \in [Workers -> PC]
      /\ job \in [Workers -> Job \cup {NoJob}]
      /\ pc[w] \in Finishing => job[w] \in Job /\ BatchOf[job[w].item] \in Batches
  BY StoreAssumption DEF ClaimInv, TypeOK, RowsOfBusy, Job
<1>1. CASE pc[w] \in Finishing /\ pc'[w] = pc[w] /\ job'[w] = job[w]
  BY <1>1, CountsKept
<1>2. CASE CountDone(w)
  <2>1. /\ job' = [job EXCEPT ![w].success = DoneCount(BatchOf[job[w].item])]
        /\ pc'[w] = "countFailed"
        /\ items' = items
        /\ pc[w] \in Finishing
    BY <1>0, <1>2 DEF CountDone, GoTo, storeVars, Finishing
  <2>2. PICK b \in Batches : b = BatchOf[job[w].item]
    BY <1>0, <2>1
  <2>3. job'[w].success = DoneCount(b) /\ job'[w].item = job[w].item
    BY <1>0, <2>1, <2>2 DEF Job
  <2>4. DoneCount(b)' = DoneCount(b) /\ DoneCount(b) \in Nat
    BY <2>1, CountsAreNat DEF DoneCount, WithStatus
  <2> QED
    BY <2>1, <2>2, <2>3, <2>4 DEF CountsOfWorker
<1>3. CASE CountFailed(w)
  <2>1. PICK b \in Batches : b = BatchOf[job[w].item]
    BY <1>0, <1>3 DEF CountFailed, Finishing
  <2>2. /\ IsComplete(b, job[w].success, FailedCount(b))
        /\ job' = [job EXCEPT ![w].failed = FailedCount(b)]
        /\ pc'[w] = "complete"
        /\ pc[w] = "countFailed"
        /\ items' = items
    <3>1. ~NextItem(w)
      BY <1>0 DEF NextItem
    <3>2. IsComplete(b, job[w].success, FailedCount(b))
      BY <1>3, <2>1, <3>1, Zenon DEF CountFailed
    <3>3. job' = [job EXCEPT ![w].failed = FailedCount(b)] /\ GoTo(w, "complete")
      BY <1>3, <2>1, <3>2, Zenon DEF CountFailed
    <3> QED
      BY <1>0, <1>3, <3>2, <3>3 DEF CountFailed, GoTo, storeVars
  <2>3. job[w] \in Job
    BY <1>0, <2>2 DEF Finishing
  <2>4. /\ job'[w].failed = FailedCount(b)
        /\ job'[w].item = job[w].item
        /\ job'[w].success = job[w].success
    BY <1>0, <2>2, <2>3 DEF Job
  <2>5. job[w].success \in Nat /\ job[w].success <= DoneCount(b)
    BY <2>1, <2>2, <2>3 DEF CountsCurrent, CountsOfWorker, Job
  <2>6. AllFinished(b) /\ job[w].success = DoneCount(b)
    BY <2>2, <2>5, CountedAll DEF IsComplete
  <2>7. /\ AllFinished(b)' = AllFinished(b)
        /\ DoneCount(b)' = DoneCount(b)
        /\ FailedCount(b)' = FailedCount(b)
    BY <2>2 DEF AllFinished, DoneCount, FailedCount, WithStatus
  <2> QED
    BY <2>1, <2>2, <2>4, <2>6, <2>7 DEF CountsOfWorker
<1>4. CASE Complete(w)
  <2>1. PICK b \in Batches : b = BatchOf[job[w].item]
    BY <1>0, <1>4 DEF Complete, Finishing
  <2>2. /\ pc[w] = "complete" /\ pc'[w] = "enqueue"
        /\ job' = job /\ items' = items
        /\ batches' = [batches EXCEPT ![b] =
                         [status |-> Verdict(job[w].success, job[w].failed),
                          processed |-> DoneCount(b), failed |-> FailedCount(b)]]
    BY <1>0, <1>4, <2>1 DEF Complete, CompleteBatch, GoTo
  <2>3. batches'[b].status = Verdict(job[w].success, job[w].failed)
    BY <2>2 DEF ClaimInv, TypeOK, StoreTypeOK
  <2>4. AllFinished(b) /\ job[w].success = DoneCount(b) /\ job[w].failed = FailedCount(b)
    BY <2>1, <2>2 DEF CountsCurrent, CountsOfWorker
  <2>5. /\ AllFinished(b)' = AllFinished(b)
        /\ DoneCount(b)' = DoneCount(b)
        /\ FailedCount(b)' = FailedCount(b)
    BY <2>2 DEF AllFinished, DoneCount, FailedCount, WithStatus
  <2> QED
    BY <2>1, <2>2, <2>3, <2>4, <2>5 DEF CountsOfWorker, Verdict
<1> QED
  BY <1>1, <1>2, <1>3, <1>4, FinishingStep

(* An event is written by a worker that has just completed the batch.      *)
LEMMA EventsStep ==
  ASSUME PoolInv, [Next]_vars
  PROVE  EventsBacked'
<1> USE DEF PoolInv
<1>1. outbox \in Seq(Event)
  BY DEF ClaimInv, TypeOK, OutboxTypeOK
<1>2. ASSUME NEW k \in DOMAIN outbox
      PROVE  batches'[outbox[k].batch].status = outbox[k].verdict
  <2>1. outbox[k].batch \in Batches /\ outbox[k].verdict \in Verdicts
    <3>1. outbox[k] \in Event
      BY <1>1
    <3> QED
      BY <3>1 DEF Event
  <2>2. batches[outbox[k].batch].status = outbox[k].verdict
    BY DEF EventsBacked
  <2> QED
    BY <2>1, <2>2, VerdictKept
<1>3. CASE outbox' = outbox
  BY <1>2, <1>3 DEF EventsBacked
<1>4. ASSUME NEW w \in Workers, Enqueue(w)
      PROVE  EventsBacked'
  <2> DEFINE b == BatchOf[job[w].item]
             verdict == Verdict(job[w].success, job[w].failed)
             e == [batch |-> b, verdict |-> verdict, status |-> "pending", retry |-> 0]
  <2>1. outbox' = Append(outbox, e) /\ batches' = batches
    BY <1>4 DEF Enqueue, CreateEvent, storeVars
  <2>2. batches[b].status = verdict
    BY <1>4 DEF Enqueue, CountsCurrent, CountsOfWorker
  <2> HIDE DEF b, verdict
  <2>3. ASSUME NEW k \in DOMAIN outbox'
        PROVE  batches'[outbox'[k].batch].status = outbox'[k].verdict
    <3>1. CASE k \in DOMAIN outbox
      <4>1. outbox'[k] = outbox[k]
        BY <1>1, <2>1, <3>1
      <4> QED
        BY <1>2, <3>1, <4>1
    <3>2. CASE k \notin DOMAIN outbox
      <4>1. outbox'[k] = e
        BY <1>1, <2>1, <2>3, <3>2
      <4> QED
        BY <2>1, <2>2, <4>1
    <3> QED
      BY <3>1, <3>2
  <2> QED
    BY <2>3 DEF EventsBacked
<1>5. (\A w \in Workers : ~Enqueue(w)) => outbox' = outbox
  BY DEF Next, Work, Fault, Client, Claim, SendItem, DeadLetter, RecordResult, RecordRefused,
         CountDone, CountFailed, Complete, CallFails, AnswerLost, ClaimAnswerLost, Crash, Restart,
         CleanStaleLocks, Submit, SubmitItems, Cancel, vars
<1> QED
  BY <1>3, <1>4, <1>5
-----------------------------------------------------------------------------
LEMMA PoolInvInit == Init => PoolInv
<1>1. Init => CountsCurrent /\ ItemsFollowBatch /\ CancelledItemsBlockCompletion
              /\ FinishedVerdict /\ EventsBacked
  BY StoreAssumption
  DEF Init, StoreInit, OutboxInit, CountsCurrent, CountsOfWorker, ItemsFollowBatch,
      CancelledItemsBlockCompletion, FinishedVerdict, EventsBacked, Verdicts
<1> QED
  BY <1>1, ClaimInvInit DEF PoolInv

LEMMA PoolInvStep ==
  ASSUME SlowClaims = FALSE, PoolInv, [Next]_vars
  PROVE  PoolInv'
BY ClaimInvStep, CountsStep, FollowStep, CancelledStep, FinishedVerdictStep, EventsStep
DEF PoolInv

(* As long as live workers keep no row beyond the threshold: a batch is    *)
(* completed only with all its items done or failed, and with the verdict  *)
(* and the counters they justify.                                          *)
THEOREM CompletionCorrect ==
  ASSUME SlowClaims = FALSE
  PROVE  Spec => []FinishedVerdict
<1>1. PoolInv => FinishedVerdict
  BY DEF PoolInv
<1> QED
  BY <1>1, PoolInvInit, PoolInvStep, PTL DEF Spec

(* ... its verdict and its counters never change again ...                 *)
THEOREM CompletionFinal ==
  ASSUME SlowClaims = FALSE
  PROVE  Spec => VerdictStays
<1>1. PoolInv /\ [Next]_vars =>
        [\A b \in Batches : batches[b].status \in Verdicts => batches'[b] = batches[b]]_vars
  BY VerdictKept
<1> QED
  BY <1>1, PoolInvInit, PoolInvStep, PTL DEF Spec, VerdictStays

(* ... every event in the outbox announces the verdict its batch has ...   *)
THEOREM EventsTrue ==
  ASSUME SlowClaims = FALSE
  PROVE  Spec => []EventsBacked
<1>1. PoolInv => EventsBacked
  BY DEF PoolInv
<1> QED
  BY <1>1, PoolInvInit, PoolInvStep, PTL DEF Spec

(* ... and a batch with a cancelled item stays cancelled.                  *)
THEOREM CancelledBatchesNotCompleted ==
  ASSUME SlowClaims = FALSE
  PROVE  Spec => []CancelledItemsBlockCompletion
<1>1. PoolInv => CancelledItemsBlockCompletion
  BY DEF PoolInv
<1> QED
  BY <1>1, PoolInvInit, PoolInvStep, PTL DEF Spec

(* The invariant itself, as the runs check it.                             *)
THEOREM PoolInvariant ==
  ASSUME SlowClaims = FALSE
  PROVE  Spec => []PoolInv
BY PoolInvInit, PoolInvStep, PTL DEF Spec
-----------------------------------------------------------------------------
(* A dead letter is stored before the status that needs it.                *)
LettersStored ==
  dbErrors = 0 =>
    /\ \A i \in Items : items[i].status = "failed" => dlq[i] > 0
    /\ \A w \in Workers :
         pc[w] = "update" /\ job[w].status = "failed" /\ Storable(job[w]) => dlq[job[w].item] > 0

LEMMA LettersStep ==
  ASSUME TypeOK, RowsOfBusy, LettersStored, [Next]_vars
  PROVE  LettersStored'
<1>1. dbErrors \in Nat /\ dlq \in [Items -> Nat] /\ (DbError => dbErrors' # 0)
  BY PoolAssumption DEF TypeOK, OutboxTypeOK, DbError
<1>2. (dbErrors' = dbErrors \/ DbError) /\ \A i \in Items : dlq[i] > 0 => dlq'[i] > 0
  <2>1. ASSUME NEW w \in Workers, DeadLetter(w)
        PROVE  \A i \in Items : dlq[i] > 0 => dlq'[i] > 0
    BY <1>1, <2>1 DEF DeadLetter, InsertDeadLetter
  <2>2. ASSUME NEW w \in Workers, Work(w)
        PROVE  dbErrors' = dbErrors /\ \A i \in Items : dlq[i] > 0 => dlq'[i] > 0
    BY <2>1, <2>2
    DEF Work, SendItem, DeadLetter, RecordResult, RecordRefused, CountDone, CountFailed, Complete,
        Enqueue, faultVars
  <2>3. ASSUME Fault
        PROVE  (dbErrors' = dbErrors \/ DbError) /\ dlq' = dlq
    BY <2>3
    DEF Fault, CallFails, AnswerLost, ClaimAnswerLost, Crash, Restart, CleanStaleLocks, faultVars
  <2> QED
    BY <2>2, <2>3
    DEF Next, Claim, Client, Submit, SubmitItems, Cancel, faultVars, vars, CleanStaleLocks
<1>3. SUFFICES ASSUME dbErrors' = 0, dbErrors = 0, ~DbError
               PROVE  /\ \A i \in Items : items'[i].status = "failed" => dlq'[i] > 0
                      /\ \A w \in Workers :
                           pc'[w] = "update" /\ job'[w].status = "failed" /\ Storable(job'[w])
                             => dlq'[job'[w].item] > 0
  BY <1>1, <1>2 DEF LettersStored, Storable
<1>4. ASSUME NEW i \in Items, items'[i].status = "failed"
      PROVE  dlq'[i] > 0
  <2>1. CASE items[i].status = "failed"
    BY <1>2, <1>3, <2>1 DEF LettersStored
  <2>2. CASE items[i].status # "failed"
    <3>1. \A w \in Workers : RecordResult(w) => dlq'[i] > 0
      <4>1. ASSUME NEW w \in Workers, RecordResult(w) PROVE dlq'[i] > 0
        <5>1. pc[w] = "update" /\ Storable(job[w]) /\ dlq' = dlq
              /\ items' = [items EXCEPT ![job[w].item] =
                             [status |-> job[w].status, retry |-> job[w].retry + 1]]
          BY <4>1 DEF RecordResult, UpdateItemStatus
        <5>2. i = job[w].item /\ job[w].status = "failed"
          BY <1>4, <2>2, <5>1 DEF TypeOK, StoreTypeOK
        <5> QED
          BY <1>3, <5>1, <5>2 DEF LettersStored
      <4> QED
        BY <4>1
    <3>2. \A w \in Workers : ~RecordResult(w) /\ Work(w) => items' = items
      BY DEF Work, SendItem, DeadLetter, RecordRefused, CountDone, CountFailed, Complete, CompleteBatch,
             Enqueue, storeVars
    <3>3. ASSUME \/ \E S \in SUBSET PendingRows : GetPendingItems(S)
                 \/ \E S : ResetStaleLocks(S)
                 \/ \E b : CreateBatch(b) \/ BulkInsertItems(b) \/ CancelBatch(b)
                 \/ items' = items
          PROVE  items'[i].status # "failed"
      BY <2>2, <3>3
      DEF GetPendingItems, ResetStaleLocks, CreateBatch, BulkInsertItems, CancelBatch, TypeOK,
          StoreTypeOK, ItemRow
    <3> QED
      BY <1>3, <1>4, <3>1, <3>2, <3>3
      DEF Next, Claim, Fault, CallFails, AnswerLost, ClaimAnswerLost, Crash, Restart,
          CleanStaleLocks, Client, Submit, SubmitItems, Cancel, vars, storeVars
  <2> QED
    BY <2>1, <2>2
<1>5. ASSUME NEW w \in Workers, pc'[w] = "update", job'[w].status = "failed", Storable(job'[w])
      PROVE  dlq'[job'[w].item] > 0
  <2>1. CASE pc[w] = "update" /\ job'[w] = job[w]
    <3>1. job[w].item \in Items
      BY <2>1 DEF RowsOfBusy, Recording, Job
    <3> QED
      BY <1>2, <1>3, <1>5, <2>1, <3>1 DEF LettersStored
  <2>2. CASE DeadLetter(w)
    <3>1. pc[w] = "deadletter" /\ job' = job /\ job[w] \in Job
      BY <2>2 DEF DeadLetter, RowsOfBusy, Recording
    <3>2. dlq' = [dlq EXCEPT ![job[w].item] = @ + 1]
      BY <1>5, <2>2, <3>1 DEF DeadLetter, InsertDeadLetter
    <3>3. job[w].item \in Items
      BY <3>1 DEF Job
    <3> QED
      BY <1>1, <3>1, <3>2, <3>3
  <2>3. (pc[w] = "update" /\ job'[w] = job[w]) \/ DeadLetter(w)
    <3>1. ASSUME UNCHANGED workerVars
          PROVE  pc[w] = "update" /\ job'[w] = job[w]
      BY <1>5, <3>1 DEF workerVars
    <3>2. ASSUME NEW v \in Workers, Work(v), v # w
          PROVE  pc[w] = "update" /\ job'[w] = job[w]
      BY <1>5, <3>2
      DEF Work, SendItem, DeadLetter, RecordResult, RecordRefused, CountDone, CountFailed, Complete,
          Enqueue, NextItem, GoTo, TypeOK
    <3>3. ASSUME NEW r \in rows[w], NEW reply \in Replies, SendItem(w, r, reply)
          PROVE  FALSE
      <4>1. job'[w].status = StatusAfter(reply.ok, r.retry)
            /\ pc'[w] = IF StatusAfter(reply.ok, r.retry) = "failed" THEN "deadletter" ELSE "update"
        BY <3>3 DEF SendItem, GoTo, TypeOK
      <4> QED
        BY <1>5, <4>1
    <3>4. ASSUME NEW v \in Workers, NextItem(v)
          PROVE  pc[w] = "update" /\ job'[w] = job[w]
      BY <1>5, <3>4 DEF NextItem, TypeOK
    <3>5. ASSUME Work(w)
          PROVE  (pc[w] = "update" /\ job'[w] = job[w]) \/ DeadLetter(w)
      BY <1>5, <3>3, <3>4, <3>5
      DEF Work, RecordResult, RecordRefused, CountDone, CountFailed, Complete, Enqueue, GoTo, TypeOK
    <3>6. ASSUME NEW v \in Workers, NEW S, Claim(v, S)
          PROVE  pc[w] = "update" /\ job'[w] = job[w]
      BY <1>5, <3>6 DEF Claim, GoTo, TypeOK
    <3>7. ASSUME NEW n, Crash(n) \/ Restart(n)
          PROVE  pc[w] = "update" /\ job'[w] = job[w]
      BY <1>5, <3>7 DEF Crash, Restart, TypeOK
    <3> QED
      BY <1>3, <3>1, <3>2, <3>5, <3>6, <3>7
      DEF Next, Fault, CallFails, AnswerLost, ClaimAnswerLost, CleanStaleLocks, Client, Submit,
          SubmitItems, Cancel, vars, workerVars
  <2> QED
    BY <2>1, <2>2, <2>3
<1> QED
  BY <1>4, <1>5

(* Whatever crashes and however slowly live workers get on, as long as no  *)
(* call to Postgres fails an item is marked failed only once it is in the  *)
(* dead letter queue.                                                      *)
THEOREM DeadLettersStored == Spec => []FailedItemsInDlq
<1> DEFINE I == TypeOK /\ RowsOfBusy /\ LettersStored
<1>1. Init => I
  <2>1. Init => LettersStored
    BY DEF Init, StoreInit, LettersStored
  <2> QED
    BY <2>1, TypeInit
<1>2. I /\ [Next]_vars => I'
  BY TypeStep, LettersStep
<1>3. I => FailedItemsInDlq
  BY DEF LettersStored, FailedItemsInDlq
<1> QED
  BY <1>1, <1>2, <1>3, PTL DEF Spec
-----------------------------------------------------------------------------
(* How often a batch is announced.                                         *)

(* Of the batches in B: the events that announce one, the workers that may *)
(* still write one, and the items that are done or failed.                 *)
Announced(B) == {k \in DOMAIN outbox : outbox[k].batch \in B}

Announcing(B) == {w \in Workers : pc[w] \in Finishing /\ BatchOf[job[w].item] \in B}

Outcomes(B) == {i \in Items : BatchOf[i] \in B /\ items[i].status \in {"done", "failed"}}

(* An event is written on behalf of an item whose outcome was recorded,    *)
(* and an outcome is recorded once.                                        *)
AnnouncedWithin(B) ==
  /\ IsFiniteSet(Announced(B)) /\ IsFiniteSet(Announcing(B))
  /\ Cardinality(Announced(B)) + Cardinality(Announcing(B)) <= Cardinality(Outcomes(B))

EventsCounted == \A B \in SUBSET Batches : AnnouncedWithin(B)

(* What a step that records no outcome and writes no event may do.         *)
LEMMA CountKept ==
  ASSUME NEW B, AnnouncedWithin(B),
         Announced(B)' = Announced(B),
         Announcing(B)' \subseteq Announcing(B),
         Outcomes(B) \subseteq Outcomes(B)'
  PROVE  AnnouncedWithin(B)'
<1>1. IsFiniteSet(Outcomes(B)) /\ IsFiniteSet(Outcomes(B)')
  <2>1. Outcomes(B) \subseteq Items /\ Outcomes(B)' \subseteq Items
    BY DEF Outcomes
  <2> QED
    BY <2>1, StoreAssumption, FS_Subset
<1>2. /\ Cardinality(Outcomes(B)) \in Nat /\ Cardinality(Outcomes(B)') \in Nat
      /\ Cardinality(Outcomes(B)) <= Cardinality(Outcomes(B)')
  BY <1>1, FS_Subset, FS_CardinalityType
<1>3. /\ IsFiniteSet(Announced(B)) /\ IsFiniteSet(Announcing(B)) /\ IsFiniteSet(Announcing(B)')
      /\ Cardinality(Announced(B)) \in Nat
      /\ Cardinality(Announcing(B)) \in Nat /\ Cardinality(Announcing(B)') \in Nat
      /\ Cardinality(Announcing(B)') <= Cardinality(Announcing(B))
  BY FS_Subset, FS_CardinalityType DEF AnnouncedWithin
<1>4. Cardinality(Announced(B)) + Cardinality(Announcing(B)) <= Cardinality(Outcomes(B))
  BY DEF AnnouncedWithin
<1>5. /\ IsFiniteSet(Announced(B)')
      /\ Cardinality(Announced(B)') + Cardinality(Announcing(B)') <= Cardinality(Outcomes(B)')
  BY <1>2, <1>3, <1>4
<1> QED
  BY <1>3, <1>5 DEF AnnouncedWithin

(* Recording the outcome of i makes its worker one that may announce.      *)
LEMMA CountRecorded ==
  ASSUME NEW B, AnnouncedWithin(B), NEW w, NEW i \in Items,
         Announced(B)' = Announced(B),
         \/ /\ Announcing(B)' = Announcing(B) \cup {w}
            /\ i \notin Outcomes(B)
            /\ Outcomes(B)' = Outcomes(B) \cup {i}
         \/ Announcing(B)' = Announcing(B) /\ Outcomes(B)' = Outcomes(B)
  PROVE  AnnouncedWithin(B)'
<1>1. CASE Announcing(B)' = Announcing(B) /\ Outcomes(B)' = Outcomes(B)
  BY <1>1, CountKept
<1>2. CASE /\ Announcing(B)' = Announcing(B) \cup {w}
           /\ i \notin Outcomes(B)
           /\ Outcomes(B)' = Outcomes(B) \cup {i}
  <2>1. IsFiniteSet(Outcomes(B))
    <3>1. Outcomes(B) \subseteq Items
      BY DEF Outcomes
    <3> QED
      BY <3>1, StoreAssumption, FS_Subset
  <2>2. /\ Cardinality(Outcomes(B)) \in Nat
        /\ Cardinality(Outcomes(B) \cup {i}) = Cardinality(Outcomes(B)) + 1
    BY <1>2, <2>1, FS_AddElement, FS_CardinalityType
  <2>3. /\ IsFiniteSet(Announced(B)) /\ IsFiniteSet(Announcing(B))
        /\ Cardinality(Announced(B)) + Cardinality(Announcing(B)) <= Cardinality(Outcomes(B))
    BY DEF AnnouncedWithin
  <2>4. /\ IsFiniteSet(Announcing(B) \cup {w})
        /\ Cardinality(Announcing(B)) \in Nat /\ Cardinality(Announced(B)) \in Nat
        /\ \/ Cardinality(Announcing(B) \cup {w}) = Cardinality(Announcing(B)) + 1
           \/ Cardinality(Announcing(B) \cup {w}) = Cardinality(Announcing(B))
    BY <2>3, FS_AddElement, FS_CardinalityType
  <2>5. Cardinality(Announced(B)) + Cardinality(Announcing(B) \cup {w})
          <= Cardinality(Outcomes(B) \cup {i})
    BY <2>2, <2>3, <2>4
  <2>6. /\ IsFiniteSet(Announced(B)')
        /\ IsFiniteSet(Announcing(B)')
        /\ Cardinality(Announced(B)') + Cardinality(Announcing(B)') <= Cardinality(Outcomes(B)')
    BY <1>2, <2>3, <2>4, <2>5
  <2> QED
    BY <2>6 DEF AnnouncedWithin
<1> QED
  BY <1>1, <1>2

(* An event takes the place of the worker that writes it.                  *)
LEMMA CountAnnounced ==
  ASSUME NEW B, AnnouncedWithin(B), NEW w, NEW k,
         \/ /\ w \in Announcing(B)
            /\ Announcing(B)' = Announcing(B) \ {w}
            /\ Announced(B)' = Announced(B) \cup {k}
         \/ Announcing(B)' = Announcing(B) /\ Announced(B)' = Announced(B),
         Outcomes(B)' = Outcomes(B)
  PROVE  AnnouncedWithin(B)'
<1>1. CASE Announcing(B)' = Announcing(B) /\ Announced(B)' = Announced(B)
  BY <1>1, CountKept
<1>2. CASE /\ w \in Announcing(B)
           /\ Announcing(B)' = Announcing(B) \ {w}
           /\ Announced(B)' = Announced(B) \cup {k}
  <2>1. /\ IsFiniteSet(Announced(B)) /\ IsFiniteSet(Announcing(B))
        /\ Cardinality(Announced(B)) + Cardinality(Announcing(B)) <= Cardinality(Outcomes(B))
    BY DEF AnnouncedWithin
  <2>2. IsFiniteSet(Outcomes(B)) /\ Cardinality(Outcomes(B)) \in Nat
    <3>1. Outcomes(B) \subseteq Items
      BY DEF Outcomes
    <3> QED
      BY <3>1, StoreAssumption, FS_Subset, FS_CardinalityType
  <2>3. /\ IsFiniteSet(Announcing(B) \ {w})
        /\ Cardinality(Announcing(B)) \in Nat
        /\ Cardinality(Announcing(B) \ {w}) = Cardinality(Announcing(B)) - 1
    BY <1>2, <2>1, FS_RemoveElement, FS_CardinalityType
  <2>4. /\ IsFiniteSet(Announced(B) \cup {k})
        /\ Cardinality(Announced(B)) \in Nat
        /\ \/ Cardinality(Announced(B) \cup {k}) = Cardinality(Announced(B)) + 1
           \/ Cardinality(Announced(B) \cup {k}) = Cardinality(Announced(B))
    BY <2>1, FS_AddElement, FS_CardinalityType
  <2>5. Cardinality(Announced(B) \cup {k}) + Cardinality(Announcing(B) \ {w})
          <= Cardinality(Outcomes(B))
    BY <2>1, <2>2, <2>3, <2>4
  <2>6. /\ IsFiniteSet(Announced(B)')
        /\ IsFiniteSet(Announcing(B)')
        /\ Cardinality(Announced(B)') + Cardinality(Announcing(B)') <= Cardinality(Outcomes(B)')
    BY <1>2, <2>3, <2>4, <2>5
  <2> QED
    BY <2>6 DEF AnnouncedWithin
<1> QED
  BY <1>1, <1>2
(* What one worker may announce, and that the others may as before.        *)
LEMMA OthersAnnounce ==
  ASSUME TypeOK, NEW B, NEW w \in Workers,
         \A v \in Workers \ {w} : pc'[v] = pc[v] /\ job'[v] = job[v]
  PROVE  Announcing(B)' \ {w} = Announcing(B) \ {w}
BY DEF Announcing

(* The worker of an item whose outcome it recorded may now announce.       *)
LEMMA RecordCounted ==
  ASSUME ClaimInv, EventsCounted, NEW w \in Workers, RecordResult(w), NEW B \in SUBSET Batches
  PROVE  AnnouncedWithin(B)'
<1> DEFINE i == job[w].item
<1>1. AnnouncedWithin(B) /\ Announced(B)' = Announced(B)
  BY DEF EventsCounted, Announced, RecordResult
<1>2. /\ TypeOK /\ job[w] \in Job
      /\ items[job[w].item] = [status |-> "processing", retry |-> job[w].retry]
  BY DEF ClaimInv, RowsOfBusy, ClaimsCurrent, RecordResult, Recording
<1>3. i \in Items /\ items[i].status = "processing"
  BY <1>2 DEF Job
<1>4. /\ pc[w] = "update" /\ w \notin Announcing(B)
      /\ items' = [items EXCEPT ![i] = [status |-> job[w].status, retry |-> job[w].retry + 1]]
  BY DEF RecordResult, UpdateItemStatus, Announcing, Finishing
<1>5. /\ items'[i].status = job[w].status
      /\ \A j \in Items \ {i} : items'[j] = items[j]
      /\ pc \in [Workers -> PC] /\ job \in [Workers -> Job \cup {NoJob}]
  BY <1>2, <1>3, <1>4 DEF TypeOK, StoreTypeOK
<1>6. /\ i \notin Outcomes(B)
      /\ Outcomes(B)' = IF BatchOf[i] \in B /\ job[w].status \in {"done", "failed"}
                        THEN Outcomes(B) \cup {i} ELSE Outcomes(B)
  BY <1>3, <1>5 DEF Outcomes
<1>7. \A v \in Workers \ {w} : pc'[v] = pc[v] /\ job'[v] = job[v]
  BY <1>5 DEF RecordResult, NextItem, GoTo
<1>8. CASE job[w].status = "pending"
  <2>1. w \notin Announcing(B)'
    BY <1>5, <1>8 DEF RecordResult, NextItem, Announcing, Finishing
  <2>2. Announcing(B)' = Announcing(B)
    BY <1>2, <1>4, <1>7, <2>1, OthersAnnounce
  <2> QED
    BY <1>1, <1>6, <1>8, <2>2, CountKept
<1>9. CASE job[w].status \in {"done", "failed"}
  <2>1. pc'[w] = "countDone" /\ job' = job
    BY <1>5, <1>9 DEF RecordResult, GoTo
  <2>2. w \in Announcing(B)' <=> BatchOf[i] \in B
    BY <2>1 DEF Announcing, Finishing
  <2>3. Announcing(B)' = IF BatchOf[i] \in B THEN Announcing(B) \cup {w} ELSE Announcing(B)
    BY <1>2, <1>4, <1>7, <2>2, OthersAnnounce
  <2> QED
    BY <1>1, <1>3, <1>6, <1>9, <2>3, CountRecorded
<1> QED
  BY <1>2, <1>8, <1>9 DEF Job

LEMMA EnqueueCounted ==
  ASSUME ClaimInv, EventsCounted, NEW w \in Workers, Enqueue(w), NEW B \in SUBSET Batches
  PROVE  AnnouncedWithin(B)'
<1> DEFINE b == BatchOf[job[w].item]
           v == Verdict(job[w].success, job[w].failed)
           k == Len(outbox) + 1
<1>1. AnnouncedWithin(B) /\ Outcomes(B)' = Outcomes(B)
  BY DEF EventsCounted, Outcomes, Enqueue, storeVars
<1>2. /\ TypeOK /\ pc[w] = "enqueue" /\ pc \in [Workers -> PC] /\ job \in [Workers -> Job \cup {NoJob}]
      /\ outbox \in Seq(Event)
  BY DEF ClaimInv, TypeOK, OutboxTypeOK, Enqueue
<1>3. /\ w \in Announcing(B) <=> b \in B
      /\ w \notin Announcing(B)'
  BY <1>2 DEF Enqueue, NextItem, Announcing, Finishing
<1>4. \A u \in Workers \ {w} : pc'[u] = pc[u] /\ job'[u] = job[u]
  BY <1>2 DEF Enqueue, NextItem
<1>5. Announcing(B)' = Announcing(B) \ {w}
  BY <1>2, <1>3, <1>4, OthersAnnounce
<1>6. /\ DOMAIN outbox' = DOMAIN outbox \cup {k} /\ k \notin DOMAIN outbox
      /\ \A e \in DOMAIN outbox : outbox'[e] = outbox[e]
      /\ outbox'[k].batch = b
  BY <1>2 DEF Enqueue, CreateEvent
<1>7. Announced(B)' = IF b \in B THEN Announced(B) \cup {k} ELSE Announced(B)
  BY <1>6 DEF Announced
<1>8. \/ w \in Announcing(B) /\ Announced(B)' = Announced(B) \cup {k}
      \/ Announcing(B)' = Announcing(B) /\ Announced(B)' = Announced(B)
  BY <1>3, <1>5, <1>7
<1> HIDE DEF k
<1> QED
  BY <1>1, <1>5, <1>8, CountAnnounced

(* Every other step leaves the outbox alone and gives no worker anything   *)
(* to announce.                                                            *)
AnnouncesNothing ==
  /\ outbox' = outbox
  /\ \A v \in Workers : pc'[v] \in Finishing => pc[v] \in Finishing /\ job'[v].item = job[v].item

LEMMA QuietSteps ==
  ASSUME ClaimInv, [Next]_vars
  PROVE  AnnouncesNothing \/ \E w \in Workers : RecordResult(w) \/ Enqueue(w)
<1> USE DEF AnnouncesNothing, Finishing
<1>1. pc \in [Workers -> PC] /\ job \in [Workers -> Job \cup {NoJob}]
  BY DEF ClaimInv, TypeOK
<1>2. ASSUME NEW w \in Workers, NEW S \in SUBSET PendingRows, Claim(w, S) \/ ClaimAnswerLost(w, S)
      PROVE  AnnouncesNothing
  BY <1>1, <1>2 DEF Claim, ClaimAnswerLost, GoTo, workerVars
<1>3. ASSUME NEW w \in Workers, NEW r \in rows[w], NEW reply \in Replies, SendItem(w, r, reply)
      PROVE  AnnouncesNothing
  BY <1>1, <1>3 DEF SendItem, GoTo
<1>4. ASSUME NEW w \in Workers, DeadLetter(w) \/ RecordRefused(w)
      PROVE  AnnouncesNothing
  BY <1>1, <1>4 DEF DeadLetter, RecordRefused, GoTo, NextItem
<1>5. ASSUME NEW w \in Workers, CountDone(w) \/ CountFailed(w) \/ Complete(w)
      PROVE  AnnouncesNothing
  <2>1. outbox' = outbox
    BY <1>5 DEF CountDone, CountFailed, Complete
  <2>2. \A v \in Workers \ {w} : pc'[v] = pc[v] /\ job'[v] = job[v]
    BY <1>1, <1>5 DEF CountDone, CountFailed, Complete, GoTo, NextItem
  <2>3. pc[w] \in Finishing
    BY <1>5 DEF CountDone, CountFailed, Complete
  <2>4. job[w] \in Job
    BY <2>3 DEF ClaimInv, RowsOfBusy
  <2>5. pc'[w] \in Finishing => job'[w].item = job[w].item
    BY <1>1, <1>5, <2>4 DEF CountDone, CountFailed, Complete, GoTo, NextItem, Job
  <2> QED
    BY <2>1, <2>2, <2>3, <2>5
<1>6. ASSUME NEW w \in Workers, CallFails(w) \/ AnswerLost(w)
      PROVE  AnnouncesNothing
  BY <1>1, <1>6 DEF CallFails, AnswerLost, GoTo, NextItem
<1>7. ASSUME NEW n \in Nodes, Crash(n) \/ Restart(n)
      PROVE  AnnouncesNothing
  BY <1>1, <1>7 DEF Crash, Restart
<1>8. ASSUME \/ \E S \in SUBSET StaleRows : CleanStaleLocks(S)
             \/ Client \/ UNCHANGED vars
      PROVE  AnnouncesNothing
  BY <1>8 DEF CleanStaleLocks, Client, Submit, SubmitItems, Cancel, workerVars, vars
<1> QED
  BY <1>2, <1>3, <1>4, <1>5, <1>6, <1>7, <1>8 DEF Next, Work, Fault

LEMMA EventsCountedStep ==
  ASSUME ClaimInv, EventsCounted, [Next]_vars
  PROVE  EventsCounted'
<1> SUFFICES ASSUME NEW B \in SUBSET Batches PROVE AnnouncedWithin(B)'
  BY DEF EventsCounted
<1>1. CASE AnnouncesNothing
  <2>1. AnnouncedWithin(B)
    BY DEF EventsCounted
  <2>2. Announced(B)' = Announced(B) /\ Announcing(B)' \subseteq Announcing(B)
    BY <1>1 DEF AnnouncesNothing, Announced, Announcing
  <2>3. Outcomes(B) \subseteq Outcomes(B)'
    BY FinishedItemsStay DEF Outcomes
  <2> QED
    BY <2>1, <2>2, <2>3, CountKept
<1>2. CASE \E w \in Workers : RecordResult(w) \/ Enqueue(w)
  BY <1>2, RecordCounted, EnqueueCounted
<1> QED
  BY <1>1, <1>2, QuietSteps

LEMMA EventsCountedInit == Init => EventsCounted
<1> SUFFICES ASSUME Init, NEW B \in SUBSET Batches PROVE AnnouncedWithin(B)
  BY DEF EventsCounted
<1>1. Announced(B) = {} /\ Announcing(B) = {} /\ Outcomes(B) = {}
  BY DEF Init, StoreInit, OutboxInit, Announced, Announcing, Outcomes, Finishing
<1>2. Cardinality({}) = 0 /\ IsFiniteSet({})
  BY FS_EmptySet
<1> QED
  BY <1>1, <1>2 DEF AnnouncedWithin

-----------------------------------------------------------------------------
(* What can be seen of the workers once a batch is completed: nothing, that *)
(* a batch is completed, and that one is announced.                        *)
KeepsFinished ==
  \A b \in Batches : batches[b].status \in Verdicts =>
    /\ batches'[b] = batches[b]
    /\ \A i \in ItemsOf(b) : items'[i] = items[i]

FinishesNone ==
  /\ KeepsFinished
  /\ \A b \in Batches : batches'[b].status \in Verdicts => batches[b].status \in Verdicts
  /\ outbox' = outbox

Finishes(b) ==
  /\ batches[b].status \notin Verdicts
  /\ ItemsOf(b) # {} /\ AllFinished(b)
  /\ batches' = [batches EXCEPT ![b] =
                   [status |-> Verdict(DoneCount(b), FailedCount(b)),
                    processed |-> DoneCount(b), failed |-> FailedCount(b)]]
  /\ UNCHANGED <<items, outbox>>

Announces(b) ==
  /\ batches[b].status \in Verdicts
  /\ Cardinality(EventsOf(b)) < TotalItems(b)
  /\ Len(outbox) < Cardinality(Items)
  /\ CreateEvent(b, batches[b].status)
  /\ UNCHANGED storeVars

LEMMA CompletionsOnly ==
  ASSUME ClaimInv, [Next]_vars
  PROVE  \/ \E w \in Workers :
              /\ pc[w] = "complete"
              /\ CompleteBatch(BatchOf[job[w].item], Verdict(job[w].success, job[w].failed))
              /\ outbox' = outbox
         \/ \A b \in Batches : batches'[b] = batches[b] \/ batches'[b].status \notin Verdicts
<1> DEFINE Completion == \E w \in Workers :
              /\ pc[w] = "complete"
              /\ CompleteBatch(BatchOf[job[w].item], Verdict(job[w].success, job[w].failed))
              /\ outbox' = outbox
           NoVerdict == \A b \in Batches : batches'[b] = batches[b] \/ batches'[b].status \notin Verdicts
<1> SUFFICES Completion \/ NoVerdict
  OBVIOUS
<1>1. ASSUME NEW w \in Workers, Complete(w) \/ AnswerLost(w)
      PROVE  Completion \/ NoVerdict
  BY <1>1 DEF Complete, AnswerLost, UpdateItemStatus
<1>2. ASSUME NEW c \in Batches, Submit(c) \/ Cancel(c)
      PROVE  NoVerdict
  <2>1. batches[c] \in BatchRow /\ batches \in [Batches -> BatchRow]
    BY DEF ClaimInv, TypeOK, StoreTypeOK
  <2>2. \A b \in Batches \ {c} : batches'[b] = batches[b]
    BY <1>2, <2>1 DEF Submit, CreateBatch, Cancel, CancelBatch
  <2>3. CASE Submit(c)
    <3>1. batches'[c].status = "pending"
      BY <2>1, <2>3 DEF Submit, CreateBatch, BatchRow
    <3> QED
      BY <2>2, <3>1 DEF Verdicts
  <2>4. CASE Cancel(c)
    <3>1. batches' = [batches EXCEPT ![c].status =
                        IF @ \in {"pending", "processing"} THEN "cancelled" ELSE @]
      BY <2>4 DEF Cancel, CancelBatch
    <3>2. CASE batches[c].status \in {"pending", "processing"}
      <4>1. batches'[c].status = "cancelled"
        BY <2>1, <3>1, <3>2 DEF BatchRow
      <4> QED
        BY <2>2, <4>1 DEF Verdicts
    <3>3. CASE batches[c].status \notin {"pending", "processing"}
      <4>1. batches'[c] = batches[c]
        BY <2>1, <3>1, <3>3 DEF BatchRow
      <4> QED
        BY <2>2, <4>1
    <3> QED
      BY <3>2, <3>3
  <2> QED
    BY <1>2, <2>3, <2>4
<1>3. ASSUME NEW c \in Batches, SubmitItems(c)
      PROVE  NoVerdict
  BY <1>3 DEF SubmitItems, BulkInsertItems
<1>4. ASSUME NEW w \in Workers, NEW S \in SUBSET PendingRows, Claim(w, S) \/ ClaimAnswerLost(w, S)
      PROVE  NoVerdict
  BY <1>4 DEF Claim, ClaimAnswerLost, GetPendingItems
<1>5. ASSUME NEW w \in Workers, NEW r \in rows[w], NEW reply \in Replies, SendItem(w, r, reply)
      PROVE  NoVerdict
  BY <1>5 DEF SendItem, storeVars
<1>6. ASSUME NEW w \in Workers,
             DeadLetter(w) \/ RecordResult(w) \/ RecordRefused(w) \/ CountDone(w)
               \/ CountFailed(w) \/ Enqueue(w) \/ CallFails(w)
      PROVE  NoVerdict
  BY <1>6
  DEF DeadLetter, RecordResult, UpdateItemStatus, RecordRefused, CountDone, CountFailed, Enqueue,
      CallFails, storeVars
<1>7. ASSUME \/ \E n \in Nodes : Crash(n) \/ Restart(n)
             \/ \E S \in SUBSET StaleRows : CleanStaleLocks(S)
             \/ UNCHANGED vars
      PROVE  NoVerdict
  BY <1>7 DEF Crash, Restart, CleanStaleLocks, ResetStaleLocks, storeVars, vars
<1> HIDE DEF Completion, NoVerdict
<1> QED
  BY <1>1, <1>2, <1>3, <1>4, <1>5, <1>6, <1>7 DEF Next, Work, Fault, Client

LEMMA FinishedAreKept ==
  ASSUME PoolInv, [Next]_vars
  PROVE  KeepsFinished
<1> SUFFICES ASSUME NEW b \in Batches, batches[b].status \in Verdicts
             PROVE  batches'[b] = batches[b] /\ \A i \in ItemsOf(b) : items'[i] = items[i]
  BY DEF KeepsFinished
<1>1. AllFinished(b)
  BY DEF PoolInv, FinishedVerdict
<1> QED
  BY <1>1, VerdictKept, FinishedItemsStay DEF PoolInv, AllFinished, ItemsOf

LEMMA CompletionSeen ==
  ASSUME PoolInv, [Next]_vars, NEW w \in Workers, pc[w] = "complete",
         CompleteBatch(BatchOf[job[w].item], Verdict(job[w].success, job[w].failed)),
         outbox' = outbox
  PROVE  FinishesNone \/ \E b \in Batches : Finishes(b)
<1>1. PICK b \in Batches : b = BatchOf[job[w].item] /\ b \in Batches /\ ItemsOf(b) # {}
  <2>1. job[w] \in Job
    BY DEF PoolInv, ClaimInv, RowsOfBusy, Finishing
  <2> QED
    BY <2>1, StoreAssumption DEF Job, ItemsOf
<1>2. AllFinished(b) /\ job[w].success = DoneCount(b) /\ job[w].failed = FailedCount(b)
  BY <1>1 DEF PoolInv, CountsCurrent, CountsOfWorker
<1>3. batches' = [batches EXCEPT ![b] =
                   [status |-> Verdict(DoneCount(b), FailedCount(b)),
                    processed |-> DoneCount(b), failed |-> FailedCount(b)]] /\ items' = items
  BY <1>1, <1>2 DEF CompleteBatch
<1>4. CASE batches[b].status \notin Verdicts
  BY <1>1, <1>2, <1>3, <1>4 DEF Finishes
<1>5. CASE batches[b].status \in Verdicts
  <2>1. \A c \in Batches \ {b} : batches'[c] = batches[c]
    BY <1>3 DEF PoolInv, ClaimInv, TypeOK, StoreTypeOK
  <2> QED
    BY <1>5, <2>1, FinishedAreKept DEF FinishesNone
<1> QED
  BY <1>4, <1>5

(* A worker that announces a batch is counted for it, and for all of them. *)
LEMMA AnnouncementSeen ==
  ASSUME PoolInv, EventsCounted, NEW w \in Workers, Enqueue(w)
  PROVE  \E b \in Batches : Announces(b)
<1>1. PICK b \in Batches : b = BatchOf[job[w].item]
  <2>1. job[w] \in Job
    BY DEF PoolInv, ClaimInv, RowsOfBusy, Finishing, Enqueue
  <2> QED
    BY <2>1, StoreAssumption DEF Job
<1>2. /\ batches[b].status = Verdict(job[w].success, job[w].failed)
      /\ job[w].success \in Nat /\ job[w].failed \in Nat
  <2>1. job[w] \in Job /\ pc[w] = "enqueue"
    BY DEF PoolInv, ClaimInv, RowsOfBusy, Finishing, Enqueue
  <2> QED
    BY <1>1, <2>1 DEF PoolInv, CountsCurrent, CountsOfWorker, Job
<1>3. batches[b].status \in Verdicts
  BY <1>2, VerdictType
<1>4. ASSUME NEW B \in SUBSET Batches, b \in B
      PROVE  Cardinality(Announced(B)) < Cardinality(Outcomes(B))
  <2>1. w \in Announcing(B)
    BY <1>1, <1>4 DEF Announcing, Enqueue, Finishing
  <2>2. /\ IsFiniteSet(Announced(B)) /\ IsFiniteSet(Announcing(B))
        /\ Cardinality(Announced(B)) + Cardinality(Announcing(B)) <= Cardinality(Outcomes(B))
    BY DEF EventsCounted, AnnouncedWithin
  <2>3. Cardinality(Announcing(B)) \in Nat /\ Cardinality(Announcing(B)) # 0
        /\ Cardinality(Announced(B)) \in Nat
    BY <2>1, <2>2, FS_EmptySet, FS_CardinalityType
  <2>4. Outcomes(B) \subseteq Items
    BY DEF Outcomes
  <2>5. Cardinality(Outcomes(B)) \in Nat
    BY <2>4, StoreAssumption, FS_Subset, FS_CardinalityType
  <2> QED
    BY <2>2, <2>3, <2>5
<1>5. Cardinality(EventsOf(b)) < TotalItems(b)
  <2>1. Announced({b}) = EventsOf(b)
    BY DEF Announced, EventsOf
  <2>2. Outcomes({b}) \subseteq ItemsOf(b) /\ IsFiniteSet(ItemsOf(b))
    BY FiniteItems DEF Outcomes, ItemsOf
  <2>3. /\ Cardinality(Outcomes({b})) <= TotalItems(b)
        /\ Cardinality(Outcomes({b})) \in Nat /\ TotalItems(b) \in Nat
    BY <2>2, FS_Subset, FS_CardinalityType DEF TotalItems
  <2>4. IsFiniteSet(Announced({b}))
    BY DEF EventsCounted, AnnouncedWithin
  <2>5. Cardinality(EventsOf(b)) \in Nat
    BY <2>1, <2>4, FS_CardinalityType
  <2>6. Cardinality(EventsOf(b)) < Cardinality(Outcomes({b}))
    BY <1>4, <2>1
  <2> QED
    BY <2>3, <2>5, <2>6
<1>6. Len(outbox) < Cardinality(Items)
  <2>1. outbox \in Seq(Event)
    BY DEF PoolInv, ClaimInv, TypeOK, OutboxTypeOK
  <2>2. Announced(Batches) = 1..Len(outbox) /\ Len(outbox) \in Nat
    <3>1. DOMAIN outbox = 1..Len(outbox) /\ Len(outbox) \in Nat
      BY <2>1
    <3>2. \A k \in DOMAIN outbox : outbox[k] \in Event
      BY <2>1
    <3>3. \A k \in DOMAIN outbox : outbox[k].batch \in Batches
      BY <3>2 DEF Event
    <3> QED
      BY <3>1, <3>3 DEF Announced
  <2>3. Cardinality(Announced(Batches)) = Len(outbox)
    <3>1. \A n \in Nat : Cardinality(1..n) = n
      BY FS_Interval
    <3> QED
      BY <2>2, <3>1
  <2>4. Outcomes(Batches) \subseteq Items /\ IsFiniteSet(Items)
    BY StoreAssumption DEF Outcomes
  <2>5. /\ Cardinality(Outcomes(Batches)) <= Cardinality(Items)
        /\ Cardinality(Outcomes(Batches)) \in Nat /\ Cardinality(Items) \in Nat
    BY <2>4, FS_Subset, FS_CardinalityType
  <2>6. Cardinality(Announced(Batches)) < Cardinality(Outcomes(Batches))
    BY <1>4
  <2> QED
    BY <2>2, <2>3, <2>5, <2>6
<1>7. CreateEvent(b, batches[b].status) /\ UNCHANGED storeVars
  BY <1>1, <1>2 DEF Enqueue
<1> QED
  BY <1>3, <1>5, <1>6, <1>7 DEF Announces

(* What the steps of the pool look like, for the modules that see it from  *)
(* outside.                                                                *)
LEMMA PoolSeen ==
  SlowClaims = FALSE =>
    /\ Init => PoolInv /\ EventsCounted
    /\ PoolInv /\ EventsCounted /\ [Next]_vars =>
         /\ PoolInv' /\ EventsCounted'
         /\ FinishesNone \/ \E b \in Batches : Finishes(b) \/ Announces(b)
<1>1. Init => PoolInv /\ EventsCounted
  BY PoolInvInit, EventsCountedInit
<1>2. ASSUME SlowClaims = FALSE, PoolInv, EventsCounted, [Next]_vars
      PROVE  PoolInv' /\ EventsCounted'
  BY <1>2, PoolInvStep, EventsCountedStep DEF PoolInv
<1>3. ASSUME PoolInv, EventsCounted, [Next]_vars
      PROVE  FinishesNone \/ \E b \in Batches : Finishes(b) \/ Announces(b)
  <2>1. CASE \E w \in Workers : Enqueue(w)
    BY <1>3, <2>1, AnnouncementSeen
  <2>2. CASE ~\E w \in Workers : Enqueue(w)
    <3>1. outbox' = outbox
      BY <1>3, <2>2, QuietSteps DEF PoolInv, AnnouncesNothing, RecordResult
    <3>2. CASE \A b \in Batches : batches'[b] = batches[b] \/ batches'[b].status \notin Verdicts
      BY <1>3, <3>1, <3>2, FinishedAreKept DEF FinishesNone
    <3>3. CASE \E w \in Workers :
                 /\ pc[w] = "complete"
                 /\ CompleteBatch(BatchOf[job[w].item], Verdict(job[w].success, job[w].failed))
                 /\ outbox' = outbox
      BY <1>3, <3>3, CompletionSeen
    <3> QED
      BY <1>3, <3>2, <3>3, CompletionsOnly DEF PoolInv
  <2> QED
    BY <2>1, <2>2
<1> QED
  BY <1>1, <1>2, <1>3

(* The workers do not mind what becomes of the events they wrote, as long  *)
(* as these stay about the same batch and verdict.                         *)
LEMMA EventsMarked ==
  /\ UNCHANGED <<batches, items, dlq, pc, rows, job, crashes, dbErrors>>
  /\ outbox' \in Seq(Event)
  /\ DOMAIN outbox' = DOMAIN outbox
  /\ \A k \in DOMAIN outbox : /\ outbox'[k].batch = outbox[k].batch
                              /\ outbox'[k].verdict = outbox[k].verdict
  => (PoolInv /\ EventsCounted => PoolInv' /\ EventsCounted')
<1> SUFFICES ASSUME UNCHANGED <<batches, items, dlq, pc, rows, job, crashes, dbErrors>>,
                    outbox' \in Seq(Event),
                    DOMAIN outbox' = DOMAIN outbox,
                    \A k \in DOMAIN outbox : /\ outbox'[k].batch = outbox[k].batch
                                             /\ outbox'[k].verdict = outbox[k].verdict,
                    PoolInv, EventsCounted
             PROVE  PoolInv' /\ EventsCounted'
  OBVIOUS
<1>1. ClaimInv'
  BY DEF PoolInv, ClaimInv, TypeOK, StoreTypeOK, OutboxTypeOK, RowsOfBusy, ClaimsCurrent,
         ClaimsDisjoint, OutcomeJustified, AbsentRowsFresh, Held
<1>2. CountsCurrent' /\ FinishedVerdict'
  BY DEF PoolInv, CountsCurrent, CountsOfWorker, FinishedVerdict, AllFinished, DoneCount,
         FailedCount, WithStatus
<1>3. ItemsFollowBatch' /\ CancelledItemsBlockCompletion' /\ EventsBacked'
  BY DEF PoolInv, ItemsFollowBatch, CancelledItemsBlockCompletion, EventsBacked
<1>4. \A B \in SUBSET Batches : /\ Announced(B)' = Announced(B)
                                /\ Announcing(B)' = Announcing(B)
                                /\ Outcomes(B)' = Outcomes(B)
  BY DEF Announced, Announcing, Outcomes
<1>5. EventsCounted'
  BY <1>4 DEF EventsCounted, AnnouncedWithin
<1> QED
  BY <1>1, <1>2, <1>3, <1>5 DEF PoolInv
=============================================================================
