-------------------------- MODULE MiddlewareProofs ---------------------------
(***************************************************************************)
(* The workers of Middleware are what the dispatchers take them for: the   *)
(* middleware implements WebhookDispatcher, seen through the tables, for   *)
(* every number of nodes, workers, batches and items.  What the workers    *)
(* guarantee is taken from the proofs about WorkerPool, and the theorems   *)
(* about WebhookDispatcher are then theorems about the whole.              *)
(***************************************************************************)
EXTENDS Middleware, FiniteSetTheorems, SequenceTheorems, TLAPS

Proved == INSTANCE WorkerPoolProofs WITH
  pc <- workerPc, rows <- workerRows, job <- workerJob,
  SlowClaims <- FALSE

(* What the proofs about WorkerPool assume of its constants.               *)
LEMMA PoolIsConfigured ==
  /\ Proved!IsFiniteSet(Items) /\ BatchOf \in [Items -> Batches]
  /\ MaxRetries \in Nat /\ SmallIntMax \in Nat
  /\ Host \in [Workers -> Nodes]
  /\ ItemsPerPoll \in Nat \ {0}
  /\ Replies \subseteq Proved!Reply
  /\ FALSE \in BOOLEAN
  /\ MaxCrashes \in Nat
  /\ MaxDbErrors \in Nat
  /\ NoJob \notin Proved!Job
<1>1. Replies \subseteq Proved!Reply
  BY MiddlewareAssumption DEF Pool!Reply, Proved!Reply
<1>2. NoJob \notin Proved!Job
  BY MiddlewareAssumption DEF Pool!Job, Proved!Job
<1>3. Proved!IsFiniteSet(Items)
  BY StoreAssumption DEF IsFiniteSet, Proved!IsFiniteSet
<1> QED
  BY <1>1, <1>2, <1>3, StoreAssumption, MiddlewareAssumption

(* Both instances of WorkerPool are the same.                              *)
LEMMA SameInit == Pool!Init => Proved!Init
BY DEF Pool!Init, Proved!Init, Pool!StoreInit, Proved!StoreInit, Pool!OutboxInit, Proved!OutboxInit

LEMMA SameCardinality == \A S : Pool!Cardinality(S) = Proved!Cardinality(S)
BY DEF Pool!Cardinality, Proved!Cardinality

LEMMA SameCounts ==
  /\ \A S : Pool!Rows(S) = Proved!Rows(S)
  /\ Pool!PendingRows = Proved!PendingRows
  /\ \A b : /\ Pool!DoneCount(b) = Proved!DoneCount(b)
            /\ Pool!FailedCount(b) = Proved!FailedCount(b)
            /\ Pool!TotalItems(b) = Proved!TotalItems(b)
<1>1. \A b, s : Pool!WithStatus(b, s) = Proved!WithStatus(b, s)
  BY DEF Pool!WithStatus, Proved!WithStatus, Pool!ItemsOf, Proved!ItemsOf
<1>2. \A b : Pool!ItemsOf(b) = Proved!ItemsOf(b)
  BY DEF Pool!ItemsOf, Proved!ItemsOf
<1>3. \A S : Pool!Rows(S) = Proved!Rows(S)
  BY DEF Pool!Rows, Proved!Rows
<1>4. Pool!PendingRows = Proved!PendingRows
  BY DEF Pool!PendingRows, Proved!PendingRows
<1>5. ASSUME NEW b
      PROVE  /\ Pool!DoneCount(b) = Proved!DoneCount(b)
             /\ Pool!FailedCount(b) = Proved!FailedCount(b)
             /\ Pool!TotalItems(b) = Proved!TotalItems(b)
  <2>1. /\ Pool!WithStatus(b, "done") = Proved!WithStatus(b, "done")
        /\ Pool!WithStatus(b, "failed") = Proved!WithStatus(b, "failed")
        /\ Pool!ItemsOf(b) = Proved!ItemsOf(b)
    BY <1>1, <1>2
  <2> QED
    BY <2>1, SameCardinality
    DEF Pool!DoneCount, Proved!DoneCount, Pool!FailedCount, Proved!FailedCount,
        Pool!TotalItems, Proved!TotalItems
<1> QED
  BY <1>3, <1>4, <1>5

LEMMA SameWork ==
  ASSUME NEW w \in Workers
  PROVE  /\ \A S : Pool!Claim(w, S) => Proved!Claim(w, S)
         /\ \A r, reply : Pool!SendItem(w, r, reply) => Proved!SendItem(w, r, reply)
         /\ Pool!DeadLetter(w) => Proved!DeadLetter(w)
         /\ Pool!RecordResult(w) => Proved!RecordResult(w)
         /\ Pool!RecordRefused(w) => Proved!RecordRefused(w)
         /\ Pool!CountDone(w) => Proved!CountDone(w)
         /\ Pool!CountFailed(w) => Proved!CountFailed(w)
         /\ Pool!Complete(w) => Proved!Complete(w)
         /\ Pool!Enqueue(w) => Proved!Enqueue(w)
<1>1. ASSUME NEW S, Pool!Claim(w, S) PROVE Proved!Claim(w, S)
  <2>1. Pool!GetPendingItems(S) => Proved!GetPendingItems(S)
    BY SameCounts DEF Pool!GetPendingItems, Proved!GetPendingItems
  <2>2. Pool!Rows(S) = Proved!Rows(S)
    BY SameCounts
  <2> QED
    BY <1>1, <2>1, <2>2, SameCardinality
    DEF Pool!Claim, Proved!Claim, Pool!GoTo, Proved!GoTo, Pool!faultVars, Proved!faultVars
<1>2. \A r, reply : Pool!SendItem(w, r, reply) => Proved!SendItem(w, r, reply)
  BY DEF Pool!SendItem, Proved!SendItem, Pool!StatusAfter, Proved!StatusAfter, Pool!GoTo,
         Proved!GoTo, Pool!storeVars, Proved!storeVars, Pool!faultVars, Proved!faultVars
<1>3. Pool!DeadLetter(w) => Proved!DeadLetter(w)
  BY DEF Pool!DeadLetter, Proved!DeadLetter, Pool!Storable, Proved!Storable,
         Pool!InsertDeadLetter, Proved!InsertDeadLetter, Pool!GoTo, Proved!GoTo,
         Pool!storeVars, Proved!storeVars, Pool!faultVars, Proved!faultVars
<1>4. Pool!RecordResult(w) => Proved!RecordResult(w)
  BY DEF Pool!RecordResult, Proved!RecordResult, Pool!Storable, Proved!Storable,
         Pool!UpdateItemStatus, Proved!UpdateItemStatus, Pool!NextItem, Proved!NextItem,
         Pool!GoTo, Proved!GoTo, Pool!faultVars, Proved!faultVars
<1>5. Pool!RecordRefused(w) => Proved!RecordRefused(w)
  BY DEF Pool!RecordRefused, Proved!RecordRefused, Pool!Storable, Proved!Storable,
         Pool!NextItem, Proved!NextItem, Pool!storeVars, Proved!storeVars, Pool!faultVars,
         Proved!faultVars
<1>6. Pool!CountDone(w) => Proved!CountDone(w)
  BY SameCounts
  DEF Pool!CountDone, Proved!CountDone, Pool!GoTo, Proved!GoTo, Pool!storeVars,
      Proved!storeVars, Pool!faultVars, Proved!faultVars
<1>7. Pool!CountFailed(w) => Proved!CountFailed(w)
  BY SameCounts
  DEF Pool!CountFailed, Proved!CountFailed, Pool!IsComplete, Proved!IsComplete,
      Pool!NextItem, Proved!NextItem, Pool!GoTo, Proved!GoTo, Pool!storeVars,
      Proved!storeVars, Pool!faultVars, Proved!faultVars
<1>8. Pool!Complete(w) => Proved!Complete(w)
  BY SameCounts
  DEF Pool!Complete, Proved!Complete, Pool!CompleteBatch, Proved!CompleteBatch,
      Pool!Verdict, Proved!Verdict, Pool!GoTo, Proved!GoTo, Pool!faultVars, Proved!faultVars
<1>9. Pool!Enqueue(w) => Proved!Enqueue(w)
  BY DEF Pool!Enqueue, Proved!Enqueue, Pool!CreateEvent, Proved!CreateEvent, Pool!Verdict,
         Proved!Verdict, Pool!NextItem, Proved!NextItem, Pool!storeVars, Proved!storeVars,
         Pool!faultVars, Proved!faultVars
<1> QED
  BY <1>1, <1>2, <1>3, <1>4, <1>5, <1>6, <1>7, <1>8, <1>9

LEMMA SameFaults ==
  /\ \A w \in Workers : /\ Pool!CallFails(w) => Proved!CallFails(w)
                        /\ Pool!AnswerLost(w) => Proved!AnswerLost(w)
  /\ \A w \in Workers : \A S : Pool!ClaimAnswerLost(w, S) => Proved!ClaimAnswerLost(w, S)
  /\ \A n \in Nodes : /\ Pool!Crash(n) => Proved!Crash(n)
                      /\ Pool!Restart(n) => Proved!Restart(n)
<1>1. Pool!DbError <=> Proved!DbError
  BY DEF Pool!DbError, Proved!DbError
<1>2. ASSUME NEW w \in Workers, Pool!CallFails(w) PROVE Proved!CallFails(w)
  BY <1>1, <1>2
  DEF Pool!CallFails, Proved!CallFails, Pool!NextItem, Proved!NextItem, Pool!GoTo, Proved!GoTo,
      Pool!Finishing, Proved!Finishing, Pool!storeVars, Proved!storeVars
<1>3. ASSUME NEW w \in Workers, Pool!AnswerLost(w) PROVE Proved!AnswerLost(w)
  BY <1>1, <1>3, SameCounts
  DEF Pool!AnswerLost, Proved!AnswerLost, Pool!NextItem, Proved!NextItem,
      Pool!Storable, Proved!Storable, Pool!UpdateItemStatus, Proved!UpdateItemStatus,
      Pool!CompleteBatch, Proved!CompleteBatch, Pool!Verdict, Proved!Verdict
<1>4. ASSUME NEW w \in Workers, NEW S, Pool!ClaimAnswerLost(w, S) PROVE Proved!ClaimAnswerLost(w, S)
  <2>1. Pool!GetPendingItems(S) => Proved!GetPendingItems(S)
    BY SameCounts DEF Pool!GetPendingItems, Proved!GetPendingItems
  <2> QED
    BY <1>1, <1>4, <2>1, SameCardinality
    DEF Pool!ClaimAnswerLost, Proved!ClaimAnswerLost, Pool!workerVars, Proved!workerVars
<1>5. ASSUME NEW n \in Nodes
      PROVE  /\ Pool!Crash(n) => Proved!Crash(n)
             /\ Pool!Restart(n) => Proved!Restart(n)
  BY DEF Pool!Crash, Proved!Crash, Pool!Restart, Proved!Restart, Pool!storeVars,
         Proved!storeVars, Pool!faultVars, Proved!faultVars
<1> QED
  BY <1>2, <1>3, <1>4, <1>5

LEMMA SameOthers ==
  /\ Pool!Client => Proved!Client
  /\ \A S : Pool!CleanStaleLocks(S) => Proved!CleanStaleLocks(S)
  /\ Pool!StaleRows = Proved!StaleRows
<1>1. Pool!Client => Proved!Client
  BY DEF Pool!Client, Proved!Client, Pool!Submit, Proved!Submit, Pool!SubmitItems,
         Proved!SubmitItems, Pool!Cancel, Proved!Cancel, Pool!CreateBatch, Proved!CreateBatch,
         Pool!BulkInsertItems, Proved!BulkInsertItems, Pool!CancelBatch, Proved!CancelBatch,
         Pool!WithStatus, Proved!WithStatus, Pool!ItemsOf, Proved!ItemsOf,
         Pool!workerVars, Proved!workerVars, Pool!faultVars, Proved!faultVars
<1>2. Pool!StaleRows = Proved!StaleRows
  BY DEF Pool!StaleRows, Proved!StaleRows, Pool!HeldItems, Proved!HeldItems, Pool!Held,
         Proved!Held, Pool!Recording, Proved!Recording
<1>3. \A S : Pool!CleanStaleLocks(S) => Proved!CleanStaleLocks(S)
  BY <1>2
  DEF Pool!CleanStaleLocks, Proved!CleanStaleLocks, Pool!ResetStaleLocks,
      Proved!ResetStaleLocks, Pool!workerVars, Proved!workerVars, Pool!faultVars,
      Proved!faultVars
<1> QED
  BY <1>1, <1>2, <1>3

(* A step of the workers, the cleaners or the clients, or a crash or       *)
(* restart of a node, is a step of its pool.                               *)
PoolStep ==
  \/ Client
  \/ \E w \in Workers, S \in SUBSET PendingRows : Claim(w, S)
  \/ \E w \in Workers : Process(w) \/ CallFails(w)
  \/ \E S \in SUBSET Pool!StaleRows : CleanStaleLocks(S)

NodeStep == \E n \in Nodes : Crash(n) \/ Restart(n)

DispatchStep ==
  \/ \E n \in Nodes, S \in SUBSET PendingEvents : ClaimEvents(n, S)
  \/ \E n \in Nodes : Dispatch(n)

LEMMA PoolSteps ==
  ASSUME PoolStep \/ NodeStep
  PROVE  Proved!Next
<1>1. ASSUME NEW w \in Workers, Pool!Work(w) PROVE Proved!Next
  <2>1. Pool!Work(w) => Proved!Work(w)
    BY SameWork DEF Pool!Work, Proved!Work
  <2> QED
    BY <1>1, <2>1 DEF Proved!Next
<1>2. ASSUME NEW w \in Workers, NEW S \in SUBSET PendingRows,
             Pool!Claim(w, S) \/ Pool!ClaimAnswerLost(w, S)
      PROVE  Proved!Next
  <2>1. S \in SUBSET Proved!PendingRows
    BY DEF PendingRows, Proved!PendingRows
  <2>2. Proved!Claim(w, S) \/ Proved!ClaimAnswerLost(w, S)
    BY <1>2, SameWork, SameFaults
  <2> QED
    BY <2>1, <2>2 DEF Proved!Next, Proved!Fault
<1>3. ASSUME NEW w \in Workers, Pool!CallFails(w) \/ Pool!AnswerLost(w) PROVE Proved!Next
  BY <1>3, SameFaults DEF Proved!Next, Proved!Fault
<1>4. ASSUME NEW S \in SUBSET Pool!StaleRows, Pool!CleanStaleLocks(S) PROVE Proved!Next
  <2>1. Proved!CleanStaleLocks(S) /\ S \in SUBSET Proved!StaleRows
    BY <1>4, SameOthers
  <2> QED
    BY <2>1 DEF Proved!Next
<1>5. CASE Pool!Client
  BY <1>5, SameOthers DEF Proved!Next
<1>6. ASSUME NEW n \in Nodes, Pool!Crash(n) \/ Pool!Restart(n) PROVE Proved!Next
  BY <1>6, SameFaults DEF Proved!Next, Proved!Fault
<1> QED
  BY <1>1, <1>2, <1>3, <1>4, <1>5, <1>6
  DEF PoolStep, NodeStep, Client, Claim, Process, CallFails, CleanStaleLocks, Crash, Restart

LEMMA NextSteps ==
  ASSUME [Next]_vars
  PROVE  PoolStep \/ NodeStep \/ DispatchStep \/ UNCHANGED vars
BY DEF Next, PoolStep, NodeStep, DispatchStep

LEMMA PoolInit == Init => Proved!PoolInv /\ Proved!EventsCounted
BY PoolIsConfigured, SameInit, Proved!PoolSeen DEF Init

(* ... of which PoolSeen says what can be seen.                            *)
LEMMA PoolGoesOn ==
  ASSUME Proved!PoolInv, Proved!EventsCounted, PoolStep \/ NodeStep
  PROVE  /\ Proved!PoolInv' /\ Proved!EventsCounted'
         /\ \/ Proved!FinishesNone
            \/ \E b \in Batches : Proved!Finishes(b) \/ Proved!Announces(b)
BY PoolIsConfigured, PoolSteps, Proved!PoolSeen
-----------------------------------------------------------------------------
(* The tables as the dispatchers may see them.                             *)
LEMMA VerdictsAre == Proved!Verdicts = Verdicts /\ Seen!Verdicts = Verdicts
BY DEF Proved!Verdicts, Seen!Verdicts, Verdicts

LEMMA SeenInit == Init => Seen!Init
<1> SUFFICES ASSUME Init PROVE Seen!Init
  OBVIOUS
<1>1. /\ batches = [b \in Batches |-> [status |-> "absent", processed |-> 0, failed |-> 0]]
      /\ outbox = <<>>
  BY DEF Init, Pool!Init, Pool!StoreInit, Pool!OutboxInit
<1>2. \A b \in Batches : ~Finished(b)
  BY <1>1 DEF Finished, Verdicts
<1>3. Seen!StoreInit
  BY <1>2, StoreAssumption DEF Seen!StoreInit, VisibleBatches, VisibleItems
<1>4. Seen!OutboxInit
  BY <1>1 DEF Seen!OutboxInit
<1>5. Webhooks!EventIds = Seen!EventIds
  BY DEF Webhooks!EventIds, Seen!EventIds, Webhooks!Cardinality, Seen!Cardinality
<1> QED
  BY <1>3, <1>4, <1>5 DEF Init, Webhooks!Init, Seen!Init

LEMMA VisibleKept ==
  ASSUME Proved!KeepsFinished,
         \A b \in Batches : batches'[b].status \in Verdicts => batches[b].status \in Verdicts
  PROVE  VisibleBatches' = VisibleBatches /\ VisibleItems' = VisibleItems
<1>1. \A b \in Batches : Finished(b) =>
        /\ batches'[b] = batches[b]
        /\ \A i \in Items : BatchOf[i] = b => items'[i] = items[i]
  BY DEF Finished, Proved!KeepsFinished, Proved!Verdicts, Verdicts, Proved!ItemsOf
<1>2. \A b \in Batches : batches'[b].status \in Verdicts <=> Finished(b)
  BY <1>1 DEF Finished
<1>3. VisibleBatches' = VisibleBatches
  BY <1>1, <1>2 DEF VisibleBatches, Finished
<1>4. VisibleItems' = VisibleItems
  BY <1>1, <1>2, StoreAssumption DEF VisibleItems, Finished
<1> QED
  BY <1>3, <1>4

(* The completion of a batch is what Finish makes of it: its items that    *)
(* failed are those of F.                                                  *)
LEMMA FinishSeen ==
  ASSUME Proved!PoolInv, NEW b \in Batches, Proved!Finishes(b), Proved!KeepsFinished,
         UNCHANGED webhookVars, crashes' = crashes
  PROVE  \E F \in SUBSET Seen!ItemsOf(b) : Seen!Finish(b, F)
<1> DEFINE F == Proved!WithStatus(b, "failed")
           row == [status |-> Proved!Verdict(Proved!DoneCount(b), Proved!FailedCount(b)),
                   processed |-> Proved!DoneCount(b), failed |-> Proved!FailedCount(b)]
<1>1. /\ Proved!ItemsOf(b) = Seen!ItemsOf(b)
      /\ F \subseteq Seen!ItemsOf(b)
      /\ Seen!ItemsOf(b) # {}
  BY DEF Proved!Finishes, Proved!ItemsOf, Seen!ItemsOf, Proved!WithStatus
<1>2. \A i \in Seen!ItemsOf(b) : /\ i \in F => items[i].status = "failed"
                                 /\ i \notin F => items[i].status = "done"
  BY DEF Proved!Finishes, Proved!AllFinished, Proved!ItemsOf, Seen!ItemsOf, Proved!WithStatus
<1>3. /\ Proved!FailedCount(b) = Seen!Cardinality(F)
      /\ Proved!DoneCount(b) = Seen!Cardinality(Seen!ItemsOf(b) \ F)
  <2>1. Proved!WithStatus(b, "done") = Seen!ItemsOf(b) \ F
    BY <1>1, <1>2 DEF Proved!WithStatus
  <2>2. \A S : Proved!Cardinality(S) = Seen!Cardinality(S)
    BY DEF Proved!Cardinality, Seen!Cardinality
  <2> QED
    BY <2>1, <2>2 DEF Proved!FailedCount, Proved!DoneCount
<1>4. /\ batches \in [Batches -> Proved!BatchRow]
      /\ ~Finished(b)
      /\ batches' = [batches EXCEPT ![b] = row]
      /\ items' = items /\ outbox' = outbox
  BY VerdictsAre
  DEF Proved!PoolInv, Proved!ClaimInv, Proved!TypeOK, Proved!StoreTypeOK, Proved!Finishes, Finished
<1>5. row.status \in Verdicts
  BY DEF Proved!Verdict, Verdicts
<1> HIDE DEF row
<1>6. /\ batches'[b] = row
      /\ \A c \in Batches \ {b} : batches'[c] = batches[c]
  BY <1>4
<1>7. VisibleBatches' = [VisibleBatches EXCEPT ![b] = row]
  BY <1>5, <1>6 DEF VisibleBatches, Finished
<1>8. VisibleBatches[b].status = "absent"
  BY <1>4 DEF VisibleBatches
<1>9. VisibleItems' = [i \in Items |->
        CASE i \in F -> [status |-> "failed", retry |-> MaxRetries + 1]
          [] i \in Seen!ItemsOf(b) \ F -> [status |-> "done", retry |-> 1]
          [] OTHER -> VisibleItems[i]]
  <2>1. ASSUME NEW i \in Items, BatchOf[i] = b
        PROVE  /\ i \in Seen!ItemsOf(b)
               /\ i \in F => VisibleItems'[i] = [status |-> "failed", retry |-> MaxRetries + 1]
               /\ i \notin F => VisibleItems'[i] = [status |-> "done", retry |-> 1]
    BY <1>2, <1>4, <1>5, <1>6, <2>1 DEF VisibleItems, Finished, Seen!ItemsOf
  <2>2. ASSUME NEW i \in Items, BatchOf[i] # b
        PROVE  i \notin Seen!ItemsOf(b) /\ VisibleItems'[i] = VisibleItems[i]
    BY <1>4, <1>6, <2>2, StoreAssumption DEF VisibleItems, Finished, Seen!ItemsOf
  <2>3. VisibleItems' = [i \in Items |-> VisibleItems'[i]]
    BY DEF VisibleItems
  <2> HIDE DEF F
  <2>4. \A i \in Items : VisibleItems'[i] =
          CASE i \in F -> [status |-> "failed", retry |-> MaxRetries + 1]
            [] i \in Seen!ItemsOf(b) \ F -> [status |-> "done", retry |-> 1]
            [] OTHER -> VisibleItems[i]
    BY <1>1, <2>1, <2>2
  <2> QED
    BY <2>3, <2>4
<1>10. row = [status |-> CASE Seen!Cardinality(F) = 0 -> "done"
                           [] Seen!Cardinality(F) > 0 /\ Seen!Cardinality(Seen!ItemsOf(b) \ F) > 0
                                -> "partial"
                           [] OTHER -> "failed",
              processed |-> Seen!Cardinality(Seen!ItemsOf(b) \ F),
              failed |-> Seen!Cardinality(F)]
  BY <1>3 DEF row, Proved!Verdict
<1>11. UNCHANGED <<outbox, Seen!dispatchVars, Seen!receiverVars, Seen!faultVars>>
  BY <1>4 DEF Seen!dispatchVars, Seen!receiverVars, Seen!faultVars, webhookVars
<1> HIDE DEF F
<1>12. Seen!Finish(b, F)
  BY <1>1, <1>7, <1>8, <1>9, <1>10, <1>11 DEF Seen!Finish
<1> QED
  BY <1>1, <1>12

LEMMA AnnounceSeen ==
  ASSUME NEW b \in Batches, Proved!Announces(b), UNCHANGED webhookVars, crashes' = crashes
  PROVE  Seen!Announce(b)
<1>1. /\ batches[b].status \in Verdicts /\ batches' = batches /\ items' = items
      /\ VisibleBatches[b] = batches[b]
  BY VerdictsAre DEF Proved!Announces, Proved!storeVars, VisibleBatches, Finished
<1>2. VisibleBatches' = VisibleBatches /\ VisibleItems' = VisibleItems
  BY <1>1 DEF VisibleBatches, VisibleItems, Finished
<1>3. \A S : Proved!Cardinality(S) = Seen!Cardinality(S)
  BY DEF Proved!Cardinality, Seen!Cardinality
<1>4. Proved!EventsOf(b) = Seen!EventsOf(b) /\ Proved!TotalItems(b) = Seen!TotalItems(b)
  BY <1>3
  DEF Proved!EventsOf, Seen!EventsOf, Proved!TotalItems, Seen!TotalItems, Proved!ItemsOf, Seen!ItemsOf
<1>5. /\ Seen!Cardinality(Seen!EventsOf(b)) < Seen!TotalItems(b)
      /\ Seen!Len(outbox) < Seen!Cardinality(Items)
  BY <1>3, <1>4 DEF Proved!Announces
<1>6. Seen!CreateEvent(b, VisibleBatches[b].status)
  BY <1>1 DEF Proved!Announces, Proved!CreateEvent, Seen!CreateEvent
<1> QED
  BY <1>1, <1>2, <1>5, <1>6, VerdictsAre
  DEF Seen!Announce, Seen!storeVars, Seen!dispatchVars, Seen!receiverVars, Seen!faultVars, webhookVars

LEMMA PoolStepSeen ==
  ASSUME Proved!PoolInv, Proved!EventsCounted, PoolStep
  PROVE  [Seen!Next]_(Seen!vars)
<1>1. UNCHANGED webhookVars /\ crashes' = crashes
  BY DEF PoolStep, Client, Claim, Process, CallFails, CleanStaleLocks, webhookVars,
         Pool!Client, Pool!Submit, Pool!SubmitItems, Pool!Cancel, Pool!Claim, Pool!Work,
         Pool!SendItem, Pool!DeadLetter, Pool!RecordResult, Pool!RecordRefused, Pool!CountDone,
         Pool!CountFailed, Pool!Complete, Pool!Enqueue, Pool!CallFails, Pool!AnswerLost,
         Pool!ClaimAnswerLost, Pool!DbError, Pool!CleanStaleLocks, Pool!faultVars
<1>2. CASE Proved!FinishesNone
  <2>1. VisibleBatches' = VisibleBatches /\ VisibleItems' = VisibleItems
    BY <1>2, VisibleKept, VerdictsAre DEF Proved!FinishesNone
  <2> QED
    BY <1>1, <1>2, <2>1 DEF Proved!FinishesNone, Seen!vars, webhookVars
<1>3. ASSUME NEW b \in Batches, Proved!Finishes(b) PROVE Seen!Next
  <2>1. Proved!KeepsFinished
    BY <1>3 DEF Proved!Finishes, Proved!KeepsFinished, Proved!PoolInv, Proved!ClaimInv,
                Proved!TypeOK, Proved!StoreTypeOK
  <2> QED
    BY <1>1, <1>3, <2>1, FinishSeen DEF Seen!Next
<1>4. ASSUME NEW b \in Batches, Proved!Announces(b) PROVE Seen!Next
  BY <1>1, <1>4, AnnounceSeen DEF Seen!Next
<1> QED
  BY <1>2, <1>3, <1>4, PoolGoesOn
-----------------------------------------------------------------------------
(* What a dispatcher holds are events of the outbox.                       *)
HeldEvent(r) == r.event \in DOMAIN outbox /\ r.retry \in Nat

DispatchersHold ==
  /\ dispatcherPc \in [Nodes -> Webhooks!PC]
  /\ DOMAIN dispatcherRows = Nodes /\ DOMAIN dispatcherJob = Nodes
  /\ \A n \in Nodes : \A r \in dispatcherRows[n] : HeldEvent(r)
  /\ \A n \in Nodes : dispatcherPc[n] \in Webhooks!Busy => HeldEvent(dispatcherJob[n])

MiddlewareInv ==
  /\ Proved!PoolInv
  /\ Proved!EventsCounted
  /\ DispatchersHold

LEMMA EventFacts ==
  ASSUME Proved!PoolInv
  PROVE  /\ outbox \in Seq(Proved!Event)
         /\ \A k \in DOMAIN outbox :
              /\ outbox[k] \in Proved!Event
              /\ outbox[k].batch \in Batches
              /\ Finished(outbox[k].batch)
<1>1. outbox \in Seq(Proved!Event)
  BY DEF Proved!PoolInv, Proved!ClaimInv, Proved!TypeOK, Proved!OutboxTypeOK
<1>2. \A k \in DOMAIN outbox : outbox[k] \in Proved!Event
  BY <1>1
<1>3. \A k \in DOMAIN outbox : batches[outbox[k].batch].status = outbox[k].verdict
  BY DEF Proved!PoolInv, Proved!EventsBacked
<1> QED
  BY <1>1, <1>2, <1>3, VerdictsAre DEF Proved!Event, Finished

LEMMA HoldInit == Init => DispatchersHold
BY DEF Init, Webhooks!Init, DispatchersHold, Webhooks!PC, Webhooks!Busy, Webhooks!Marking

(* New events take nothing from the dispatchers.                           *)
LEMMA PoolStepHolds ==
  ASSUME MiddlewareInv, PoolStep
  PROVE  DispatchersHold'
<1>1. UNCHANGED <<dispatcherPc, dispatcherRows, dispatcherJob>>
  BY DEF PoolStep, Client, Claim, Process, CallFails, CleanStaleLocks, webhookVars
<1>2. DOMAIN outbox \subseteq DOMAIN outbox'
  <2>1. ASSUME NEW b \in Batches, Proved!Announces(b)
        PROVE  DOMAIN outbox \subseteq DOMAIN outbox'
    BY <2>1, EventFacts DEF Proved!Announces, Proved!CreateEvent, MiddlewareInv
  <2> QED
    BY <2>1, PoolGoesOn DEF MiddlewareInv, Proved!FinishesNone, Proved!Finishes
<1>3. \A r : HeldEvent(r) => HeldEvent(r)'
  BY <1>2 DEF HeldEvent
<1> QED
  BY <1>1, <1>3 DEF MiddlewareInv, DispatchersHold
-----------------------------------------------------------------------------
(* The statements of the dispatchers rewrite events and add none.          *)
Rewrites ==
  /\ outbox' \in Seq(Proved!Event)
  /\ DOMAIN outbox' = DOMAIN outbox
  /\ \A k \in DOMAIN outbox : /\ outbox'[k].batch = outbox[k].batch
                              /\ outbox'[k].verdict = outbox[k].verdict

LEMMA RowsRewritten ==
  ASSUME Proved!PoolInv, outbox' = [k \in DOMAIN outbox |-> outbox'[k]],
         \A k \in DOMAIN outbox : /\ outbox'[k] \in Proved!Event
                                  /\ outbox'[k].batch = outbox[k].batch
                                  /\ outbox'[k].verdict = outbox[k].verdict
  PROVE  Rewrites
<1>1. DOMAIN outbox = 1..Len(outbox) /\ Len(outbox) \in Nat
  BY EventFacts
<1>2. outbox' \in [1..Len(outbox) -> Proved!Event]
  BY <1>1
<1> QED
  BY <1>1, <1>2, SeqDef DEF Rewrites

LEMMA ClaimRewrites ==
  ASSUME Proved!PoolInv, NEW S, Webhooks!GetPendingEvents(S)
  PROVE  Rewrites /\ S \subseteq DOMAIN outbox
<1>1. outbox' = [k \in DOMAIN outbox |->
                   IF k \in S THEN [outbox[k] EXCEPT !.status = "processing"] ELSE outbox[k]]
      /\ S \subseteq DOMAIN outbox
  BY DEF Webhooks!GetPendingEvents, Webhooks!PendingEvents
<1>2. ASSUME NEW k \in DOMAIN outbox
      PROVE  /\ outbox'[k] \in Proved!Event
             /\ outbox'[k].batch = outbox[k].batch
             /\ outbox'[k].verdict = outbox[k].verdict
  <2>1. outbox[k] \in Proved!Event
    BY EventFacts
  <2> QED
    BY <1>1, <2>1 DEF Proved!Event, Proved!EventStatus
<1>3. outbox' = [k \in DOMAIN outbox |-> outbox'[k]]
  BY <1>1
<1> QED
  BY <1>1, <1>2, <1>3, RowsRewritten

LEMMA MarkRewrites ==
  ASSUME Proved!PoolInv, NEW k \in DOMAIN outbox, NEW retry \in Nat,
         Webhooks!MarkEventAsFailed(k, retry)
  PROVE  Rewrites
<1>1. CASE outbox' = outbox
  BY <1>1, EventFacts DEF Rewrites
<1>2. CASE /\ retry <= SmallIntMax
           /\ outbox' = [outbox EXCEPT ![k].status = "failed", ![k].retry = retry]
  <2>1. outbox[k] \in Proved!Event
    BY EventFacts
  <2>2. outbox'[k] = [outbox[k] EXCEPT !.status = "failed", !.retry = retry]
    BY <1>2
  <2>3. retry \in 0..SmallIntMax
    BY <1>2, StoreAssumption
  <2>4. /\ outbox'[k] \in Proved!Event
        /\ outbox'[k].batch = outbox[k].batch
        /\ outbox'[k].verdict = outbox[k].verdict
    BY <2>1, <2>2, <2>3 DEF Proved!Event, Proved!EventStatus
  <2>5. /\ \A e \in DOMAIN outbox \ {k} : outbox'[e] = outbox[e]
        /\ outbox' = [e \in DOMAIN outbox |-> outbox'[e]]
    BY <1>2
  <2>6. \A e \in DOMAIN outbox : /\ outbox'[e] \in Proved!Event
                                 /\ outbox'[e].batch = outbox[e].batch
                                 /\ outbox'[e].verdict = outbox[e].verdict
    BY <2>4, <2>5, EventFacts
  <2> QED
    BY <2>5, <2>6, RowsRewritten
<1> QED
  BY <1>1, <1>2 DEF Webhooks!MarkEventAsFailed

LEMMA DispatchRewrites ==
  ASSUME MiddlewareInv, DispatchStep
  PROVE  Rewrites
<1> USE DEF MiddlewareInv
<1>1. ASSUME NEW n \in Nodes, NEW S, ClaimEvents(n, S)
      PROVE  Rewrites
  BY <1>1, ClaimRewrites DEF ClaimEvents, Webhooks!ClaimEvents
<1>2. outbox' = outbox => Rewrites
  BY EventFacts DEF Rewrites
<1>3. ASSUME NEW n \in Nodes, Webhooks!Work(n)
      PROVE  Rewrites
  <2>1. CASE Webhooks!MarkFailed(n)
    <3>1. HeldEvent(dispatcherJob[n])
      BY <2>1 DEF DispatchersHold, Webhooks!MarkFailed, Webhooks!Busy, Webhooks!Marking
    <3> QED
      BY <2>1, <3>1, MarkRewrites DEF Webhooks!MarkFailed, HeldEvent
  <2>2. CASE ~Webhooks!MarkFailed(n)
    BY <1>2, <1>3, <2>2
    DEF Webhooks!Work, Webhooks!FetchBatch, Webhooks!CountItems, Webhooks!Post,
        Webhooks!MarkProcessed, Webhooks!MarkEventAsProcessed, Webhooks!EventStatus
  <2> QED
    BY <2>1, <2>2
<1> QED
  BY <1>1, <1>3 DEF DispatchStep, Dispatch

(* They leave everything else of the workers alone.                        *)
LEMMA DispatchLeaves ==
  ASSUME DispatchStep
  PROVE  UNCHANGED <<batches, items, dlq, workerPc, workerRows, workerJob, crashes, dbErrors>>
BY DEF DispatchStep, ClaimEvents, Dispatch, workerVars, Webhooks!ClaimEvents, Webhooks!Work,
       Webhooks!FetchBatch, Webhooks!CountItems, Webhooks!Post, Webhooks!MarkProcessed,
       Webhooks!MarkFailed, Webhooks!storeVars, Webhooks!faultVars

LEMMA DispatchKeepsPool ==
  ASSUME MiddlewareInv, DispatchStep
  PROVE  Proved!PoolInv' /\ Proved!EventsCounted'
BY PoolIsConfigured, DispatchRewrites, DispatchLeaves, Proved!EventsMarked
DEF MiddlewareInv, Rewrites

LEMMA DispatchHolds ==
  ASSUME MiddlewareInv, DispatchStep
  PROVE  DispatchersHold'
<1> USE DEF MiddlewareInv
<1>1. \A r : HeldEvent(r)' <=> HeldEvent(r)
  BY DispatchRewrites DEF Rewrites, HeldEvent
<1>2. ASSUME NEW n \in Nodes, NEW S, ClaimEvents(n, S)
      PROVE  DispatchersHold'
  <2>1. ASSUME NEW r \in dispatcherRows'[n] PROVE HeldEvent(r)
    <3>1. PICK k \in S : r = [event |-> k, retry |-> outbox[k].retry]
      BY <1>2, <2>1 DEF ClaimEvents, Webhooks!ClaimEvents, DispatchersHold
    <3>2. k \in DOMAIN outbox
      BY <1>2, ClaimRewrites DEF ClaimEvents, Webhooks!ClaimEvents
    <3>3. outbox[k] \in Proved!Event
      BY <3>2, EventFacts
    <3> QED
      BY <3>1, <3>2, <3>3, StoreAssumption DEF HeldEvent, Proved!Event
  <2>2. /\ dispatcherPc' \in [Nodes -> Webhooks!PC]
        /\ DOMAIN dispatcherRows' = Nodes /\ DOMAIN dispatcherJob' = Nodes
        /\ dispatcherPc'[n] \notin Webhooks!Busy
        /\ \A m \in Nodes \ {n} : /\ dispatcherRows'[m] = dispatcherRows[m]
                                  /\ dispatcherPc'[m] = dispatcherPc[m]
        /\ dispatcherJob' = dispatcherJob
    BY <1>2
    DEF ClaimEvents, Webhooks!ClaimEvents, Webhooks!GoTo, DispatchersHold, Webhooks!PC,
        Webhooks!Busy, Webhooks!Marking
  <2> QED
    BY <1>1, <2>1, <2>2 DEF DispatchersHold
<1>3. ASSUME NEW n \in Nodes, Webhooks!Work(n)
      PROVE  DispatchersHold'
  <2>1. /\ dispatcherPc' \in [Nodes -> Webhooks!PC]
        /\ DOMAIN dispatcherRows' = Nodes /\ DOMAIN dispatcherJob' = Nodes
        /\ \A m \in Nodes \ {n} : /\ dispatcherRows'[m] = dispatcherRows[m]
                                  /\ dispatcherPc'[m] = dispatcherPc[m]
                                  /\ dispatcherJob'[m] = dispatcherJob[m]
        /\ dispatcherRows'[n] \subseteq dispatcherRows[n]
    BY <1>3
    DEF Webhooks!Work, Webhooks!FetchBatch, Webhooks!Take, Webhooks!CountItems, Webhooks!Post,
        Webhooks!AfterPost, Webhooks!MarkProcessed, Webhooks!MarkFailed, Webhooks!NextEvent,
        Webhooks!GoTo, DispatchersHold, Webhooks!PC
  <2>2. ASSUME dispatcherPc'[n] \in Webhooks!Busy
        PROVE  HeldEvent(dispatcherJob'[n])
    <3>1. ASSUME NEW r \in dispatcherRows[n], Webhooks!FetchBatch(n, r)
          PROVE  HeldEvent(dispatcherJob'[n])
      <4>1. dispatcherJob'[n] = [event |-> r.event, retry |-> r.retry,
                                 payload |-> Webhooks!NoSummary(outbox[r.event].batch)]
        BY <3>1 DEF Webhooks!FetchBatch, Webhooks!Take, DispatchersHold
      <4> QED
        BY <4>1 DEF DispatchersHold, HeldEvent
    <3>2. CASE Webhooks!CountItems(n)
      <4>1. HeldEvent(dispatcherJob[n])
        BY <3>2 DEF Webhooks!CountItems, DispatchersHold, Webhooks!Busy
      <4>2. PICK p : dispatcherJob'[n] = [dispatcherJob[n] EXCEPT !.payload = p]
        BY <3>2 DEF Webhooks!CountItems, DispatchersHold
      <4> QED
        BY <4>1, <4>2 DEF HeldEvent
    <3>3. ASSUME NEW answer, Webhooks!Post(n, answer)
          PROVE  HeldEvent(dispatcherJob'[n])
      BY <3>3 DEF Webhooks!Post, DispatchersHold, Webhooks!Busy
    <3>4. CASE Webhooks!MarkProcessed(n) \/ Webhooks!MarkFailed(n)
      BY <2>2, <3>4
      DEF Webhooks!MarkProcessed, Webhooks!MarkFailed, Webhooks!NextEvent, Webhooks!GoTo,
          DispatchersHold, Webhooks!Busy, Webhooks!Marking
    <3> QED
      BY <1>3, <3>1, <3>2, <3>3, <3>4 DEF Webhooks!Work
  <2> QED
    BY <1>1, <2>1, <2>2 DEF DispatchersHold
<1> QED
  BY <1>2, <1>3 DEF DispatchStep, Dispatch
-----------------------------------------------------------------------------
(* A dispatcher does to what it sees of the tables what it does to them:   *)
(* of a batch with a verdict it sees everything it tells its receiver.     *)
LEMMA SeenSummary ==
  ASSUME NEW b \in Batches, Finished(b)
  PROVE  /\ Webhooks!Summary(b) = Seen!Summary(b)
         /\ Webhooks!NoSummary(b) = Seen!NoSummary(b)
<1>1. \A s : Webhooks!WithStatus(b, s) = Seen!WithStatus(b, s)
  <2>1. \A i \in Items : BatchOf[i] = b => VisibleItems[i].status = items[i].status
    BY DEF VisibleItems
  <2> QED
    BY <2>1 DEF Webhooks!WithStatus, Seen!WithStatus, Webhooks!ItemsOf, Seen!ItemsOf
<1>2. \A S : Webhooks!Cardinality(S) = Seen!Cardinality(S)
  BY DEF Webhooks!Cardinality, Seen!Cardinality
<1>3. /\ Webhooks!WithStatus(b, "done") = Seen!WithStatus(b, "done")
      /\ Webhooks!WithStatus(b, "failed") = Seen!WithStatus(b, "failed")
      /\ Webhooks!ItemsOf(b) = Seen!ItemsOf(b)
  BY <1>1 DEF Webhooks!ItemsOf, Seen!ItemsOf
<1>4. /\ Webhooks!TotalItems(b) = Seen!TotalItems(b)
      /\ Webhooks!DoneCount(b) = Seen!DoneCount(b)
  BY <1>2, <1>3
  DEF Webhooks!TotalItems, Seen!TotalItems, Webhooks!DoneCount, Seen!DoneCount
<1>5. VisibleBatches[b].status = batches[b].status
  BY DEF VisibleBatches
<1> QED
  BY <1>3, <1>4, <1>5
  DEF Webhooks!Summary, Seen!Summary, Webhooks!NoSummary, Seen!NoSummary

LEMMA SeenUnchanged ==
  ASSUME batches' = batches, items' = items
  PROVE  UNCHANGED Seen!storeVars
BY DEF Seen!storeVars, VisibleBatches, VisibleItems, Finished

LEMMA ClaimEventsSeen ==
  ASSUME NEW n \in Nodes, NEW S \in SUBSET PendingEvents, ClaimEvents(n, S)
  PROVE  Seen!Next
<1>1. UNCHANGED Seen!storeVars
  BY SeenUnchanged DEF ClaimEvents, Webhooks!ClaimEvents, Webhooks!storeVars
<1>2. Webhooks!Cardinality(S) = Seen!Cardinality(S)
  BY DEF Webhooks!Cardinality, Seen!Cardinality
<1>3. Webhooks!GetPendingEvents(S) => Seen!GetPendingEvents(S)
  BY DEF Webhooks!GetPendingEvents, Seen!GetPendingEvents, Webhooks!PendingEvents,
         Seen!PendingEvents
<1>4. Seen!ClaimEvents(n, S)
  BY <1>1, <1>2, <1>3
  DEF ClaimEvents, Webhooks!ClaimEvents, Seen!ClaimEvents, Webhooks!GoTo, Seen!GoTo,
      Webhooks!receiverVars, Seen!receiverVars, Webhooks!faultVars, Seen!faultVars
<1>5. S \in SUBSET Seen!PendingEvents
  BY DEF PendingEvents, Seen!PendingEvents
<1> QED
  BY <1>4, <1>5 DEF Seen!Next

LEMMA DispatchSeen ==
  ASSUME MiddlewareInv, NEW n \in Nodes, Dispatch(n)
  PROVE  Seen!Next
<1> USE DEF MiddlewareInv
<1>1. UNCHANGED Seen!storeVars
  BY SeenUnchanged
  DEF Dispatch, Webhooks!Work, Webhooks!FetchBatch, Webhooks!CountItems, Webhooks!Post,
      Webhooks!MarkProcessed, Webhooks!MarkFailed, Webhooks!storeVars
<1>2. ASSUME NEW r \in dispatcherRows[n], Webhooks!FetchBatch(n, r)
      PROVE  Seen!FetchBatch(n, r)
  <2>1. r.event \in DOMAIN outbox
    BY DEF DispatchersHold, HeldEvent
  <2>2. Webhooks!NoSummary(outbox[r.event].batch) = Seen!NoSummary(outbox[r.event].batch)
    BY <2>1, EventFacts, SeenSummary
  <2> QED
    BY <1>1, <1>2, <2>2
    DEF Webhooks!FetchBatch, Seen!FetchBatch, Webhooks!Take, Seen!Take, Webhooks!GoTo, Seen!GoTo,
        Webhooks!receiverVars, Seen!receiverVars, Webhooks!faultVars, Seen!faultVars
<1>3. ASSUME Webhooks!CountItems(n)
      PROVE  Seen!CountItems(n)
  <2>1. dispatcherJob[n].event \in DOMAIN outbox
    BY <1>3 DEF Webhooks!CountItems, DispatchersHold, HeldEvent, Webhooks!Busy
  <2>2. Webhooks!Batch(n) = Seen!Batch(n) /\ Webhooks!Batch(n) = outbox[dispatcherJob[n].event].batch
    BY DEF Webhooks!Batch, Seen!Batch
  <2>3. Webhooks!Summary(Webhooks!Batch(n)) = Seen!Summary(Seen!Batch(n))
    BY <2>1, <2>2, EventFacts, SeenSummary
  <2> QED
    BY <1>1, <1>3, <2>2, <2>3
    DEF Webhooks!CountItems, Seen!CountItems, Webhooks!GoTo, Seen!GoTo,
        Webhooks!receiverVars, Seen!receiverVars, Webhooks!faultVars, Seen!faultVars
<1>4. ASSUME NEW answer, Webhooks!Post(n, answer)
      PROVE  Seen!Post(n, answer)
  BY <1>1, <1>4
  DEF Webhooks!Post, Seen!Post, Webhooks!AfterPost, Seen!AfterPost, Webhooks!GoTo, Seen!GoTo,
      Webhooks!faultVars, Seen!faultVars
<1>5. Webhooks!NextEvent(n) => Seen!NextEvent(n)
  BY DEF Webhooks!NextEvent, Seen!NextEvent, Webhooks!GoTo, Seen!GoTo
<1>6. Webhooks!MarkProcessed(n) => Seen!MarkProcessed(n)
  BY <1>1, <1>5
  DEF Webhooks!MarkProcessed, Seen!MarkProcessed, Webhooks!MarkEventAsProcessed,
      Seen!MarkEventAsProcessed, Webhooks!EventStatus, Seen!EventStatus,
      Webhooks!receiverVars, Seen!receiverVars, Webhooks!faultVars, Seen!faultVars
<1>7. Webhooks!MarkFailed(n) => Seen!MarkFailed(n)
  BY <1>1, <1>5
  DEF Webhooks!MarkFailed, Seen!MarkFailed, Webhooks!MarkEventAsFailed, Seen!MarkEventAsFailed,
      Webhooks!receiverVars, Seen!receiverVars, Webhooks!faultVars, Seen!faultVars
<1>8. Seen!Work(n)
  BY <1>2, <1>3, <1>4, <1>6, <1>7 DEF Dispatch, Webhooks!Work, Seen!Work
<1> QED
  BY <1>8 DEF Seen!Next

LEMMA NodeStepSeen ==
  ASSUME MiddlewareInv, NodeStep
  PROVE  Seen!Next /\ DispatchersHold'
<1> USE DEF MiddlewareInv
<1>1. PICK n \in Nodes : Webhooks!Crash(n) \/ Webhooks!Restart(n)
  BY DEF NodeStep, Crash, Restart
<1>2. UNCHANGED Seen!storeVars
  BY <1>1, SeenUnchanged DEF Webhooks!Crash, Webhooks!Restart, Webhooks!storeVars
<1>3. Webhooks!Crash(n) => Seen!Crash(n)
  BY <1>2
  DEF Webhooks!Crash, Seen!Crash, Webhooks!GoTo, Seen!GoTo, Webhooks!receiverVars,
      Seen!receiverVars
<1>4. Webhooks!Restart(n) => Seen!Restart(n)
  BY <1>2
  DEF Webhooks!Restart, Seen!Restart, Webhooks!GoTo, Seen!GoTo, Webhooks!receiverVars,
      Seen!receiverVars, Webhooks!faultVars, Seen!faultVars
<1>5. Seen!Next
  BY <1>1, <1>3, <1>4 DEF Seen!Next, Seen!Fault
<1>6. DispatchersHold'
  BY <1>1
  DEF Webhooks!Crash, Webhooks!Restart, Webhooks!GoTo, DispatchersHold, HeldEvent,
      Webhooks!PC, Webhooks!Busy, Webhooks!Marking
<1> QED
  BY <1>5, <1>6
-----------------------------------------------------------------------------
LEMMA MiddlewareStep ==
  ASSUME MiddlewareInv, [Next]_vars
  PROVE  MiddlewareInv' /\ [Seen!Next]_(Seen!vars)
<1>1. CASE PoolStep
  BY <1>1, PoolGoesOn, PoolStepHolds, PoolStepSeen DEF MiddlewareInv
<1>2. CASE NodeStep
  BY <1>2, PoolGoesOn, NodeStepSeen DEF MiddlewareInv
<1>3. CASE DispatchStep
  BY <1>3, DispatchKeepsPool, DispatchHolds, ClaimEventsSeen, DispatchSeen
  DEF DispatchStep, MiddlewareInv
<1>4. CASE UNCHANGED vars
  <2>1. UNCHANGED Seen!vars
    BY <1>4 DEF vars, webhookVars, Seen!vars, VisibleBatches, VisibleItems, Finished
  <2>2. Proved!PoolInv' /\ Proved!EventsCounted'
    <3>1. Rewrites
      BY <1>4, EventFacts DEF vars, Rewrites, MiddlewareInv
    <3> QED
      BY <1>4, <3>1, PoolIsConfigured, Proved!EventsMarked
      DEF vars, workerVars, MiddlewareInv, Rewrites
  <2>3. DispatchersHold'
    BY <1>4 DEF vars, webhookVars, MiddlewareInv, DispatchersHold, HeldEvent
  <2> QED
    BY <2>1, <2>2, <2>3 DEF MiddlewareInv
<1> QED
  BY <1>1, <1>2, <1>3, <1>4, NextSteps

(* Seen through the tables, the workers of the middleware behave as those  *)
(* of WebhookDispatcher do, and its dispatchers as dispatchers: a batch is *)
(* finished in one step with the verdict its items justify, never changes  *)
(* afterwards, and is announced at most once per item, however the workers *)
(* of all the nodes interleave, crash and lose the answers of Postgres.    *)
THEOREM DispatcherImplemented == Spec => ImplementsDispatcher
<1>1. Init => MiddlewareInv /\ Seen!Init
  BY PoolInit, HoldInit, SeenInit DEF MiddlewareInv
<1>2. MiddlewareInv /\ [Next]_vars => MiddlewareInv' /\ [Seen!Next]_(Seen!vars)
  BY MiddlewareStep
<1> QED
  BY <1>1, <1>2, PTL DEF Spec, ImplementsDispatcher, Seen!Spec
-----------------------------------------------------------------------------
(* Conversely the theorems about WebhookDispatcher hold of what its        *)
(* dispatchers see.                                                        *)
Told == INSTANCE DispatcherProofs WITH
  batches <- VisibleBatches, items <- VisibleItems, dlq <- [i \in Items |-> 0],
  pc <- dispatcherPc, rows <- dispatcherRows, job <- dispatcherJob,
  Dispatchers <- Nodes, EventsPerPoll <- ItemsPerPoll,
  MaxDbErrors <- 0, dbErrors <- 0

(* What the proofs about WebhookDispatcher assume of its constants.        *)
LEMMA DispatcherIsConfigured ==
  /\ Told!IsFiniteSet(Items) /\ BatchOf \in [Items -> Batches]
  /\ MaxRetries \in Nat /\ SmallIntMax \in Nat
  /\ WebhookUrls \subseteq [Batches -> Told!WebhookUrl]
  /\ MaxRetries < SmallIntMax
  /\ WebhookMaxRetries \in 0..SmallIntMax
  /\ ItemsPerPoll \in Nat \ {0}
  /\ MaxCrashes \in Nat
  /\ 0 \in Nat
  /\ NoJob \notin Told!Job
<1>1. WebhookUrls \subseteq [Batches -> Told!WebhookUrl]
  BY MiddlewareAssumption DEF Webhooks!WebhookUrl, Told!WebhookUrl
<1>2. Webhooks!EventIds = Told!EventIds
  BY DEF Webhooks!EventIds, Told!EventIds, Webhooks!Cardinality, Told!Cardinality
<1>3. NoJob \notin Told!Job
  BY <1>2, MiddlewareAssumption DEF Webhooks!Job, Told!Job, Webhooks!Payload, Told!Payload,
     Webhooks!Verdicts, Told!Verdicts
<1>4. Told!IsFiniteSet(Items)
  BY StoreAssumption DEF IsFiniteSet, Told!IsFiniteSet
<1> QED
  BY <1>1, <1>3, <1>4, StoreAssumption, MiddlewareAssumption

(* Both instances of WebhookDispatcher are the same.                       *)
LEMMA ToldCardinality == \A S : Seen!Cardinality(S) = Told!Cardinality(S)
BY DEF Seen!Cardinality, Told!Cardinality

LEMMA ToldEventIds == Seen!EventIds = Told!EventIds
BY ToldCardinality DEF Seen!EventIds, Told!EventIds

LEMMA ToldInit == Seen!Init => Told!Init
BY ToldEventIds
DEF Seen!Init, Told!Init, Seen!StoreInit, Told!StoreInit, Seen!OutboxInit, Told!OutboxInit

LEMMA ToldWorkers ==
  /\ \A b : \A F : Seen!Finish(b, F) => Told!Finish(b, F)
  /\ \A b : Seen!Announce(b) => Told!Announce(b)
  /\ \A b : Seen!ItemsOf(b) = Told!ItemsOf(b)
<1>1. \A b : Seen!ItemsOf(b) = Told!ItemsOf(b)
  BY DEF Seen!ItemsOf, Told!ItemsOf
<1>2. ASSUME NEW b, NEW F, Seen!Finish(b, F) PROVE Told!Finish(b, F)
  BY <1>1, <1>2, ToldCardinality
  DEF Seen!Finish, Told!Finish, Seen!dispatchVars, Told!dispatchVars, Seen!receiverVars,
      Told!receiverVars, Seen!faultVars, Told!faultVars
<1>3. ASSUME NEW b, Seen!Announce(b) PROVE Told!Announce(b)
  <2>1. Seen!TotalItems(b) = Told!TotalItems(b)
    BY <1>1, ToldCardinality DEF Seen!TotalItems, Told!TotalItems
  <2>2. Seen!EventsOf(b) = Told!EventsOf(b)
    BY DEF Seen!EventsOf, Told!EventsOf
  <2> QED
    BY <1>3, <2>1, <2>2, ToldCardinality
    DEF Seen!Announce, Told!Announce, Seen!CreateEvent, Told!CreateEvent, Seen!Verdicts,
        Told!Verdicts, Seen!storeVars, Told!storeVars, Seen!dispatchVars, Told!dispatchVars,
        Seen!receiverVars, Told!receiverVars, Seen!faultVars, Told!faultVars
<1> QED
  BY <1>1, <1>2, <1>3

LEMMA ToldSummary ==
  \A b : /\ Seen!Summary(b) = Told!Summary(b)
         /\ Seen!NoSummary(b) = Told!NoSummary(b)
<1> SUFFICES ASSUME NEW b
             PROVE  /\ Seen!Summary(b) = Told!Summary(b)
                    /\ Seen!NoSummary(b) = Told!NoSummary(b)
  OBVIOUS
<1>1. \A s : Seen!WithStatus(b, s) = Told!WithStatus(b, s)
  BY DEF Seen!WithStatus, Told!WithStatus, Seen!ItemsOf, Told!ItemsOf
<1>2. /\ Seen!WithStatus(b, "done") = Told!WithStatus(b, "done")
      /\ Seen!WithStatus(b, "failed") = Told!WithStatus(b, "failed")
      /\ Seen!ItemsOf(b) = Told!ItemsOf(b)
  BY <1>1 DEF Seen!ItemsOf, Told!ItemsOf
<1>3. Seen!TotalItems(b) = Told!TotalItems(b) /\ Seen!DoneCount(b) = Told!DoneCount(b)
  BY <1>2, ToldCardinality
  DEF Seen!TotalItems, Told!TotalItems, Seen!DoneCount, Told!DoneCount
<1> QED
  BY <1>2, <1>3 DEF Seen!Summary, Told!Summary, Seen!NoSummary, Told!NoSummary

LEMMA ToldClaims ==
  /\ \A S : Seen!GetPendingEvents(S) => Told!GetPendingEvents(S)
  /\ \A d, S : Seen!ClaimEvents(d, S) => Told!ClaimEvents(d, S)
  /\ \A d, S : Seen!ClaimAnswerLost(d, S) => Told!ClaimAnswerLost(d, S)
<1>1. \A S : Seen!GetPendingEvents(S) => Told!GetPendingEvents(S)
  BY DEF Seen!GetPendingEvents, Told!GetPendingEvents, Seen!PendingEvents, Told!PendingEvents
<1>2. ASSUME NEW d, NEW S, Seen!ClaimEvents(d, S) PROVE Told!ClaimEvents(d, S)
  BY <1>1, <1>2, ToldCardinality
  DEF Seen!ClaimEvents, Told!ClaimEvents, Seen!GoTo, Told!GoTo, Seen!storeVars, Told!storeVars,
      Seen!receiverVars, Told!receiverVars, Seen!faultVars, Told!faultVars
<1>3. ASSUME NEW d, NEW S, Seen!ClaimAnswerLost(d, S) PROVE Told!ClaimAnswerLost(d, S)
  BY <1>1, <1>3, ToldCardinality
  DEF Seen!ClaimAnswerLost, Told!ClaimAnswerLost, Seen!DbError, Told!DbError, Seen!storeVars,
      Told!storeVars, Seen!receiverVars, Told!receiverVars, Seen!dispatchVars, Told!dispatchVars
<1> QED
  BY <1>1, <1>2, <1>3

LEMMA ToldWork ==
  ASSUME NEW d
  PROVE  /\ Seen!Work(d) => Told!Work(d)
         /\ \A r : Seen!FetchFails(d, r) => Told!FetchFails(d, r)
         /\ Seen!CountFails(d) => Told!CountFails(d)
         /\ Seen!MarkFails(d) => Told!MarkFails(d)
         /\ Seen!Crash(d) => Told!Crash(d)
         /\ Seen!Restart(d) => Told!Restart(d)
<1> USE DEF Seen!GoTo, Told!GoTo, Seen!storeVars, Told!storeVars, Seen!receiverVars,
        Told!receiverVars, Seen!faultVars, Told!faultVars
<1>1. \A r : Seen!Take(d, r) => Told!Take(d, r)
  BY ToldSummary DEF Seen!Take, Told!Take
<1>2. \A r : Seen!FetchBatch(d, r) => Told!FetchBatch(d, r)
  BY <1>1 DEF Seen!FetchBatch, Told!FetchBatch
<1>3. Seen!Batch(d) = Told!Batch(d)
  BY DEF Seen!Batch, Told!Batch
<1>4. Seen!CountItems(d) => Told!CountItems(d)
  BY <1>3, ToldSummary DEF Seen!CountItems, Told!CountItems
<1>5. \A answer : Seen!Post(d, answer) => Told!Post(d, answer)
  BY DEF Seen!Post, Told!Post, Seen!AfterPost, Told!AfterPost
<1>6. Seen!NextEvent(d) => Told!NextEvent(d)
  BY DEF Seen!NextEvent, Told!NextEvent
<1>7. Seen!MarkProcessed(d) => Told!MarkProcessed(d)
  BY <1>6
  DEF Seen!MarkProcessed, Told!MarkProcessed, Seen!MarkEventAsProcessed,
      Told!MarkEventAsProcessed, Seen!EventStatus, Told!EventStatus
<1>8. Seen!MarkFailed(d) => Told!MarkFailed(d)
  BY <1>6 DEF Seen!MarkFailed, Told!MarkFailed, Seen!MarkEventAsFailed, Told!MarkEventAsFailed
<1>9. Seen!Work(d) => Told!Work(d)
  BY <1>2, <1>4, <1>5, <1>7, <1>8 DEF Seen!Work, Told!Work
<1>10. Seen!DbError => Told!DbError
  BY DEF Seen!DbError, Told!DbError
<1>11. \A r : Seen!FetchFails(d, r) => Told!FetchFails(d, r)
  BY <1>1, <1>10 DEF Seen!FetchFails, Told!FetchFails
<1>12. Seen!CountFails(d) => Told!CountFails(d)
  BY <1>3, <1>10 DEF Seen!CountFails, Told!CountFails
<1>13. Seen!MarkFails(d) => Told!MarkFails(d)
  BY <1>6, <1>10 DEF Seen!MarkFails, Told!MarkFails, Seen!Marking, Told!Marking
<1>14. Seen!Crash(d) => Told!Crash(d)
  BY DEF Seen!Crash, Told!Crash
<1>15. Seen!Restart(d) => Told!Restart(d)
  BY DEF Seen!Restart, Told!Restart
<1> QED
  BY <1>9, <1>11, <1>12, <1>13, <1>14, <1>15

LEMMA ToldNext == [Seen!Next]_(Seen!vars) => [Told!Next]_(Told!vars)
<1>1. Seen!PendingEvents = Told!PendingEvents
  BY DEF Seen!PendingEvents, Told!PendingEvents
<1>2. CASE \E b \in Batches : Seen!Announce(b) \/ \E F \in SUBSET Seen!ItemsOf(b) : Seen!Finish(b, F)
  BY <1>2, ToldWorkers DEF Told!Next
<1>3. CASE \E d \in Nodes, S \in SUBSET Seen!PendingEvents : Seen!ClaimEvents(d, S)
  BY <1>1, <1>3, ToldClaims DEF Told!Next
<1>4. CASE \E d \in Nodes : Seen!Work(d)
  BY <1>4, ToldWork DEF Told!Next
<1>5. CASE Seen!Fault
  BY <1>1, <1>5, ToldWork, ToldClaims DEF Told!Next, Seen!Fault, Told!Fault
<1>6. UNCHANGED Seen!vars => UNCHANGED Told!vars
  BY DEF Seen!vars, Told!vars
<1> QED
  BY <1>2, <1>3, <1>4, <1>5, <1>6 DEF Seen!Next
-----------------------------------------------------------------------------
(* The invariant of the dispatchers, of what they see.                     *)
ToldInv == MiddlewareInv /\ Told!DispatcherInv

LEMMA ToldInvInit == Init => ToldInv
BY DispatcherIsConfigured, PoolInit, HoldInit, SeenInit, ToldInit, Told!DispatcherInit
DEF ToldInv, MiddlewareInv

LEMMA ToldInvStep == ToldInv /\ [Next]_vars => ToldInv'
BY DispatcherIsConfigured, MiddlewareStep, ToldNext, Told!DispatcherStep DEF ToldInv

LEMMA ToldTruth == ToldInv => Webhooks!DeliveredTruthful
<1> SUFFICES ASSUME ToldInv, NEW p \in delivered
             PROVE  /\ p.payload.status = batches[outbox[p.event].batch].status
                    /\ p.payload = Webhooks!Summary(outbox[p.event].batch)
  BY DEF Webhooks!DeliveredTruthful
<1>1. p.event \in DOMAIN outbox
  BY DEF ToldInv, Told!DispatcherInv
<1>2. p.payload = Told!Summary(outbox[p.event].batch)
  BY DEF ToldInv, Told!DispatcherInv, Told!DeliveredTruthful
<1>3. outbox[p.event].batch \in Batches /\ Finished(outbox[p.event].batch)
  BY <1>1, EventFacts DEF ToldInv, MiddlewareInv
<1>4. p.payload = Webhooks!Summary(outbox[p.event].batch)
  BY <1>2, <1>3, ToldSummary, SeenSummary
<1> QED
  BY <1>4 DEF Webhooks!Summary

(* What a receiver is told of a batch is the verdict, the counts and the   *)
(* failed items the tables have of it at any later time, whatever the      *)
(* workers, the cleaners and the clients of all the nodes do meanwhile.    *)
THEOREM ReceiversToldTruly == Spec => []Webhooks!DeliveredTruthful
BY ToldInvInit, ToldInvStep, ToldTruth, PTL DEF Spec

LEMMA ToldHolds == ToldInv => Webhooks!SingleDispatcher
<1> SUFFICES ASSUME ToldInv PROVE Webhooks!SingleDispatcher
  OBVIOUS
<1>1. \A d \in Nodes : Webhooks!Held(d) = Told!Held(d)
  BY DEF Webhooks!Held, Told!Held, Webhooks!Marking, Told!Marking
<1>2. Told!SingleDispatcher
  BY DispatcherIsConfigured, Told!HoldsSingly, Told!DispatcherParts DEF ToldInv
<1> QED
  BY <1>1, <1>2 DEF Webhooks!SingleDispatcher, Told!SingleDispatcher

(* No event of the whole middleware is in the hands of two dispatchers.    *)
THEOREM OneDispatcherEach == Spec => []Webhooks!SingleDispatcher
BY ToldInvInit, ToldInvStep, ToldHolds, PTL DEF Spec

LEMMA ToldViews ==
  /\ Webhooks!EventIds = Told!EventIds
  /\ \A k : Webhooks!EventView(k) = Told!EventView(k)
  /\ Webhooks!Troubled = Told!Troubled
<1>1. Webhooks!EventIds = Told!EventIds
  BY DEF Webhooks!EventIds, Told!EventIds, Webhooks!Cardinality, Told!Cardinality
<1>2. \A d : Webhooks!Held(d) = Told!Held(d)
  BY DEF Webhooks!Held, Told!Held, Webhooks!Marking, Told!Marking
<1>3. \A k : Webhooks!Stage(k) = Told!Stage(k)
  BY <1>2 DEF Webhooks!Stage, Told!Stage
<1>4. \A k : Webhooks!EventView(k) = Told!EventView(k)
  BY <1>3 DEF Webhooks!EventView, Told!EventView, Webhooks!Sendable, Told!Sendable
<1>5. Webhooks!Troubled = Told!Troubled
  BY DEF Webhooks!Troubled, Told!Troubled
<1> QED
  BY <1>1, <1>4, <1>5

(* What a dispatcher sees of an event does not depend on the batches.      *)
ToldView == [k \in Told!EventIds |-> Told!EventView(k)]

EventsView == [k \in Webhooks!EventIds |-> Webhooks!EventView(k)]

LEMMA SameViews ==
  /\ EventsView = ToldView /\ EventsView' = ToldView'
  /\ Webhooks!Troubled' = Told!Troubled'
<1>1. EventsView = ToldView
  BY ToldViews DEF EventsView, ToldView
<1>2. Webhooks!EventIds = Told!EventIds
  BY ToldViews
<1>3. \A d : Webhooks!Held(d)' = Told!Held(d)'
  BY DEF Webhooks!Held, Told!Held, Webhooks!Marking, Told!Marking
<1>4. \A k : Webhooks!Stage(k)' = Told!Stage(k)'
  BY <1>3 DEF Webhooks!Stage, Told!Stage
<1>5. \A k : Webhooks!EventView(k)' = Told!EventView(k)'
  BY <1>4 DEF Webhooks!EventView, Told!EventView, Webhooks!Sendable, Told!Sendable
<1>6. EventsView' = ToldView'
  BY <1>2, <1>5 DEF EventsView, ToldView
<1>7. Webhooks!Troubled' = Told!Troubled'
  BY DEF Webhooks!Troubled, Told!Troubled
<1> QED
  BY <1>1, <1>6, <1>7

LEMMA PromiseActions ==
  ASSUME NEW k
  PROVE  /\ Told!Promise!Written(k) => Webhooks!Promise!Written(k)
         /\ Told!Promise!Taken(k) => Webhooks!Promise!Taken(k)
         /\ Told!Promise!Sent(k) => Webhooks!Promise!Sent(k)
         /\ Told!Promise!PutBack(k) => Webhooks!Promise!PutBack(k)
         /\ Told!Promise!GivenUp(k) => Webhooks!Promise!GivenUp(k)
         /\ Told!Promise!Dropped(k) => Webhooks!Promise!Dropped(k)
<1> USE SameViews DEF EventsView, ToldView
<1>1. \A a, b : Told!Promise!Moves(k, a, b) => Webhooks!Promise!Moves(k, a, b)
  BY DEF Told!Promise!Moves, Webhooks!Promise!Moves
<1>2. Told!Promise!Written(k) => Webhooks!Promise!Written(k)
  BY DEF Told!Promise!Written, Webhooks!Promise!Written, Told!Promise!Unwritten,
         Webhooks!Promise!Unwritten
<1>3. Told!Promise!Taken(k) => Webhooks!Promise!Taken(k)
  BY <1>1 DEF Told!Promise!Taken, Webhooks!Promise!Taken
<1>4. Told!Promise!Sent(k) => Webhooks!Promise!Sent(k)
  BY DEF Told!Promise!Sent, Webhooks!Promise!Sent
<1>5. Told!Promise!PutBack(k) => Webhooks!Promise!PutBack(k)
  BY <1>1 DEF Told!Promise!PutBack, Webhooks!Promise!PutBack
<1>6. Told!Promise!GivenUp(k) => Webhooks!Promise!GivenUp(k)
  BY <1>1
  DEF Told!Promise!GivenUp, Webhooks!Promise!GivenUp, Told!Promise!Settled,
      Webhooks!Promise!Settled
<1>7. Told!Promise!Dropped(k) => Webhooks!Promise!Dropped(k)
  BY <1>1 DEF Told!Promise!Dropped, Webhooks!Promise!Dropped
<1> QED
  BY <1>2, <1>3, <1>4, <1>5, <1>6, <1>7

LEMMA PromiseNext == Told!Promise!Next => Webhooks!Promise!Next
<1> SUFFICES ASSUME Told!Promise!Next PROVE Webhooks!Promise!Next
  OBVIOUS
<1>1. Webhooks!EventIds = Told!EventIds /\ Webhooks!Troubled = Told!Troubled
  BY ToldViews
<1>2. Webhooks!Troubled => Webhooks!Troubled'
  BY <1>1, SameViews DEF Told!Promise!Next
<1>3. DOMAIN EventsView' = Webhooks!EventIds
  BY <1>1, SameViews DEF Told!Promise!Next, ToldView
<1>4. ASSUME NEW k \in Webhooks!EventIds
      PROVE  \/ EventsView'[k] = EventsView[k]
             \/ Webhooks!Promise!Written(k) \/ Webhooks!Promise!Taken(k)
             \/ Webhooks!Promise!Sent(k) \/ Webhooks!Promise!PutBack(k)
             \/ Webhooks!Promise!GivenUp(k) \/ Webhooks!Promise!Dropped(k)
  BY <1>1, SameViews, PromiseActions DEF Told!Promise!Next, ToldView
<1> QED
  BY <1>2, <1>3, <1>4 DEF Webhooks!Promise!Next, EventsView

(* The outbox of the whole middleware lives up to Delivery.                *)
THEOREM OutboxKeepsPromise == Spec => Webhooks!ImplementsDelivery
<1>1. Init => Webhooks!Promise!Init
  <2> SUFFICES ASSUME Init PROVE Webhooks!Promise!Init
    OBVIOUS
  <2>1. Told!Promise!Init
    BY DispatcherIsConfigured, SeenInit, ToldInit, Told!PromiseInit
  <2>2. /\ Webhooks!EventIds = Told!EventIds /\ Webhooks!Troubled = Told!Troubled
        /\ EventsView = ToldView
    BY ToldViews, SameViews
  <2> QED
    BY <2>1, <2>2 DEF Told!Promise!Init, Webhooks!Promise!Init, EventsView, ToldView,
       Told!Promise!Unwritten, Webhooks!Promise!Unwritten
<1>2. ToldInv /\ [Next]_vars => [Webhooks!Promise!Next]_(Webhooks!Promise!vars)
  <2> SUFFICES ASSUME ToldInv, [Next]_vars PROVE Webhooks!Promise!Next
    OBVIOUS
  <2>1. [Told!Next]_(Told!vars)
    BY MiddlewareStep, ToldNext DEF ToldInv
  <2>2. Told!Promise!Next
    BY <2>1, DispatcherIsConfigured, Told!PromiseStep DEF ToldInv
  <2> QED
    BY <2>2, PromiseNext
<1> QED
  BY <1>1, <1>2, ToldInvInit, ToldInvStep, PTL
  DEF Spec, Webhooks!ImplementsDelivery, Webhooks!Promise!Spec
-----------------------------------------------------------------------------
(* What a receiver is told of a batch makes sense to it: every item was    *)
(* processed or is among the failed ones, and the status is the verdict on *)
(* these numbers (webhook_dispatcher.go builds the summary from the counts *)
(* of GetBatchItemsStatus, and the status is what CompleteBatch decided).  *)
ReportsAddUp ==
  \A p \in delivered :
    /\ p.payload.status = Pool!Verdict(p.payload.success, Cardinality(p.payload.failed))
    /\ p.payload.total = p.payload.success + Cardinality(p.payload.failed)

LEMMA ToldAddsUp == ToldInv => ReportsAddUp
<1> SUFFICES ASSUME ToldInv, NEW p \in delivered
             PROVE  /\ p.payload.status =
                         Pool!Verdict(p.payload.success, Cardinality(p.payload.failed))
                    /\ p.payload.total = p.payload.success + Cardinality(p.payload.failed)
  BY DEF ReportsAddUp
<1> DEFINE b == outbox[p.event].batch
           D == WithStatus(b, "done")
           F == WithStatus(b, "failed")
<1>1. b \in Batches /\ batches[b].status \in Proved!Verdicts
  BY EventFacts, VerdictsAre DEF ToldInv, MiddlewareInv, Told!DispatcherInv, Finished
<1>2. p.payload = [status |-> batches[b].status, total |-> Cardinality(ItemsOf(b)),
                   success |-> Cardinality(D), failed |-> F]
  BY ToldTruth
  DEF Webhooks!DeliveredTruthful, Webhooks!Summary, Webhooks!TotalItems, Webhooks!DoneCount,
      Webhooks!WithStatus, Webhooks!ItemsOf, WithStatus, ItemsOf, Cardinality, Webhooks!Cardinality
<1>3. /\ batches[b].status = Proved!Verdict(Proved!DoneCount(b), Proved!FailedCount(b))
      /\ Proved!AllFinished(b)
  <2>1. Proved!FinishedVerdict
    BY DEF ToldInv, MiddlewareInv, Proved!PoolInv
  <2>2. batches[b] = [status |-> Proved!Verdict(Proved!DoneCount(b), Proved!FailedCount(b)),
                      processed |-> Proved!DoneCount(b), failed |-> Proved!FailedCount(b)]
    BY <1>1, <2>1 DEF Proved!FinishedVerdict
  <2>3. Proved!AllFinished(b)
    BY <1>1, <2>1 DEF Proved!FinishedVerdict
  <2> QED
    BY <2>2, <2>3
<1>4. Proved!DoneCount(b) = Cardinality(D) /\ Proved!FailedCount(b) = Cardinality(F)
  BY DEF Proved!DoneCount, Proved!FailedCount, Proved!WithStatus, Proved!ItemsOf,
         Proved!Cardinality, Cardinality, WithStatus, ItemsOf
<1>5. Cardinality(ItemsOf(b)) = Cardinality(D) + Cardinality(F)
  <2>1. ItemsOf(b) = D \cup F /\ D \cap F = {}
    BY <1>3 DEF Proved!AllFinished, Proved!ItemsOf, ItemsOf, WithStatus
  <2>2. IsFiniteSet(D) /\ IsFiniteSet(F)
    BY StoreAssumption, FS_Subset DEF WithStatus, ItemsOf
  <2>3. Cardinality(D \cup F) = Cardinality(D) + Cardinality(F) - Cardinality(D \cap F)
    BY <2>2, FS_Union
  <2>4. Cardinality(D \cap F) = 0 /\ Cardinality(D) \in Nat /\ Cardinality(F) \in Nat
    BY <2>1, <2>2, FS_EmptySet, FS_CardinalityType
  <2> HIDE DEF D, F
  <2> QED
    BY <2>1, <2>3, <2>4
<1>6. \A m, n : Pool!Verdict(m, n) = Proved!Verdict(m, n)
  BY DEF Pool!Verdict, Proved!Verdict
<1> QED
  BY <1>2, <1>3, <1>4, <1>5, <1>6

(* Every report that reaches a receiver adds up, although its parts were   *)
(* counted by different statements at different times.                     *)
THEOREM ReportsCorrect == Spec => []ReportsAddUp
BY ToldInvInit, ToldInvStep, ToldAddsUp, PTL DEF Spec
=============================================================================
