----------------------------- MODULE WorkerPool -----------------------------
(***************************************************************************)
(* The worker pools of the middleware's nodes (worker_pool.go), over the   *)
(* tables they share.  A worker is one goroutine of a pool; every          *)
(* statement it sends to Postgres and every answer of System C is a step   *)
(* of its own, so that the steps of all workers, of the stale lock         *)
(* cleaners and of the HTTP handlers interleave, and a node may crash      *)
(* between any two of them.                                                *)
(*                                                                         *)
(* A worker's program counter is the call it makes next:                   *)
(*   poll        GetPendingItems, at the next tick                         *)
(*   send        SendItem, for one of the rows it claimed                  *)
(*   deadletter  dlqRepo.Insert                                            *)
(*   update      UpdateItemStatus                                          *)
(*   countDone   the first queries of GetBatchItemsStatus                  *)
(*   countFailed its query of the failed items                             *)
(*   complete    CompleteBatch                                             *)
(*   enqueue     CreateEvent                                               *)
(*   down        none: its node is down                                    *)
(***************************************************************************)
EXTENDS OutboxStore

CONSTANTS
  Workers,      \* worker goroutines of all the nodes
  Nodes,        \* middleware processes sharing the database
  Host,         \* the node each worker runs on
  ItemsPerPoll, \* Worker.ItemsPerPoll
  Replies,      \* what System C may answer, see Reply
  SlowClaims,   \* may a live worker hold rows for longer than the threshold?
  MaxCrashes,   \* bound: node crashes in a behaviour
  MaxDbErrors,  \* bound: failed calls to Postgres in a behaviour
  NoJob         \* the value of job[w] while w processes no item

(* What SendItem returns to processItem: whether it succeeded, and whether *)
(* the text of the body or of the error can be stored in the columns that  *)
(* take it: error_message and failure_reason are VARCHAR(1000), a 5xx      *)
(* error holds the whole body, and no text column takes a NUL byte.        *)
Reply == [ok : BOOLEAN, fits : BOOLEAN]

Row == [item : Items, retry : 0..SmallIntMax]

(* The variables of processItem and checkBatchCompletion.                  *)
Job == [item : Items, retry : 0..SmallIntMax, status : {"pending", "done", "failed"},
        fits : BOOLEAN, success : Nat, failed : Nat]

ASSUME PoolAssumption ==
  /\ Host \in [Workers -> Nodes]
  /\ ItemsPerPoll \in Nat \ {0}
  /\ Replies \subseteq Reply
  /\ SlowClaims \in BOOLEAN
  /\ MaxCrashes \in Nat
  /\ MaxDbErrors \in Nat
  /\ NoJob \notin Job

VARIABLES
  pc,           \* the call each worker makes next
  rows,         \* the claimed rows it has not sent yet, as RETURNING gave them
  job,          \* the item it processes
  crashes,      \* crashes so far
  dbErrors      \* failed calls to Postgres so far

workerVars == <<pc, rows, job>>

faultVars == <<crashes, dbErrors>>

vars == <<batches, items, outbox, dlq, pc, rows, job, crashes, dbErrors>>
-----------------------------------------------------------------------------
PC == {"poll", "send", "deadletter", "update", "countDone", "countFailed",
       "complete", "enqueue", "down"}

(* Where the item of job[w] is still marked processing on w's behalf, and  *)
(* where w has recorded its outcome.                                       *)
Recording == {"deadletter", "update"}

Finishing == {"countDone", "countFailed", "complete", "enqueue"}

Rows(S) == {[item |-> i, retry |-> items[i].retry] : i \in S}

(* The items whose outcome worker w has yet to record.                     *)
Held(w) == {r.item : r \in rows[w]}
             \cup (IF pc[w] \in Recording THEN {job[w].item} ELSE {})

HeldItems == UNION {Held(w) : w \in Workers}

(* processItem: the status an answer gives the item.                       *)
StatusAfterIgnoresLimit(ok, retry) == IF ok THEN "done" ELSE "pending"

StatusAfterUnknownStatus(ok, retry) ==
  CASE ok -> "processed"
    [] ~ok /\ retry < MaxRetries -> "pending"
    [] OTHER -> "failed"

StatusAfter(ok, retry) ==
  CASE ok -> "done"
    [] ~ok /\ retry < MaxRetries -> "pending"
    [] OTHER -> "failed"

(* checkBatchCompletion: the status the counts give the batch.             *)
Verdict(success, failed) ==
  CASE failed = 0 -> "done"
    [] failed > 0 /\ success > 0 -> "partial"
    [] OTHER -> "failed"

(* The statements that record an outcome fit the columns' types.           *)
Storable(j) == j.fits /\ j.retry + 1 <= SmallIntMax

(* The end of processItem: the next claimed row, or the next tick.         *)
NextItem(w) ==
  /\ pc' = [pc EXCEPT ![w] = IF rows[w] = {} THEN "poll" ELSE "send"]
  /\ job' = [job EXCEPT ![w] = NoJob]
  /\ UNCHANGED rows

GoTo(w, label) == pc' = [pc EXCEPT ![w] = label]

Init ==
  /\ StoreInit
  /\ OutboxInit
  /\ pc = [w \in Workers |-> "poll"]
  /\ rows = [w \in Workers |-> {}]
  /\ job = [w \in Workers |-> NoJob]
  /\ crashes = 0
  /\ dbErrors = 0
-----------------------------------------------------------------------------
(* processPendingItems: GetPendingItems returns some of the due rows.      *)
Claim(w, S) ==
  /\ pc[w] = "poll"
  /\ S # {}
  /\ Cardinality(S) <= ItemsPerPoll
  /\ GetPendingItems(S)
  /\ rows' = [rows EXCEPT ![w] = Rows(S)]
  /\ GoTo(w, "send")
  /\ UNCHANGED <<outbox, dlq, job, faultVars>>

(* processItem, up to the answer of System C for row r.                    *)
SendItem(w, r, reply) ==
  LET status == StatusAfter(reply.ok, r.retry)
  IN  /\ pc[w] = "send"
      /\ r \in rows[w]
      /\ rows' = [rows EXCEPT ![w] = @ \ {r}]
      /\ job' = [job EXCEPT ![w] = [item |-> r.item, retry |-> r.retry,
                                    status |-> status, fits |-> reply.fits,
                                    success |-> 0, failed |-> 0]]
      /\ GoTo(w, IF status = "failed" THEN "deadletter" ELSE "update")
      /\ UNCHANGED <<storeVars, outbox, dlq, faultVars>>

(* processItem goes on whether or not the dead letter could be stored.     *)
DeadLetterSkipsInsert(w) ==
  /\ pc[w] = "deadletter"
  /\ GoTo(w, "update")
  /\ UNCHANGED <<storeVars, outbox, dlq, rows, job, faultVars>>

DeadLetter(w) ==
  /\ pc[w] = "deadletter"
  /\ IF Storable(job[w]) THEN InsertDeadLetter(job[w].item) ELSE UNCHANGED dlq
  /\ GoTo(w, "update")
  /\ UNCHANGED <<storeVars, outbox, rows, job, faultVars>>

(* processItem: the outcome of the item is stored, under the number of     *)
(* this try.                                                               *)
RecordResultChecksDoneOnly(w) ==
  /\ pc[w] = "update"
  /\ Storable(job[w])
  /\ UpdateItemStatus(job[w].item, job[w].status, job[w].retry + 1)
  /\ IF job[w].status # "done"
     THEN NextItem(w)
     ELSE GoTo(w, "countDone") /\ UNCHANGED <<rows, job>>
  /\ UNCHANGED <<outbox, dlq, faultVars>>

RecordResult(w) ==
  /\ pc[w] = "update"
  /\ Storable(job[w])
  /\ UpdateItemStatus(job[w].item, job[w].status, job[w].retry + 1)
  /\ IF job[w].status = "pending"
     THEN NextItem(w)
     ELSE GoTo(w, "countDone") /\ UNCHANGED <<rows, job>>
  /\ UNCHANGED <<outbox, dlq, faultVars>>

(* ... or Postgres refuses it and the item stays as it was claimed.        *)
RecordRefused(w) ==
  /\ pc[w] = "update"
  /\ ~Storable(job[w])
  /\ NextItem(w)
  /\ UNCHANGED <<storeVars, outbox, dlq, faultVars>>

(* checkBatchCompletion reads the two counts in two statements.            *)
CountDone(w) ==
  /\ pc[w] = "countDone"
  /\ job' = [job EXCEPT ![w].success = DoneCount(BatchOf[job[w].item])]
  /\ GoTo(w, "countFailed")
  /\ UNCHANGED <<storeVars, outbox, dlq, rows, faultVars>>

IsCompleteCountsCancelled(b, success, failed) ==
  success + failed + Cardinality(WithStatus(b, "cancelled")) = TotalItems(b)

IsCompleteOffByOne(b, success, failed) == success + failed + 1 >= TotalItems(b)

IsComplete(b, success, failed) == success + failed = TotalItems(b)

CountFailedSkipsComplete(w) ==
  LET b == BatchOf[job[w].item]
      failed == FailedCount(b)
  IN  /\ pc[w] = "countFailed"
      /\ IF IsComplete(b, job[w].success, failed)
         THEN /\ job' = [job EXCEPT ![w].failed = failed]
              /\ GoTo(w, "enqueue")
              /\ UNCHANGED rows
         ELSE NextItem(w)
      /\ UNCHANGED <<storeVars, outbox, dlq, faultVars>>

CountFailed(w) ==
  LET b == BatchOf[job[w].item]
      failed == FailedCount(b)
  IN  /\ pc[w] = "countFailed"
      /\ IF IsComplete(b, job[w].success, failed)
         THEN /\ job' = [job EXCEPT ![w].failed = failed]
              /\ GoTo(w, "complete")
              /\ UNCHANGED rows
         ELSE NextItem(w)
      /\ UNCHANGED <<storeVars, outbox, dlq, faultVars>>

Complete(w) ==
  /\ pc[w] = "complete"
  /\ CompleteBatch(BatchOf[job[w].item], Verdict(job[w].success, job[w].failed))
  /\ GoTo(w, "enqueue")
  /\ UNCHANGED <<outbox, dlq, rows, job, faultVars>>

Enqueue(w) ==
  /\ pc[w] = "enqueue"
  /\ CreateEvent(BatchOf[job[w].item], Verdict(job[w].success, job[w].failed))
  /\ NextItem(w)
  /\ UNCHANGED <<storeVars, dlq, faultVars>>
-----------------------------------------------------------------------------
(* Faults.  A call to Postgres may return an error, its statement having   *)
(* taken effect or not: every caller logs the error and gives up on the    *)
(* item, except that a dead letter's error is ignored.                     *)
DbError ==
  /\ dbErrors < MaxDbErrors
  /\ dbErrors' = dbErrors + 1
  /\ UNCHANGED crashes

CallFails(w) ==
  /\ DbError
  /\ \/ /\ pc[w] \in {"update"} \cup Finishing
        /\ NextItem(w)
     \/ /\ pc[w] = "deadletter"
        /\ GoTo(w, "update")
        /\ UNCHANGED <<rows, job>>
  /\ UNCHANGED <<storeVars, outbox, dlq>>

(* The answer is lost after the rows were claimed: nobody holds them.      *)
ClaimAnswerLost(w, S) ==
  /\ DbError
  /\ pc[w] = "poll"
  /\ S # {}
  /\ Cardinality(S) <= ItemsPerPoll
  /\ GetPendingItems(S)
  /\ UNCHANGED <<outbox, dlq, workerVars>>

(* ... or after the outcome was recorded, or the batch completed.          *)
AnswerLostRetriesEvent(w) ==
  /\ DbError
  /\ pc[w] = "enqueue"
  /\ CreateEvent(BatchOf[job[w].item], Verdict(job[w].success, job[w].failed))
  /\ UNCHANGED <<storeVars, dlq, workerVars>>

AnswerLost(w) ==
  /\ DbError
  /\ \/ /\ pc[w] = "update"
        /\ Storable(job[w])
        /\ UpdateItemStatus(job[w].item, job[w].status, job[w].retry + 1)
     \/ /\ pc[w] = "complete"
        /\ CompleteBatch(BatchOf[job[w].item], Verdict(job[w].success, job[w].failed))
  /\ NextItem(w)
  /\ UNCHANGED <<outbox, dlq>>

(* A node stops, by a crash or by a shutdown: Stop cancels the context of  *)
(* every later call, so that a worker returns without another effect.      *)
Crash(n) ==
  /\ crashes < MaxCrashes
  /\ \E w \in Workers : Host[w] = n /\ pc[w] # "down"
  /\ pc' = [w \in Workers |-> IF Host[w] = n THEN "down" ELSE pc[w]]
  /\ rows' = [w \in Workers |-> IF Host[w] = n THEN {} ELSE rows[w]]
  /\ job' = [w \in Workers |-> IF Host[w] = n THEN NoJob ELSE job[w]]
  /\ crashes' = crashes + 1
  /\ UNCHANGED <<storeVars, outbox, dlq, dbErrors>>

Restart(n) ==
  /\ \E w \in Workers : Host[w] = n /\ pc[w] = "down"
  /\ pc' = [w \in Workers |-> IF Host[w] = n /\ pc[w] = "down" THEN "poll" ELSE pc[w]]
  /\ UNCHANGED <<storeVars, outbox, dlq, rows, job, faultVars>>

(* runStaleLockCleaner, on any node that is up: the rows in S have been    *)
(* locked for longer than the threshold.  Unless SlowClaims, a worker that *)
(* is alive is done with its rows before that.                             *)
StaleRowsForgetsHolders == {i \in Items : items[i].status = "processing"}

StaleRows ==
  {i \in Items : items[i].status = "processing" /\ (SlowClaims \/ i \notin HeldItems)}

CleanStaleLocks(S) ==
  /\ \E w \in Workers : pc[w] # "down"
  /\ S # {}
  /\ S \subseteq StaleRows
  /\ ResetStaleLocks(S)
  /\ UNCHANGED <<outbox, dlq, workerVars, faultVars>>
-----------------------------------------------------------------------------
(* The statements of the HTTP handlers that the workers' tables see.  A    *)
(* client learns the id of a batch only once its items are there.          *)
Submit(b) == CreateBatch(b) /\ UNCHANGED <<outbox, dlq, workerVars, faultVars>>

SubmitItems(b) == BulkInsertItems(b) /\ UNCHANGED <<outbox, dlq, workerVars, faultVars>>

Cancel(b) ==
  /\ \A i \in ItemsOf(b) : items[i].status # "absent"
  /\ CancelBatch(b)
  /\ UNCHANGED <<outbox, dlq, workerVars, faultVars>>
-----------------------------------------------------------------------------
(* What worker w does by itself once it holds rows.                        *)
Work(w) ==
  \/ \E r \in rows[w], reply \in Replies : SendItem(w, r, reply)
  \/ DeadLetter(w)
  \/ RecordResult(w)
  \/ RecordRefused(w)
  \/ CountDone(w)
  \/ CountFailed(w)
  \/ Complete(w)
  \/ Enqueue(w)

Fault ==
  \/ \E w \in Workers : CallFails(w) \/ AnswerLost(w)
  \/ \E w \in Workers, S \in SUBSET PendingRows : ClaimAnswerLost(w, S)
  \/ \E n \in Nodes : Crash(n) \/ Restart(n)

Client == \E b \in Batches : Submit(b) \/ SubmitItems(b) \/ Cancel(b)

Next ==
  \/ \E w \in Workers, S \in SUBSET PendingRows : Claim(w, S)
  \/ \E w \in Workers : Work(w)
  \/ \E S \in SUBSET StaleRows : CleanStaleLocks(S)
  \/ Fault
  \/ Client

Spec == Init /\ [][Next]_vars

(* A row that stays locked outlives the threshold, one at the end of       *)
(* SMALLINT too: from then on the one UPDATE fails and takes no row back.  *)
EndOfRange == {i \in StaleRows : items[i].retry = SmallIntMax}

(* A worker whose node stays up keeps going, a pending row comes due and   *)
(* is claimed by one of the workers that poll, an abandoned row grows      *)
(* stale and is reset as long as no stale row fails the statement.         *)
(* Nothing makes a client submit or cancel, and nothing restarts a node:   *)
(* docker-compose.yml gives no restart policy.                             *)
Fairness ==
  /\ \A w \in Workers : WF_vars(Work(w))
  /\ \A i \in Items :
       /\ WF_vars(\E w \in Workers, S \in SUBSET PendingRows : i \in S /\ Claim(w, S))
       /\ WF_vars(\E S \in SUBSET StaleRows :
                    i \in S /\ EndOfRange \subseteq S /\ CleanStaleLocks(S))

FairSpec == Spec /\ Fairness
-----------------------------------------------------------------------------
TypeOK ==
  /\ StoreTypeOK
  /\ OutboxTypeOK
  /\ pc \in [Workers -> PC]
  /\ rows \in [Workers -> SUBSET Row]
  /\ job \in [Workers -> Job \cup {NoJob}]
  /\ crashes \in 0..MaxCrashes
  /\ dbErrors \in 0..MaxDbErrors

(* Skip-locked claiming gives every row to one worker: an item whose       *)
(* outcome a live worker has yet to record is marked processing and no     *)
(* other live worker holds it (GetPendingItems, ResetStaleLocks).          *)
SingleHolder ==
  /\ \A w \in Workers : \A i \in Held(w) : items[i].status = "processing"
  /\ \A v, w \in Workers : v # w => Held(v) \cap Held(w) = {}

(* An item that is done, failed or cancelled is never touched again:       *)
(* neither by a late UpdateItemStatus, which names the row by its key      *)
(* alone, nor by a cleaner or a cancellation.                              *)
TerminalItemsStay ==
  [][\A i \in Items : items[i].status \in Terminal => items'[i] = items[i]]_vars

(* A retry counter never goes back, although UpdateItemStatus writes a     *)
(* value computed from the snapshot of the claim.                          *)
RetriesNeverRefunded ==
  [][\A i \in Items : items'[i].retry >= items[i].retry]_vars

(* A batch is completed only when all its items are done or failed, with   *)
(* the verdict and the counters those items justify, although              *)
(* checkBatchCompletion counts them in several statements while other      *)
(* workers record outcomes.                                                *)
FinishedVerdict ==
  \A b \in Batches : batches[b].status \in Verdicts =>
    /\ AllFinished(b)
    /\ batches[b] = [status |-> Verdict(DoneCount(b), FailedCount(b)),
                     processed |-> DoneCount(b), failed |-> FailedCount(b)]

(* A completed batch keeps its verdict and its counters: neither a second  *)
(* CompleteBatch nor a late CancelBatch changes them.                      *)
VerdictStays ==
  [][\A b \in Batches : batches[b].status \in Verdicts => batches'[b] = batches[b]]_vars

(* An event is written only after its batch was completed, and announces   *)
(* the verdict the batch has (checkBatchCompletion).                       *)
EventsBacked ==
  \A k \in DOMAIN outbox : batches[outbox[k].batch].status = outbox[k].verdict

(* An item is given up only when it is in the dead letter queue, whatever  *)
(* crashes between the insertion and the update.  It takes that no         *)
(* insertion fails: processItem ignores the error.                         *)
FailedItemsInDlq ==
  dbErrors = 0 => \A i \in Items : items[i].status = "failed" => dlq[i] > 0

(* A cancelled item is never part of a batch that was completed: while     *)
(* one is there, the batch stays cancelled.                                *)
CancelledItemsBlockCompletion ==
  \A i \in Items : items[i].status = "cancelled" => batches[BatchOf[i]].status = "cancelled"
-----------------------------------------------------------------------------
(* The tables live up to what an item is promised: each try is counted     *)
(* once, none is forgotten or counted twice, and no item leaves its life.  *)
Lifecycle == INSTANCE ItemLifecycle

ImplementsLifecycle == Lifecycle!Spec

(* Every submitted item is done, failed or cancelled in the end, whatever  *)
(* node crashes while it holds the item, as long as one stays up.          *)
ItemsSettle ==
  \A i \in Items : items[i].status # "absent" ~> items[i].status \in Terminal

-----------------------------------------------------------------------------
(* The inductive invariant behind the safety properties, for a pool whose  *)
(* live workers keep no row beyond the threshold.                          *)

(* Only a worker that is busy with rows has any.                           *)
RowsOfBusy ==
  \A w \in Workers :
    /\ pc[w] \in {"poll", "down"} => rows[w] = {}
    /\ pc[w] \in Recording \cup Finishing => job[w] \in Job

(* The rows and the job of a worker are what the table says of the item.   *)
ClaimsCurrent ==
  \A w \in Workers :
    /\ \A r \in rows[w] : items[r.item] = [status |-> "processing", retry |-> r.retry]
    /\ pc[w] \in Recording =>
         /\ items[job[w].item] = [status |-> "processing", retry |-> job[w].retry]
         /\ \A r \in rows[w] : r.item # job[w].item

(* An outcome is what the number of the try allows.                        *)
OutcomeJustified ==
  \A w \in Workers :
    pc[w] \in Recording /\ job[w].status = "failed" => job[w].retry >= MaxRetries

(* A row that is not there has no tries.                                   *)
AbsentRowsFresh ==
  \A i \in Items : items[i].status = "absent" => items[i].retry = 0

ClaimsDisjoint ==
  \A v, w \in Workers : v # w => Held(v) \cap Held(w) = {}

(* What a worker has counted so far is still so.                           *)
CountsOfWorker(w) ==
  LET b == BatchOf[job[w].item]
  IN  /\ pc[w] = "countFailed" => job[w].success <= DoneCount(b)
      /\ pc[w] \in {"complete", "enqueue"} =>
           /\ AllFinished(b)
           /\ job[w].success = DoneCount(b)
           /\ job[w].failed = FailedCount(b)
      /\ pc[w] = "enqueue" =>
           batches[b].status = Verdict(job[w].success, job[w].failed)

CountsCurrent == \A w \in Workers : CountsOfWorker(w)

(* The items of a batch are inserted after it.                             *)
ItemsFollowBatch ==
  \A i \in Items : batches[BatchOf[i]].status = "absent" => items[i].status = "absent"

ClaimInv ==
  /\ TypeOK
  /\ RowsOfBusy
  /\ ClaimsCurrent
  /\ ClaimsDisjoint
  /\ OutcomeJustified
  /\ AbsentRowsFresh

PoolInv ==
  /\ ClaimInv
  /\ CountsCurrent
  /\ ItemsFollowBatch
  /\ CancelledItemsBlockCompletion
  /\ FinishedVerdict
  /\ EventsBacked
=============================================================================
