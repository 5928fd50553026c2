----------------------------- MODULE BatchStore -----------------------------
(***************************************************************************)
(* The tables batches and batch_items of the middleware's Postgres         *)
(* database, and the effect on them of each statement of batch_repo.go.    *)
(* A statement (or, for CancelBatch, a transaction) is one atomic step:    *)
(* it is an action over the two tables that the components of the          *)
(* middleware conjoin with the change of their own state.                  *)
(*                                                                         *)
(* Rows are indexed by their keys; a row that was never inserted has the   *)
(* status "absent".  Timestamps are left out: whether next_retry_at or the *)
(* lock threshold has passed is a choice of the caller's action.           *)
(***************************************************************************)
EXTENDS Integers, FiniteSets

CONSTANTS
  Batches,      \* ids of the batches that may be submitted
  Items,        \* ids of the items that may be submitted
  BatchOf,      \* the batch each item belongs to (batch_items.batch_id)
  MaxRetries,   \* batch_items.max_retries
  SmallIntMax   \* the largest value of the SMALLINT column retry_count

ASSUME StoreAssumption ==
  /\ IsFiniteSet(Items)
  /\ BatchOf \in [Items -> Batches]
  /\ MaxRetries \in Nat
  /\ SmallIntMax \in Nat

VARIABLES
  batches,      \* table batches
  items         \* table batch_items

storeVars == <<batches, items>>
-----------------------------------------------------------------------------
(* The values the CHECK constraints of the two tables admit.  No statement *)
(* ever writes the batch status "processing": UpdateBatchStatus has no     *)
(* caller.                                                                 *)
BatchStatus == {"pending", "processing", "done", "partial", "failed", "cancelled"}

ItemStatus == {"pending", "processing", "done", "failed", "cancelled"}

(* The statuses a completed batch can have, and those that no worker is    *)
(* meant to change.                                                        *)
Verdicts == {"done", "partial", "failed"}

Terminal == {"done", "failed", "cancelled"}

BatchRow == [status : BatchStatus \cup {"absent"}, processed : Nat, failed : Nat]

ItemRow == [status : ItemStatus \cup {"absent"}, retry : 0..SmallIntMax]

ItemsOf(b) == {i \in Items : BatchOf[i] = b}

WithStatus(b, s) == {i \in ItemsOf(b) : items[i].status = s}

(* The counts GetBatchItemsStatus and CompleteBatch take of a batch.       *)
(* batches.total_items is the number of items of the request.              *)
TotalItems(b) == Cardinality(ItemsOf(b))

DoneCount(b) == Cardinality(WithStatus(b, "done"))

FailedCount(b) == Cardinality(WithStatus(b, "failed"))

(* The batch's items have all been either processed or given up.           *)
AllFinished(b) == \A i \in ItemsOf(b) : items[i].status \in {"done", "failed"}

StoreInit ==
  /\ batches = [b \in Batches |-> [status |-> "absent", processed |-> 0, failed |-> 0]]
  /\ items = [i \in Items |-> [status |-> "absent", retry |-> 0]]
-----------------------------------------------------------------------------
(* INSERT INTO batches, by SubmitBatch.                                    *)
CreateBatch(b) ==
  /\ batches[b].status = "absent"
  /\ batches' = [batches EXCEPT ![b].status = "pending"]
  /\ UNCHANGED items

(* INSERT INTO batch_items: one statement for all the items of a batch.    *)
BulkInsertItems(b) ==
  /\ batches[b].status # "absent"
  /\ \A i \in ItemsOf(b) : items[i].status = "absent"
  /\ items' = [i \in Items |-> IF BatchOf[i] = b
                               THEN [status |-> "pending", retry |-> 0]
                               ELSE items[i]]
  /\ UNCHANGED batches

(* The rows GetPendingItems may return.  Those that are due and not locked *)
(* by another transaction are a subset of these, which the caller picks.   *)
PendingRowsForgetsStatus == {i \in Items : items[i].status \in {"pending", "processing"}}

PendingRows == {i \in Items : items[i].status = "pending"}

(* UPDATE ... WHERE id IN (SELECT ... FOR UPDATE SKIP LOCKED LIMIT n).     *)
GetPendingItems(S) ==
  /\ S \subseteq PendingRows
  /\ items' = [i \in Items |-> IF i \in S THEN [items[i] EXCEPT !.status = "processing"]
                                          ELSE items[i]]
  /\ UNCHANGED batches

(* UPDATE batch_items ... WHERE id = $6: by key alone, whoever holds the   *)
(* lock and whatever the status has become.                                *)
UpdateItemStatus(i, status, retryCount) ==
  /\ items' = [items EXCEPT ![i] = [status |-> status, retry |-> retryCount]]
  /\ UNCHANGED batches

(* UPDATE batches ... WHERE id = $3, the counters taken by subqueries.     *)
CompleteBatchDropsFailed(b, status) ==
  /\ batches' = [batches EXCEPT ![b] = [status |-> status,
                                        processed |-> DoneCount(b),
                                        failed |-> batches[b].failed]]
  /\ UNCHANGED items

CompleteBatch(b, status) ==
  /\ batches' = [batches EXCEPT ![b] = [status |-> status,
                                        processed |-> DoneCount(b),
                                        failed |-> FailedCount(b)]]
  /\ UNCHANGED items

(* ResetStaleLocks puts back every row whose lock is older than the        *)
(* threshold; S is the set of those rows.  retry_count + 1 out of range    *)
(* fails the whole statement.                                              *)
ResetStaleLocksRefunds(S) ==
  /\ \A i \in S : items[i].status = "processing" /\ items[i].retry < SmallIntMax
  /\ items' = [i \in Items |-> IF i \in S THEN [status |-> "pending", retry |-> 0]
                                          ELSE items[i]]
  /\ UNCHANGED batches

ResetStaleLocks(S) ==
  /\ \A i \in S : items[i].status = "processing" /\ items[i].retry < SmallIntMax
  /\ items' = [i \in Items |-> IF i \in S
                               THEN [status |-> "pending", retry |-> items[i].retry + 1]
                               ELSE items[i]]
  /\ UNCHANGED batches

(* The transaction of CancelBatch: the batch row is guarded by its status, *)
(* the items only by theirs.                                               *)
CancelBatchIgnoresStatus(b) ==
  /\ batches[b].status # "absent"
  /\ batches' = [batches EXCEPT ![b].status = "cancelled"]
  /\ items' = [i \in Items |-> IF i \in WithStatus(b, "pending")
                               THEN [items[i] EXCEPT !.status = "cancelled"]
                               ELSE items[i]]

CancelBatchTakesProcessing(b) ==
  /\ batches[b].status # "absent"
  /\ batches' = [batches EXCEPT ![b].status =
                   IF @ \in {"pending", "processing"} THEN "cancelled" ELSE @]
  /\ items' = [i \in Items |-> IF i \in WithStatus(b, "pending") \cup WithStatus(b, "processing")
                               THEN [items[i] EXCEPT !.status = "cancelled"]
                               ELSE items[i]]

CancelBatch(b) ==
  /\ batches[b].status # "absent"
  /\ batches' = [batches EXCEPT ![b].status =
                   IF @ \in {"pending", "processing"} THEN "cancelled" ELSE @]
  /\ items' = [i \in Items |-> IF i \in WithStatus(b, "pending")
                               THEN [items[i] EXCEPT !.status = "cancelled"]
                               ELSE items[i]]
-----------------------------------------------------------------------------
(* The rows have the columns' types.                                       *)
StoreTypeOK ==
  /\ batches \in [Batches -> BatchRow]
  /\ items \in [Items -> ItemRow]
=============================================================================
