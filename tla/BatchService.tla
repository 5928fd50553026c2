---------------------------- MODULE BatchService ----------------------------
(***************************************************************************)
(* The use cases of batch_service.go as the HTTP handlers run them, each   *)
(* request in a goroutine of its own and each statement a step: requests   *)
(* with the same idempotency key, cancellations, status queries and the    *)
(* workers' statements interleave.                                         *)
(*                                                                         *)
(* A submission is named by the batch id it draws (uuid.New), so that      *)
(* Batches is also the set of submissions; a client's retry is another     *)
(* submission with the same key.  The workers are what ItemLifecycle and   *)
(* the completion theorems leave of them.                                  *)
(***************************************************************************)
EXTENDS BatchStore

CONSTANTS
  Keys,         \* values of the X-Idempotency-Key header
  NoKey,        \* the header is absent: the key is the empty string
  KeyOf,        \* the key of each submission
  Cancels,      \* cancellation requests
  Queries,      \* status requests
  None,         \* no batch, or no answer yet
  MaxDbErrors   \* bound: failed calls to Postgres in a behaviour

ASSUME ServiceAssumption ==
  /\ KeyOf \in [Batches -> Keys \cup {NoKey}]
  /\ NoKey \notin Keys
  /\ None \notin Batches
  /\ MaxDbErrors \in Nat

VARIABLES
  idem,         \* table idempotency_keys: the batch of each key
  sub,          \* the next call of each submission
  accepted,     \* the batch id a submission was answered with
  failures,     \* the submissions of which a call failed
  cancel,       \* the state of each cancellation
  query,        \* the state of each status request
  dbErrors      \* failed calls to Postgres so far

submitVars == <<sub, accepted, failures, idem>>

vars == <<batches, items, idem, sub, accepted, failures, cancel, query, dbErrors>>
-----------------------------------------------------------------------------
SubmitPC == {"check", "create", "insert", "save", "accepted", "error", "gone"}

CancelPC == {"idle", "check", "update", "cancelled", "refused", "notFound", "error"}

QueryPC == {"idle", "countDone", "countFailed", "batch", "answered", "notFound", "error"}

Cancellation == [at : CancelPC, batch : Batches \cup {None}]

Report == [at : QueryPC, batch : Batches \cup {None}, success : Nat, failed : Nat,
           status : BatchStatus \cup {"absent"}]

Stored(b) ==
  /\ batches[b].status # "absent"
  /\ \A i \in ItemsOf(b) : items[i].status # "absent"

Goes(r, label) == sub' = [sub EXCEPT ![r] = label]

Init ==
  /\ StoreInit
  /\ idem = [k \in Keys |-> None]
  /\ sub = [r \in Batches |-> "check"]
  /\ accepted = [r \in Batches |-> None]
  /\ failures = {}
  /\ cancel = [c \in Cancels |-> [at |-> "idle", batch |-> None]]
  /\ query = [q \in Queries |-> [at |-> "idle", batch |-> None, success |-> 0, failed |-> 0,
                                 status |-> "absent"]]
  /\ dbErrors = 0
-----------------------------------------------------------------------------
(* SubmitBatch.                                                            *)
Accept(r, b) ==
  /\ Goes(r, "accepted")
  /\ accepted' = [accepted EXCEPT ![r] = b]

(* idempotencyRepo: Get, which does not look at expires_at, and Create.    *)
IdempotencyGet(k) == idem[k]

IdempotencyCreate(k, b) == idem' = [idem EXCEPT ![k] = b]

CheckKey(r) ==
  /\ sub[r] = "check"
  /\ IF KeyOf[r] \in Keys /\ IdempotencyGet(KeyOf[r]) # None
     THEN Accept(r, IdempotencyGet(KeyOf[r]))
     ELSE Goes(r, "create") /\ UNCHANGED accepted
  /\ UNCHANGED <<storeVars, idem, failures, cancel, query, dbErrors>>

(* batches.idempotency_key is UNIQUE, and stores the empty key like any.   *)
KeyTakenForgetsUnique(k) == FALSE

KeyTaken(k) == \E b \in Batches : batches[b].status # "absent" /\ KeyOf[b] = k

Create(r) ==
  /\ sub[r] = "create"
  /\ IF KeyTaken(KeyOf[r])
     THEN Goes(r, "error") /\ UNCHANGED storeVars
     ELSE Goes(r, "insert") /\ CreateBatch(r)
  /\ UNCHANGED <<idem, accepted, failures, cancel, query, dbErrors>>

Insert(r) ==
  /\ sub[r] = "insert"
  /\ BulkInsertItems(r)
  /\ Goes(r, "save")
  /\ UNCHANGED <<idem, accepted, failures, cancel, query, dbErrors>>

(* The key is saved, if the request has one: it is not in the table yet,   *)
(* as batches.idempotency_key is UNIQUE.                                   *)
SaveKey(r) ==
  /\ sub[r] = "save"
  /\ IF KeyOf[r] \in Keys THEN IdempotencyCreate(KeyOf[r], r) ELSE UNCHANGED idem
  /\ Accept(r, r)
  /\ UNCHANGED <<storeVars, failures, cancel, query, dbErrors>>

(* A call fails, its statement having taken effect or not: the client gets *)
(* a 500, except that an error of the last call is ignored.                *)
SubmitCallFailsSavesKey(r) ==
  /\ dbErrors < MaxDbErrors
  /\ dbErrors' = dbErrors + 1
  /\ failures' = failures \cup {r}
  /\ sub[r] = "insert" /\ Goes(r, "error")
  /\ IF KeyOf[r] \in Keys THEN IdempotencyCreate(KeyOf[r], r) ELSE UNCHANGED idem
  /\ UNCHANGED <<storeVars, accepted, cancel, query>>

SubmitCallFails(r) ==
  /\ dbErrors < MaxDbErrors
  /\ dbErrors' = dbErrors + 1
  /\ failures' = failures \cup {r}
  /\ \/ /\ sub[r] \in {"check", "create", "insert"}
        /\ Goes(r, "error")
        /\ UNCHANGED <<storeVars, accepted>>
     \/ /\ sub[r] = "create" /\ ~KeyTaken(KeyOf[r])
        /\ Goes(r, "error") /\ CreateBatch(r)
        /\ UNCHANGED accepted
     \/ /\ sub[r] = "insert"
        /\ Goes(r, "error") /\ BulkInsertItems(r)
        /\ UNCHANGED accepted
     \/ /\ sub[r] = "save"
        /\ Accept(r, r)
        /\ UNCHANGED storeVars
  /\ UNCHANGED <<idem, cancel, query>>

(* The node crashes or, except before the check, the client goes away:     *)
(* r.Context is cancelled and no later statement is run.                   *)
SubmitGone(r) ==
  /\ sub[r] \in {"create", "insert", "save"}
  /\ Goes(r, "gone")
  /\ UNCHANGED <<storeVars, idem, accepted, failures, cancel, query, dbErrors>>
-----------------------------------------------------------------------------
(* CancelBatch: GetBatch, then the transaction.  A client asks about a     *)
(* batch whose id it was given, or about one that does not exist, None.    *)
Known(b) == b = None \/ \E r \in Batches : accepted[r] = b

RequestCancel(c, b) ==
  /\ cancel[c].at = "idle"
  /\ Known(b)
  /\ cancel' = [cancel EXCEPT ![c] = [at |-> "check", batch |-> b]]
  /\ UNCHANGED <<storeVars, submitVars, query, dbErrors>>

CancellableForgetsPending == {"processing"}

Cancellable == {"pending", "processing"}

CheckCancel(c) ==
  LET b == cancel[c].batch
  IN  /\ cancel[c].at = "check"
      /\ \/ /\ b = None
            /\ cancel' = [cancel EXCEPT ![c].at = "notFound"]
         \/ /\ b # None
            /\ cancel' = [cancel EXCEPT ![c].at = IF batches[b].status \in Cancellable
                                                  THEN "update" ELSE "refused"]
      /\ UNCHANGED <<storeVars, submitVars, query, dbErrors>>

UpdateCancelled(c) ==
  /\ cancel[c].at = "update"
  /\ CancelBatch(cancel[c].batch)
  /\ cancel' = [cancel EXCEPT ![c].at = "cancelled"]
  /\ UNCHANGED <<submitVars, query, dbErrors>>

(* A call fails and the client gets a 500: the transaction is rolled back, *)
(* or it was committed and only the answer to COMMIT is lost.              *)
CancelCallFails(c) ==
  /\ dbErrors < MaxDbErrors
  /\ dbErrors' = dbErrors + 1
  /\ \/ cancel[c].at \in {"check", "update"} /\ UNCHANGED storeVars
     \/ cancel[c].at = "update" /\ CancelBatch(cancel[c].batch)
  /\ cancel' = [cancel EXCEPT ![c].at = "error"]
  /\ UNCHANGED <<submitVars, query>>
-----------------------------------------------------------------------------
(* GetBatchStatus reads the counts first and the batch after them.  Its    *)
(* first query is of total_items and fails if there is no such batch.      *)
AskStatus(q, b) ==
  /\ query[q].at = "idle"
  /\ Known(b)
  /\ query' = [query EXCEPT ![q].at = "countDone", ![q].batch = b]
  /\ UNCHANGED <<storeVars, submitVars, cancel, dbErrors>>

QueryDone(q) ==
  LET b == query[q].batch
  IN  /\ query[q].at = "countDone"
      /\ \/ /\ b = None
            /\ query' = [query EXCEPT ![q].at = "error"]
         \/ /\ b # None
            /\ query' = [query EXCEPT ![q].at = "countFailed", ![q].success = DoneCount(b)]
      /\ UNCHANGED <<storeVars, submitVars, cancel, dbErrors>>

QueryFailedCountsProcessing(q) ==
  /\ query[q].at = "countFailed"
  /\ query' = [query EXCEPT ![q].at = "batch",
                            ![q].failed = FailedCount(query[q].batch)
                              + Cardinality(WithStatus(query[q].batch, "processing"))]
  /\ UNCHANGED <<storeVars, submitVars, cancel, dbErrors>>

QueryFailed(q) ==
  /\ query[q].at = "countFailed"
  /\ query' = [query EXCEPT ![q].at = "batch", ![q].failed = FailedCount(query[q].batch)]
  /\ UNCHANGED <<storeVars, submitVars, cancel, dbErrors>>

QueryBatch(q) ==
  /\ query[q].at = "batch"
  /\ query' = [query EXCEPT ![q].at = "answered", ![q].status = batches[query[q].batch].status]
  /\ UNCHANGED <<storeVars, submitVars, cancel, dbErrors>>
-----------------------------------------------------------------------------
(* The workers: an item is claimed, and its outcome recorded; a batch all  *)
(* of whose items are finished is completed with the verdict they justify. *)
WorkerClaims(i) == GetPendingItems({i})

WorkerRecordsForgetsRange(i, status) ==
  /\ items[i].status = "processing"
  /\ UpdateItemStatus(i, status, items[i].retry + 1)

WorkerRecords(i, status) ==
  /\ items[i].status = "processing"
  /\ items[i].retry < SmallIntMax
  /\ status = "failed" => items[i].retry >= MaxRetries
  /\ UpdateItemStatus(i, status, items[i].retry + 1)

WorkerCompletes(b) ==
  /\ batches[b].status \in {"pending", "cancelled"}
  /\ Stored(b)
  /\ AllFinished(b)
  /\ CompleteBatch(b, CASE FailedCount(b) = 0 -> "done"
                        [] FailedCount(b) > 0 /\ DoneCount(b) > 0 -> "partial"
                        [] OTHER -> "failed")

WorkerStep ==
  /\ \/ \E i \in PendingRows : WorkerClaims(i)
     \/ \E i \in Items, status \in {"pending", "done", "failed"} : WorkerRecords(i, status)
     \/ \E b \in Batches : WorkerCompletes(b)
  /\ UNCHANGED <<submitVars, cancel, query, dbErrors>>
-----------------------------------------------------------------------------
Next ==
  \/ \E r \in Batches : \/ CheckKey(r) \/ Create(r) \/ Insert(r) \/ SaveKey(r)
                        \/ SubmitCallFails(r) \/ SubmitGone(r)
  \/ \E c \in Cancels : \/ \E b \in Batches \cup {None} : RequestCancel(c, b)
                        \/ CheckCancel(c) \/ UpdateCancelled(c) \/ CancelCallFails(c)
  \/ \E q \in Queries : \/ \E b \in Batches \cup {None} : AskStatus(q, b)
                        \/ QueryDone(q) \/ QueryFailed(q) \/ QueryBatch(q)
  \/ WorkerStep

Spec == Init /\ [][Next]_vars
-----------------------------------------------------------------------------
TypeOK ==
  /\ StoreTypeOK
  /\ idem \in [Keys -> Batches \cup {None}]
  /\ sub \in [Batches -> SubmitPC]
  /\ accepted \in [Batches -> Batches \cup {None}]
  /\ failures \subseteq Batches
  /\ cancel \in [Cancels -> Cancellation]
  /\ query \in [Queries -> Report]
  /\ dbErrors \in 0..MaxDbErrors

(* Two requests with the same key that are both accepted are given the     *)
(* same batch, whatever failed or was retried in between (SubmitBatch).    *)
SameKeySameBatch ==
  \A r, s \in Batches :
    /\ KeyOf[r] = KeyOf[s] /\ KeyOf[r] \in Keys
    /\ accepted[r] # None /\ accepted[s] # None
    => accepted[r] = accepted[s]

(* A batch id is given out only when the batch and all its items are       *)
(* stored, to a retry as well as to the request that created it.           *)
AcceptedIsStored ==
  \A r \in Batches : accepted[r] # None => Stored(accepted[r])

(* A status report is never ahead of the batch: what it says is finished   *)
(* is finished, no item is counted twice, and a completed batch is reported *)
(* with its verdict (GetBatchStatus against concurrent workers).           *)
ReportsNeverAhead ==
  \A q \in Queries : query[q].at \in {"batch", "answered"} =>
    LET b == query[q].batch
    IN  /\ query[q].success <= DoneCount(b)
        /\ query[q].failed <= FailedCount(b)
        /\ query[q].success + query[q].failed <= TotalItems(b)
        /\ query[q].status \in Verdicts => batches[b].status = query[q].status

(* A cancellation that was refused leaves its batch completed or cancelled *)
(* already: CancelBatch never turns down a batch it could still cancel.    *)
RefusalJustified ==
  \A c \in Cancels : cancel[c].at = "refused" =>
    batches[cancel[c].batch].status \in Verdicts \cup {"cancelled"}
-----------------------------------------------------------------------------
(* What the documents say and the code does not do.                        *)

(* A retry with the same key is handled safely: a request is turned down   *)
(* only if one of its own calls failed.                                    *)
RetriesAccepted ==
  \A r \in Batches : sub[r] = "error" => r \in failures
=============================================================================
