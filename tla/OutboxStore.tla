----------------------------- MODULE OutboxStore ----------------------------
(***************************************************************************)
(* The tables outbox_events and dead_letter_queue, and the statements of   *)
(* outbox_repo.go and deadletter_repo.go.  An event is known by its        *)
(* position in the order of insertion; a dead letter by the item it is     *)
(* about, so that table is a count per item.                               *)
(***************************************************************************)
EXTENDS BatchStore, Sequences

VARIABLES
  outbox,       \* table outbox_events
  dlq           \* table dead_letter_queue: the number of rows about each item

(* The CHECK constraint of the table also admits "sent"; no statement      *)
(* writes it.                                                              *)
EventStatus == {"pending", "processing", "failed", "sent"}

Event == [batch : Batches, verdict : Verdicts, status : EventStatus, retry : 0..SmallIntMax]

EventsOf(b) == {k \in DOMAIN outbox : outbox[k].batch = b}

OutboxInit ==
  /\ outbox = <<>>
  /\ dlq = [i \in Items |-> 0]
-----------------------------------------------------------------------------
(* INSERT INTO outbox_events, by checkBatchCompletion: next_retry_at is    *)
(* the zero time, so the event is due at once.                             *)
CreateEvent(b, verdict) ==
  outbox' = Append(outbox, [batch |-> b, verdict |-> verdict,
                            status |-> "pending", retry |-> 0])

(* The events GetPendingEvents may return, were they all due.              *)
PendingEventsForgetsFailed == {k \in DOMAIN outbox : outbox[k].status = "pending"}

PendingEventsForgetsStatus ==
  {k \in DOMAIN outbox : outbox[k].status \in {"pending", "processing", "failed"}}

PendingEvents == {k \in DOMAIN outbox : outbox[k].status \in {"pending", "failed"}}

(* UPDATE ... WHERE id IN (SELECT ... FOR UPDATE SKIP LOCKED LIMIT n).     *)
GetPendingEvents(S) ==
  /\ S \subseteq PendingEvents
  /\ outbox' = [k \in DOMAIN outbox |-> IF k \in S THEN [outbox[k] EXCEPT !.status = "processing"]
                                                   ELSE outbox[k]]

(* MarkEventAsProcessed writes 'processed', which the CHECK constraint of  *)
(* migration 003 does not admit: the statement fails and the row stays.    *)
MarkEventAsProcessed(k) ==
  IF "processed" \in EventStatus
  THEN outbox' = [outbox EXCEPT ![k].status = "processed"]
  ELSE UNCHANGED outbox

(* retry_count is a SMALLINT: a count out of its range fails the statement. *)
MarkEventAsFailed(k, retryCount) ==
  IF retryCount <= SmallIntMax
  THEN outbox' = [outbox EXCEPT ![k].status = "failed", ![k].retry = retryCount]
  ELSE UNCHANGED outbox

(* INSERT INTO dead_letter_queue.                                          *)
InsertDeadLetter(i) == dlq' = [dlq EXCEPT ![i] = @ + 1]
-----------------------------------------------------------------------------
OutboxTypeOK ==
  /\ outbox \in Seq(Event)
  /\ dlq \in [Items -> Nat]
=============================================================================
