----------------------------- MODULE Middleware ------------------------------
(***************************************************************************)
(* The middleware as a whole: the worker pools and the webhook dispatchers *)
(* of its nodes over one database (cmd/server/main.go starts one of each   *)
(* in every process).  A node that goes down takes its workers and its     *)
(* dispatcher with it.  The workers' calls to Postgres may fail here; what *)
(* failed calls do to a dispatcher is left to WebhookDispatcher.           *)
(***************************************************************************)
EXTENDS OutboxStore

CONSTANTS
  Workers,           \* worker goroutines of all the nodes
  Nodes,             \* middleware processes sharing the database
  Host,              \* the node each worker runs on
  ItemsPerPoll,      \* Worker.ItemsPerPoll, for the rows and for the events
  Replies,           \* what System C may answer
  WebhookUrls,       \* what the batches' webhook_urls may be
  WebhookMaxRetries, \* Webhook.MaxRetries
  MaxCrashes,        \* bound: node crashes in a behaviour
  MaxDbErrors,       \* bound: failed calls of the workers to Postgres
  NoJob              \* the job of a worker or a dispatcher that has none

VARIABLES
  workerPc,          \* the call each worker makes next
  workerRows,        \* the claimed rows it has not sent yet
  workerJob,         \* the item it processes
  webhook,           \* batches.webhook_url
  dispatcherPc,      \* the call each node's dispatcher makes next
  dispatcherRows,    \* the claimed events it has not dispatched yet
  dispatcherJob,     \* the event it dispatches
  posts,             \* how often each event was sent
  delivered,         \* the payloads that reached their receivers
  accepted,          \* the events whose dispatcher saw an answer below 400
  crashes,           \* crashes so far
  dbErrors           \* failed calls of the workers so far

workerVars == <<workerPc, workerRows, workerJob>>

webhookVars ==
  <<webhook, dispatcherPc, dispatcherRows, dispatcherJob, posts, delivered, accepted>>

vars == <<batches, items, outbox, dlq, workerVars, webhookVars, crashes, dbErrors>>

Pool == INSTANCE WorkerPool WITH
  pc <- workerPc, rows <- workerRows, job <- workerJob,
  SlowClaims <- FALSE

Webhooks == INSTANCE WebhookDispatcher WITH
  pc <- dispatcherPc, rows <- dispatcherRows, job <- dispatcherJob,
  Dispatchers <- Nodes, EventsPerPoll <- ItemsPerPoll,
  MaxDbErrors <- 0, dbErrors <- 0

ASSUME MiddlewareAssumption ==
  /\ Host \in [Workers -> Nodes]
  /\ ItemsPerPoll \in Nat \ {0}
  /\ Replies \subseteq Pool!Reply
  /\ WebhookUrls \subseteq [Batches -> Webhooks!WebhookUrl]
  /\ MaxRetries < SmallIntMax
  /\ WebhookMaxRetries \in 0..SmallIntMax
  /\ MaxCrashes \in Nat
  /\ MaxDbErrors \in Nat
  /\ NoJob \notin Pool!Job
  /\ NoJob \notin Webhooks!Job
-----------------------------------------------------------------------------
Init == Pool!Init /\ Webhooks!Init

Client == Pool!Client /\ UNCHANGED webhookVars

Claim(w, S) == Pool!Claim(w, S) /\ UNCHANGED webhookVars

Process(w) == Pool!Work(w) /\ UNCHANGED webhookVars

CallFails(w) ==
  /\ \/ Pool!CallFails(w)
     \/ Pool!AnswerLost(w)
     \/ \E S \in SUBSET PendingRows : Pool!ClaimAnswerLost(w, S)
  /\ UNCHANGED webhookVars

CleanStaleLocks(S) == Pool!CleanStaleLocks(S) /\ UNCHANGED webhookVars

ClaimEvents(n, S) == Webhooks!ClaimEvents(n, S) /\ UNCHANGED <<workerVars, dbErrors>>

Dispatch(n) == Webhooks!Work(n) /\ UNCHANGED <<workerVars, dbErrors>>

Crash(n) == Pool!Crash(n) /\ Webhooks!Crash(n)

Restart(n) == Pool!Restart(n) /\ Webhooks!Restart(n)

Next ==
  \/ Client
  \/ \E w \in Workers, S \in SUBSET PendingRows : Claim(w, S)
  \/ \E w \in Workers : Process(w) \/ CallFails(w)
  \/ \E S \in SUBSET Pool!StaleRows : CleanStaleLocks(S)
  \/ \E n \in Nodes, S \in SUBSET PendingEvents : ClaimEvents(n, S)
  \/ \E n \in Nodes : Dispatch(n)
  \/ \E n \in Nodes : Crash(n) \/ Restart(n)

Spec == Init /\ [][Next]_vars

(* The fairness of the two components.                                     *)
Fairness ==
  /\ \A w \in Workers : WF_vars(Process(w))
  /\ \A i \in Items :
       /\ WF_vars(\E w \in Workers, S \in SUBSET PendingRows : i \in S /\ Claim(w, S))
       /\ WF_vars(\E S \in SUBSET Pool!StaleRows :
                    i \in S /\ Pool!EndOfRange \subseteq S /\ CleanStaleLocks(S))
  /\ \A n \in Nodes : WF_vars(Dispatch(n))
  /\ \A k \in Webhooks!EventIds :
       WF_vars(\E n \in Nodes, S \in SUBSET PendingEvents : k \in S /\ ClaimEvents(n, S))

FairSpec == Spec /\ Fairness
-----------------------------------------------------------------------------
(* What the dispatcher may see of a batch: its row and those of its items  *)
(* once it has a verdict.                                                  *)
Finished(b) == batches[b].status \in Verdicts

VisibleBatches ==
  [b \in Batches |-> IF Finished(b) THEN batches[b]
                     ELSE [status |-> "absent", processed |-> 0, failed |-> 0]]

VisibleItems ==
  [i \in Items |->
     CASE ~Finished(BatchOf[i]) -> [status |-> "absent", retry |-> 0]
       [] Finished(BatchOf[i]) /\ items[i].status = "failed" ->
            [status |-> "failed", retry |-> MaxRetries + 1]
       [] OTHER -> [status |-> items[i].status, retry |-> 1]]

(* The workers give the dispatchers what WebhookDispatcher assumes of      *)
(* them: seen from the outbox, a batch is finished in one step, with the   *)
(* verdict and the counts of its items, never changes afterwards, and is   *)
(* announced at most once per item.                                        *)
Seen == INSTANCE WebhookDispatcher WITH
  batches <- VisibleBatches, items <- VisibleItems, dlq <- [i \in Items |-> 0],
  pc <- dispatcherPc, rows <- dispatcherRows, job <- dispatcherJob,
  Dispatchers <- Nodes, EventsPerPoll <- ItemsPerPoll,
  MaxDbErrors <- 0, dbErrors <- 0

ImplementsDispatcher == Seen!Spec

ItemsSettle == Pool!ItemsSettle

(* The receiver of a batch whose items were all processed or given up is   *)
(* told so: the report is confirmed, or was sent as often as configured.   *)
(* It takes the workers to complete and announce the batch and a           *)
(* dispatcher to deliver it, on whichever node, and no crash.              *)
Reported(b) ==
  \/ webhook[b] # "valid"
  \/ \E k \in EventsOf(b) : k \in accepted \/ posts[k] = WebhookMaxRetries + 1

BatchesReported ==
  \A b \in Batches : AllFinished(b) ~> Reported(b) \/ crashes > 0 \/ dbErrors > 0
-----------------------------------------------------------------------------
(* What the documents say and the code does not do.                        *)

(* A batch that was processed is reported, whatever node crashes.          *)
CrashesSurvived == \A b \in Batches : AllFinished(b) ~> Reported(b)
=============================================================================
