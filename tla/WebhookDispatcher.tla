-------------------------- MODULE WebhookDispatcher --------------------------
(***************************************************************************)
(* The webhook dispatchers of the middleware's nodes                       *)
(* (webhook_dispatcher.go), one goroutine per node, over the outbox they   *)
(* share.  Every statement and every POST is a step, so that dispatchers   *)
(* interleave and a node may crash between any two steps.                  *)
(*                                                                         *)
(* The workers are what the theorems about WorkerPool leave of them: a     *)
(* batch is completed once, with the verdict and the counts its items      *)
(* justify, these never change afterwards, and a completed batch is        *)
(* announced at most once per item.                                        *)
(*                                                                         *)
(* A dispatcher's program counter is the call it makes next:               *)
(*   poll           GetPendingEvents, at the next tick                     *)
(*   fetch          GetBatch, for one of the events it claimed             *)
(*   count          GetBatchItemsStatus                                    *)
(*   post           the POST to the batch's webhook_url                    *)
(*   markProcessed  MarkEventAsProcessed                                   *)
(*   markFailed     MarkEventAsFailed                                      *)
(*   down           none: its node is down                                 *)
(***************************************************************************)
EXTENDS OutboxStore

CONSTANTS
  Dispatchers,       \* one per node
  WebhookUrls,       \* what the batches' webhook_urls may be, see WebhookUrl
  WebhookMaxRetries, \* Webhook.MaxRetries
  EventsPerPoll,     \* Worker.ItemsPerPoll
  MaxCrashes,        \* bound: node crashes in a behaviour
  MaxDbErrors,       \* bound: failed calls to Postgres in a behaviour
  NoJob              \* the value of job[d] while d dispatches no event

(* A batch's webhook_url: there is none, it can be sent to, or             *)
(* http.NewRequest rejects it: the validator does not look at the fragment *)
(* of a URL.                                                               *)
WebhookUrl == {"none", "valid", "malformed"}

(* A completed batch is announced at most once for each of its items.      *)
EventIds == 1..Cardinality(Items)

(* A claimed event as RETURNING gave it.                                   *)
Row == [event : EventIds, retry : 0..SmallIntMax]

(* The status and the summary of WebhookPayload.                           *)
Payload == [status : Verdicts, total : Nat, success : Nat, failed : SUBSET Items]

Job == [event : EventIds, retry : 0..SmallIntMax, payload : Payload]

ASSUME DispatcherAssumption ==
  /\ WebhookUrls \subseteq [Batches -> WebhookUrl]
  /\ MaxRetries < SmallIntMax
  /\ WebhookMaxRetries \in 0..SmallIntMax
  /\ EventsPerPoll \in Nat \ {0}
  /\ MaxCrashes \in Nat
  /\ MaxDbErrors \in Nat
  /\ NoJob \notin Job

VARIABLES
  webhook,      \* batches.webhook_url, which SubmitBatch stores
  pc,           \* the call each dispatcher makes next
  rows,         \* the claimed events it has not dispatched yet
  job,          \* the event it dispatches
  posts,        \* how often each event was sent
  delivered,    \* the payloads that reached their receivers
  accepted,     \* the events whose dispatcher saw an answer below 400
  crashes,      \* crashes so far
  dbErrors      \* failed calls to Postgres so far

dispatchVars == <<pc, rows, job>>

receiverVars == <<webhook, posts, delivered, accepted>>

faultVars == <<crashes, dbErrors>>

vars == <<batches, items, outbox, dlq, webhook, pc, rows, job, posts, delivered,
          accepted, crashes, dbErrors>>
-----------------------------------------------------------------------------
PC == {"poll", "fetch", "count", "post", "markProcessed", "markFailed", "down"}

Marking == {"markProcessed", "markFailed"}

(* The events dispatcher d is not done with.                               *)
Held(d) == {r.event : r \in rows[d]}
             \cup (IF pc[d] \in {"count", "post"} \cup Marking THEN {job[d].event} ELSE {})

Batch(d) == outbox[job[d].event].batch

(* What the receiver is to be told of batch b, and what it is told when    *)
(* GetBatchItemsStatus fails: dispatch ignores the error.                  *)
Summary(b) == [status |-> batches[b].status, total |-> TotalItems(b),
               success |-> DoneCount(b), failed |-> WithStatus(b, "failed")]

NoSummary(b) == [status |-> batches[b].status, total |-> 0, success |-> 0, failed |-> {}]

GoTo(d, label) == pc' = [pc EXCEPT ![d] = label]

(* The end of dispatch: the next claimed event, or the next tick.          *)
NextEvent(d) ==
  /\ GoTo(d, IF rows[d] = {} THEN "poll" ELSE "fetch")
  /\ job' = [job EXCEPT ![d] = NoJob]
  /\ UNCHANGED rows

Init ==
  /\ StoreInit
  /\ OutboxInit
  /\ webhook \in WebhookUrls
  /\ pc = [d \in Dispatchers |-> "poll"]
  /\ rows = [d \in Dispatchers |-> {}]
  /\ job = [d \in Dispatchers |-> NoJob]
  /\ posts = [k \in EventIds |-> 0]
  /\ delivered = {}
  /\ accepted = {}
  /\ crashes = 0
  /\ dbErrors = 0
-----------------------------------------------------------------------------
(* The workers: all the items of b are finished, those of F in vain.       *)
Finish(b, F) ==
  LET success == Cardinality(ItemsOf(b) \ F)
      failed  == Cardinality(F)
  IN  /\ batches[b].status = "absent"
      /\ ItemsOf(b) # {}
      /\ items' = [i \in Items |->
                     CASE i \in F -> [status |-> "failed", retry |-> MaxRetries + 1]
                       [] i \in ItemsOf(b) \ F -> [status |-> "done", retry |-> 1]
                       [] OTHER -> items[i]]
      /\ batches' = [batches EXCEPT ![b] =
                       [status |-> CASE failed = 0 -> "done"
                                     [] failed > 0 /\ success > 0 -> "partial"
                                     [] OTHER -> "failed",
                        processed |-> success, failed |-> failed]]
      /\ UNCHANGED <<outbox, dlq, dispatchVars, receiverVars, faultVars>>

(* checkBatchCompletion: the workers announce that b is completed.         *)
AnnounceUnfinished(b) ==
  /\ Cardinality(EventsOf(b)) < TotalItems(b)
  /\ Len(outbox) < Cardinality(Items)
  /\ CreateEvent(b, batches[b].status)
  /\ UNCHANGED <<storeVars, dlq, dispatchVars, receiverVars, faultVars>>

Announce(b) ==
  /\ batches[b].status \in Verdicts
  /\ Cardinality(EventsOf(b)) < TotalItems(b)
  /\ Len(outbox) < Cardinality(Items)
  /\ CreateEvent(b, batches[b].status)
  /\ UNCHANGED <<storeVars, dlq, dispatchVars, receiverVars, faultVars>>
-----------------------------------------------------------------------------
(* processPendingEvents: GetPendingEvents returns some of the due events.  *)
ClaimEvents(d, S) ==
  /\ pc[d] = "poll"
  /\ S # {}
  /\ Cardinality(S) <= EventsPerPoll
  /\ GetPendingEvents(S)
  /\ rows' = [rows EXCEPT ![d] = {[event |-> k, retry |-> outbox[k].retry] : k \in S}]
  /\ GoTo(d, "fetch")
  /\ UNCHANGED <<storeVars, dlq, job, receiverVars, faultVars>>

(* dispatch, up to GetBatch: the payload checkBatchCompletion wrote can    *)
(* always be parsed.                                                       *)
Take(d, r) ==
  /\ pc[d] = "fetch"
  /\ r \in rows[d]
  /\ rows' = [rows EXCEPT ![d] = @ \ {r}]
  /\ job' = [job EXCEPT ![d] = [event |-> r.event, retry |-> r.retry,
                                payload |-> NoSummary(outbox[r.event].batch)]]

FetchBatch(d, r) ==
  /\ Take(d, r)
  /\ GoTo(d, IF webhook[outbox[r.event].batch] # "none" THEN "count" ELSE "markProcessed")
  /\ UNCHANGED <<storeVars, outbox, dlq, receiverVars, faultVars>>

(* The four queries of GetBatchItemsStatus in one step: the items of an    *)
(* announced batch no longer change.  The status stays the one GetBatch    *)
(* read.                                                                   *)
CountItemsForgetsFailed(d) ==
  /\ pc[d] = "count"
  /\ job' = [job EXCEPT ![d].payload =
               [Summary(Batch(d)) EXCEPT !.status = job[d].payload.status, !.failed = {}]]
  /\ GoTo(d, IF webhook[Batch(d)] = "malformed" THEN "markFailed" ELSE "post")
  /\ UNCHANGED <<storeVars, outbox, dlq, rows, receiverVars, faultVars>>

CountItems(d) ==
  /\ pc[d] = "count"
  /\ job' = [job EXCEPT ![d].payload =
               [Summary(Batch(d)) EXCEPT !.status = job[d].payload.status]]
  /\ GoTo(d, IF webhook[Batch(d)] = "malformed" THEN "markFailed" ELSE "post")
  /\ UNCHANGED <<storeVars, outbox, dlq, rows, receiverVars, faultVars>>

(* The POST: it is answered below 400, or otherwise, or it reaches the     *)
(* receiver and its answer is lost.                                        *)
AfterPostRetriesAccepted(answer, retry) ==
  IF retry < WebhookMaxRetries THEN "markFailed" ELSE "markProcessed"

AfterPost(answer, retry) ==
  CASE answer = "accepted" -> "markProcessed"
    [] answer # "accepted" /\ retry < WebhookMaxRetries -> "markFailed"
    [] OTHER -> "markProcessed"

Post(d, answer) ==
  /\ pc[d] = "post"
  /\ posts' = [posts EXCEPT ![job[d].event] = @ + 1]
  /\ delivered' = IF answer = "rejected" THEN delivered
                  ELSE delivered \cup {[event |-> job[d].event, payload |-> job[d].payload]}
  /\ accepted' = IF answer = "accepted" THEN accepted \cup {job[d].event} ELSE accepted
  /\ GoTo(d, AfterPost(answer, job[d].retry))
  /\ UNCHANGED <<storeVars, outbox, dlq, webhook, rows, job, faultVars>>

MarkProcessed(d) ==
  /\ pc[d] = "markProcessed"
  /\ MarkEventAsProcessed(job[d].event)
  /\ NextEvent(d)
  /\ UNCHANGED <<storeVars, dlq, receiverVars, faultVars>>

MarkFailed(d) ==
  /\ pc[d] = "markFailed"
  /\ MarkEventAsFailed(job[d].event, job[d].retry + 1)
  /\ NextEvent(d)
  /\ UNCHANGED <<storeVars, dlq, receiverVars, faultVars>>
-----------------------------------------------------------------------------
(* Faults.  A call to Postgres fails.  A claim may have taken effect; an   *)
(* event whose batch cannot be fetched is tried again; the errors of       *)
(* GetBatchItemsStatus and of the two marks are ignored.                   *)
DbError ==
  /\ dbErrors < MaxDbErrors
  /\ dbErrors' = dbErrors + 1
  /\ UNCHANGED <<storeVars, dlq, receiverVars, crashes>>

ClaimAnswerLost(d, S) ==
  /\ DbError
  /\ pc[d] = "poll"
  /\ S # {}
  /\ Cardinality(S) <= EventsPerPoll
  /\ GetPendingEvents(S)
  /\ UNCHANGED dispatchVars

FetchFails(d, r) ==
  /\ DbError
  /\ Take(d, r)
  /\ GoTo(d, "markFailed")
  /\ UNCHANGED outbox

CountFails(d) ==
  /\ DbError
  /\ pc[d] = "count"
  /\ GoTo(d, IF webhook[Batch(d)] = "malformed" THEN "markFailed" ELSE "post")
  /\ UNCHANGED <<outbox, rows, job>>

MarkFails(d) ==
  /\ DbError
  /\ pc[d] \in Marking
  /\ NextEvent(d)
  /\ UNCHANGED outbox

(* The node stops, by a crash or by a shutdown: Stop cancels the context   *)
(* of the POST and of the mark that would follow it.                       *)
Crash(d) ==
  /\ crashes < MaxCrashes
  /\ pc[d] # "down"
  /\ GoTo(d, "down")
  /\ rows' = [rows EXCEPT ![d] = {}]
  /\ job' = [job EXCEPT ![d] = NoJob]
  /\ crashes' = crashes + 1
  /\ UNCHANGED <<storeVars, outbox, dlq, receiverVars, dbErrors>>

Restart(d) ==
  /\ pc[d] = "down"
  /\ GoTo(d, "poll")
  /\ UNCHANGED <<storeVars, outbox, dlq, rows, job, receiverVars, faultVars>>
-----------------------------------------------------------------------------
Work(d) ==
  \/ \E r \in rows[d] : FetchBatch(d, r)
  \/ CountItems(d)
  \/ \E answer \in {"accepted", "rejected", "lost"} : Post(d, answer)
  \/ MarkProcessed(d)
  \/ MarkFailed(d)

Fault ==
  \E d \in Dispatchers :
    \/ \E S \in SUBSET PendingEvents : ClaimAnswerLost(d, S)
    \/ \E r \in rows[d] : FetchFails(d, r)
    \/ CountFails(d)
    \/ MarkFails(d)
    \/ Crash(d)
    \/ Restart(d)

Next ==
  \/ \E b \in Batches : Announce(b) \/ \E F \in SUBSET ItemsOf(b) : Finish(b, F)
  \/ \E d \in Dispatchers, S \in SUBSET PendingEvents : ClaimEvents(d, S)
  \/ \E d \in Dispatchers : Work(d)
  \/ Fault

Spec == Init /\ [][Next]_vars

(* A dispatcher whose node stays up keeps going, every call it makes has a *)
(* timeout, and GetPendingEvents takes the oldest due events first.        *)
Fairness ==
  /\ \A d \in Dispatchers : WF_vars(Work(d))
  /\ \A k \in EventIds :
       WF_vars(\E d \in Dispatchers, S \in SUBSET PendingEvents : k \in S /\ ClaimEvents(d, S))

FairSpec == Spec /\ Fairness
-----------------------------------------------------------------------------
TypeOK ==
  /\ StoreTypeOK
  /\ OutboxTypeOK
  /\ DOMAIN outbox \subseteq EventIds
  /\ webhook \in [Batches -> WebhookUrl]
  /\ pc \in [Dispatchers -> PC]
  /\ rows \in [Dispatchers -> SUBSET Row]
  /\ job \in [Dispatchers -> Job \cup {NoJob}]
  /\ posts \in [EventIds -> Nat]
  /\ delivered \subseteq [event : EventIds, payload : Payload]
  /\ accepted \subseteq EventIds
  /\ crashes \in 0..MaxCrashes
  /\ dbErrors \in 0..MaxDbErrors

(* An event is in the hands of one dispatcher at a time, and is marked     *)
(* processing while it is, with the retry count its dispatcher goes by     *)
(* (GetPendingEvents, SKIP LOCKED).                                        *)
SingleDispatcher ==
  /\ \A d \in Dispatchers :
       /\ \A k \in Held(d) : outbox[k].status = "processing"
       /\ \A r \in rows[d] : outbox[r.event].retry = r.retry
  /\ \A c, d \in Dispatchers : c # d => Held(c) \cap Held(d) = {}

(* What a receiver is told of a batch is what became of it: the verdict,   *)
(* the counts and the failed items.  For the counts and the failed items   *)
(* it takes that they can be read: dispatch ignores an error.              *)
DeliveredTruthful ==
  \A p \in delivered :
    /\ p.payload.status = batches[outbox[p.event].batch].status
    /\ dbErrors = 0 => p.payload = Summary(outbox[p.event].batch)

Sendable(k) == webhook[outbox[k].batch] = "valid"

Settled(k) == k \in accepted \/ ~Sendable(k) \/ posts[k] = WebhookMaxRetries + 1

Troubled == crashes + dbErrors > 0

(* Every announced completion is confirmed in the end, or sent as often as *)
(* configured, unless its batch cannot be told or a fault got in the way.  *)
EventsSettle ==
  \A k \in EventIds : k \in DOMAIN outbox ~> (k \in DOMAIN outbox /\ Settled(k)) \/ Troubled
-----------------------------------------------------------------------------
(* The stage of an event, seen from outside: it is due, in the hands of a  *)
(* dispatcher, or nobody will come back to it.                             *)
Stage(k) ==
  CASE outbox[k].status \in {"pending", "failed"} -> "due"
    [] outbox[k].status = "processing" /\ (\E d \in Dispatchers : k \in Held(d)) -> "taken"
    [] OTHER -> "settled"

EventView(k) ==
  IF k \in DOMAIN outbox
  THEN [stage |-> Stage(k), posts |-> posts[k],
        sendable |-> Sendable(k), confirmed |-> k \in accepted]
  ELSE [stage |-> "absent", posts |-> 0, sendable |-> FALSE, confirmed |-> FALSE]

Promise == INSTANCE Delivery WITH
  Events <- EventIds, MaxPosts <- WebhookMaxRetries + 1,
  events <- [k \in EventIds |-> EventView(k)], troubled <- Troubled

(* The dispatchers live up to what an event is promised, over claims,      *)
(* retries, crashes and failed statements: it is sent while one of them    *)
(* holds it, a bounded number of times, never after it was confirmed, and  *)
(* is given up for a reason.                                               *)
ImplementsDelivery == Promise!Spec
-----------------------------------------------------------------------------
(* The inductive invariant behind the safety properties.                   *)
Busy == {"count", "post"} \cup Marking

(* Only a dispatcher that is busy with events has any.                     *)
RowsOfBusy ==
  \A d \in Dispatchers :
    /\ pc[d] \in {"poll", "down"} => rows[d] = {}
    /\ pc[d] \in Busy => job[d] \in Job

(* The rows and the job of a dispatcher are what the table says of the     *)
(* event.                                                                  *)
Current(e) ==
  /\ e.event \in DOMAIN outbox
  /\ outbox[e.event].status = "processing"
  /\ outbox[e.event].retry = e.retry

ClaimsCurrent ==
  \A d \in Dispatchers :
    /\ \A r \in rows[d] : Current(r)
    /\ pc[d] \in Busy => Current(job[d]) /\ \A r \in rows[d] : r.event # job[d].event

ClaimsDisjoint ==
  \A c, d \in Dispatchers : c # d => Held(c) \cap Held(d) = {}

EventsCompleted == \A k \in DOMAIN outbox : batches[outbox[k].batch].status \in Verdicts

(* Nothing is sent of an event that is not there, and nobody comes back to *)
(* one that was confirmed.                                                 *)
ConfirmedIsDone ==
  /\ \A k \in EventIds \ DOMAIN outbox : posts[k] = 0 /\ k \notin accepted
  /\ \A k \in accepted :
       /\ outbox[k].status = "processing"
       /\ \A d \in Dispatchers : k \in Held(d) => pc[d] = "markProcessed" /\ job[d].event = k

WebhookOfJob ==
  \A d \in Dispatchers :
    /\ pc[d] = "count" => webhook[Batch(d)] # "none"
    /\ pc[d] = "post" => Sendable(job[d].event)

(* An event is sent at most once per try, and exactly once as long as      *)
(* nothing fails, until its tries are used up.                             *)
PostsSoFar(k, tries) ==
  /\ posts[k] <= tries
  /\ posts[k] <= WebhookMaxRetries
  /\ Sendable(k) => posts[k] = tries \/ Troubled

PostsCounted ==
  /\ \A k \in PendingEvents : PostsSoFar(k, outbox[k].retry)
  /\ \A d \in Dispatchers :
       /\ \A r \in rows[d] : PostsSoFar(r.event, r.retry)
       /\ pc[d] \in {"count", "post"} => PostsSoFar(job[d].event, job[d].retry)
       /\ pc[d] = "markFailed" => PostsSoFar(job[d].event, job[d].retry + 1)
       /\ pc[d] = "markProcessed" => Settled(job[d].event) \/ Troubled

(* What is about to be sent is true of a batch that no longer changes.     *)
PayloadsTruthful ==
  \A d \in Dispatchers :
    /\ pc[d] \in {"count", "post"} => job[d].payload.status = batches[Batch(d)].status
    /\ pc[d] = "post" /\ dbErrors = 0 => job[d].payload = Summary(Batch(d))

DispatcherInv ==
  /\ TypeOK
  /\ RowsOfBusy
  /\ ClaimsCurrent
  /\ ClaimsDisjoint
  /\ EventsCompleted
  /\ ConfirmedIsDone
  /\ WebhookOfJob
  /\ PostsCounted
  /\ \A p \in delivered : p.event \in DOMAIN outbox
  /\ PayloadsTruthful
  /\ DeliveredTruthful
=============================================================================
